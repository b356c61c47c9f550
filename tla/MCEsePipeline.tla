--------------------------- MODULE MCEsePipeline ---------------------------
(* Instances of EsePipeline for TLC. *)
EXTENDS EsePipeline, TLC

\* The built-in order cut to four roles: two serial roles, then a batch.
BuiltinOrder == <<"architect", "implementer", "specialist", "specialist">>

\* A role_order that opens with a batch, whose outputs a custom role sees.
MixedOrder == <<"specialist", "specialist", "custom">>

Symmetric == Permutations(Run)

\* What is left of the promises of a directory when two invocations write to it at
\* once: what each saves is whole, in role order and gated, and each of them ends.
OverlapHolds ==
  /\ []CompletedIsWhole /\ []FirstFailedIsResumable
  /\ []ExecutionInRoleOrder /\ []BlockersStopTheirRun /\ []PromptsAreComplete
  /\ RunsEnd
=============================================================================
