-------------------------- MODULE MCDecisionEngine --------------------------
(* Instances of DecisionEngine for TLC. *)
EXTENDS DecisionEngine

\* One deterministic violation stands for the five; the others all combine.
MCFactSets ==
  SUBSET {"illegal_content", "require_step_up", "constant_latency_pattern",
          "high_value_flow", "force_tier2"}

\* Evidence on both sides of every threshold the synthesizer compares with.
MCSignals ==
  {g \in [liveness: {5, 45, 80, 100}, severity: {0, 15, 100},
          mediation: {10, 75}, relay: {10, 30, 90}, calm: BOOLEAN] :
     g.calm \/ g.liveness = 45}

\* A handful, for evaluations that interleave.
FewSignals ==
  {[liveness |-> 80, severity |-> 15, mediation |-> 10, relay |-> 10, calm |-> TRUE],
   [liveness |-> 5, severity |-> 100, mediation |-> 75, relay |-> 90, calm |-> FALSE]}

FewFactSets == {{}, {"high_value_flow"}, {"illegal_content"}}
=============================================================================
