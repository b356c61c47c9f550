--------------------------- MODULE DecisionEngine ---------------------------
(***************************************************************************)
(* src/truepresence/decision: TruePresenceDecisionEngine.evaluate with its *)
(* tier router, the four roles and the reasoning reviewer of the ensemble, *)
(* and the synthesizer.  One engine is shared by the REST routes (threads  *)
(* of a pool), the websocket and the Telegram webhooks (the event loop),   *)
(* so evaluations interleave; what they share is the identity graph, of    *)
(* which a session only sees a band of cluster risk, and which another     *)
(* evaluation may move between two reads.                                  *)
(*                                                                         *)
(* Probabilities are percents and a confidence is in tenths of a percent,  *)
(* so that the averages over four and over five reports are integers.      *)
(***************************************************************************)
EXTENDS Integers, FiniteSetsExt

CONSTANTS
  Eval,      \* evaluations
  Session,   \* sessions they are about
  FactSets,  \* sets of facts in use
  Signals,   \* role evidence in use
  Given      \* cluster risks that come with a caller's own identity_refs

\* What rules a session out, whatever the roles would say.
Deterministic ==
  {"invalid_attestation", "known_automation_fingerprint",
   "impossible_event_sequence", "deterministic_failure", "illegal_content"}

Fact == Deterministic \cup
  {"require_step_up", "constant_latency_pattern", "high_value_flow", "force_tier2"}

\* What the roles read: presence, severity of adversarial findings, AI
\* mediation, relay risk, and whether the session's rhythm drifts.
Signal == [liveness: 0..100, severity: 0..100, mediation: 0..100,
           relay: 0..100, calm: BOOLEAN]

ASSUME FactAssumption == FactSets \subseteq SUBSET Fact
ASSUME SignalAssumption == Signals \subseteq Signal
ASSUME GivenAssumption == Given \subseteq {"score", "high"}

VARIABLES
  band,      \* cluster risk of a session: unconnected, score (< 0.75) or high
  pc,        \* where each evaluation is
  subject,   \* its session
  facts,     \* what its packet says
  signal,    \* what its roles read
  refs,      \* the cluster risk in its context's identity_refs
  cluster,   \* the cluster risk in its packet's identity_refs
  tier,      \* the tier it was routed to
  verdict    \* its decision object, with which its artifact is stored

request == <<subject, facts, signal, refs>>
vars == <<band, pc, request, cluster, tier, verdict>>

(***************************************************************************)
(* Tier routing                                                            *)
(***************************************************************************)
ChooseTier(f, c) ==
  CASE f \cap Deterministic # {} -> "tier0"
    [] f \cap Deterministic = {} /\ (f \cap {"high_value_flow", "force_tier2"} # {}
                                      \/ c = "high") -> "tier2"
    [] OTHER -> "tier1"

(***************************************************************************)
(* Role reports                                                            *)
(***************************************************************************)

\* human_probability of liveness, adversarial, mediation and relay.
Probabilities(g) ==
  <<g.liveness, 100 - g.severity, 100 - g.mediation, 100 - g.relay>>

ProbabilitySum(g) == 300 + g.liveness - g.severity - g.mediation - g.relay

\* disagreement_score of the reasoning reviewer: the widest gap.
Gap(g) == Max({Probabilities(g)[i] - Probabilities(g)[j] : i, j \in 1..4})

Capped(n, low, high) == IF n < low THEN low ELSE IF n > high THEN high ELSE n

\* Average confidence of the five reports, each doubled to stay an integer; the
\* reviewer's own follows the widest gap.
RoleConfidence(g) ==
  2 * Capped(g.liveness + (IF g.calm THEN 20 ELSE 0), 0, 100)
  + (100 + g.severity) + (100 + g.mediation) + (100 + g.relay)
  + Capped(110 + Gap(g), 80, 190)

(***************************************************************************)
(* Synthesis: one operator per rule, each given the state so far.          *)
(***************************************************************************)
\* Mutant: the enforcement's short name for the state.
ByPolicyShort(f) == IF "require_step_up" \in f THEN "STEP_UP" ELSE "ALLOW"

ByPolicy(f) == IF "require_step_up" \in f THEN "STEP_UP_AUTH" ELSE "ALLOW"

ByCluster(c, t, s) == IF c = "high" /\ t = "tier2" THEN "CHALLENGE" ELSE s

\* Mutant: a constant latency only puts a session under observation.
ByTimingAlways(f, s) == IF "constant_latency_pattern" \in f THEN "OBSERVE" ELSE s

ByTiming(f, s) ==
  IF "constant_latency_pattern" \in f /\ s = "ALLOW" THEN "CHALLENGE" ELSE s

ByValue(f, t, s) ==
  IF "high_value_flow" \in f /\ t = "tier2" /\ s \in {"ALLOW", "OBSERVE"}
  THEN "STEP_UP_AUTH" ELSE s

\* Mutant: mild disagreement is not reserved for sessions still allowed.
ByAnyDisagreement(g, s) ==
  IF Gap(g) > 80 THEN "RESTRICT"
  ELSE IF Gap(g) > 50 THEN "ELEVATED_OBSERVE" ELSE s

ByDisagreement(g, s) ==
  IF Gap(g) > 80 THEN "RESTRICT"
  ELSE IF Gap(g) > 50 /\ s = "ALLOW" THEN "ELEVATED_OBSERVE" ELSE s

\* The floors the rules put under the confidence, for the rules that applied.
Floors(f, c, t, g) ==
  LET policy == ByPolicy(f)
      group == ByCluster(c, t, policy)
      timing == ByTiming(f, group)
      value == ByValue(f, t, timing)
  IN  {500}
      \cup (IF "require_step_up" \in f THEN {750} ELSE {})
      \cup (IF c = "high" /\ t = "tier2" THEN {800} ELSE {})
      \cup (IF timing # group THEN {700} ELSE {})
      \cup (IF value # timing THEN {800} ELSE {})
      \cup (IF Gap(g) > 80 THEN {650} ELSE {})
      \cup (IF Gap(g) \in 51..80 /\ value = "ALLOW" THEN {600} ELSE {})

\* confidence >= n: some floor or the average of the reports reaches n.
Confident(f, c, t, g, n) ==
  RoleConfidence(g) >= n \/ \E floor \in Floors(f, c, t, g) : floor >= n

ByProbability(f, c, t, g, s) ==
  CASE ProbabilitySum(g) <= 100 /\ Confident(f, c, t, g, 750) -> "BLOCK"
    [] ~(ProbabilitySum(g) <= 100 /\ Confident(f, c, t, g, 750))
       /\ ProbabilitySum(g) <= 180 /\ s = "ALLOW" -> "OBSERVE"
    [] OTHER -> s

State(f, c, t, g) ==
  IF t = "tier0" THEN "EJECT"
  ELSE LET s == ByValue(f, t, ByTiming(f, ByCluster(c, t, ByPolicy(f))))
       IN  ByProbability(f, c, t, g, ByDisagreement(g, s))

Reasons(f, c, t, g) ==
  IF t = "tier0" THEN (f \cap Deterministic) \ {"illegal_content"}
  ELSE (f \cap {"require_step_up", "constant_latency_pattern"})
       \cup (IF c = "high" THEN {"cluster"} ELSE {})
       \cup (IF t = "tier2" THEN f \cap {"high_value_flow"} ELSE {})
       \cup (IF Gap(g) > 80 THEN {"disagreement"} ELSE {})

States == {"ALLOW", "OBSERVE", "ELEVATED_OBSERVE", "CHALLENGE",
           "STEP_UP_AUTH", "RESTRICT", "BLOCK", "EJECT"}

Decision == [state: States, reasons: SUBSET (Fact \cup {"cluster", "disagreement"}),
             review: BOOLEAN]
NoDecision == [state |-> "none"]

Synthesize(f, c, t, g) ==
  [state |-> State(f, c, t, g), reasons |-> Reasons(f, c, t, g),
   review |-> t = "tier2" /\ State(f, c, t, g) = "RESTRICT"]
(***************************************************************************)
(* The engine                                                              *)
(***************************************************************************)
Bands == {"unconnected", "score", "high"}

Init ==
  /\ band = [s \in Session |-> "unconnected"]
  /\ pc = [e \in Eval |-> "idle"]
  /\ subject \in [Eval -> Session]
  /\ facts = [e \in Eval |-> {}]
  /\ signal \in [Eval -> Signals]
  /\ refs = [e \in Eval |-> "unconnected"]
  /\ cluster = [e \in Eval |-> "unconnected"]
  /\ tier = [e \in Eval |-> "tier1"]
  /\ verdict = [e \in Eval |-> NoDecision]

\* evaluate up to the choice of the tier: the caller's identity_refs, or else
\* what the graph says of the session now, go into the context and the packet.
Route(e, f, c) ==
  /\ pc[e] = "idle"
  /\ facts' = [facts EXCEPT ![e] = f]
  /\ refs' = [refs EXCEPT ![e] = c]
  /\ cluster' = [cluster EXCEPT ![e] = c]
  /\ tier' = [tier EXCEPT ![e] = ChooseTier(f, c)]
  /\ pc' = [pc EXCEPT ![e] = IF ChooseTier(f, c) = "tier0" THEN "decided" ELSE "routed"]
  /\ IF ChooseTier(f, c) = "tier0"
     THEN verdict' = [verdict EXCEPT ![e] = Synthesize(f, c, "tier0", signal[e])]
     ELSE UNCHANGED verdict
  /\ UNCHANGED <<band, subject, signal>>

\* build_evidence: the graph is asked again and its score replaces whatever
\* the packet said.
BuildEvidence(e) ==
  /\ pc[e] = "routed"
  /\ cluster' = IF band[subject[e]] = "unconnected" THEN cluster
                 ELSE [cluster EXCEPT ![e] = "score"]
  /\ pc' = [pc EXCEPT ![e] = "voting"]
  /\ UNCHANGED <<band, request, tier, verdict>>

\* A session joins the graph, which may connect it to others and raise or lower
\* the risk of any; connections never go away.
AddSession ==
  /\ band' \in [Session -> Bands]
  /\ \A s \in Session : band'[s] = "unconnected" => band[s] = "unconnected"

\* The roles vote, and the evaluation adds its session.
Vote(e) ==
  /\ pc[e] = "voting"
  /\ AddSession
  /\ pc' = [pc EXCEPT ![e] = "voted"]
  /\ UNCHANGED <<request, cluster, tier, verdict>>

\* A role raises: the evaluation ends without a decision.
RoleRaises(e) ==
  /\ pc[e] = "voting"
  /\ pc' = [pc EXCEPT ![e] = "failed"]
  /\ UNCHANGED <<band, request, cluster, tier, verdict>>

Decide(e) ==
  /\ pc[e] = "voted"
  /\ verdict' = [verdict EXCEPT ![e] = Synthesize(facts[e], cluster[e], tier[e], signal[e])]
  /\ pc' = [pc EXCEPT ![e] = "decided"]
  /\ UNCHANGED <<band, request, cluster, tier>>

\* The process restarts: the graph is in its memory only, and so are artifacts,
\* the store having been given a runtime that cannot persist them.
Restart ==
  /\ band' = [s \in Session |-> "unconnected"]
  /\ pc' = [e \in Eval |-> IF pc[e] \in {"routed", "voting", "voted"}
                            THEN "failed" ELSE pc[e]]
  /\ UNCHANGED <<request, cluster, tier, verdict>>

\* Sessions that are not looked at here are evaluated all the time.
OtherSessions ==
  /\ AddSession
  /\ UNCHANGED <<pc, request, cluster, tier, verdict>>

Next ==
  \/ \E e \in Eval :
       \/ \E f \in FactSets, c \in Given \cup {band[subject[e]]} : Route(e, f, c)
       \/ BuildEvidence(e) \/ Vote(e) \/ RoleRaises(e) \/ Decide(e)
  \/ OtherSessions \/ Restart

Spec == Init /\ [][Next]_vars

(***************************************************************************)
(* Properties                                                              *)
(***************************************************************************)
TypeOK ==
  /\ band \in [Session -> Bands]
  /\ pc \in [Eval -> {"idle", "routed", "voting", "voted", "decided", "failed"}]
  /\ subject \in [Eval -> Session]
  /\ facts \in [Eval -> SUBSET Fact]
  /\ signal \in [Eval -> Signal]
  /\ refs \in [Eval -> Bands]
  /\ cluster \in [Eval -> Bands]
  /\ tier \in [Eval -> {"tier0", "tier1", "tier2"}]
  /\ verdict \in [Eval -> Decision \cup {NoDecision}]

\* How strict a state is; CHALLENGE and STEP_UP_AUTH ask the same of a user.
Strictness(s) ==
  CASE s = "ALLOW" -> 0
    [] s = "OBSERVE" -> 1
    [] s = "ELEVATED_OBSERVE" -> 2
    [] s \in {"CHALLENGE", "STEP_UP_AUTH"} -> 3
    [] s = "RESTRICT" -> 4
    [] s = "BLOCK" -> 5
    [] s = "EJECT" -> 6

\* Seven rules of the synthesizer override one another in sequence, under
\* guards on the state so far.  Whatever the roles say, one more fact against
\* a session, which may also move it to a higher tier, never gives it a more
\* lenient decision; with one exception: a constant latency is challenged
\* before the high-value rule can make the decision confident enough to block.
MoreFactsNeverLenient ==
  \A e \in Eval : pc[e] = "decided" =>
    \A x \in Fact :
      LET f == facts[e] \cup {x}
          t == ChooseTier(f, refs[e])
          s == State(f, cluster[e], t, signal[e])
      IN  \/ Strictness(verdict[e].state) <= Strictness(s)
          \/ /\ x = "constant_latency_pattern" /\ "high_value_flow" \in f
             /\ verdict[e].state = "BLOCK" /\ s \in {"CHALLENGE", "RESTRICT"}

\* A flow that policy wants stepped up, or that is high-value, is never let
\* through or merely observed, although every later rule may replace the state
\* and the graph may be rewritten while the roles vote.
StepUpHolds ==
  \A e \in Eval :
    pc[e] = "decided" /\ facts[e] \cap {"require_step_up", "high_value_flow"} # {}
      => Strictness(verdict[e].state) >= 3

\* docs/TRUEPRESENCE_DECISION_ENGINE.md: "Tier 2 is for ambiguous, high-risk, or
\* high-value flows that need stronger escalation and review posture."  A
\* session routed to tier 2 for the high risk of its cluster is not allowed.
ClusterRiskEscalates ==
  \A e \in Eval :
    pc[e] = "decided" /\ tier[e] = "tier2" /\ refs[e] = "high"
      => verdict[e].state # "ALLOW"

(***************************************************************************)
(* The inductive invariant: a decision is what the synthesizer makes of    *)
(* the packet as it is now, in the tier the packet had when routed.        *)
(***************************************************************************)
RoutedByContext ==
  \A e \in Eval : pc[e] # "idle" => tier[e] = ChooseTier(facts[e], refs[e])

VerdictFollows ==
  \A e \in Eval : pc[e] = "decided" =>
    verdict[e] = Synthesize(facts[e], cluster[e], tier[e], signal[e])

IInv == TypeOK /\ RoutedByContext /\ VerdictFollows
=============================================================================
