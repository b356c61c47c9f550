------------------------ MODULE MCPresenceServices_proofs ------------------------
(* Proofs about DecisionEngine, for any facts, evidence and evaluations; and about the *)
(* services of src/truepresence side by side: every behaviour of MCPresenceServices is *)
(* one of each of them, so that what is proved of one holds beside the others.         *)
EXTENDS MCPresenceServices, TelegramServices_proofs, SessionServices_proofs

(***************************************************************************)
(* DecisionEngine                                                          *)
(***************************************************************************)

Tiers == {"tier0", "tier1", "tier2"}

\* The floors matter to a block only where they reach 750.
LEMMA ConfidentCases ==
  ASSUME NEW f, NEW c, NEW t, NEW g
  PROVE  LET timing == ByTiming(f, ByCluster(c, t, ByPolicy(f)))
         IN  Confident(f, c, t, g, 750) <=>
               \/ RoleConfidence(g) >= 750
               \/ "require_step_up" \in f
               \/ c = "high" /\ t = "tier2"
               \/ ByValue(f, t, timing) # timing
  BY DEF Confident, Floors

\* Every tier yields one of the eight states.
LEMMA StateType ==
  ASSUME NEW f, NEW c, NEW t, NEW g
  PROVE  State(f, c, t, g) \in States
  BY DEF State, States, ByProbability, ByDisagreement, ByValue, ByTiming,
         ByCluster, ByPolicy

LEMMA TierType ==
  ASSUME NEW f, NEW c
  PROVE  ChooseTier(f, c) \in Tiers
  BY DEF ChooseTier, Tiers

\* More facts against a session and the tier they put it in: the synthesizer
\* answers no more leniently, but for the one exception.
LEMMA SynthesisIsMonotone ==
  ASSUME NEW f \in SUBSET Fact, NEW x \in Fact, NEW c \in Bands, NEW r \in Bands,
         NEW g
  PROVE  LET h == f \cup {x}
             s == State(f, c, ChooseTier(f, r), g)
             u == State(h, c, ChooseTier(h, r), g)
         IN  \/ Strictness(s) <= Strictness(u)
             \/ /\ x = "constant_latency_pattern" /\ "high_value_flow" \in h
                /\ s = "BLOCK" /\ u \in {"CHALLENGE", "RESTRICT"}
<1> DEFINE h == f \cup {x}
           t == ChooseTier(f, r)
           v == ChooseTier(h, r)
<1>1. CASE v = "tier0"
  <2>1. State(h, c, v, g) = "EJECT"
    BY <1>1 DEF State
  <2>2. State(f, c, t, g) \in States
    BY StateType
  <2> QED BY <2>1, <2>2 DEF States, Strictness
<1>2. CASE v # "tier0"
  <2>1. t # "tier0" /\ (t = "tier2" => v = "tier2")
    BY <1>2 DEF ChooseTier
  <2>2. t \in {"tier1", "tier2"} /\ v \in {"tier1", "tier2"}
    BY <1>2, <2>1, TierType DEF Tiers
  <2>3. /\ "high_value_flow" \in f => t = "tier2"
        /\ "high_value_flow" \in h => v = "tier2"
    BY <1>2, <2>1 DEF ChooseTier
  <2> DEFINE A == ByCluster(c, t, ByPolicy(f))
             B == ByTiming(f, A)
             C == ByValue(f, t, B)
             D == ByDisagreement(g, C)
             A2 == ByCluster(c, v, ByPolicy(h))
             B2 == ByTiming(h, A2)
             C2 == ByValue(h, v, B2)
             D2 == ByDisagreement(g, C2)
             sure == Confident(f, c, t, g, 750)
             sure1 == Confident(h, c, v, g, 750)
  <2>4. State(f, c, t, g) = ByProbability(f, c, t, g, D)
    BY <2>1 DEF State
  <2>5. State(h, c, v, g) = ByProbability(h, c, v, g, D2)
    BY <1>2 DEF State
  <2>6. /\ C \in {"ALLOW", "CHALLENGE", "STEP_UP_AUTH"}
        /\ C2 \in {"ALLOW", "CHALLENGE", "STEP_UP_AUTH"}
        /\ C # "ALLOW" => C2 # "ALLOW"
    BY <2>1, <2>3 DEF ByPolicy, ByCluster, ByTiming, ByValue
  <2>7. sure => \/ sure1
                \/ /\ x = "constant_latency_pattern" /\ "high_value_flow" \in h
                   /\ C2 # "ALLOW"
    <3>1. sure <=> \/ RoleConfidence(g) >= 750
                   \/ "require_step_up" \in f
                   \/ c = "high" /\ t = "tier2"
                   \/ C # B
      BY ConfidentCases
    <3>2. sure1 <=> \/ RoleConfidence(g) >= 750
                    \/ "require_step_up" \in h
                    \/ c = "high" /\ v = "tier2"
                    \/ C2 # B2
      BY ConfidentCases
    <3>3. CASE C # B /\ ~sure1
      <4>1. "high_value_flow" \in f /\ A = "ALLOW" /\ B = "ALLOW"
        BY <3>3 DEF ByValue, ByTiming, ByCluster, ByPolicy
      <4>2. "require_step_up" \notin h /\ ~(c = "high" /\ v = "tier2") /\ C2 = B2
        BY <3>3, <3>2
      <4>3. A2 = "ALLOW"
        BY <4>2 DEF ByCluster, ByPolicy
      <4>4. B2 # "ALLOW"
        BY <4>1, <4>2, <2>3 DEF ByValue
      <4>5. "constant_latency_pattern" \in h /\ "constant_latency_pattern" \notin f
        BY <4>1, <4>3, <4>4 DEF ByTiming
      <4> QED BY <4>1, <4>2, <4>4, <4>5
    <3> QED BY <3>1, <3>2, <3>3, <2>1
  <2>8. D \in States /\ D2 \in States /\ Strictness(D) <= Strictness(D2)
    BY <2>6 DEF ByDisagreement, Strictness, States
  <2>9. /\ D = "ALLOW" => D2 \in {"ALLOW", "CHALLENGE", "STEP_UP_AUTH"}
        /\ D # "ALLOW" => D2 # "ALLOW"
        /\ D2 # "BLOCK" /\ D # "BLOCK" /\ D # "EJECT" /\ D2 # "EJECT"
        /\ C2 # "ALLOW" => D2 \in {"CHALLENGE", "STEP_UP_AUTH", "RESTRICT"}
    BY <2>6 DEF ByDisagreement
  <2> DEFINE s == State(f, c, t, g)
             u == State(h, c, v, g)
  <2>10. CASE ProbabilitySum(g) <= 100 /\ sure1
    <3>1. u = "BLOCK"
      BY <2>5, <2>10 DEF ByProbability
    <3>2. s # "EJECT" /\ s \in States
      BY <2>4, <2>9, StateType DEF ByProbability
    <3> QED BY <3>1, <3>2 DEF Strictness, States
  <2>11. CASE ProbabilitySum(g) <= 100 /\ ~sure1 /\ sure
    <3>1. s = "BLOCK"
      BY <2>4, <2>11 DEF ByProbability
    <3>2. u = D2
      BY <2>5, <2>7, <2>9, <2>11 DEF ByProbability
    <3>3. u \in {"CHALLENGE", "STEP_UP_AUTH", "RESTRICT"}
      BY <3>2, <2>7, <2>9, <2>11
    <3>4. u # "STEP_UP_AUTH"
      <4>1. C2 = B2 /\ "require_step_up" \notin h
        BY <2>11, ConfidentCases
      <4>2. C2 # "STEP_UP_AUTH"
        BY <4>1 DEF ByTiming, ByCluster, ByPolicy
      <4> QED BY <4>2, <3>2 DEF ByDisagreement
    <3> QED BY <3>1, <3>3, <3>4, <2>7, <2>11
  <2>12. CASE ~(ProbabilitySum(g) <= 100 /\ sure1) /\ ~(ProbabilitySum(g) <= 100 /\ sure)
    <3>1. s = IF ProbabilitySum(g) <= 180 /\ D = "ALLOW" THEN "OBSERVE" ELSE D
      BY <2>4, <2>12 DEF ByProbability
    <3>2. u = IF ProbabilitySum(g) <= 180 /\ D2 = "ALLOW" THEN "OBSERVE" ELSE D2
      BY <2>5, <2>12 DEF ByProbability
    <3>3. Strictness(s) <= Strictness(u)
      BY <3>1, <3>2, <2>8, <2>9 DEF Strictness, States
    <3> QED BY <3>3
  <2> QED BY <2>10, <2>11, <2>12
<1> QED BY <1>1, <1>2

\* What the synthesizer returns is a decision object.
LEMMA SynthesisType ==
  ASSUME NEW f \in SUBSET Fact, NEW c, NEW t, NEW g
  PROVE  Synthesize(f, c, t, g) \in Decision
<1>1. State(f, c, t, g) \in States
  BY StateType
<1>2. Reasons(f, c, t, g) \in SUBSET (Fact \cup {"cluster", "disagreement"})
  BY DEF Reasons
<1>3. (t = "tier2" /\ State(f, c, t, g) = "RESTRICT") \in BOOLEAN
  OBVIOUS
<1> QED BY <1>1, <1>2, <1>3 DEF Synthesize, Decision

(***************************************************************************)
(* The inductive invariant                                                 *)
(***************************************************************************)
LEMMA InitInv == Init => IInv
<1> SUFFICES ASSUME Init PROVE IInv
  OBVIOUS
<1>1. TypeOK
  BY SignalAssumption DEF Init, TypeOK, Bands
<1> QED BY <1>1 DEF Init, IInv, RoutedByContext, VerdictFollows

LEMMA RouteInv ==
  ASSUME IInv, NEW e \in Eval, NEW f \in FactSets,
         NEW c \in Given \cup {band[subject[e]]}, Route(e, f, c)
  PROVE  IInv'
<1> USE DEF IInv
<1>1. f \in SUBSET Fact /\ c \in Bands
  BY FactAssumption, GivenAssumption DEF TypeOK, Bands
<1>2. ChooseTier(f, c) \in {"tier0", "tier1", "tier2"}
  BY TierType DEF Tiers
<1>3. TypeOK'
  <2>1. Synthesize(f, c, "tier0", signal[e]) \in Decision
    BY <1>1, SynthesisType
  <2> HIDE DEF IInv
  <2> QED BY <1>1, <1>2, <2>1 DEF IInv, Route, TypeOK
<1>4. RoutedByContext'
  BY <1>1 DEF Route, RoutedByContext, TypeOK
<1>5. VerdictFollows'
  BY <1>1 DEF Route, VerdictFollows, TypeOK
<1> QED BY <1>3, <1>4, <1>5

LEMMA EvidenceInv ==
  ASSUME IInv, NEW e \in Eval, BuildEvidence(e)
  PROVE  IInv'
<1>1. TypeOK'
  BY DEF IInv, BuildEvidence, TypeOK, Bands, request
<1>2. RoutedByContext'
  BY DEF IInv, BuildEvidence, RoutedByContext, TypeOK, request
<1>3. VerdictFollows'
  BY DEF IInv, BuildEvidence, VerdictFollows, TypeOK, request
<1> QED BY <1>1, <1>2, <1>3 DEF IInv

LEMMA VoteInv ==
  ASSUME IInv, NEW e \in Eval, Vote(e) \/ RoleRaises(e)
  PROVE  IInv'
<1>1. TypeOK'
  BY DEF IInv, Vote, RoleRaises, AddSession, TypeOK, request
<1>2. RoutedByContext'
  BY DEF IInv, Vote, RoleRaises, RoutedByContext, TypeOK, request
<1>3. VerdictFollows'
  BY DEF IInv, Vote, RoleRaises, VerdictFollows, TypeOK, request
<1> QED BY <1>1, <1>2, <1>3 DEF IInv

LEMMA DecideInv ==
  ASSUME IInv, NEW e \in Eval, Decide(e)
  PROVE  IInv'
<1>1. Synthesize(facts[e], cluster[e], tier[e], signal[e]) \in Decision
  BY SynthesisType DEF IInv, TypeOK
<1>2. TypeOK'
  BY <1>1 DEF IInv, Decide, TypeOK, request
<1>3. RoutedByContext'
  BY DEF IInv, Decide, RoutedByContext, TypeOK, request
<1>4. VerdictFollows'
  BY DEF IInv, Decide, VerdictFollows, TypeOK, request
<1> QED BY <1>2, <1>3, <1>4 DEF IInv

LEMMA SurroundingsInv ==
  ASSUME IInv, OtherSessions \/ Restart \/ UNCHANGED vars
  PROVE  IInv'
<1>1. TypeOK'
  BY DEF IInv, OtherSessions, AddSession, Restart, TypeOK, Bands, vars, request
<1>2. RoutedByContext'
  BY DEF IInv, OtherSessions, Restart, RoutedByContext, TypeOK, vars, request
<1>3. VerdictFollows'
  BY DEF IInv, OtherSessions, Restart, VerdictFollows, TypeOK, vars, request
<1> QED BY <1>1, <1>2, <1>3 DEF IInv

LEMMA NextInv == IInv /\ [Next]_vars => IInv'
<1> SUFFICES ASSUME IInv, [Next]_vars PROVE IInv'
  OBVIOUS
<1>1. CASE \E e \in Eval : \E f \in FactSets, c \in Given \cup {band[subject[e]]} :
             Route(e, f, c)
  BY <1>1, RouteInv
<1>2. CASE \E e \in Eval : BuildEvidence(e)
  BY <1>2, EvidenceInv
<1>3. CASE \E e \in Eval : Vote(e) \/ RoleRaises(e)
  BY <1>3, VoteInv
<1>4. CASE \E e \in Eval : Decide(e)
  BY <1>4, DecideInv
<1>5. CASE OtherSessions \/ Restart \/ UNCHANGED vars
  BY <1>5, SurroundingsInv
<1> QED
  BY <1>1, <1>2, <1>3, <1>4, <1>5 DEF Next

\* Whatever evaluations interleave with the graph, a returned decision is what
\* the synthesizer makes of the packet it is stored with, in the tier the
\* packet was routed to.
THEOREM VerdictsFollow == Spec => []IInv
<1>1. Init => IInv
  BY InitInv
<1>2. IInv /\ [Next]_vars => IInv'
  BY NextInv
<1> QED BY <1>1, <1>2, PTL DEF Spec

\* The engine's variables keep their types.
THEOREM EngineTypes == Spec => []TypeOK
<1>1. IInv => TypeOK
  BY DEF IInv
<1> QED BY <1>1, VerdictsFollow, PTL

LEMMA VerdictState ==
  ASSUME IInv, NEW e \in Eval, pc[e] = "decided"
  PROVE  /\ tier[e] = ChooseTier(facts[e], refs[e])
         /\ verdict[e].state = State(facts[e], cluster[e], tier[e], signal[e])
<1>1. tier[e] = ChooseTier(facts[e], refs[e])
  BY DEF IInv, RoutedByContext
<1>2. verdict[e] = Synthesize(facts[e], cluster[e], tier[e], signal[e])
  BY DEF IInv, VerdictFollows
<1>3. Synthesize(facts[e], cluster[e], tier[e], signal[e]).state
        = State(facts[e], cluster[e], tier[e], signal[e])
  BY DEF Synthesize
<1> QED BY <1>1, <1>2, <1>3

\* decide and synthesize: one more fact against a session never makes its
\* decision more lenient, whatever the four roles report (with the exception
\* MoreFactsNeverLenient names).
THEOREM Monotone == Spec => []MoreFactsNeverLenient
<1>1. IInv => MoreFactsNeverLenient
  <2> SUFFICES ASSUME IInv, NEW e \in Eval, pc[e] = "decided", NEW x \in Fact
               PROVE  LET f == facts[e] \cup {x}
                          s == State(f, cluster[e], ChooseTier(f, refs[e]), signal[e])
                      IN  \/ Strictness(verdict[e].state) <= Strictness(s)
                          \/ /\ x = "constant_latency_pattern" /\ "high_value_flow" \in f
                             /\ verdict[e].state = "BLOCK" /\ s \in {"CHALLENGE", "RESTRICT"}
    BY DEF MoreFactsNeverLenient
  <2>1. PICK f, c, r, g : f = facts[e] /\ c = cluster[e] /\ r = refs[e] /\ g = signal[e]
    OBVIOUS
  <2>2. f \in SUBSET Fact /\ c \in Bands /\ r \in Bands
    BY <2>1 DEF IInv, TypeOK
  <2>3. verdict[e].state = State(f, c, ChooseTier(f, r), g)
    BY <2>1, VerdictState
  <2> DEFINE h == f \cup {x}
             u == State(h, c, ChooseTier(h, r), g)
  <2>4. \/ Strictness(State(f, c, ChooseTier(f, r), g)) <= Strictness(u)
        \/ /\ x = "constant_latency_pattern" /\ "high_value_flow" \in h
           /\ State(f, c, ChooseTier(f, r), g) = "BLOCK" /\ u \in {"CHALLENGE", "RESTRICT"}
    BY <2>2, SynthesisIsMonotone
  <2> QED BY <2>1, <2>3, <2>4
<1> QED BY <1>1, VerdictsFollow, PTL

\* require_step_up and high_value_flow: such a flow is never let through.
THEOREM StepUps == Spec => []StepUpHolds
<1>1. IInv => StepUpHolds
  <2> SUFFICES ASSUME IInv, NEW e \in Eval, pc[e] = "decided",
                      facts[e] \cap {"require_step_up", "high_value_flow"} # {}
               PROVE  Strictness(verdict[e].state) >= 3
    BY DEF StepUpHolds
  <2>. PICK f, c, t, g : f = facts[e] /\ c = cluster[e] /\ t = tier[e] /\ g = signal[e]
    OBVIOUS
  <2> DEFINE d == ByValue(f, t, ByTiming(f, ByCluster(c, t, ByPolicy(f))))
  <2>1. verdict[e].state = State(f, c, t, g) /\ t = ChooseTier(f, refs[e])
    BY VerdictState
  <2>2. CASE t = "tier0"
    BY <2>1, <2>2 DEF State, Strictness
  <2>3. CASE t # "tier0"
    <3>1. "high_value_flow" \in f => t = "tier2"
      BY <2>1, <2>3 DEF ChooseTier
    <3>2. d \in {"CHALLENGE", "STEP_UP_AUTH"}
      BY <3>1 DEF ByPolicy, ByCluster, ByTiming, ByValue
    <3>3. ByDisagreement(g, d) \in {"CHALLENGE", "STEP_UP_AUTH", "RESTRICT"}
      BY <3>2 DEF ByDisagreement
    <3>4. verdict[e].state \in {"CHALLENGE", "STEP_UP_AUTH", "RESTRICT", "BLOCK"}
      BY <2>1, <2>3, <3>3 DEF State, ByProbability
    <3> QED BY <3>4 DEF Strictness
  <2> QED BY <2>2, <2>3
<1> QED BY <1>1, VerdictsFollow, PTL

(***************************************************************************)
(* The composition                                                         *)
(***************************************************************************)

\* A step of the composition is one of a service, and the others stand still.
LEMMA ServicesStep ==
  [ServicesNext]_<<Engine, Bots, Sessions, Sdk, part>> =>
         /\ [Next]_vars
         /\ [WindowsNext]_windowsVars /\ [Assess]_safetyVars /\ [TenantNext]_tenantVars
         /\ [SessionNext]_sessionVars /\ [UserNext]_userVars
         /\ [WsNext]_wsVars /\ [GraphNext]_graphVars
         /\ [SdkNext]_sdkVars /\ [Evaluated]_scoringVars
<1> SUFFICES ASSUME [ServicesNext]_<<Engine, Bots, Sessions, Sdk, part>>
    PROVE  /\ [Next]_vars
           /\ [WindowsNext]_windowsVars /\ [Assess]_safetyVars /\ [TenantNext]_tenantVars
           /\ [SessionNext]_sessionVars /\ [UserNext]_userVars
           /\ [WsNext]_wsVars /\ [GraphNext]_graphVars
           /\ [SdkNext]_sdkVars /\ [Evaluated]_scoringVars
  OBVIOUS
<1>1. CASE UNCHANGED <<Engine, Bots, Sessions, Sdk, part>>
  BY <1>1 DEF Engine, Bots, Sessions, Sdk
<1>2. CASE Next /\ UNCHANGED <<Bots, Sessions, Sdk>>
  BY <1>2 DEF Bots, Sessions, Sdk
<1>3. CASE BotsNext /\ UNCHANGED <<Engine, Sessions, Sdk>>
  BY <1>3 DEF BotsNext, Engine, Sessions, Sdk
<1>4. CASE SessionsNext /\ UNCHANGED <<Engine, Bots, Sdk>>
  BY <1>4 DEF SessionsNext, Engine, Bots, Sdk
<1>5. CASE SdkPartsNext /\ UNCHANGED <<Engine, Bots, Sessions>>
  BY <1>5 DEF SdkPartsNext, Engine, Bots, Sessions
<1> QED
  BY <1>1, <1>2, <1>3, <1>4, <1>5 DEF ServicesNext

\* The services of src/truepresence share no state: a behaviour of their composition is
\* one of every service, with the fairness of its readers.
THEOREM ServicesAreApart ==
  ServicesSpec => /\ Spec
                  /\ WindowsSpec /\ SafetySpec /\ TenantSpec
                  /\ SessionSpec /\ UserSpec /\ WsSpec /\ GraphSpec
                  /\ SdkSpec /\ ScoringSpec
<1>1. ServicesInit =>
        /\ Init
        /\ WindowsInit /\ SafetyInit /\ TenantInit
        /\ SessionInit /\ UserInit /\ WsInit /\ GraphInit
        /\ SdkInit /\ ScoringInit
  BY DEF ServicesInit, EngineInit, AssessedInit, TenantsInit, ScoredInit
<1> QED
  BY <1>1, ServicesStep, PTL DEF ServicesSpec, Spec, WindowsSpec, SafetySpec, TenantSpec,
     SessionSpec, UserSpec, WsSpec, GraphSpec, SdkSpec, ScoringSpec

\* Every variable of every service of src/truepresence keeps its type, side by side.
THEOREM ServicesTypes == ServicesSpec => []ServicesTypeOK
<1>1. TenantInv => TenantTypeOK
  BY DEF TenantInv
<1>2. ASSUME TypeOK,
             WindowsTypeOK, SafetyTypeOK, TenantTypeOK,
             SessionTypeOK, UserTypeOK, WsTypeOK, GraphTypeOK,
             SdkTypeOK, ScoringTypeOK
      PROVE  ServicesTypeOK
  BY <1>2 DEF ServicesTypeOK
<1> QED
  BY <1>1, <1>2, ServicesAreApart, EngineTypes, WindowsKeepTypes, SafetyTyped,
     TenantInvariant, SessionTypes, UserTypes, WsTyped, GraphTyped, SdkTyped, ScoringTypes, PTL

\* What is safe of each service is safe of the composition that the run PresenceServices
\* checks: all its properties but that a deactivated user is refused in the end.
THEOREM ServicesHold ==
  ServicesSpec =>
    /\ []MoreFactsNeverLenient /\ []StepUpHolds
    /\ []WindowsAreTrue /\ EscalationFits /\ []TenantsAreApart
    /\ []FieldsKept /\ []CopyIsOfTheRow /\ ChallengesHold /\ []ClustersHold
    /\ []ArtifactsHold /\ ScoresHold
BY ServicesAreApart, Monotone, StepUps, WindowsTrue, EscalationsFit, BotsAreApart,
   FieldsAreKept, CopiesAreOfTheRow, ChallengesKept, ClustersKept, ArtifactsKept,
   ScoresAreSound, PTL
=============================================================================
