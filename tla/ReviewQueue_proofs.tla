------------------------- MODULE ReviewQueue_proofs -------------------------
(* Proofs about ReviewQueue, for every set of reviews, clients and decisions. *)
EXTENDS ReviewQueue, TLAPS

USE DEF None

LEMMA DecisionFacts ==
  /\ "none" \notin Decision
  /\ Absent.decision = None /\ Absent.status = None
  /\ Pending \in Copy /\ Pending.decision = None /\ Pending.status = "pending"
  /\ \A d \in Decision : /\ Resolved(d) \in Copy
                         /\ Resolved(d).decision = d
                         /\ Resolved(d).status = "resolved"
BY DecisionAssumption DEF Absent, Pending, Resolved, Copy

LEMMA InitInv == Init => IInv
BY DecisionFacts, BoundAssumption
   DEF Init, IInv, TypeOK, CopiesWereDecided, ResolvedCarriesDecision,
       RequestsCarryDecisions, EffectsWereDecided, Instance

-----------------------------------------------------------------------------
\* The webhook: a new review is pending, in one memory and maybe as a row.
LEMMA AddStep ==
  ASSUME IInv, NEW v \in Review, NEW i \in Instance, AddPendingReview(v, i)
  PROVE  IInv'
<1>1. /\ rows' = IF up THEN rows \cup {v} ELSE rows
      /\ mem' = [mem EXCEPT ![i][v] = Pending]
      /\ issued' = [issued EXCEPT ![v] = IF up THEN "stored" ELSE "held"]
      /\ UNCHANGED <<up, restarts, pc, target, choice, attempt, decided, effects>>
  BY DEF AddPendingReview, request
<1>2. TypeOK'
  BY <1>1, DecisionFacts DEF IInv, TypeOK
<1>3. CopiesWereDecided'
  BY <1>1, DecisionFacts DEF IInv, TypeOK, CopiesWereDecided
<1>4. ResolvedCarriesDecision'
  BY <1>1, DecisionFacts DEF IInv, TypeOK, ResolvedCarriesDecision
<1>5. RequestsCarryDecisions' /\ EffectsWereDecided'
  BY <1>1 DEF IInv, RequestsCarryDecisions, EffectsWereDecided
<1> QED BY <1>2, <1>3, <1>4, <1>5 DEF IInv

\* An admin resolves a review: the decision joins those taken on it.
LEMMA ResolveStep ==
  ASSUME IInv, NEW v \in Review, NEW d \in Decision, Resolve(v, d)
  PROVE  IInv'
<1>1. /\ mem' = [mem EXCEPT !["main"][v] = Resolved(d)]
      /\ decided' = [decided EXCEPT ![v] = @ \cup {d}]
      /\ UNCHANGED <<rows, up, restarts, pc, target, choice, attempt, issued, effects>>
  BY DEF Resolve, Acknowledge, request
<1>2. "main" \in Instance
  BY DEF Instance
<1>3. TypeOK'
  <2>1. mem' \in [Instance -> [Review -> Copy \cup {Absent}]]
    BY <1>1, <1>2, DecisionFacts DEF IInv, TypeOK
  <2>2. decided' \in [Review -> SUBSET Decision]
    BY <1>1 DEF IInv, TypeOK
  <2> QED BY <1>1, <2>1, <2>2 DEF IInv, TypeOK
<1>4. /\ decided'[v] = decided[v] \cup {d}
      /\ \A w \in Review : decided[w] \subseteq decided'[w]
  BY <1>1 DEF IInv, TypeOK
<1>5. CopiesWereDecided'
  BY <1>1, <1>2, <1>4, DecisionFacts DEF IInv, TypeOK, CopiesWereDecided
<1>6. ResolvedCarriesDecision'
  BY <1>1, <1>2, DecisionFacts DEF IInv, TypeOK, ResolvedCarriesDecision
<1>7. RequestsCarryDecisions' /\ EffectsWereDecided'
  BY <1>1, <1>4 DEF IInv, TypeOK, RequestsCarryDecisions, EffectsWereDecided
<1> QED BY <1>3, <1>5, <1>6, <1>7 DEF IInv

-----------------------------------------------------------------------------
\* What an execution request does leaves the stores and the decisions alone.
LEMMA RequestFrame ==
  ASSUME IInv, UNCHANGED <<stores, decided>>
  PROVE  CopiesWereDecided' /\ ResolvedCarriesDecision'
BY DEF IInv, stores, CopiesWereDecided, ResolvedCarriesDecision

LEMMA CheckStep ==
  ASSUME IInv, NEW c \in Client, NEW v \in Review, CheckReview(c, v)
  PROVE  IInv'
<1>1. /\ pc' = [pc EXCEPT ![c] = "checked"]
      /\ target' = [target EXCEPT ![c] = v]
      /\ UNCHANGED <<stores, decided, choice, attempt, issued, effects>>
  BY DEF CheckReview, history
<1>2. TypeOK'
  BY <1>1 DEF IInv, TypeOK, stores
<1>3. RequestsCarryDecisions' /\ EffectsWereDecided'
  BY <1>1 DEF IInv, TypeOK, RequestsCarryDecisions, EffectsWereDecided
<1> QED BY <1>1, <1>2, <1>3, RequestFrame DEF IInv

\* A request that is over disturbs nothing, whatever it carried out before.
LEMMA DoneStep ==
  ASSUME IInv, NEW c \in Client, Done(c), UNCHANGED <<issued, decided>>,
         TypeOK => effects' \in [Review -> SUBSET Decision],
         EffectsWereDecided'
  PROVE  IInv'
<1>1. /\ pc' = [pc EXCEPT ![c] = "idle"]
      /\ target' = [target EXCEPT ![c] = None]
      /\ choice' = [choice EXCEPT ![c] = None]
      /\ attempt' = [attempt EXCEPT ![c] = 0]
      /\ UNCHANGED stores
  BY DEF Done
<1>2. TypeOK'
  BY <1>1, BoundAssumption DEF IInv, TypeOK, stores
<1>3. RequestsCarryDecisions'
  BY <1>1 DEF IInv, TypeOK, RequestsCarryDecisions
<1> QED BY <1>1, <1>2, <1>3, RequestFrame DEF IInv

\* A resolved copy of a review carries a decision that was taken on it.
LEMMA ResolvedIsDecided ==
  ASSUME IInv, NEW v \in Review, mem["main"][v].status = "resolved"
  PROVE  mem["main"][v].decision \in decided[v]
<1>1. "main" \in Instance
  BY DEF Instance
<1> QED BY <1>1 DEF IInv, CopiesWereDecided, ResolvedCarriesDecision

LEMMA ReadStep ==
  ASSUME IInv, NEW c \in Client, ReadForExecution(c)
  PROVE  IInv'
<1>1. UNCHANGED <<issued, decided, effects>>
  BY DEF ReadForExecution, history
<1>2. CASE Done(c)
  BY <1>1, <1>2, DoneStep DEF IInv, TypeOK, EffectsWereDecided
<1>3. CASE ~Done(c)
  <2>1. PICK v \in Review : v = target[c]
    BY DEF ReadForExecution, IInv, RequestsCarryDecisions
  <2>2. PICK d \in decided[v] : d = mem["main"][v].decision
    BY <1>3, <2>1, ResolvedIsDecided DEF ReadForExecution
  <2>3. /\ d # "allow"
        /\ pc' = [pc EXCEPT ![c] = "posting"]
        /\ choice' = [choice EXCEPT ![c] = d]
        /\ UNCHANGED <<stores, target, attempt>>
    BY <1>3, <2>1, <2>2 DEF ReadForExecution
  <2>4. d \in Decision
    BY <2>2 DEF IInv, TypeOK
  <2>5. TypeOK'
    BY <1>1, <2>3, <2>4 DEF IInv, TypeOK, stores
  <2>6. RequestsCarryDecisions' /\ EffectsWereDecided'
    BY <1>1, <2>1, <2>2, <2>3
       DEF IInv, TypeOK, RequestsCarryDecisions, EffectsWereDecided
  <2> QED BY <1>1, <2>3, <2>5, <2>6, RequestFrame DEF IInv
<1> QED BY <1>2, <1>3

LEMMA PostStep ==
  ASSUME IInv, NEW c \in Client, PostTelegramApi(c)
  PROVE  IInv'
<1>1. PICK v \in Review : v = target[c]
  BY DEF PostTelegramApi, IInv, RequestsCarryDecisions
<1>2. PICK d \in decided[v] : d = choice[c] /\ d # "allow"
  BY <1>1 DEF PostTelegramApi, IInv, RequestsCarryDecisions
<1>3. \/ effects' = [effects EXCEPT ![v] = @ \cup {d}]
      \/ UNCHANGED effects
  BY <1>1, <1>2 DEF PostTelegramApi, Delivered
<1>4. UNCHANGED <<issued, decided>>
  BY DEF PostTelegramApi
<1>5. d \in Decision
  BY <1>2 DEF IInv, TypeOK
<1>6. effects' \in [Review -> SUBSET Decision]
  BY <1>3, <1>5 DEF IInv, TypeOK
<1>7. EffectsWereDecided'
  BY <1>2, <1>3, <1>4 DEF IInv, TypeOK, EffectsWereDecided
<1>8. CASE Done(c)
  BY <1>4, <1>6, <1>7, <1>8, DoneStep
<1>9. CASE ~Done(c)
  <2>1. /\ attempt[c] < Retries
        /\ attempt' = [attempt EXCEPT ![c] = @ + 1]
        /\ UNCHANGED <<stores, pc, target, choice>>
    BY <1>9 DEF PostTelegramApi, CanRetry
  <2>2. attempt' \in [Client -> 0..Retries]
    BY <2>1, BoundAssumption DEF IInv, TypeOK
  <2>3. TypeOK'
    BY <2>1, <2>2, <1>4, <1>6 DEF IInv, TypeOK, stores
  <2>4. RequestsCarryDecisions'
    BY <2>1, <1>4 DEF IInv, RequestsCarryDecisions
  <2> QED BY <2>1, <1>4, <1>7, <2>3, <2>4, RequestFrame DEF IInv
<1> QED BY <1>8, <1>9

-----------------------------------------------------------------------------
LEMMA RestartStep ==
  ASSUME IInv, Restart
  PROVE  IInv'
<1>1. /\ restarts < MaxRestarts /\ restarts' = restarts + 1
      /\ mem' = [i \in Instance |-> [v \in Review |-> Absent]]
      /\ pc' = [c \in Client |-> "idle"]
      /\ target' = [c \in Client |-> None]
      /\ choice' = [c \in Client |-> None]
      /\ attempt' = [c \in Client |-> 0]
      /\ UNCHANGED <<rows, up, issued, decided, effects>>
  BY DEF Restart, history
<1>2. TypeOK'
  BY <1>1, BoundAssumption DEF IInv, TypeOK
<1>3. CopiesWereDecided' /\ ResolvedCarriesDecision'
  BY <1>1, DecisionFacts DEF IInv, CopiesWereDecided, ResolvedCarriesDecision
<1>4. RequestsCarryDecisions' /\ EffectsWereDecided'
  BY <1>1 DEF IInv, RequestsCarryDecisions, EffectsWereDecided
<1> QED BY <1>2, <1>3, <1>4 DEF IInv

LEMMA FlipStep ==
  ASSUME IInv, DatabaseFlips
  PROVE  IInv'
BY DEF IInv, DatabaseFlips, request, history, TypeOK, CopiesWereDecided,
       ResolvedCarriesDecision, RequestsCarryDecisions, EffectsWereDecided

LEMMA StutterStep ==
  ASSUME IInv, UNCHANGED vars
  PROVE  IInv'
BY DEF IInv, vars, stores, request, history, TypeOK, CopiesWereDecided,
       ResolvedCarriesDecision, RequestsCarryDecisions, EffectsWereDecided

LEMMA NextInv == IInv /\ [Next]_vars => IInv'
<1> SUFFICES ASSUME IInv, [Next]_vars PROVE IInv'
  OBVIOUS
<1>1. CASE \E v \in Review, i \in Instance : AddPendingReview(v, i)
  BY <1>1, AddStep
<1>2. CASE \E v \in Review, d \in Decision : Resolve(v, d)
  BY <1>2, ResolveStep
<1>3. CASE \E c \in Client, v \in Review : CheckReview(c, v)
  BY <1>3, CheckStep
<1>4. CASE \E c \in Client : Execution(c)
  BY <1>4, ReadStep, PostStep DEF Execution
<1>5. CASE DatabaseFlips
  BY <1>5, FlipStep
<1>6. CASE Restart
  BY <1>6, RestartStep
<1>7. CASE UNCHANGED vars
  BY <1>7, StutterStep
<1> QED BY <1>1, <1>2, <1>3, <1>4, <1>5, <1>6, <1>7 DEF Next

\* The copies of a review and the requests about it always carry decisions that
\* were taken on it, through outages, restarts and retries.
THEOREM CopiesInductive == Spec => []IInv
<1>1. Init => IInv
  BY InitInv
<1>2. IInv /\ [Next]_vars => IInv'
  BY NextInv
<1> QED BY <1>1, <1>2, PTL DEF Spec

\* Types of the state of the review queue.
THEOREM ReviewTypes == Spec => []TypeOK
<1>1. IInv => TypeOK
  BY DEF IInv
<1> QED BY <1>1, CopiesInductive, PTL

\* Telegram carries out only what an admin decided on that very review, for any
\* number of reviews, admins and retries.
THEOREM OnlyDecided == Spec => []EffectsWereDecided
<1>1. IInv => EffectsWereDecided
  BY DEF IInv
<1> QED BY <1>1, CopiesInductive, PTL

-----------------------------------------------------------------------------
\* add_pending_review writes the row and the copy together or the copy alone; only a
\* restart takes copies away, and nothing takes a row.
LEMMA RowsStep ==
  ASSUME IInv, RowsInv, [Next]_vars
  PROVE  RowsInv'
<1>1. ASSUME NEW v \in Review, NEW i \in Instance, AddPendingReview(v, i)
      PROVE  RowsInv'
  <2>1. /\ rows' = IF up THEN rows \cup {v} ELSE rows
        /\ issued' = [issued EXCEPT ![v] = IF up THEN "stored" ELSE "held"]
        /\ mem' = [mem EXCEPT ![i][v] = Pending]
        /\ issued[v] = "no"
    BY <1>1 DEF AddPendingReview
  <2>2. v \notin rows
    BY <2>1 DEF RowsInv
  <2>3. \A w \in Review : w # v => /\ issued'[w] = issued[w] /\ (w \in rows' <=> w \in rows)
                                  /\ \A k \in Instance : mem'[k][w] = mem[k][w]
    BY <2>1 DEF IInv, TypeOK
  <2>4. issued'[v] = IF up THEN "stored" ELSE "held"
    BY <2>1 DEF IInv, TypeOK
  <2> QED BY <2>1, <2>2, <2>3, <2>4 DEF RowsInv
<1>2. ASSUME NEW v \in Review, NEW d \in Decision, Resolve(v, d)
      PROVE  RowsInv'
  <2>1. /\ mem' = [mem EXCEPT !["main"][v] = Resolved(d)] /\ mem["main"][v] # Absent
        /\ UNCHANGED <<rows, issued>>
    BY <1>2 DEF Resolve, Acknowledge
  <2>2. \A w \in Review, k \in Instance :
          mem'[k][w] # Absent => w = v \/ mem[k][w] # Absent
    BY <2>1 DEF IInv, TypeOK
  <2> QED BY <2>1, <2>2 DEF RowsInv, Instance
<1>3. ASSUME NEW c \in Client, (\E v \in Review : CheckReview(c, v)) \/ Execution(c)
      PROVE  RowsInv'
  BY <1>3 DEF CheckReview, Execution, ReadForExecution, PostTelegramApi, Done, stores,
              history, RowsInv
<1>4. ASSUME DatabaseFlips \/ UNCHANGED vars
      PROVE  RowsInv'
  BY <1>4 DEF DatabaseFlips, vars, stores, history, RowsInv
<1>5. ASSUME Restart
      PROVE  RowsInv'
  BY <1>5 DEF Restart, history, RowsInv
<1> QED BY <1>1, <1>2, <1>3, <1>4, <1>5 DEF Next

\* telegram_pending_reviews: the reviews with a row are those opened while the database
\* answered, and a memory holds only reviews that were opened, through outages and
\* restarts.
THEOREM RowsInductive == Spec => [](IInv /\ RowsInv)
<1>1. Init => IInv /\ RowsInv
  BY InitInv DEF Init, RowsInv
<1>2. IInv /\ RowsInv /\ [Next]_vars => (IInv /\ RowsInv)'
  BY NextInv, RowsStep
<1> QED BY <1>1, <1>2, PTL DEF Spec

\* get_pending_reviews and get_review: whichever store answers, a pending page is listed
\* and a listed review has a pending page, but for one opened while the database was away.
THEOREM ListAndDetail == Spec => []ListAgreesWithDetail
<1>1. IInv /\ RowsInv => ListAgreesWithDetail
  <2> SUFFICES ASSUME IInv, RowsInv, NEW v \in Review
               PROVE  /\ GetReview(v).status = "pending" => v \in Listed
                      /\ v \in Listed /\ ~(up /\ issued[v] = "held")
                            => GetReview(v).status = "pending"
    BY DEF ListAgreesWithDetail
  <2>1. Absent.status = None /\ "main" \in Instance
    BY DEF Absent, Instance
  <2>2. ASSUME GetReview(v).status = "pending" PROVE v \in Listed
    BY <2>1, <2>2 DEF GetReview, Listed
  <2>3. ASSUME v \in Listed, ~(up /\ issued[v] = "held")
        PROVE  GetReview(v).status = "pending"
    <3>1. mem["main"][v].status = "pending"
      BY <2>3 DEF Listed
    <3>2. issued[v] # "no"
      BY <2>1, <3>1 DEF RowsInv
    <3>3. up => v \in rows
      BY <2>3, <3>2 DEF RowsInv, IInv, TypeOK
    <3> QED BY <3>1, <3>3 DEF GetReview
  <2> QED BY <2>2, <2>3
<1> QED BY <1>1, RowsInductive, PTL
=============================================================================
