------------------------ MODULE TelegramGuard_proofs ------------------------
(* Proofs about TelegramGuard, for every set of updates, deliveries, members,  *)
(* traits and modes, and any number of retries and restarts.                   *)
EXTENDS TelegramGuard, TLAPS

USE DEF None

LEMMA TraitFacts ==
  ASSUME TypeOK, NEW d \in Delivery
  PROVE  /\ about[d] \in Update /\ Who(d) \in Member
         /\ Of(d) \in Traits /\ Of(d) \in Trait
         /\ Of(d).safety \in SafetyAction \cup {None}
BY TraitAssumption DEF TypeOK, Of, Who, Trait

\* The steps from verdict to action, whatever the verdict.
LEMMA ActionFacts ==
  ASSUME TypeOK, NEW d \in Delivery, NEW v \in Verdict
  PROVE  ActionOf(d, v) \in Action /\ Permitted(mode, Of(d), ActionOf(d, v))
<1> PICK a : a = BuildResponse(v)
  OBVIOUS
<1>1. a \in Executable \cup {"allow"}
  BY DEF BuildResponse, Executable, Punishment
<1> PICK b : b = BySafety(Of(d), a)
  OBVIOUS
<1> PICK c : c = ByCommunity(Of(d), b)
  OBVIOUS
<1>2. ActionOf(d, v) = ByMode(mode, c)
  BY DEF ActionOf
<1>3. /\ b \in Action /\ c \in Action
      /\ Of(d).safety # None => c = Of(d).safety /\ c \in SafetyAction
      /\ Of(d).safety = None => c \notin SafetyAction
  BY <1>1, TraitFacts DEF BySafety, ByCommunity, Action, SafetyAction, Executable, Punishment
<1>4. mode \in {"enforce", "observe", "challenge_only", "review_required"}
  BY ModeAssumption DEF TypeOK
<1>5. ByMode(mode, c) \in Action
  BY <1>3, <1>4 DEF ByMode, Action, Executable, Punishment, SafetyAction
<1>6. Permitted(mode, Of(d), ByMode(mode, c))
  BY <1>3, <1>4 DEF ByMode, Permitted, OpensReview, Action, Executable, Punishment, SafetyAction
<1> QED BY <1>2, <1>5, <1>6

LEMMA InitInv == Init => IInv
BY BoundAssumption
   DEF Init, IInv, TypeOK, ActionsPermitted, HistoryFollows

-----------------------------------------------------------------------------
\* The session row and the memory copy.
LEMMA SessionTypes ==
  ASSUME TypeOK, NEW m \in Member, NEW u \in Update, NEW ok \in BOOLEAN,
         NEW s \in [Member -> Update \cup {None, Fresh}]
  PROVE  /\ ReadSession(m, ok) \in [Member -> Update \cup {None, Fresh}]
         /\ WriteSession(s, m, u, ok) \in [Member -> Update \cup {None, Fresh}]
         /\ RememberSession(m, u, ok) \in [Member -> Update \cup {None}]
BY DEF TypeOK, ReadSession, WriteSession, RememberSession, Fresh

\* What the end of process_update leaves, given what a delivery decided.
LEMMA ConcludeFacts ==
  ASSUME TypeOK, NEW d \in Delivery, NEW a \in Action, NEW ok \in BOOLEAN,
         NEW s \in [Member -> Update \cup {None, Fresh}], Conclude(d, a, s, ok)
  PROVE  /\ session' \in [Member -> Update \cup {None, Fresh}]
         /\ memory' \in [Member -> Update \cup {None}]
         /\ reviews' \subseteq Delivery
         /\ pc' = [pc EXCEPT ![d] = IF OpensReview(a) THEN "notifying" ELSE "acked"]
         /\ reviews' = IF OpensReview(a) THEN reviews \cup {d} ELSE reviews
BY TraitFacts, SessionTypes DEF Conclude, TypeOK

LEMMA RefuseStep ==
  ASSUME IInv, NEW d \in Delivery, Refuse(d)
  PROVE  IInv'
<1>1. session' \in [Member -> Update \cup {None, Fresh}]
  BY TraitFacts DEF IInv, Refuse, TypeOK, ReadSession, Fresh
<1>2. /\ pc[d] = "idle" /\ pc' = [pc EXCEPT ![d] = "error"]
      /\ UNCHANGED <<about, trait, sender, mode, restarts, under, action, attempt,
                     memory, effects, reviews>>
  BY DEF Refuse, Delivered, input
<1>3. TypeOK'
  BY <1>1, <1>2 DEF IInv, TypeOK
<1>4. ActionsPermitted'
  BY <1>2 DEF IInv, TypeOK, ActionsPermitted, Of
<1>5. HistoryFollows'
  BY <1>2 DEF IInv, TypeOK, HistoryFollows, OpensReview
<1> QED BY <1>3, <1>4, <1>5 DEF IInv

-----------------------------------------------------------------------------
\* A delivery that was decided in its first step.
LEMMA DecideStep ==
  ASSUME IInv, NEW d \in Delivery, NEW v \in Verdict, NEW ok \in BOOLEAN,
         Decide(d, v, ok)
  PROVE  IInv'
<1> PICK a : a = ActionOf(d, v)
  OBVIOUS
<1>1. a \in Action /\ Permitted(mode, Of(d), a) /\ a # None
  BY ActionFacts DEF IInv, Action, Executable, Punishment, SafetyAction
<1> PICK s : s = ReadSession(Who(d), ok)
  OBVIOUS
<1>2. s \in [Member -> Update \cup {None, Fresh}]
  BY TraitFacts, SessionTypes DEF IInv, TypeOK
<1>3. /\ pc[d] = "idle"
      /\ under' = [under EXCEPT ![d] = mode]
      /\ action' = [action EXCEPT ![d] = a]
      /\ UNCHANGED <<about, trait, sender, mode, restarts, attempt, effects>>
  BY DEF Decide, Delivered, input
<1>4. \/ /\ a \in Executable
         /\ pc' = [pc EXCEPT ![d] = "token"]
         /\ session' = s /\ memory' = memory /\ reviews' = reviews
      \/ /\ a \notin Executable
         /\ \E again \in BOOLEAN : Conclude(d, a, s, again)
  BY DEF Decide
<1>5. /\ session' \in [Member -> Update \cup {None, Fresh}]
      /\ memory' \in [Member -> Update \cup {None}]
      /\ reviews' \subseteq Delivery
      /\ \/ /\ a \in Executable /\ pc' = [pc EXCEPT ![d] = "token"]
            /\ reviews' = reviews
         \/ /\ a \notin Executable /\ OpensReview(a)
            /\ pc' = [pc EXCEPT ![d] = "notifying"]
            /\ reviews' = reviews \cup {d}
         \/ /\ a \notin Executable /\ ~OpensReview(a)
            /\ pc' = [pc EXCEPT ![d] = "acked"]
            /\ reviews' = reviews
  <2>1. CASE a \in Executable
    BY <1>2, <1>4, <2>1 DEF IInv, TypeOK
  <2>2. CASE a \notin Executable
    <3> PICK again \in BOOLEAN : Conclude(d, a, s, again)
      BY <1>4, <2>2
    <3> QED BY <1>1, <1>2, <2>2, ConcludeFacts DEF IInv
  <2> QED BY <2>1, <2>2
<1>6. TypeOK'
  BY <1>1, <1>3, <1>5, TraitFacts DEF IInv, TypeOK
<1>7. ActionsPermitted'
  <2> SUFFICES ASSUME NEW e \in Delivery
      PROVE  IF pc'[e] \in {"idle", "error"} THEN action'[e] = None /\ under'[e] = None
             ELSE action'[e] \in Action /\ Permitted(under'[e], Of(e), action'[e])
    BY <1>3 DEF ActionsPermitted, Of
  <2>1. CASE e = d
    BY <1>1, <1>3, <1>5, <2>1 DEF IInv, TypeOK
  <2>2. CASE e # d
    BY <1>3, <1>5, <2>2 DEF IInv, TypeOK, ActionsPermitted
  <2> QED BY <2>1, <2>2
<1>8. HistoryFollows'
  <2> SUFFICES ASSUME NEW e \in Delivery
      PROVE  /\ pc'[e] \in {"token", "posting"} => action'[e] \in Executable
             /\ effects'[e] \subseteq {action'[e]}
             /\ e \in reviews' => OpensReview(action'[e])
             /\ pc'[e] = "acked" /\ OpensReview(action'[e]) => e \in reviews'
             /\ pc'[e] = "notifying" => e \in reviews'
    BY DEF HistoryFollows, OpensReview
  <2>1. CASE e = d
    <3>1. effects[d] = {} /\ d \notin reviews
      BY <1>3 DEF IInv, TypeOK, ActionsPermitted, HistoryFollows, OpensReview,
                  Executable, Punishment, SafetyAction
    <3>2. action'[d] = a
      BY <1>3 DEF IInv, TypeOK
    <3> QED BY <1>3, <1>5, <2>1, <3>1, <3>2 DEF IInv, TypeOK
  <2>2. CASE e # d
    BY <1>3, <1>5, <2>2 DEF IInv, TypeOK, HistoryFollows, OpensReview
  <2> QED BY <2>1, <2>2
<1> QED BY <1>6, <1>7, <1>8 DEF IInv

\* A step of a delivery in hand: what it decided stays, and so does all but its
\* own place, effects and review.
LEMMA HandledStep ==
  ASSUME IInv, NEW d \in Delivery, pc[d] \in {"token", "posting", "notifying"},
         UNCHANGED <<about, trait, sender, mode, restarts, under, action>>,
         session' \in [Member -> Update \cup {None, Fresh}],
         memory' \in [Member -> Update \cup {None}],
         attempt' \in [Delivery -> 0..Retries],
         effects' = effects \/ (/\ action[d] \in Executable
                                /\ effects' = [effects EXCEPT ![d] = @ \cup {action[d]}]),
         \/ /\ action[d] \in Executable /\ pc' = pc /\ reviews' = reviews
         \/ /\ action[d] \in Executable /\ pc' = [pc EXCEPT ![d] = "posting"]
            /\ reviews' = reviews
         \/ /\ OpensReview(action[d]) /\ pc' = [pc EXCEPT ![d] = "notifying"]
            /\ reviews' = reviews \cup {d}
         \/ /\ OpensReview(action[d]) => d \in reviews
            /\ pc' = [pc EXCEPT ![d] = "acked"] /\ reviews' = reviews
  PROVE  IInv'
<1>1. effects' \in [Delivery -> SUBSET Executable]
  BY DEF IInv, TypeOK
<1>2. TypeOK'
  BY <1>1 DEF IInv, TypeOK
<1>3. ActionsPermitted'
  <2> SUFFICES ASSUME NEW e \in Delivery
      PROVE  IF pc'[e] \in {"idle", "error"} THEN action[e] = None /\ under[e] = None
             ELSE action[e] \in Action /\ Permitted(under[e], Of(e), action[e])
    BY DEF ActionsPermitted, Of
  <2> QED BY DEF IInv, TypeOK, ActionsPermitted
<1>4. HistoryFollows'
  <2> SUFFICES ASSUME NEW e \in Delivery
      PROVE  /\ pc'[e] \in {"token", "posting"} => action[e] \in Executable
             /\ effects'[e] \subseteq {action[e]}
             /\ e \in reviews' => OpensReview(action[e])
             /\ pc'[e] = "acked" /\ OpensReview(action[e]) => e \in reviews'
             /\ pc'[e] = "notifying" => e \in reviews'
    BY DEF HistoryFollows, OpensReview
  <2>1. effects'[e] \subseteq {action[e]}
    BY DEF IInv, TypeOK, HistoryFollows
  <2> QED BY <2>1 DEF IInv, TypeOK, HistoryFollows
<1> QED BY <1>2, <1>3, <1>4 DEF IInv

LEMMA TokenStep ==
  ASSUME IInv, NEW d \in Delivery, NEW found \in BOOLEAN, NEW ok \in BOOLEAN,
         ResolveToken(d, found, ok)
  PROVE  IInv'
<1>1. /\ pc[d] = "token"
      /\ UNCHANGED <<about, trait, sender, mode, restarts, under, action, attempt,
                     effects>>
  BY DEF ResolveToken, input
<1>2. action[d] \in Executable /\ action[d] \in Action /\ ~OpensReview(action[d])
  BY <1>1 DEF IInv, HistoryFollows, Action, OpensReview, Executable, Punishment, SafetyAction
<1>3. CASE found /\ Of(d).message
  <2>1. pc' = [pc EXCEPT ![d] = "posting"] /\ UNCHANGED <<session, memory, reviews>>
    BY <1>3 DEF ResolveToken, stores
  <2> QED BY <1>1, <1>2, <2>1, HandledStep DEF IInv, TypeOK
<1>4. CASE ~(found /\ Of(d).message)
  <2>1. Conclude(d, action[d], session, ok)
    BY <1>4 DEF ResolveToken
  <2>2. /\ session' \in [Member -> Update \cup {None, Fresh}]
        /\ memory' \in [Member -> Update \cup {None}]
        /\ pc' = [pc EXCEPT ![d] = "acked"] /\ reviews' = reviews
    BY <1>2, <2>1, ConcludeFacts DEF IInv, TypeOK
  <2> QED BY <1>1, <1>2, <2>2, HandledStep DEF IInv, TypeOK
<1> QED BY <1>3, <1>4

LEMMA PostStep ==
  ASSUME IInv, NEW d \in Delivery, NEW answer, NEW carried \in BOOLEAN,
         NEW ok \in BOOLEAN, PostTelegramApi(d, answer, carried, ok)
  PROVE  IInv'
<1>1. /\ pc[d] = "posting"
      /\ effects' = effects \/ effects' = [effects EXCEPT ![d] = @ \cup {action[d]}]
      /\ UNCHANGED <<about, trait, sender, mode, restarts, under, action>>
  BY DEF PostTelegramApi, input
<1>2. action[d] \in Executable /\ action[d] \in Action /\ ~OpensReview(action[d])
  BY <1>1 DEF IInv, HistoryFollows, Action, OpensReview, Executable, Punishment, SafetyAction
<1>3. CASE answer = "down" /\ attempt[d] < Retries
  <2>1. /\ attempt' = [attempt EXCEPT ![d] = @ + 1]
        /\ UNCHANGED <<pc, session, memory, reviews>>
    BY <1>3 DEF PostTelegramApi, stores
  <2>2. attempt' \in [Delivery -> 0..Retries]
    BY <1>3, <2>1, BoundAssumption DEF IInv, TypeOK
  <2>3. /\ session' \in [Member -> Update \cup {None, Fresh}]
        /\ memory' \in [Member -> Update \cup {None}]
    BY <2>1 DEF IInv, TypeOK
  <2> QED BY <1>1, <1>2, <2>1, <2>2, <2>3, HandledStep
<1>4. CASE ~(answer = "down" /\ attempt[d] < Retries)
  <2>1. Conclude(d, action[d], session, ok) /\ attempt' = attempt
    BY <1>4 DEF PostTelegramApi
  <2>2. /\ session' \in [Member -> Update \cup {None, Fresh}]
        /\ memory' \in [Member -> Update \cup {None}]
        /\ pc' = [pc EXCEPT ![d] = "acked"] /\ reviews' = reviews
    BY <1>2, <2>1, ConcludeFacts DEF IInv, TypeOK
  <2>3. attempt' \in [Delivery -> 0..Retries]
    BY <2>1 DEF IInv, TypeOK
  <2> QED BY <1>1, <1>2, <2>2, <2>3, HandledStep
<1> QED BY <1>3, <1>4

LEMMA NotifiedStep ==
  ASSUME IInv, NEW d \in Delivery, Notified(d)
  PROVE  IInv'
<1>1. /\ pc[d] = "notifying" /\ pc' = [pc EXCEPT ![d] = "acked"]
      /\ UNCHANGED <<about, trait, sender, mode, restarts, under, action, attempt,
                     session, memory, effects, reviews>>
  BY DEF Notified, input, stores
<1>2. d \in reviews
  BY <1>1 DEF IInv, HistoryFollows
<1> QED BY <1>1, <1>2, HandledStep DEF IInv, TypeOK

LEMMA RestartStep == ASSUME IInv, Restart PROVE IInv'
<1>1. /\ restarts < MaxRestarts /\ restarts' = restarts + 1
      /\ mode' \in Modes
      /\ pc' = [d \in Delivery |->
                 IF pc[d] \in {"token", "posting", "notifying"} THEN "lost" ELSE pc[d]]
      /\ memory' = [m \in Member |-> None]
      /\ UNCHANGED <<about, trait, sender, under, action, attempt, session,
                     effects, reviews>>
  BY DEF Restart, input
<1>2. TypeOK'
  BY <1>1, BoundAssumption DEF IInv, TypeOK
<1>3. ActionsPermitted'
  <2> SUFFICES ASSUME NEW e \in Delivery
      PROVE  IF pc'[e] \in {"idle", "error"} THEN action[e] = None /\ under[e] = None
             ELSE action[e] \in Action /\ Permitted(under[e], Of(e), action[e])
    BY <1>1 DEF ActionsPermitted, Of
  <2> QED BY <1>1 DEF IInv, TypeOK, ActionsPermitted
<1>4. HistoryFollows'
  BY <1>1 DEF IInv, TypeOK, HistoryFollows, OpensReview
<1> QED BY <1>2, <1>3, <1>4 DEF IInv

-----------------------------------------------------------------------------
\* No step of any delivery, nor a restart, breaks the
\* invariant: what a delivery does was permitted in the mode it was decided in.
THEOREM Permissions == Spec => []IInv
<1>1. Init => IInv
  BY InitInv
<1>2. IInv /\ [Next]_vars => IInv'
  <2> SUFFICES ASSUME IInv, [Next]_vars PROVE IInv'
    OBVIOUS
  <2>1. ASSUME NEW d \in Delivery, NEW v \in Verdict, NEW ok \in BOOLEAN, Decide(d, v, ok)
        PROVE  IInv'
    BY <2>1, DecideStep
  <2>2. ASSUME NEW d \in Delivery, Refuse(d) PROVE IInv'
    BY <2>2, RefuseStep
  <2>3. ASSUME NEW d \in Delivery, Handle(d) PROVE IInv'
    BY <2>3, TokenStep, PostStep DEF Handle
  <2>4. ASSUME NEW d \in Delivery, Notified(d) PROVE IInv'
    BY <2>4, NotifiedStep
  <2>5. CASE Restart
    BY <2>5, RestartStep
  <2>6. CASE UNCHANGED vars
    BY <2>6 DEF vars, input, handling, stores, IInv, TypeOK, ActionsPermitted,
                HistoryFollows, OpensReview, Of
  <2> QED BY <2>1, <2>2, <2>3, <2>4, <2>5, <2>6 DEF Next
<1> QED BY <1>1, <1>2, PTL DEF Spec

\* The variables of the webhook keep their types.
THEOREM GuardTypes == Spec => []TypeOK
<1>1. IInv => TypeOK
  BY DEF IInv
<1> QED BY <1>1, Permissions, PTL

\* In observe mode Telegram is asked for nothing, and only safety escalations
\* open reviews.
THEOREM ObserveOnly == Spec => []ObserveHoldsBack
<1>1. IInv => ObserveHoldsBack
  BY DEF IInv, TypeOK, ActionsPermitted, HistoryFollows, Permitted, ObserveHoldsBack,
         Executable, Punishment
<1> QED BY <1>1, Permissions, PTL

\* Nobody is banned or kicked without an admin but in enforce mode.
THEOREM EnforceOnly == Spec => []PunishedInEnforceOnly
<1>1. IInv => PunishedInEnforceOnly
  BY DEF IInv, TypeOK, ActionsPermitted, HistoryFollows, Permitted,
         PunishedInEnforceOnly, Executable, Punishment
<1> QED BY <1>1, Permissions, PTL

\* A safety escalation leads to a review and to nothing else, in every mode.
THEOREM SafetyReviewed == Spec => []SafetyIsReviewed
<1>1. IInv => SafetyIsReviewed
  <2> SUFFICES ASSUME IInv, NEW d \in Delivery, Of(d).safety # None
      PROVE  effects[d] = {} /\ (pc[d] = "acked" => d \in reviews)
    BY DEF SafetyIsReviewed
  <2>1. Of(d).safety \in SafetyAction
    BY TraitFacts DEF IInv
  <2>2. action[d] \notin Executable /\ (pc[d] = "acked" => OpensReview(action[d]))
    BY <2>1 DEF IInv, ActionsPermitted, Permitted, OpensReview, Executable, Punishment,
                SafetyAction
  <2> QED BY <2>2 DEF IInv, TypeOK, HistoryFollows
<1> QED BY <1>1, Permissions, PTL

\* An update that Telegram delivers again after an error has had no effect yet.
THEOREM FailuresAreClean == Spec => []FailedHadNoEffect
<1>1. IInv => FailedHadNoEffect
  BY DEF IInv, TypeOK, ActionsPermitted, HistoryFollows, FailedHadNoEffect, OpensReview,
         Executable, Punishment, SafetyAction
<1> QED BY <1>1, Permissions, PTL
=============================================================================
