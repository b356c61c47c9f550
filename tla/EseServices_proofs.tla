------------------------- MODULE EseServices_proofs -------------------------
(* Proofs about the services around the pipeline of src/ese: model calls, for any     *)
(* number of callers and retries; evidence decisions, for any directories, operators  *)
(* and runs; extension groups of any length; and configurations of any teams.         *)
EXTENDS AdapterCalls, RunEvidence, Extensions, EseConfig,
        FiniteSetTheorems, SequenceTheorems, WellFoundedInduction, TLAPS

(***************************************************************************)
(* AdapterCalls                                                            *)
(***************************************************************************)

USE DEF Over, Checking

\* An adapter that is not resolved is neither local nor among the resolved ones.
LEMMA UnresolvedIsNone == Unresolved \notin Setup /\ Unresolved.adapter = "none"
BY DEF Unresolved, Setup

LEMMA CallsInitInv == CallsInit => CallsInv
<1> SUFFICES ASSUME CallsInit PROVE CallsInv
  OBVIOUS
<1>1. CallsTypeOK
  <2>1. attempt \in [Caller -> 0..(MaxRetries + 1)] /\ downs \in 0..MaxDowns
    BY CallAssumption DEF CallsInit
  <2>2. callPc \in [Caller -> {"idle", "sending", "sleeping"} \cup Checking \cup Over]
    BY DEF CallsInit
  <2>3. answer \in [Caller -> Answer \cup {"none"}]
    BY DEF CallsInit
  <2>4. setup \in Setup \cup {Unresolved}
    BY DEF CallsInit
  <2> QED BY <2>1, <2>2, <2>3, <2>4 DEF CallsInit, CallsTypeOK
<1>2. (\A c \in Caller : CallAt(c)) /\ ListedFirst
  BY CallAssumption, UnresolvedIsNone DEF CallsInit, CallAt, ListedFirst
<1> QED BY <1>1, <1>2 DEF CallsInv

LEMMA AnswerKinds ==
  /\ Passing \subseteq Answer
  /\ "text" \in Answer /\ "text" \notin Passing /\ "none" \notin Answer
BY DEF Answer, Passing, Final

\* A step of one call, in which nothing but its place, the cache, the server and the
\* list may change, keeps the invariant when the place it goes to is in order.
LEMMA PlaceStep ==
  ASSUME CallsInv, NEW c \in Caller, NEW at, At(c, at),
         setup \in Setup, UNCHANGED <<setup, attempt, answer>>,
         at \in {"sending", "sleeping"} \cup Checking \cup Over,
         at \in Checking => attempt[c] = 0,
         at \in {"sending", "sleeping"} => attempt[c] <= MaxRetries,
         server' \in {"down", "starting", "up"},
         downs' = downs, ready' \in BOOLEAN, listed' \in BOOLEAN,
         listed => listed',
         setup.adapter = "local" /\ setup.models =>
           ((ready' \/ at \in {"sending", "sleeping"}) => listed')
  PROVE  CallsInv'
<1>1. /\ callPc' = [callPc EXCEPT ![c] = at]
      /\ \A d \in Caller : callPc'[d] = IF d = c THEN at ELSE callPc[d]
  BY DEF At, CallsInv, CallsTypeOK
<1>2. CallsTypeOK'
  <2>1. callPc' \in [Caller -> {"idle", "sending", "sleeping"} \cup Checking \cup Over]
    BY <1>1 DEF CallsInv, CallsTypeOK
  <2> QED BY <2>1 DEF CallsInv, CallsTypeOK
<1>3. ASSUME NEW d \in Caller PROVE CallAt(d)'
  BY <1>1 DEF CallsInv, CallAt
<1>4. ListedFirst'
  BY <1>1, UnresolvedIsNone DEF CallsInv, ListedFirst
<1> QED BY <1>2, <1>3, <1>4 DEF CallsInv

\* Marking ready leaves a cache that is ready, or as it was.
LEMMA MarkedIsReady ==
  ASSUME CallsInv, NEW c \in Caller, MarkReady(c)
  PROVE  ready' \in {TRUE, ready}
BY DEF MarkReady

LEMMA CheckedGoes ==
  ASSUME NEW c \in Caller, Checked(c)
  PROVE  At(c, "failed") \/ At(c, "sending")
BY DEF Checked

LEMMA ResolveInv == CallsInv /\ ResolveAdapter => CallsInv'
<1> SUFFICES ASSUME CallsInv, ResolveAdapter PROVE CallsInv'
  OBVIOUS
<1>1. \A c \in Caller : callPc[c] = "idle" /\ attempt[c] = 0
  BY UnresolvedIsNone DEF CallsInv, CallAt, ResolveAdapter, CallsTypeOK
<1>2. CallsTypeOK'
  BY DEF CallsInv, CallsTypeOK, ResolveAdapter
<1>3. ASSUME NEW c \in Caller PROVE CallAt(c)'
  BY <1>1, CallAssumption DEF CallAt, ResolveAdapter
<1>4. ListedFirst'
  BY <1>1, UnresolvedIsNone DEF CallsInv, ListedFirst, ResolveAdapter
<1> QED BY <1>2, <1>3, <1>4 DEF CallsInv

LEMMA BeginInv == ASSUME CallsInv, NEW c \in Caller, Begin(c) PROVE CallsInv'
<1>1. setup \in Setup
  BY UnresolvedIsNone DEF CallsInv, CallsTypeOK, Begin
<1>2. /\ attempt[c] = 0
      /\ UNCHANGED <<setup, attempt, answer, ready, server, downs, listed>>
  BY DEF CallsInv, CallAt, Begin
<1>3. \/ At(c, "failed") \/ At(c, "probing")
      \/ At(c, "sending") /\ (setup.adapter = "local" => ready)
  BY DEF Begin, Checked
<1>4. CASE At(c, "failed")
  BY <1>1, <1>2, <1>4, PlaceStep DEF CallsInv, CallsTypeOK, ListedFirst
<1>5. CASE At(c, "probing")
  BY <1>1, <1>2, <1>5, PlaceStep DEF CallsInv, CallsTypeOK, ListedFirst
<1>6. CASE At(c, "sending") /\ (setup.adapter = "local" => ready)
  BY <1>1, <1>2, <1>6, PlaceStep, CallAssumption DEF CallsInv, CallsTypeOK, ListedFirst
<1> QED BY <1>3, <1>4, <1>5, <1>6

LEMMA CustomInv == ASSUME CallsInv, NEW c \in Caller, CallCustom(c) PROVE CallsInv'
<1>1. setup \in Setup
  BY UnresolvedIsNone DEF CallsInv, CallsTypeOK, CallCustom
<1>2. PICK v \in Over : At(c, v)
  BY DEF CallCustom
<1> QED BY <1>1, <1>2, PlaceStep DEF CallsInv, CallsTypeOK, ListedFirst, CallCustom

\* The server runs: what is required is listed, or nothing is and the call goes on.
LEMMA RunningInv ==
  ASSUME CallsInv, NEW c \in Caller, setup \in Setup, attempt[c] = 0, Running(c),
         UNCHANGED <<setup, attempt, answer, server, downs, listed>>
  PROVE  CallsInv'
<1>1. CASE setup.models
  BY <1>1, PlaceStep DEF Running, CallsInv, CallsTypeOK, ListedFirst
<1>2. CASE ~setup.models
  <2>1. ready' \in BOOLEAN /\ (At(c, "failed") \/ At(c, "sending"))
    BY <1>2, MarkedIsReady, CheckedGoes DEF Running, CallsInv, CallsTypeOK
  <2> QED BY <1>2, <2>1, PlaceStep, CallAssumption DEF CallsInv, CallsTypeOK
<1> QED BY <1>1, <1>2

LEMMA ProbeInv == ASSUME CallsInv, NEW c \in Caller, Probe(c) PROVE CallsInv'
<1>1. setup \in Setup /\ attempt[c] = 0
      /\ UNCHANGED <<setup, attempt, answer, downs, listed>>
  BY DEF CallsInv, CallAt, Probe
<1>2. CASE server = "up" /\ Running(c) /\ UNCHANGED server
  BY <1>1, <1>2, RunningInv
<1>3. CASE At(c, "failed") /\ UNCHANGED <<ready, server>>
  BY <1>1, <1>3, PlaceStep DEF CallsInv, CallsTypeOK, ListedFirst
<1>4. CASE At(c, "waiting") /\ server' = "starting" /\ UNCHANGED ready
  BY <1>1, <1>4, PlaceStep DEF CallsInv, CallsTypeOK, ListedFirst
<1> QED BY <1>2, <1>3, <1>4 DEF Probe

LEMMA WaitInv == ASSUME CallsInv, NEW c \in Caller, WaitForOllama(c) PROVE CallsInv'
<1>1. setup \in Setup /\ attempt[c] = 0
      /\ UNCHANGED <<setup, attempt, answer, server, downs, listed>>
  BY DEF CallsInv, CallAt, WaitForOllama
<1>2. CASE Running(c)
  BY <1>1, <1>2, RunningInv
<1>3. CASE At(c, "failed") /\ UNCHANGED ready
  BY <1>1, <1>3, PlaceStep DEF CallsInv, CallsTypeOK, ListedFirst
<1> QED BY <1>2, <1>3 DEF WaitForOllama

LEMMA ListInv == ASSUME CallsInv, NEW c \in Caller, ListModels(c) PROVE CallsInv'
<1>1. setup \in Setup /\ attempt[c] = 0
      /\ UNCHANGED <<setup, attempt, answer, server, downs>>
  BY DEF CallsInv, CallAt, ListModels
<1>2. CASE At(c, "failed") /\ UNCHANGED <<ready, listed>>
  BY <1>1, <1>2, PlaceStep DEF CallsInv, CallsTypeOK, ListedFirst
<1>3. CASE listed' = TRUE /\ MarkReady(c) /\ Checked(c)
  <2>1. ready' \in BOOLEAN /\ (At(c, "failed") \/ At(c, "sending"))
    BY <1>3, MarkedIsReady, CheckedGoes DEF CallsInv, CallsTypeOK
  <2> QED BY <1>1, <1>3, <2>1, PlaceStep, CallAssumption DEF CallsInv, CallsTypeOK
<1> QED BY <1>2, <1>3 DEF ListModels

\* Where a try leaves its call.
LEMMA ReplyIs ==
  ASSUME NEW c \in Caller, NEW a \in Answer
  PROVE  /\ a = "text" => Reply(c, a) = "answered"
         /\ a \in Passing /\ attempt[c] < MaxRetries => Reply(c, a) = "sleeping"
         /\ a # "text" /\ ~(a \in Passing /\ attempt[c] < MaxRetries) =>
              Reply(c, a) = "failed"
BY AnswerKinds DEF Reply

LEMMA TryInv == ASSUME CallsInv, NEW c \in Caller, Try(c) PROVE CallsInv'
<1>1. /\ setup \in Setup /\ attempt[c] \in 0..MaxRetries
      /\ callPc[c] = "sending"
      /\ attempt' = [attempt EXCEPT ![c] = @ + 1]
      /\ UNCHANGED <<setup, ready, server, downs, listed>>
  BY CallAssumption DEF CallsInv, CallsTypeOK, CallAt, Try
<1>2. PICK a \in Answer : answer' = [answer EXCEPT ![c] = a] /\ At(c, Reply(c, a))
  BY DEF Try
<1>3. /\ Reply(c, a) \in {"sleeping"} \cup Over
      /\ Reply(c, a) = "sleeping" => attempt[c] < MaxRetries
  BY ReplyIs
<1>4. PICK at : at = Reply(c, a)
  OBVIOUS
<1>5. \A d \in Caller : /\ callPc'[d] = IF d = c THEN at ELSE callPc[d]
                        /\ attempt'[d] = IF d = c THEN attempt[c] + 1 ELSE attempt[d]
  BY <1>1, <1>2, <1>4 DEF At, CallsInv, CallsTypeOK
<1>6. CallsTypeOK'
  <2>1. callPc' \in [Caller -> {"idle", "sending", "sleeping"} \cup Checking \cup Over]
    BY <1>2, <1>3 DEF At, CallsInv, CallsTypeOK
  <2>2. attempt' \in [Caller -> 0..(MaxRetries + 1)]
    BY <1>1, CallAssumption DEF CallsInv, CallsTypeOK
  <2>3. answer' \in [Caller -> Answer \cup {"none"}]
    BY <1>2 DEF CallsInv, CallsTypeOK
  <2> QED BY <1>1, <2>1, <2>2, <2>3 DEF CallsInv, CallsTypeOK
<1>7. ASSUME NEW d \in Caller PROVE CallAt(d)'
  BY <1>1, <1>3, <1>4, <1>5, CallAssumption DEF CallsInv, CallAt
<1>8. ListedFirst'
  BY <1>1, <1>5, UnresolvedIsNone DEF CallsInv, ListedFirst
<1> QED BY <1>6, <1>7, <1>8 DEF CallsInv

LEMMA WakeInv == ASSUME CallsInv, NEW c \in Caller, Wake(c) PROVE CallsInv'
<1>1. /\ setup \in Setup /\ attempt[c] <= MaxRetries
      /\ callPc[c] = "sleeping" /\ At(c, "sending")
      /\ UNCHANGED <<setup, attempt, answer, ready, server, downs, listed>>
  BY DEF CallsInv, CallAt, Wake
<1> QED BY <1>1, PlaceStep DEF CallsInv, CallsTypeOK, ListedFirst

LEMMA ServerInv == CallsInv /\ ServerMoves => CallsInv'
<1> SUFFICES ASSUME CallsInv, ServerMoves PROVE CallsInv'
  OBVIOUS
<1>1. CallsTypeOK'
  BY CallAssumption DEF CallsInv, CallsTypeOK, ServerMoves
<1> QED BY <1>1 DEF CallsInv, CallAt, ListedFirst, ServerMoves

LEMMA CallsStepInv == CallsInv /\ [CallsNext]_callVars => CallsInv'
<1> SUFFICES ASSUME CallsInv, [CallsNext]_callVars PROVE CallsInv'
  OBVIOUS
<1>1. CASE UNCHANGED callVars
  BY <1>1 DEF callVars, CallsInv, CallsTypeOK, CallAt, ListedFirst
<1>2. CASE CallsNext
  BY <1>2, ResolveInv, BeginInv, CustomInv, ProbeInv, WaitInv, ListInv, TryInv, WakeInv,
     ServerInv DEF CallsNext, Step
<1> QED BY <1>1, <1>2

\* CallsInv holds of every batch of calls.
THEOREM CallsInvariant == CallsSpec => []CallsInv
BY CallsInitInv, CallsStepInv, PTL DEF CallsSpec

\* ensure_local_runtime_ready: no request of a local model is sent before the models
\* of every role were listed.
THEOREM ListedBeforeSent == CallsSpec => []SentOnlyWhenListed
<1>1. CallsInv => SentOnlyWhenListed
  BY DEF CallsInv, ListedFirst, SentOnlyWhenListed
<1> QED BY <1>1, CallsInvariant, PTL

(***************************************************************************)
(* A call is one call: AdapterCalls implements OneCall.                    *)
(***************************************************************************)
LastOf == [c \in Caller |->
  IF answer[c] = "none" THEN "none"
  ELSE IF answer[c] = "text" THEN "good"
  ELSE IF answer[c] \in Passing THEN "passing" ELSE "final"]

VerdictOf == [c \in Caller |-> IF callPc[c] \in Over THEN callPc[c] ELSE "open"]

\* A call that goes from one place to another before its verdict is a stutter.
LEMMA PlaceStutters ==
  ASSUME CallsInv, NEW c \in Caller, callPc[c] \notin Over,
         NEW at, at \notin Over, At(c, at), UNCHANGED <<attempt, answer>>
  PROVE  UNCHANGED <<attempt, LastOf, VerdictOf>>
<1>1. \A d \in Caller : callPc'[d] = IF d = c THEN at ELSE callPc[d]
  BY DEF At, CallsInv, CallsTypeOK
<1>2. LastOf' = LastOf
  BY DEF LastOf
<1>3. VerdictOf' = VerdictOf
  <2>1. \A d \in Caller : (IF callPc'[d] \in Over THEN callPc'[d] ELSE "open")
                            = (IF callPc[d] \in Over THEN callPc[d] ELSE "open")
    BY <1>1
  <2> QED BY <2>1 DEF VerdictOf
<1> QED BY <1>2, <1>3

\* A verdict without a request is a refusal, or an adapter of the user's own.
LEMMA VerdictSteps ==
  ASSUME CallsInv, NEW c \in Caller, callPc[c] \notin Over, attempt[c] = 0,
         NEW v \in Over, At(c, v), UNCHANGED <<attempt, answer>>
  PROVE  Promise!OneCallNext
<1>1. \A d \in Caller : callPc'[d] = IF d = c THEN v ELSE callPc[d]
  BY DEF At, CallsInv, CallsTypeOK
<1>2. LastOf' = LastOf
  BY DEF LastOf
<1>3. VerdictOf[c] = "open" /\ VerdictOf' = [VerdictOf EXCEPT ![c] = v]
  BY <1>1 DEF VerdictOf
<1>4. CASE v = "failed"
  <2>1. Promise!Refuse(c)
    BY <1>2, <1>3, <1>4 DEF Promise!Refuse, LastOf, VerdictOf
  <2> QED BY <2>1 DEF Promise!OneCallNext
<1>5. CASE v = "answered"
  <2>1. Promise!Own(c)
    BY <1>2, <1>3, <1>5 DEF Promise!Own, LastOf, VerdictOf
  <2> QED BY <2>1 DEF Promise!OneCallNext
<1> QED BY <1>4, <1>5

LEMMA CheckedImplements ==
  ASSUME CallsInv, NEW c \in Caller, callPc[c] \notin Over, attempt[c] = 0,
         NEW at, at \in {"failed", "sending"} \cup Checking, At(c, at),
         UNCHANGED <<attempt, answer>>
  PROVE  Promise!OneCallNext \/ UNCHANGED <<attempt, LastOf, VerdictOf>>
<1>1. CASE at = "failed"
  BY <1>1, VerdictSteps
<1>2. CASE at # "failed"
  <2>1. at \notin Over
    BY <1>2
  <2> QED BY <2>1, PlaceStutters
<1> QED BY <1>1, <1>2

LEMMA TryImplements ==
  ASSUME CallsInv, NEW c \in Caller, Try(c)
  PROVE  Promise!OneCallNext
<1>1. /\ callPc[c] = "sending" /\ attempt[c] \in 0..MaxRetries
      /\ attempt' = [attempt EXCEPT ![c] = @ + 1]
  BY CallAssumption DEF CallsInv, CallsTypeOK, CallAt, Try
<1>2. PICK a \in Answer : answer' = [answer EXCEPT ![c] = a] /\ At(c, Reply(c, a))
  BY DEF Try
<1>3. PICK at : at = Reply(c, a)
  OBVIOUS
<1>4. /\ \A d \in Caller : callPc'[d] = IF d = c THEN at ELSE callPc[d]
      /\ \A d \in Caller : answer'[d] = IF d = c THEN a ELSE answer[d]
  BY <1>2, <1>3 DEF At, CallsInv, CallsTypeOK
<1>5. PICK l : l = IF a = "text" THEN "good" ELSE IF a \in Passing THEN "passing" ELSE "final"
  OBVIOUS
<1>6. PICK v : v = IF at \in Over THEN at ELSE "open"
  OBVIOUS
<1>7. LastOf' = [LastOf EXCEPT ![c] = l]
  <2>1. a # "none"
    BY AnswerKinds
  <2> QED BY <1>4, <1>5, <2>1 DEF LastOf
<1>8. VerdictOf[c] = "open" /\ VerdictOf' = [VerdictOf EXCEPT ![c] = v]
  BY <1>1, <1>4, <1>6 DEF VerdictOf
<1>9. /\ l \in {"good", "passing", "final"}
      /\ l = "good" => v = "answered"
      /\ l = "final" => v = "failed"
      /\ l = "passing" => v = IF attempt[c] = MaxRetries THEN "failed" ELSE "open"
  <2>1. CASE a = "text"
    BY <1>3, <1>5, <1>6, <2>1, ReplyIs
  <2>2. CASE a \in Passing
    <3>1. a # "text" /\ l = "passing"
      BY <1>5, <2>2, AnswerKinds
    <3>2. attempt[c] < MaxRetries <=> attempt[c] # MaxRetries
      BY <1>1, CallAssumption
    <3> QED BY <1>3, <1>6, <2>2, <3>1, <3>2, ReplyIs
  <2>3. CASE a # "text" /\ a \notin Passing
    BY <1>3, <1>5, <1>6, <2>3, ReplyIs
  <2> QED BY <2>1, <2>2, <2>3
<1>10. v = CASE l = "good" -> "answered"
             [] l = "final" -> "failed"
             [] l = "passing" -> IF attempt[c] = MaxRetries THEN "failed" ELSE "open"
  BY <1>9
<1>11. attempt[c] <= MaxRetries
  BY <1>1, CallAssumption
<1>12. Promise!Attempt(c)
  BY <1>1, <1>7, <1>8, <1>9, <1>10, <1>11 DEF Promise!Attempt, LastOf, VerdictOf
<1> QED BY <1>12 DEF Promise!OneCallNext

\* Every other step of a call is a stutter, or its verdict.
LEMMA OthersImplement ==
  ASSUME CallsInv, NEW c \in Caller,
         Begin(c) \/ CallCustom(c) \/ Probe(c) \/ WaitForOllama(c) \/ ListModels(c)
  PROVE  Promise!OneCallNext \/ UNCHANGED <<attempt, LastOf, VerdictOf>>
<1>1. callPc[c] \notin Over /\ attempt[c] = 0 /\ UNCHANGED <<attempt, answer>>
  BY DEF CallsInv, CallAt, Begin, CallCustom, Probe, WaitForOllama, ListModels
<1>2. CASE CallCustom(c)
  <2>1. PICK v \in Over : At(c, v)
    BY <1>2 DEF CallCustom
  <2> QED BY <1>1, <2>1, VerdictSteps
<1>3. CASE Begin(c) \/ Probe(c) \/ WaitForOllama(c) \/ ListModels(c)
  <2>1. \E at \in {"failed", "sending"} \cup Checking : At(c, at)
    BY <1>3 DEF Begin, Probe, WaitForOllama, ListModels, Running, Checked
  <2> QED BY <1>1, <2>1, CheckedImplements
<1> QED BY <1>2, <1>3

LEMMA StepImplements ==
  CallsInv /\ [CallsNext]_callVars
    => Promise!OneCallNext \/ UNCHANGED <<attempt, LastOf, VerdictOf>>
<1> SUFFICES ASSUME CallsInv, [CallsNext]_callVars
    PROVE  Promise!OneCallNext \/ UNCHANGED <<attempt, LastOf, VerdictOf>>
  OBVIOUS
<1>1. CASE UNCHANGED <<callPc, attempt, answer>>
  BY <1>1 DEF LastOf, VerdictOf
<1>2. ASSUME NEW c \in Caller, Wake(c)
      PROVE  UNCHANGED <<attempt, LastOf, VerdictOf>>
  BY <1>2, PlaceStutters DEF Wake
<1> QED BY <1>1, <1>2, TryImplements, OthersImplement
    DEF CallsNext, Step, callVars, ResolveAdapter, ServerMoves

\* A call keeps the promise of OneCall: at most max_retries further tries, each after
\* a passing failure, and one verdict for the pipeline.
THEOREM CallsAreOneCalls == CallsSpec => CallIsOneCall
<1>1. CallsInit => Promise!OneCallInit
  BY DEF CallsInit, Promise!OneCallInit
<1>2. CallsInv /\ [CallsNext]_callVars => [Promise!OneCallNext]_(Promise!oneCallVars)
  BY StepImplements DEF Promise!oneCallVars, LastOf, VerdictOf
<1> QED BY <1>1, <1>2, CallsInvariant, PTL DEF CallsSpec, CallIsOneCall, Promise!OneCallSpec

HIDE DEF Over, Checking

(***************************************************************************)
(* RunEvidence                                                             *)
(***************************************************************************)

StateRecord == [run : 0..MaxRun, whole : BOOLEAN, status : RunStatus \cup {"none"},
           history : Seq(Entries)]

WorkRecord == [at : InHand \cup {"idle", "done", "failed"},
               job : {"none", "decide", "publish", "feedback"},
               dir : Dir \cup {"none"}, run : 0..MaxRun, state : EvidenceState \cup {"none"},
               prev : EvidenceState \cup {"none"}, copy : StateRecord, items : SUBSET Operator]

Artifacts ==
  [run : 0..MaxRun, status : RunStatus \cup {"none"}, blocked : BOOLEAN, whole : BOOLEAN]

EvidenceTypes ==
  /\ record \in [Dir -> StateRecord]
  /\ findings \in [Dir -> Artifacts]
  /\ plan \in [Dir -> [run : 0..MaxRun, ready : BOOLEAN]]
  /\ writer \in [Dir -> {"idle", "roles", "state", "extras"}]
  /\ runs \in 0..MaxRun
  /\ op \in [Operator -> WorkRecord]
  /\ feedback \in [items : SUBSET Operator, whole : BOOLEAN]

\* An operator at work has a directory, or the feedback store.
Busy(o) == op[o].at \in InHand
WorkInv ==
  \A o \in Operator :
    /\ op[o].at \in {"idle", "failed"} => op[o] = [NoWork EXCEPT !.at = op[o].at]
    /\ Busy(o) => IF op[o].job = "feedback"
                  THEN op[o].at \in {"loaded", "cut"} /\ op[o].dir = "none"
                  ELSE /\ op[o].job \in {"decide", "publish"} /\ op[o].dir \in Dir
                       /\ op[o].state \in EvidenceState /\ op[o].prev \in EvidenceState
                       /\ op[o].run # 0
    /\ op[o].at = "done" /\ op[o].job # "feedback" => op[o].dir \in Dir

\* Runs are numbered in the order they begin: what is read of a directory is of a run
\* before the one that is being written there.
NumberInv ==
  /\ \A d \in Dir : /\ record[d].run <= runs /\ findings[d].run <= runs /\ plan[d].run <= runs
                    /\ writer[d] \in {"roles", "state"} => record[d].run < findings[d].run
  /\ \A o \in Operator : op[o].run <= runs /\ op[o].copy.run <= runs
  /\ \A o \in Operator : \A d \in Dir :
       op[o].dir = d /\ writer[d] \in {"roles", "state"} =>
         op[o].run < findings[d].run /\ op[o].copy.run < findings[d].run

\* The file a release simulation is in, and the record, say of a run what its
\* artifacts say, as long as these are there.
PlanInv ==
  /\ \A d \in Dir :
       /\ findings[d].run # 0 /\ record[d].run = findings[d].run =>
            record[d].status = findings[d].status
       /\ plan[d].ready => plan[d].run # 0
       /\ plan[d].ready /\ plan[d].run = findings[d].run =>
            findings[d].status = "completed" /\ ~findings[d].blocked
  /\ \A o \in Operator : \A d \in Dir :
       op[o].dir = d /\ findings[d].run # 0 /\ op[o].copy.run = findings[d].run =>
         op[o].copy.status = findings[d].status

InHandOf(o, d) == op[o].dir = d /\ Busy(o)

\* What an operator has in hand of a directory is what is there, nobody else has it
\* while it is written, and the directory's history is made of what was decided.
HeldInv(d) ==
  /\ writer[d] = "state" => ~record[d].whole /\ \A o \in Operator : ~InHandOf(o, d)
  /\ \A o \in Operator : InHandOf(o, d) =>
       /\ op[o].run = record[d].run
       /\ record[d].history # <<>> =>
            op[o].prev = record[d].history[Len(record[d].history)].state
       /\ op[o].at \in {"loaded", "cut"} =>
            op[o].copy.run = record[d].run /\ op[o].copy.history = record[d].history
       /\ op[o].at # "shown" /\ op[o].job = "publish" => <<d, record[d].run>> \in published
       /\ op[o].at = "cut" => ~record[d].whole /\ \A p \in Operator \ {o} : ~InHandOf(p, d)
  /\ \A o \in Operator :
       op[o].at = "done" /\ op[o].job # "feedback" /\ op[o].dir = d /\ op[o].run = record[d].run =>
         \E k \in DOMAIN record[d].history : record[d].history[k].by = o
  /\ \A k \in DOMAIN record[d].history :
       /\ op[record[d].history[k].by].at = "done"
       /\ op[record[d].history[k].by].run = record[d].run
       /\ k > 1 => record[d].history[k].prev = record[d].history[k - 1].state
       /\ record[d].history[k].source = "publish" => <<d, record[d].run>> \in published

\* What an operator has in hand of the feedback store.
Filing(o) == op[o].job = "feedback" /\ Busy(o)
StoreInv ==
  StoreName \notin overlapped =>
    /\ \A o \in Operator : Filing(o) =>
         /\ op[o].items = feedback.items
         /\ op[o].at = "cut" => ~feedback.whole /\ \A p \in Operator \ {o} : ~Filing(p)
    /\ \A o \in Operator : op[o].at = "done" /\ op[o].job = "feedback" => o \in feedback.items

EvidenceInv ==
  /\ EvidenceTypes /\ WorkInv /\ NumberInv /\ PlanInv
  /\ \A d \in Dir \ overlapped : HeldInv(d)
  /\ StoreInv

LEMMA InHandIs == InHand = {"shown", "sent", "loaded", "cut"}
  BY DEF InHand

LEMMA HistoryIs ==
  ASSUME EvidenceTypes, NEW d \in Dir
  PROVE  /\ record[d] \in StateRecord /\ record[d].history \in Seq(Entries)
         /\ \A k \in DOMAIN record[d].history :
              record[d].history[k] \in Entries /\ record[d].history[k].by \in Operator
<1>1. record[d] \in StateRecord /\ record[d].history \in Seq(Entries)
  BY DEF EvidenceTypes, StateRecord
<1>2. \A k \in DOMAIN record[d].history : record[d].history[k] \in Entries
  BY <1>1
<1> QED
  BY <1>1, <1>2 DEF Entries

\* A directory whose record, and what is in hand of it, stays.
LEMMA HeldFrame ==
  ASSUME NEW d \in Dir, HeldInv(d), EvidenceTypes,
         record'[d].run = record[d].run, record'[d].history = record[d].history,
         record'[d].whole => record[d].whole,
         writer'[d] = "state" => writer[d] = "state", published \subseteq published',
         \A o \in Operator : op[o].at = "done" => op'[o] = op[o],
         \A o \in Operator : InHandOf(o, d)' => op'[o] = op[o],
         \A o \in Operator :
           op'[o].at = "done" /\ op'[o].job # "feedback" /\ op'[o].dir = d => op'[o] = op[o]
  PROVE  HeldInv(d)'
<1>1. \A k \in DOMAIN record[d].history : record[d].history[k].by \in Operator
  <2>1. record[d].history \in Seq(Entries)
    BY DEF EvidenceTypes, Artifacts, StateRecord
  <2>2. \A k \in DOMAIN record[d].history : record[d].history[k] \in Entries
    BY <2>1
  <2> QED
    BY <2>2 DEF Entries
<1>2. writer'[d] = "state" => ~record'[d].whole /\ \A o \in Operator : ~InHandOf(o, d)'
  BY DEF HeldInv, InHandOf, Busy
<1>3. ASSUME NEW o \in Operator, InHandOf(o, d)'
      PROVE  /\ op'[o].run = record'[d].run
             /\ record'[d].history # <<>> =>
                  op'[o].prev = record'[d].history[Len(record'[d].history)].state
             /\ op'[o].at \in {"loaded", "cut"} =>
                  op'[o].copy.run = record'[d].run /\ op'[o].copy.history = record'[d].history
             /\ op'[o].at # "shown" /\ op'[o].job = "publish" => <<d, record'[d].run>> \in published'
             /\ op'[o].at = "cut" => ~record'[d].whole /\ \A p \in Operator \ {o} : ~InHandOf(p, d)'
  <2>1. op'[o] = op[o] /\ InHandOf(o, d)
    BY <1>3 DEF InHandOf, Busy
  <2>2. \A p \in Operator : InHandOf(p, d)' => InHandOf(p, d)
    BY DEF InHandOf, Busy
  <2> QED
    BY <2>1, <2>2 DEF HeldInv
<1>4. ASSUME NEW o \in Operator, op'[o].at = "done", op'[o].job # "feedback",
             op'[o].dir = d, op'[o].run = record'[d].run
      PROVE  \E k \in DOMAIN record'[d].history : record'[d].history[k].by = o
  BY <1>4 DEF HeldInv
<1>5. ASSUME NEW k \in DOMAIN record'[d].history
      PROVE  /\ op'[record'[d].history[k].by].at = "done"
             /\ op'[record'[d].history[k].by].run = record'[d].run
             /\ k > 1 => record'[d].history[k].prev = record'[d].history[k - 1].state
             /\ record'[d].history[k].source = "publish" => <<d, record'[d].run>> \in published'
  BY <1>1, <1>5 DEF HeldInv
<1> QED
  BY <1>2, <1>3, <1>4, <1>5 DEF HeldInv

\* A run of the pipeline begins: its number is new.
LEMMA WriteRolesStep ==
  ASSUME EvidenceInv, NEW d \in Dir, WriteRoles(d)
  PROVE  EvidenceInv'
<1> USE EvidenceAssumption
<1>1. PICK x \in Outcome :
        findings' = [findings EXCEPT ![d] = [run |-> runs + 1, status |-> x[1],
                                             blocked |-> x[2], whole |-> FALSE]]
  BY DEF WriteRoles
<1>2. x[1] \in RunStatus /\ x[2] \in BOOLEAN
  <2>1. x[1] \in RunStatus
    BY DEF RunStatus
  <2>2. x[2] \in BOOLEAN
    <3>1. \A y : \A z \in BOOLEAN : <<y, z>>[2] \in BOOLEAN
      OBVIOUS
    <3>2. \E y : \E z \in BOOLEAN : x = <<y, z>>
      BY DEF Outcome
    <3> QED
      BY <3>2
  <2> QED
    BY <2>1, <2>2
<1>3. /\ writer[d] = "idle" /\ writer' = [writer EXCEPT ![d] = "roles"]
      /\ runs < MaxRun /\ runs' = runs + 1
      /\ UNCHANGED <<record, plan, op, feedback, published, overlapped>>
  BY DEF WriteRoles, RunAt
<1>4. EvidenceTypes
  BY DEF EvidenceInv
<1>5. EvidenceTypes'
  BY <1>1, <1>2, <1>3, <1>4 DEF EvidenceTypes, Artifacts
<1>6. runs \in Nat /\ DOMAIN findings = Dir /\ DOMAIN writer = Dir
  BY <1>4 DEF EvidenceTypes, Artifacts
<1>7. WorkInv'
  BY <1>3 DEF EvidenceInv, WorkInv, Busy
<1>8. NumberInv'
  <2>1. \A e \in Dir : record[e].run \in Nat /\ findings[e].run \in Nat /\ plan[e].run \in Nat
    BY <1>4 DEF EvidenceTypes, Artifacts, StateRecord
  <2>2. \A o \in Operator : op[o].run \in Nat /\ op[o].copy.run \in Nat
    BY <1>4 DEF EvidenceTypes, Artifacts, WorkRecord, StateRecord
  <2>3. \A e \in Dir : findings'[e].run = IF e = d THEN runs + 1 ELSE findings[e].run
    BY <1>1, <1>6
  <2>4. \A e \in Dir \ {d} : writer'[e] = writer[e]
    BY <1>3, <1>6
  <2> QED
    BY <1>3, <1>6, <2>1, <2>2, <2>3, <2>4 DEF EvidenceInv, NumberInv
<1>9. PlanInv'
  <2>1. \A e \in Dir : record[e].run \in Nat /\ plan[e].run \in Nat
    BY <1>4 DEF EvidenceTypes, Artifacts, StateRecord
  <2>2. \A o \in Operator : op[o].copy.run \in Nat
    BY <1>4 DEF EvidenceTypes, Artifacts, WorkRecord, StateRecord
  <2>3. findings'[d].run = runs + 1 /\ \A e \in Dir \ {d} : findings'[e] = findings[e]
    BY <1>1, <1>6
  <2> QED
    BY <1>3, <1>6, <2>1, <2>2, <2>3 DEF EvidenceInv, NumberInv, PlanInv
<1>10. \A e \in Dir \ overlapped' : HeldInv(e)'
  <2>1. \A e \in Dir : writer'[e] = "state" => writer[e] = "state"
    BY <1>3, <1>6
  <2> QED
    BY <1>3, <1>4, <2>1, HeldFrame DEF EvidenceInv, InHandOf, Busy
<1>11. StoreInv'
  BY <1>3 DEF EvidenceInv, StoreInv, Filing, Busy
<1> QED
  BY <1>5, <1>7, <1>8, <1>9, <1>10, <1>11 DEF EvidenceInv

\* A file opened to be written is cut short, and keeps in the model what it had.
LEMMA CutFacts ==
  ASSUME EvidenceTypes, NEW d \in Dir, NEW me, CutRecord(d, me)
  PROVE  /\ record' \in [Dir -> StateRecord]
         /\ ~record'[d].whole
         /\ record'[d].run = record[d].run /\ record'[d].status = record[d].status
         /\ record'[d].history = record[d].history
         /\ \A e \in Dir \ {d} : record'[e] = record[e]
         /\ overlapped \subseteq overlapped'
         /\ d \notin overlapped' => \A o \in Operator \ {me} : ~InHandOf(o, d)
<1>1. record \in [Dir -> StateRecord] /\ record' = [record EXCEPT ![d].whole = FALSE]
  BY DEF EvidenceTypes, Artifacts, CutRecord
<1>2. /\ record' \in [Dir -> StateRecord]
      /\ ~record'[d].whole
      /\ record'[d].run = record[d].run /\ record'[d].status = record[d].status
      /\ record'[d].history = record[d].history
      /\ \A e \in Dir \ {d} : record'[e] = record[e]
  BY <1>1 DEF StateRecord
<1>3. overlapped' = overlapped \cup
        {e \in {d} : \E o \in Operator \ {me} : op[o].dir = e /\ op[o].at \in InHand}
  BY DEF CutRecord
<1> QED
  BY <1>2, <1>3 DEF InHandOf, Busy

\* The roles are written and the state file is opened.
LEMMA RolesDoneStep ==
  ASSUME EvidenceInv, NEW d \in Dir, RolesDone(d)
  PROVE  EvidenceInv'
<1> USE EvidenceAssumption
<1>1. /\ writer[d] = "roles" /\ writer' = [writer EXCEPT ![d] = "state"]
      /\ findings' = [findings EXCEPT ![d].whole = TRUE]
      /\ CutRecord(d, "none")
      /\ UNCHANGED <<plan, runs, op, feedback, published>>
  BY DEF RolesDone, RunAt
<1>2. EvidenceTypes
  BY DEF EvidenceInv
<1>3. /\ record' \in [Dir -> StateRecord]
      /\ ~record'[d].whole
      /\ record'[d].run = record[d].run /\ record'[d].status = record[d].status
      /\ record'[d].history = record[d].history
      /\ \A e \in Dir \ {d} : record'[e] = record[e]
      /\ overlapped \subseteq overlapped'
      /\ d \notin overlapped' => \A o \in Operator \ {"none"} : ~InHandOf(o, d)
  BY <1>1, <1>2, CutFacts
<1>4. \A e \in Dir : /\ findings'[e].run = findings[e].run
                     /\ findings'[e].status = findings[e].status
                     /\ findings'[e].blocked = findings[e].blocked
  BY <1>1, <1>2 DEF EvidenceTypes, Artifacts
<1>5. /\ writer'[d] = "state"
      /\ \A e \in Dir \ {d} : writer'[e] = writer[e]
  BY <1>1, <1>2 DEF EvidenceTypes, Artifacts
<1>6. EvidenceTypes'
  <2>1. findings' \in [Dir -> Artifacts]
    <3>1. findings \in [Dir -> Artifacts]
      BY <1>2 DEF EvidenceTypes, Artifacts
    <3>2. \A f \in Artifacts : [f EXCEPT !.whole = TRUE] \in Artifacts
      BY DEF Artifacts
    <3> QED
      BY <1>1, <3>1, <3>2
  <2>2. writer' \in [Dir -> {"idle", "roles", "state", "extras"}]
    BY <1>1, <1>2 DEF EvidenceTypes, Artifacts
  <2> QED
    BY <1>1, <1>2, <1>3, <2>1, <2>2 DEF EvidenceTypes, Artifacts
<1>7. WorkInv'
  BY <1>1 DEF EvidenceInv, WorkInv, Busy
<1>8. NumberInv'
  BY <1>1, <1>3, <1>4, <1>5 DEF EvidenceInv, NumberInv
<1>9. PlanInv'
  BY <1>1, <1>3, <1>4 DEF EvidenceInv, PlanInv
<1>10. ASSUME NEW e \in Dir \ overlapped'
       PROVE  HeldInv(e)'
  <2>1. HeldInv(e)
    BY <1>3 DEF EvidenceInv
  <2>2. CASE e # d
    BY <1>1, <1>2, <1>3, <1>5, <2>1, <2>2, HeldFrame DEF InHandOf, Busy
  <2>3. CASE e = d
    <3>1. \A o \in Operator : ~InHandOf(o, d)
      BY <1>3, <2>3
    <3>2. \A o \in Operator : ~InHandOf(o, d)'
      BY <1>1, <3>1 DEF InHandOf, Busy
    <3>3. \A o \in Operator : op'[o] = op[o]
      BY <1>1
    <3>4. published' = published
      BY <1>1
    <3>5. ASSUME NEW k \in DOMAIN record[d].history
          PROVE  record[d].history[k].by \in Operator
      BY <1>2, HistoryIs
    <3>6. /\ record'[d].run = record[d].run /\ record'[d].history = record[d].history
          /\ ~record'[d].whole
      BY <1>3
    <3> QED
      BY <2>1, <2>3, <3>2, <3>3, <3>4, <3>5, <3>6 DEF HeldInv
  <2> QED
    BY <2>2, <2>3
<1>11. StoreInv'
  BY <1>1, <1>3 DEF EvidenceInv, StoreInv, Filing, Busy
<1> QED
  BY <1>6, <1>7, <1>8, <1>9, <1>10, <1>11 DEF EvidenceInv

\* The record of a run is written: nothing has been decided about it.
LEMMA WriteRecordStep ==
  ASSUME EvidenceInv, NEW d \in Dir, WriteRecord(d)
  PROVE  EvidenceInv'
<1> USE EvidenceAssumption
<1>1. /\ writer[d] = "state" /\ writer' = [writer EXCEPT ![d] = "extras"]
      /\ record' = [record EXCEPT ![d] = NewRecord(d)]
      /\ UNCHANGED <<findings, plan, runs, op, feedback, published, overlapped>>
  BY DEF WriteRecord, RunAt
<1>2. EvidenceTypes
  BY DEF EvidenceInv
<1>3. /\ NewRecord(d) \in StateRecord /\ NewRecord(d).run = findings[d].run
      /\ NewRecord(d).status = findings[d].status /\ NewRecord(d).history = <<>>
  <2>1. findings[d].run \in 0..MaxRun /\ findings[d].status \in RunStatus \cup {"none"}
    BY <1>2 DEF EvidenceTypes, Artifacts
  <2>2. <<>> \in Seq(Entries)
    OBVIOUS
  <2> QED
    BY <2>1, <2>2 DEF NewRecord, StateRecord
<1>4. /\ record'[d] = NewRecord(d) /\ \A e \in Dir \ {d} : record'[e] = record[e]
      /\ writer'[d] = "extras" /\ \A e \in Dir \ {d} : writer'[e] = writer[e]
  BY <1>1, <1>2 DEF EvidenceTypes, Artifacts
<1>5. EvidenceTypes'
  <2>1. record' \in [Dir -> StateRecord]
    BY <1>1, <1>2, <1>3 DEF EvidenceTypes, Artifacts
  <2> QED
    BY <1>1, <1>2, <2>1 DEF EvidenceTypes, Artifacts
<1>6. WorkInv'
  BY <1>1 DEF EvidenceInv, WorkInv, Busy
<1>7. NumberInv'
  BY <1>1, <1>3, <1>4 DEF EvidenceInv, NumberInv
<1>8. PlanInv'
  BY <1>1, <1>3, <1>4 DEF EvidenceInv, PlanInv
<1>9. ASSUME NEW e \in Dir \ overlapped'
      PROVE  HeldInv(e)'
  <2>1. HeldInv(e)
    BY <1>1 DEF EvidenceInv
  <2>2. CASE e # d
    BY <1>1, <1>2, <1>4, <2>1, <2>2, HeldFrame DEF InHandOf, Busy
  <2>3. CASE e = d
    <3>1. \A o \in Operator : ~InHandOf(o, d)'
      BY <1>1, <2>1, <2>3 DEF InHandOf, Busy, HeldInv
    <3>2. \A o \in Operator : op'[o] = op[o]
      BY <1>1
    <3>3. \A o \in Operator : op[o].dir = d => op[o].run # record'[d].run
      <4>1. \A o \in Operator : op[o].dir = d => op[o].run < findings[d].run
        BY <1>1 DEF EvidenceInv, NumberInv
      <4>2. findings[d].run \in Nat /\ \A o \in Operator : op[o].run \in Nat
        BY <1>2 DEF EvidenceTypes, Artifacts, WorkRecord
      <4> QED
        BY <1>3, <1>4, <4>1, <4>2
    <3>4. record'[d].history = <<>> /\ DOMAIN record'[d].history = {}
      BY <1>3, <1>4
    <3>5. writer'[d] # "state"
      BY <1>4
    <3> QED
      BY <2>3, <3>1, <3>2, <3>3, <3>4, <3>5 DEF HeldInv
  <2> QED
    BY <2>2, <2>3
<1>10. StoreInv'
  BY <1>1 DEF EvidenceInv, StoreInv, Filing, Busy
<1> QED
  BY <1>5, <1>6, <1>7, <1>8, <1>9, <1>10 DEF EvidenceInv

\* The release simulation is written from the report, or not at all.
LEMMA WriteExtrasStep ==
  ASSUME EvidenceInv, NEW d \in Dir, WriteExtras(d)
  PROVE  EvidenceInv'
<1> USE EvidenceAssumption
<1>1. /\ writer[d] = "extras" /\ writer' = [writer EXCEPT ![d] = "idle"]
      /\ UNCHANGED <<record, findings, runs, op, feedback, published, overlapped>>
  BY DEF WriteExtras, RunAt
<1>2. \/ /\ Reportable(d)
         /\ plan' = [plan EXCEPT ![d] = [run |-> record[d].run, ready |-> ReadyForRelease(d)]]
      \/ UNCHANGED plan
  BY DEF WriteExtras
<1>3. EvidenceTypes
  BY DEF EvidenceInv
<1>4. ReadyForRelease(d) \in BOOLEAN
  BY DEF ReadyForRelease
<1>5. EvidenceTypes'
  <2>1. record[d].run \in 0..MaxRun
    BY <1>3 DEF EvidenceTypes, Artifacts, StateRecord
  <2>2. plan' \in [Dir -> [run : 0..MaxRun, ready : BOOLEAN]]
    BY <1>2, <1>3, <1>4, <2>1 DEF EvidenceTypes, Artifacts
  <2> QED
    BY <1>1, <1>3, <2>2 DEF EvidenceTypes, Artifacts
<1>6. WorkInv'
  BY <1>1 DEF EvidenceInv, WorkInv, Busy
<1>7. \A e \in Dir : writer'[e] \in {"roles", "state"} => writer'[e] = writer[e]
  BY <1>1, <1>3 DEF EvidenceTypes, Artifacts
<1>8. \A e \in Dir : plan'[e].run <= runs
  BY <1>2, <1>3 DEF EvidenceInv, NumberInv, EvidenceTypes
<1>9. NumberInv'
  BY <1>1, <1>7, <1>8 DEF EvidenceInv, NumberInv
<1>10. PlanInv'
  <2>1. ASSUME NEW e \in Dir, plan'[e].ready
        PROVE  /\ plan'[e].run # 0
               /\ plan'[e].run = findings[e].run =>
                    findings[e].status = "completed" /\ ~findings[e].blocked
    <3>1. CASE plan'[e] = plan[e]
      BY <2>1, <3>1 DEF EvidenceInv, PlanInv
    <3>2. CASE plan'[e] # plan[e]
      <4>1. /\ e = d /\ Reportable(d)
            /\ plan'[e] = [run |-> record[d].run, ready |-> ReadyForRelease(d)]
        BY <1>2, <1>3, <3>2 DEF EvidenceTypes, Artifacts
      <4>2. record[d].run # 0 /\ ReadyForRelease(d)
        BY <2>1, <4>1 DEF Reportable, Legible
      <4> QED
        BY <4>1, <4>2 DEF ReadyForRelease, EvidenceInv, PlanInv
    <3> QED
      BY <3>1, <3>2
  <2> QED
    BY <1>1, <2>1 DEF EvidenceInv, PlanInv
<1>11. \A e \in Dir \ overlapped' : HeldInv(e)'
  BY <1>1, <1>3, <1>7, HeldFrame DEF EvidenceInv, InHandOf, Busy
<1>12. StoreInv'
  BY <1>1 DEF EvidenceInv, StoreInv, Filing, Busy
<1> QED
  BY <1>5, <1>6, <1>9, <1>10, <1>11, <1>12 DEF EvidenceInv

\* A run is killed, which leaves a state file it had opened cut short.
LEMMA KillRunStep ==
  ASSUME EvidenceInv, NEW d \in Dir, KillRun(d)
  PROVE  EvidenceInv'
<1>1. /\ writer' = [writer EXCEPT ![d] = "idle"]
      /\ overlapped \subseteq overlapped'
      /\ UNCHANGED <<record, findings, plan, runs, op, feedback, published>>
  BY DEF KillRun
<1>2. EvidenceTypes
  BY DEF EvidenceInv
<1>3. EvidenceTypes'
  BY <1>1, <1>2 DEF EvidenceTypes, Artifacts
<1>4. \A e \in Dir : writer'[e] \in {"roles", "state"} => writer'[e] = writer[e]
  BY <1>1, <1>2 DEF EvidenceTypes, Artifacts
<1>5. WorkInv' /\ StoreInv'
  BY <1>1 DEF EvidenceInv, WorkInv, StoreInv, Filing, Busy
<1>6. NumberInv' /\ PlanInv'
  BY <1>1, <1>4 DEF EvidenceInv, NumberInv, PlanInv
<1>7. \A e \in Dir \ overlapped' : HeldInv(e)'
  BY <1>1, <1>2, <1>4, HeldFrame DEF EvidenceInv, InHandOf, Busy
<1> QED
  BY <1>3, <1>5, <1>6, <1>7 DEF EvidenceInv

NoRecordTyped == NoRecord \in StateRecord
LEMMA NoRecordIs == NoRecordTyped /\ NoRecord.run = 0
<1>1. <<>> \in Seq(Entries)
  OBVIOUS
<1> QED
  BY <1>1, EvidenceAssumption DEF NoRecordTyped, NoRecord, StateRecord

\* A step of an operator that writes no artifacts: its numbers are those it had, or
\* those of its directory; so are its directory's.
LEMMA OperatorStep ==
  ASSUME EvidenceInv, NEW o \in Operator, NEW w \in WorkRecord, op' = [op EXCEPT ![o] = w],
         UNCHANGED <<findings, plan, writer, runs>>, record' \in [Dir -> StateRecord],
         \A e \in Dir :
           \/ record'[e].run = record[e].run /\ record'[e].status = record[e].status
           \/ /\ e = op[o].dir
              /\ record'[e].run = op[o].copy.run /\ record'[e].status = op[o].copy.status,
         \/ w.run = 0
         \/ w.dir = op[o].dir /\ w.run = op[o].run
         \/ w.dir \in Dir /\ w.run = record[w.dir].run,
         \/ w.copy.run = 0
         \/ w.dir = op[o].dir /\ w.copy = op[o].copy
         \/ w.dir \in Dir /\ w.copy = record[w.dir],
         w.at \in {"idle", "failed"} => w = [NoWork EXCEPT !.at = w.at],
         w.at \in InHand =>
           IF w.job = "feedback" THEN w.at \in {"loaded", "cut"} /\ w.dir = "none"
           ELSE /\ w.job \in {"decide", "publish"} /\ w.dir \in Dir
                /\ w.state \in EvidenceState /\ w.prev \in EvidenceState /\ w.run # 0,
         w.at = "done" /\ w.job # "feedback" => w.dir \in Dir
  PROVE  op' \in [Operator -> WorkRecord] /\ WorkInv' /\ NumberInv' /\ PlanInv'
<1>1. op \in [Operator -> WorkRecord]
  BY DEF EvidenceInv, EvidenceTypes
<1>2. op' \in [Operator -> WorkRecord] /\ op'[o] = w /\ \A p \in Operator \ {o} : op'[p] = op[p]
  BY <1>1
<1>3. WorkInv'
  BY <1>2 DEF EvidenceInv, WorkInv, Busy
<1>4. \A e \in Dir : /\ record[e].run \in Nat /\ record'[e].run \in Nat
                     /\ findings[e].run \in Nat
  BY EvidenceAssumption DEF EvidenceInv, EvidenceTypes, StateRecord, Artifacts
<1>5. /\ \A p \in Operator : op[p].run \in Nat /\ op[p].copy.run \in Nat
      /\ w.run \in Nat /\ w.copy.run \in Nat /\ runs \in Nat
  BY EvidenceAssumption DEF EvidenceInv, EvidenceTypes, WorkRecord, StateRecord
<1>6. NumberInv
  BY DEF EvidenceInv
<1>7. w.run <= runs /\ w.copy.run <= runs
  BY <1>5, <1>6 DEF NumberInv
<1>8. ASSUME NEW e \in Dir, w.dir = e, writer[e] \in {"roles", "state"}
      PROVE  w.run < findings[e].run /\ w.copy.run < findings[e].run
  BY <1>4, <1>5, <1>6, <1>8 DEF NumberInv
<1>9. NumberInv'
  BY <1>2, <1>6, <1>7, <1>8 DEF NumberInv
<1>10. PlanInv
  BY DEF EvidenceInv
<1>11. \A e \in Dir : findings[e].run # 0 /\ record'[e].run = findings[e].run =>
         record'[e].status = findings[e].status
  BY <1>10 DEF PlanInv
<1>12. \A e \in Dir : w.dir = e /\ findings[e].run # 0 /\ w.copy.run = findings[e].run =>
         w.copy.status = findings[e].status
  BY <1>10 DEF PlanInv
<1>13. PlanInv'
  BY <1>2, <1>10, <1>11, <1>12 DEF PlanInv
<1> QED
  BY <1>2, <1>3, <1>9, <1>13

\* A step of an operator that does not file feedback leaves the store as it is.
LEMMA StoreFrame ==
  ASSUME EvidenceInv, NEW o \in Operator, NEW w \in WorkRecord, op' = [op EXCEPT ![o] = w],
         feedback' = feedback, overlapped \subseteq overlapped',
         w.job = "feedback" => w.at \notin InHand \cup {"done"}
  PROVE  StoreInv'
<1>1. op'[o] = w /\ \A p \in Operator \ {o} : op'[p] = op[p]
  BY DEF EvidenceInv, EvidenceTypes
<1>2. ~Filing(o)' /\ \A p \in Operator \ {o} : Filing(p)' <=> Filing(p)
  BY <1>1 DEF Filing, Busy
<1> QED
  BY <1>1, <1>2 DEF EvidenceInv, StoreInv

\* ... and, in another directory than its own, the record and what is in hand of it.
LEMMA ElsewhereHeld ==
  ASSUME EvidenceInv, NEW o \in Operator, NEW w \in WorkRecord, op' = [op EXCEPT ![o] = w],
         op[o].at # "done", NEW e \in Dir, HeldInv(e), w.dir # e,
         record'[e].run = record[e].run, record'[e].history = record[e].history,
         record'[e].whole => record[e].whole, writer' = writer, published \subseteq published'
  PROVE  HeldInv(e)'
<1>1. op'[o] = w /\ \A p \in Operator \ {o} : op'[p] = op[p]
  BY DEF EvidenceInv, EvidenceTypes
<1>2. EvidenceTypes
  BY DEF EvidenceInv
<1> QED
  BY <1>1, <1>2, HeldFrame DEF InHandOf, Busy

\* The report of a directory is shown: what it says is what is there.
LEMMA ShowReportStep ==
  ASSUME EvidenceInv, NEW o \in Operator, NEW d \in Asked, ShowReport(o, d)
  PROVE  EvidenceInv'
<1>1. PICK v \in {<<"decide", "approved">>, <<"publish", "released">>} :
        op' = [op EXCEPT ![o] = [NoWork EXCEPT !.at = "shown", !.job = v[1], !.dir = d,
                !.run = record[d].run, !.state = v[2], !.prev = Evidence(d)]]
  BY DEF ShowReport
<1>2. PICK w : w = [NoWork EXCEPT !.at = "shown", !.job = v[1], !.dir = d,
                !.run = record[d].run, !.state = v[2], !.prev = Evidence(d)]
  OBVIOUS
<1>3. /\ op[o].at = "idle" /\ Legible(d)
      /\ UNCHANGED <<record, findings, plan, recent, writer, runs, feedback, published, overlapped>>
  BY DEF ShowReport, Reportable
<1>4. d \in Dir
  BY EvidenceAssumption
<1>5. EvidenceTypes
  BY DEF EvidenceInv
<1>6. record[d] \in StateRecord /\ record[d].history \in Seq(Entries)
  BY <1>4, <1>5 DEF EvidenceTypes, StateRecord
<1>7. record[d].history # <<>> =>
        /\ Evidence(d) = record[d].history[Len(record[d].history)].state
        /\ record[d].history[Len(record[d].history)] \in Entries
  BY <1>6 DEF Evidence
<1>8. Evidence(d) \in EvidenceState
  <2>1. CASE record[d].history = <<>>
    BY <2>1 DEF Evidence, Derived, EvidenceState
  <2>2. CASE record[d].history # <<>>
    BY <2>2, <1>7 DEF Entries
  <2> QED
    BY <2>1, <2>2
<1>9. v[1] \in {"decide", "publish"} /\ v[2] \in EvidenceState
  BY DEF EvidenceState
<1>10. /\ w.at = "shown" /\ w.job = v[1] /\ w.dir = d /\ w.run = record[d].run
       /\ w.state = v[2] /\ w.prev = Evidence(d) /\ w.copy = NoRecord
       /\ w \in WorkRecord
  <2>1. record[d].run \in 0..MaxRun
    BY <1>6 DEF StateRecord
  <2> QED
    BY <1>2, <1>4, <1>8, <1>9, <2>1, NoRecordIs DEF NoWork, NoRecordTyped, WorkRecord, InHand
<1> HIDE DEF NoWork
<1>11. op' = [op EXCEPT ![o] = w] /\ w \in WorkRecord
  BY <1>1, <1>2, <1>10
<1>12. op' \in [Operator -> WorkRecord] /\ WorkInv' /\ NumberInv' /\ PlanInv'
  <2>1. record' \in [Dir -> StateRecord] /\ record[d].run # 0
    BY <1>3, <1>5 DEF EvidenceTypes, Legible
  <2> QED
    BY <1>3, <1>4, <1>8, <1>9, <1>10, <1>11, <2>1, NoRecordIs, OperatorStep
<1>13. EvidenceTypes'
  BY <1>3, <1>5, <1>12 DEF EvidenceTypes
<1>14. StoreInv'
  BY <1>3, <1>9, <1>10, <1>11, StoreFrame
<1>15. op'[o] = w /\ \A p \in Operator \ {o} : op'[p] = op[p]
  BY <1>5, <1>11 DEF EvidenceTypes
<1>16. ASSUME NEW e \in Dir \ overlapped'
       PROVE  HeldInv(e)'
  <2>1. HeldInv(e)
    BY <1>3 DEF EvidenceInv
  <2>2. CASE e # d
    BY <1>3, <1>10, <1>11, <2>1, <2>2, ElsewhereHeld
  <2>3. CASE e = d
    <3>1. record[d].whole
      BY <1>3 DEF Legible
    <3>2. writer[d] # "state" /\ \A p \in Operator : InHandOf(p, d) => op[p].at # "cut"
      BY <2>1, <2>3, <3>1 DEF HeldInv
    <3>3. InHandOf(o, d)' /\ \A p \in Operator \ {o} : InHandOf(p, d)' <=> InHandOf(p, d)
      BY <1>10, <1>15, InHandIs DEF InHandOf, Busy
    <3>4. \A k \in DOMAIN record[d].history : record[d].history[k].by \in Operator \ {o}
      <4>1. \A k \in DOMAIN record[d].history : record[d].history[k].by \in Operator
        BY <1>4, <1>5, HistoryIs
      <4> QED
        BY <1>3, <2>1, <2>3, <4>1 DEF HeldInv
    <3> QED
      BY <1>3, <1>7, <1>10, <1>15, <2>1, <2>3, <3>1, <3>2, <3>3, <3>4 DEF HeldInv
  <2> QED
    BY <2>2, <2>3
<1> QED
  BY <1>12, <1>13, <1>14, <1>16 DEF EvidenceInv

\* An operator's own step that goes on in its directory, the record of which stays or
\* is cut short.
LEMMA OwnStep ==
  ASSUME EvidenceInv, NEW o \in Operator, NEW w \in WorkRecord, op' = [op EXCEPT ![o] = w],
         op[o].at \in InHand, w.at \in InHand \cup {"failed"},
         w.at \in InHand => w.dir = op[o].dir,
         NEW d \in Dir, HeldInv(d), op[o].dir = d,
         record'[d].run = record[d].run, record'[d].history = record[d].history,
         record'[d].whole => record[d].whole, writer' = writer, published \subseteq published',
         w.at \in InHand =>
           /\ w.run = op[o].run /\ w.prev = op[o].prev
           /\ w.at \in {"loaded", "cut"} =>
                w.copy.run = record[d].run /\ w.copy.history = record[d].history
           /\ w.at # "shown" /\ w.job = "publish" => <<d, record[d].run>> \in published',
         w.at = "cut" => ~record'[d].whole /\ \A p \in Operator \ {o} : ~InHandOf(p, d)
  PROVE  HeldInv(d)'
<1>1. op'[o] = w /\ \A p \in Operator \ {o} : op'[p] = op[p]
  BY DEF EvidenceInv, EvidenceTypes
<1>2. InHandOf(o, d) /\ writer'[d] # "state"
  BY DEF InHandOf, Busy, HeldInv
<1>3. \A p \in Operator : InHandOf(p, d)' => InHandOf(p, d)
  BY <1>1, <1>2 DEF InHandOf, Busy
<1>4. ASSUME NEW p \in Operator, InHandOf(p, d)'
      PROVE  /\ op'[p].run = record'[d].run
             /\ record'[d].history # <<>> =>
                  op'[p].prev = record'[d].history[Len(record'[d].history)].state
             /\ op'[p].at \in {"loaded", "cut"} =>
                  op'[p].copy.run = record'[d].run /\ op'[p].copy.history = record'[d].history
             /\ op'[p].at # "shown" /\ op'[p].job = "publish" => <<d, record'[d].run>> \in published'
             /\ op'[p].at = "cut" => ~record'[d].whole /\ \A q \in Operator \ {p} : ~InHandOf(q, d)'
  <2>1. CASE p = o
    BY <1>1, <1>2, <1>3, <1>4, <2>1 DEF HeldInv, InHandOf, Busy
  <2>2. CASE p # o
    BY <1>1, <1>2, <1>3, <1>4, <2>2 DEF HeldInv
  <2> QED
    BY <2>1, <2>2
<1>5. op'[o].at # "done" /\ op[o].at # "done"
  BY <1>1, InHandIs
<1>6. ASSUME NEW p \in Operator, op'[p].at = "done", op'[p].job # "feedback",
             op'[p].dir = d, op'[p].run = record'[d].run
      PROVE  \E k \in DOMAIN record'[d].history : record'[d].history[k].by = p
  BY <1>1, <1>5, <1>6 DEF HeldInv
<1>7. ASSUME NEW k \in DOMAIN record'[d].history
      PROVE  /\ op'[record'[d].history[k].by].at = "done"
             /\ op'[record'[d].history[k].by].run = record'[d].run
             /\ k > 1 => record'[d].history[k].prev = record'[d].history[k - 1].state
             /\ record'[d].history[k].source = "publish" => <<d, record'[d].run>> \in published'
  <2>1. record[d].history[k].by \in Operator \ {o}
    BY <1>5, HistoryIs DEF HeldInv, EvidenceInv
  <2> QED
    BY <1>1, <1>7, <2>1 DEF HeldInv
<1> QED
  BY <1>2, <1>4, <1>6, <1>7 DEF HeldInv

LEMMA FailedWork ==
  ASSUME NEW w, w = [NoWork EXCEPT !.at = "failed"]
  PROVE  /\ w \in WorkRecord /\ w.at = "failed" /\ w.job = "none" /\ w.dir = "none" /\ w.run = 0
         /\ w.copy = NoRecord
  BY NoRecordIs, EvidenceAssumption DEF NoWork, NoRecordTyped, WorkRecord

\* A command fails.
LEMMA CommandFails ==
  ASSUME EvidenceInv, NEW o \in Operator, Fails(o), op[o].at \in InHand,
         UNCHANGED <<record, findings, plan, writer, runs, feedback, published>>,
         overlapped \subseteq overlapped'
  PROVE  EvidenceInv'
<1>1. EvidenceTypes
  BY DEF EvidenceInv
<1>2. PICK w : w = [NoWork EXCEPT !.at = "failed"]
  OBVIOUS
<1>3. /\ w \in WorkRecord /\ w.at = "failed" /\ w.job = "none" /\ w.dir = "none" /\ w.run = 0
      /\ w.copy.run = 0 /\ w.at \notin InHand
  <2>1. /\ w \in WorkRecord /\ w.at = "failed" /\ w.job = "none" /\ w.dir = "none" /\ w.run = 0
        /\ w.copy = NoRecord
    BY <1>2, FailedWork
  <2> QED
    BY <2>1, NoRecordIs, InHandIs
<1>4. op' = [op EXCEPT ![o] = w] /\ w = [NoWork EXCEPT !.at = w.at]
  BY <1>2, <1>3 DEF Fails
<1>5. op' \in [Operator -> WorkRecord] /\ WorkInv' /\ NumberInv' /\ PlanInv'
  <2>1. record' \in [Dir -> StateRecord]
    BY <1>1 DEF EvidenceTypes
  <2> QED
    BY <1>3, <1>4, <2>1, OperatorStep
<1>6. EvidenceTypes'
  BY <1>1, <1>5 DEF EvidenceTypes
<1>7. StoreInv'
  BY <1>3, <1>4, StoreFrame
<1>8. ASSUME NEW e \in Dir \ overlapped'
      PROVE  HeldInv(e)'
  <2>1. HeldInv(e)
    BY DEF EvidenceInv
  <2>2. op[o].at # "done" /\ w.dir # e
    BY <1>3, InHandIs, EvidenceAssumption
  <2> QED
    BY <1>3, <1>4, <2>1, <2>2, ElsewhereHeld
<1> QED
  BY <1>5, <1>6, <1>7, <1>8 DEF EvidenceInv

\* A command goes on in its directory, and has written no record.
LEMMA CommandGoesOn ==
  ASSUME EvidenceInv, NEW o \in Operator, NEW w \in WorkRecord, op' = [op EXCEPT ![o] = w],
         NEW d \in Dir, op[o].dir = d, op[o].at \in InHand, op[o].job # "feedback",
         w.at \in InHand, w.job = op[o].job, w.dir = d, w.run = op[o].run,
         w.state = op[o].state, w.prev = op[o].prev, w.copy \in {op[o].copy, record[d]},
         UNCHANGED <<findings, plan, writer, runs, feedback>>,
         record' \in [Dir -> StateRecord],
         record'[d].run = record[d].run, record'[d].status = record[d].status,
         record'[d].history = record[d].history, record'[d].whole => record[d].whole,
         \A e \in Dir \ {d} : record'[e] = record[e],
         overlapped \subseteq overlapped', published \subseteq published',
         d \notin overlapped' /\ w.at \in {"loaded", "cut"} =>
           w.copy.run = record[d].run /\ w.copy.history = record[d].history,
         d \notin overlapped' /\ w.at # "shown" /\ w.job = "publish" =>
           <<d, record[d].run>> \in published',
         d \notin overlapped' /\ w.at = "cut" =>
           ~record'[d].whole /\ \A p \in Operator \ {o} : ~InHandOf(p, d)
  PROVE  EvidenceInv'
<1>1. EvidenceTypes
  BY DEF EvidenceInv
<1>2. w.at \notin {"idle", "failed"} /\ op[o].at # "done"
  BY InHandIs
<1>3. op' \in [Operator -> WorkRecord] /\ WorkInv' /\ NumberInv' /\ PlanInv'
  <2>1. /\ op[o].job \in {"decide", "publish"} /\ op[o].state \in EvidenceState
        /\ op[o].prev \in EvidenceState /\ op[o].run # 0
    BY DEF EvidenceInv, WorkInv, Busy
  <2> QED
    BY <1>2, <2>1, OperatorStep
<1>4. EvidenceTypes'
  BY <1>1, <1>3 DEF EvidenceTypes
<1>5. StoreInv'
  BY StoreFrame
<1>6. ASSUME NEW e \in Dir \ overlapped'
      PROVE  HeldInv(e)'
  <2>1. HeldInv(e)
    BY DEF EvidenceInv
  <2>2. CASE e # d
    BY <1>2, <2>1, <2>2, ElsewhereHeld
  <2>3. CASE e = d
    BY <2>1, <2>3, OwnStep, ZenonT(30)
  <2> QED
    BY <2>2, <2>3
<1> QED
  BY <1>3, <1>4, <1>5, <1>6 DEF EvidenceInv

\* The work of an operator, changed in place.
LEMMA WorkAt ==
  ASSUME EvidenceInv, NEW o \in Operator, NEW at \in InHand,
         NEW w, w = [op[o] EXCEPT !.at = at]
  PROVE  /\ w \in WorkRecord /\ w.at = at /\ w.job = op[o].job /\ w.dir = op[o].dir
         /\ w.run = op[o].run /\ w.state = op[o].state /\ w.prev = op[o].prev
         /\ w.copy = op[o].copy /\ w.items = op[o].items
<1>1. op[o] \in WorkRecord
  BY DEF EvidenceInv, EvidenceTypes
<1> QED
  BY <1>1 DEF WorkRecord

LEMMA PublishStep ==
  ASSUME EvidenceInv, NEW o \in Operator, Publish(o)
  PROVE  EvidenceInv'
<1>1. /\ op[o].at = "shown" /\ op[o].job = "publish" /\ op[o].at \in InHand
      /\ UNCHANGED <<record, findings, plan, recent, writer, runs, feedback, overlapped>>
  BY InHandIs DEF Publish
<1>2. op \in [Operator -> WorkRecord] /\ record \in [Dir -> StateRecord] /\ WorkInv
  BY DEF EvidenceInv, EvidenceTypes
<1>3. CASE Fails(o) /\ UNCHANGED published
  BY <1>1, <1>3, CommandFails
<1>4. CASE /\ published' = published \cup {<<op[o].dir, record[op[o].dir].run>>}
           /\ Goes(o, "sent")
  <2>1. PICK d \in Dir : d = op[o].dir
    BY <1>1, <1>2 DEF WorkInv, Busy
  <2>2. PICK w : w = [op[o] EXCEPT !.at = "sent"]
    OBVIOUS
  <2>3. /\ w \in WorkRecord /\ w.at = "sent" /\ w.job = op[o].job /\ w.dir = op[o].dir
        /\ w.run = op[o].run /\ w.state = op[o].state /\ w.prev = op[o].prev
        /\ w.copy = op[o].copy /\ "sent" \in InHand
    BY <2>2, WorkAt, InHandIs
  <2>4. op' = [op EXCEPT ![o] = w]
    BY <1>2, <1>4, <2>2 DEF Goes
  <2>5. published \subseteq published' /\ <<d, record[d].run>> \in published'
    BY <1>4, <2>1
  <2> QED
    BY <1>1, <1>2, <2>1, <2>3, <2>4, <2>5, CommandGoesOn
<1> QED
  BY <1>3, <1>4 DEF Publish

LEMMA LoadRecordStep ==
  ASSUME EvidenceInv, NEW o \in Operator, LoadRecord(o)
  PROVE  EvidenceInv'
<1>1. /\ op[o].at = IF op[o].job = "publish" THEN "sent" ELSE "shown"
      /\ op[o].at \in InHand
      /\ UNCHANGED <<record, findings, plan, recent, writer, runs, feedback, published, overlapped>>
  BY InHandIs DEF LoadRecord
<1>2. /\ EvidenceTypes /\ op \in [Operator -> WorkRecord] /\ record \in [Dir -> StateRecord]
      /\ WorkInv
  BY DEF EvidenceInv, EvidenceTypes
<1>3. CASE Fails(o)
  BY <1>1, <1>3, CommandFails
<1>4. CASE op' = [op EXCEPT ![o].at = "loaded", ![o].copy = record[op[o].dir]]
  <2>1. op[o].job # "feedback"
    BY <1>1, <1>2 DEF WorkInv, Busy
  <2>2. PICK d \in Dir : d = op[o].dir
    BY <1>1, <1>2, <2>1 DEF WorkInv, Busy
  <2>3. PICK w : w = [op[o] EXCEPT !.at = "loaded", !.copy = record[d]]
    OBVIOUS
  <2>4. /\ w \in WorkRecord /\ w.at = "loaded" /\ w.job = op[o].job /\ w.dir = op[o].dir
        /\ w.run = op[o].run /\ w.state = op[o].state /\ w.prev = op[o].prev
        /\ w.copy = record[d] /\ w.at \in InHand
    <3>1. op[o] \in WorkRecord /\ record[d] \in StateRecord
      BY <1>2
    <3> QED
      BY <2>3, <3>1, InHandIs DEF WorkRecord
  <2>5. op' = [op EXCEPT ![o] = w]
    BY <1>2, <1>4, <2>2, <2>3
  <2>6. ASSUME d \notin overlapped', w.job = "publish"
        PROVE  <<d, record[d].run>> \in published'
    <3>1. HeldInv(d) /\ op[o].at = "sent"
      BY <1>1, <2>4, <2>6 DEF EvidenceInv
    <3> QED
      BY <1>1, <2>2, <2>4, <2>6, <3>1 DEF HeldInv, InHandOf, Busy
  <2> QED
    BY <1>1, <1>2, <2>1, <2>2, <2>4, <2>5, <2>6, CommandGoesOn
<1> QED
  BY <1>3, <1>4 DEF LoadRecord

LEMMA OpenRecordStep ==
  ASSUME EvidenceInv, NEW o \in Operator, OpenRecord(o)
  PROVE  EvidenceInv'
<1>1. /\ op[o].at = "loaded" /\ op[o].job # "feedback" /\ CutRecord(op[o].dir, o)
      /\ Goes(o, "cut") /\ op[o].at \in InHand
      /\ UNCHANGED <<findings, plan, writer, runs, feedback, published>>
  BY InHandIs DEF OpenRecord
<1>2. EvidenceTypes /\ op \in [Operator -> WorkRecord] /\ WorkInv
  BY DEF EvidenceInv, EvidenceTypes
<1>3. PICK d \in Dir : d = op[o].dir
  BY <1>1, <1>2 DEF WorkInv, Busy
<1>4. /\ record' \in [Dir -> StateRecord]
      /\ ~record'[d].whole
      /\ record'[d].run = record[d].run /\ record'[d].status = record[d].status
      /\ record'[d].history = record[d].history
      /\ \A e \in Dir \ {d} : record'[e] = record[e]
      /\ overlapped \subseteq overlapped'
      /\ d \notin overlapped' => \A p \in Operator \ {o} : ~InHandOf(p, d)
  BY <1>1, <1>2, <1>3, CutFacts
<1>5. PICK w : w = [op[o] EXCEPT !.at = "cut"]
  OBVIOUS
<1>6. /\ w \in WorkRecord /\ w.at = "cut" /\ w.job = op[o].job /\ w.dir = op[o].dir
      /\ w.run = op[o].run /\ w.state = op[o].state /\ w.prev = op[o].prev
      /\ w.copy = op[o].copy /\ "cut" \in InHand
  BY <1>5, WorkAt, InHandIs
<1>7. op' = [op EXCEPT ![o] = w]
  BY <1>1, <1>2, <1>5 DEF Goes
<1>8. ASSUME d \notin overlapped'
      PROVE  /\ w.copy.run = record[d].run /\ w.copy.history = record[d].history
             /\ w.job = "publish" => <<d, record[d].run>> \in published'
  <2>1. HeldInv(d) /\ InHandOf(o, d)
    BY <1>1, <1>3, <1>4, <1>8 DEF EvidenceInv, InHandOf, Busy
  <2> QED
    BY <1>1, <1>6, <2>1 DEF HeldInv
<1> QED
  BY <1>1, <1>3, <1>4, <1>6, <1>7, <1>8, CommandGoesOn

LEMMA KillCommandStep ==
  ASSUME EvidenceInv, NEW o \in Operator, KillCommand(o)
  PROVE  EvidenceInv'
<1>1. /\ op[o].at \in InHand /\ Fails(o) /\ overlapped \subseteq overlapped'
      /\ UNCHANGED <<record, findings, plan, recent, writer, runs, feedback, published>>
  BY DEF KillCommand
<1> QED
  BY <1>1, CommandFails

\* A decision is written: the record is the one that was loaded, and the entry.
LEMMA SaveDecisionStep ==
  ASSUME EvidenceInv, NEW o \in Operator, SaveDecision(o)
  PROVE  EvidenceInv'
<1>1. /\ op[o].at = "cut" /\ op[o].job # "feedback" /\ op[o].at \in InHand
      /\ record' = [record EXCEPT ![op[o].dir] = Decided(o)] /\ Ends(o)
      /\ UNCHANGED <<findings, plan, recent, writer, runs, feedback, published, overlapped>>
  BY InHandIs DEF SaveDecision
<1>2. EvidenceTypes /\ op \in [Operator -> WorkRecord] /\ record \in [Dir -> StateRecord] /\ WorkInv
  BY DEF EvidenceInv, EvidenceTypes
<1>3. PICK d \in Dir : d = op[o].dir
  BY <1>1, <1>2 DEF WorkInv, Busy
<1>4. /\ op[o].job \in {"decide", "publish"} /\ op[o].state \in EvidenceState
      /\ op[o].prev \in EvidenceState /\ op[o].copy \in StateRecord /\ op[o] \in WorkRecord
  BY <1>1, <1>2 DEF WorkInv, Busy, WorkRecord
<1>5. PICK n : n = Entry(o)
  OBVIOUS
<1>6. /\ n \in Entries /\ n.by = o /\ n.state = op[o].state /\ n.prev = op[o].prev
      /\ n.source = op[o].job
  BY <1>4, <1>5 DEF Entry, Entries
<1>7. PICK h : h = Append(op[o].copy.history, n)
  OBVIOUS
<1>71. h \in Seq(Entries)
  <2>1. op[o].copy.history \in Seq(Entries)
    BY <1>4 DEF StateRecord
  <2> QED
    BY <1>6, <1>7, <2>1
<1>8. PICK r : r = Decided(o)
  OBVIOUS
<1>9. /\ r \in StateRecord /\ r.run = op[o].copy.run /\ r.status = op[o].copy.status
      /\ r.history = h
  BY <1>4, <1>5, <1>7, <1>71, <1>8 DEF Decided, StateRecord
<1>10. /\ record' \in [Dir -> StateRecord] /\ record'[d] = r
       /\ \A e \in Dir \ {d} : record'[e] = record[e]
  BY <1>1, <1>2, <1>3, <1>8, <1>9
<1>11. PICK w : w = [op[o] EXCEPT !.at = "done", !.copy = NoRecord, !.items = {}, !.prev = "none"]
  OBVIOUS
<1>12. /\ w \in WorkRecord /\ w.at = "done" /\ w.job = op[o].job /\ w.dir = d /\ w.run = op[o].run
       /\ w.copy = NoRecord
  <2>1. NoRecord \in StateRecord
    BY NoRecordIs DEF NoRecordTyped
  <2> QED
    BY <1>3, <1>4, <1>11, <2>1 DEF WorkRecord
<1>13. op' = [op EXCEPT ![o] = w]
  BY <1>1, <1>2, <1>11 DEF Ends
<1>14. op' \in [Operator -> WorkRecord] /\ WorkInv' /\ NumberInv' /\ PlanInv'
  <2>1. w.copy.run = 0 /\ w.at \notin InHand /\ w.at \notin {"idle", "failed"}
    BY <1>12, NoRecordIs, InHandIs
  <2> QED
    BY <1>1, <1>3, <1>9, <1>10, <1>12, <1>13, <2>1, OperatorStep
<1>15. EvidenceTypes'
  BY <1>1, <1>2, <1>10, <1>14 DEF EvidenceTypes
<1>16. StoreInv'
  BY <1>1, <1>4, <1>12, <1>13, StoreFrame
<1>17. op'[o] = w /\ \A p \in Operator \ {o} : op'[p] = op[p]
  BY <1>2, <1>13
<1>18. ASSUME NEW e \in Dir \ overlapped'
       PROVE  HeldInv(e)'
  <2>1. HeldInv(e)
    BY <1>1 DEF EvidenceInv
  <2>2. CASE e # d
    <3>1. \A p \in Operator : InHandOf(p, e)' => op'[p] = op[p]
      BY <1>12, <1>17, InHandIs DEF InHandOf, Busy
    <3>2. \A p \in Operator : op[p].at = "done" => op'[p] = op[p]
      BY <1>1, <1>17
    <3>3. \A p \in Operator :
            op'[p].at = "done" /\ op'[p].job # "feedback" /\ op'[p].dir = e => op'[p] = op[p]
      BY <1>12, <1>17, <2>2
    <3> QED
      BY <1>1, <1>2, <1>10, <2>1, <2>2, <3>1, <3>2, <3>3, HeldFrame
  <2>3. CASE e = d
    <3>1. /\ op[o].run = record[d].run
          /\ record[d].history # <<>> =>
               op[o].prev = record[d].history[Len(record[d].history)].state
          /\ op[o].copy.run = record[d].run /\ op[o].copy.history = record[d].history
          /\ op[o].job = "publish" => <<d, record[d].run>> \in published
          /\ \A p \in Operator \ {o} : ~InHandOf(p, d)
          /\ writer[d] # "state"
      BY <1>1, <1>3, <2>1, <2>3 DEF HeldInv, InHandOf, Busy
    <3>2. /\ record'[d].run = record[d].run /\ record'[d].history = h
          /\ h = Append(record[d].history, n)
      BY <1>7, <1>9, <1>10, <3>1
    <3>3. \A p \in Operator : ~InHandOf(p, d)'
      BY <1>12, <1>17, <3>1, InHandIs DEF InHandOf, Busy
    <3>4. PICK len \in Nat : len = Len(record[d].history)
      BY <1>2, HistoryIs
    <3>5. /\ DOMAIN h = 1..(len + 1) /\ h[len + 1] = n /\ DOMAIN record[d].history = 1..len
          /\ \A k \in 1..len : h[k] = record[d].history[k]
      <4>1. record[d].history \in Seq(Entries)
        BY <1>2, HistoryIs
      <4> QED
        BY <1>6, <3>2, <3>4, <4>1
    <3>51. published' = published /\ op[o].at = "cut"
      BY <1>1
    <3>6. ASSUME NEW p \in Operator, op'[p].at = "done", op'[p].job # "feedback",
                 op'[p].dir = d, op'[p].run = record'[d].run
          PROVE  \E k \in DOMAIN h : h[k].by = p
      <4>1. CASE p = o
        BY <1>6, <3>5, <4>1
      <4>2. CASE p # o
        <5>1. /\ op[p].at = "done" /\ op[p].job # "feedback"
              /\ op[p].dir = d /\ op[p].run = record[d].run
          BY <1>17, <3>2, <3>6, <4>2
        <5>2. PICK k \in DOMAIN record[d].history : record[d].history[k].by = p
          BY <2>1, <2>3, <5>1 DEF HeldInv
        <5> QED
          BY <3>5, <5>2
      <4> QED
        BY <4>1, <4>2
    <3>7. ASSUME NEW k \in DOMAIN h
          PROVE  /\ op'[h[k].by].at = "done"
                 /\ op'[h[k].by].run = record'[d].run
                 /\ k > 1 => h[k].prev = h[k - 1].state
                 /\ h[k].source = "publish" => <<d, record'[d].run>> \in published'
      <4>1. CASE k = len + 1
        <5>1. h[k] = n /\ op'[n.by] = w
          BY <1>6, <1>17, <3>5, <4>1
        <5>2. k > 1 => n.prev = h[k - 1].state
          <6>1. k > 1 => len \in 1..len /\ k - 1 = len /\ record[d].history # <<>>
            BY <3>4, <3>5, <4>1
          <6> QED
            BY <1>6, <3>1, <3>4, <3>5, <6>1
        <5> QED
          BY <1>6, <1>12, <3>1, <3>2, <3>51, <5>1, <5>2
      <4>2. CASE k \in 1..len
        <5>1. /\ op[record[d].history[k].by].at = "done"
              /\ op[record[d].history[k].by].run = record[d].run
              /\ k > 1 => record[d].history[k].prev = record[d].history[k - 1].state
              /\ record[d].history[k].source = "publish" => <<d, record[d].run>> \in published
          BY <2>1, <2>3, <3>5, <4>2, ZenonT(30) DEF HeldInv
        <5>2. h[k] = record[d].history[k] /\ (k > 1 => h[k - 1] = record[d].history[k - 1])
          BY <3>4, <3>5, <4>2
        <5>3. op'[h[k].by] = op[h[k].by]
          BY <1>2, <1>17, <3>5, <3>51, <4>2, <5>1, <5>2, HistoryIs
        <5> QED
          BY <3>2, <3>51, <5>1, <5>2, <5>3
      <4> QED
        BY <3>4, <3>5, <4>1, <4>2
    <3>8. writer'[d] # "state"
      BY <1>1, <3>1
    <3>9. /\ \A p \in Operator :
               op'[p].at = "done" /\ op'[p].job # "feedback" /\ op'[p].dir = d
                 /\ op'[p].run = record'[d].run =>
                   \E k \in DOMAIN record'[d].history : record'[d].history[k].by = p
          /\ \A k \in DOMAIN record'[d].history :
               /\ op'[record'[d].history[k].by].at = "done"
               /\ op'[record'[d].history[k].by].run = record'[d].run
               /\ k > 1 => record'[d].history[k].prev = record'[d].history[k - 1].state
               /\ record'[d].history[k].source = "publish" => <<d, record'[d].run>> \in published'
      BY <3>2, <3>6, <3>7
    <3> QED
      BY <2>3, <3>3, <3>8, <3>9 DEF HeldInv
  <2> QED
    BY <2>2, <2>3
<1> QED
  BY <1>14, <1>15, <1>16, <1>18 DEF EvidenceInv

\* A step of an operator that files feedback leaves every record alone.
LEMMA FilingStep ==
  ASSUME EvidenceInv, NEW o \in Operator, NEW w \in WorkRecord, op' = [op EXCEPT ![o] = w],
         op[o].at = "idle" \/ op[o].job = "feedback", op[o].at # "done",
         w.job = "feedback", w.dir = "none",
         w.run = 0 \/ (w.dir = op[o].dir /\ w.run = op[o].run),
         w.copy.run = 0 \/ (w.dir = op[o].dir /\ w.copy = op[o].copy),
         w.at \in {"loaded", "cut", "done"},
         UNCHANGED <<record, findings, plan, writer, runs, published>>,
         feedback' \in [items : SUBSET Operator, whole : BOOLEAN],
         overlapped \subseteq overlapped', StoreInv'
  PROVE  EvidenceInv'
<1>1. EvidenceTypes
  BY DEF EvidenceInv
<1>2. op' \in [Operator -> WorkRecord] /\ WorkInv' /\ NumberInv' /\ PlanInv'
  <2>1. record' \in [Dir -> StateRecord]
    BY <1>1 DEF EvidenceTypes
  <2>2. w.at \notin {"idle", "failed"}
    OBVIOUS
  <2> QED
    BY <2>1, <2>2, InHandIs, OperatorStep
<1>3. EvidenceTypes'
  BY <1>1, <1>2 DEF EvidenceTypes
<1>4. ASSUME NEW e \in Dir \ overlapped'
      PROVE  HeldInv(e)'
  <2>1. HeldInv(e)
    BY DEF EvidenceInv
  <2>2. w.dir # e
    BY EvidenceAssumption
  <2> QED
    BY <2>1, <2>2, ElsewhereHeld
<1> QED
  BY <1>2, <1>3, <1>4 DEF EvidenceInv

LEMMA LoadFeedbackStep ==
  ASSUME EvidenceInv, NEW o \in Operator, LoadFeedback(o)
  PROVE  EvidenceInv'
<1>1. /\ op[o].at = "idle"
      /\ UNCHANGED <<record, findings, plan, recent, writer, runs, feedback, published>>
  BY DEF LoadFeedback
<1>2. op \in [Operator -> WorkRecord] /\ feedback \in [items : SUBSET Operator, whole : BOOLEAN]
  BY DEF EvidenceInv, EvidenceTypes
<1>21. PICK read : read = IF feedback.whole THEN feedback.items ELSE {}
  OBVIOUS
<1>22. /\ read \in SUBSET Operator /\ overlapped \subseteq overlapped'
       /\ StoreName \notin overlapped' => read = feedback.items
  BY <1>2, <1>21 DEF LoadFeedback
<1>3. PICK w : w = [NoWork EXCEPT !.at = "loaded", !.job = "feedback", !.items = read]
  OBVIOUS
<1>4. /\ w \in WorkRecord /\ w.at = "loaded" /\ w.job = "feedback" /\ w.dir = "none" /\ w.run = 0
      /\ w.copy.run = 0 /\ w.items = read
  <2>1. w = [at |-> "loaded", job |-> "feedback", dir |-> "none", run |-> 0, state |-> "none",
             prev |-> "none", copy |-> NoRecord, items |-> read]
    BY <1>3 DEF NoWork
  <2>2. NoRecord \in StateRecord /\ NoRecord.run = 0 /\ 0 \in 0..MaxRun
    BY NoRecordIs, EvidenceAssumption DEF NoRecordTyped
  <2>3. read \in SUBSET Operator /\ "loaded" \in InHand
    BY <1>22, InHandIs
  <2> QED
    BY <2>1, <2>2, <2>3 DEF WorkRecord
<1>5. op' = [op EXCEPT ![o] = w]
  BY <1>21, <1>3 DEF LoadFeedback
<1>6. op'[o] = w /\ \A p \in Operator \ {o} : op'[p] = op[p]
  BY <1>2, <1>5
<1>7. StoreInv'
  <2>1. SUFFICES ASSUME StoreName \notin overlapped'
                 PROVE  /\ \A p \in Operator : Filing(p)' =>
                             /\ op'[p].items = feedback'.items
                             /\ op'[p].at = "cut" =>
                                  ~feedback'.whole /\ \A q \in Operator \ {p} : ~Filing(q)'
                        /\ \A p \in Operator :
                             op'[p].at = "done" /\ op'[p].job = "feedback" => p \in feedback'.items
    BY DEF StoreInv
  <2>2. StoreName \notin overlapped /\ StoreInv /\ w.items = feedback.items
    BY <1>4, <1>22, <2>1 DEF EvidenceInv
  <2>3. \A p \in Operator : Filing(p) => op[p].at # "cut"
    <3>1. feedback.whole
      BY <2>1 DEF LoadFeedback
    <3> QED
      BY <2>2, <3>1 DEF StoreInv
  <2>4. feedback' = feedback
    BY <1>1
  <2> QED
    BY <1>4, <1>6, <2>2, <2>3, <2>4 DEF StoreInv, Filing, Busy
<1>8. feedback' \in [items : SUBSET Operator, whole : BOOLEAN]
  BY <1>1, <1>2
<1>9. /\ w.run = 0 \/ (w.dir = op[o].dir /\ w.run = op[o].run)
      /\ w.copy.run = 0 \/ (w.dir = op[o].dir /\ w.copy = op[o].copy)
      /\ w \in WorkRecord /\ w.at \in {"loaded", "cut", "done"}
      /\ w.job = "feedback" /\ w.dir = "none"
  BY <1>4
<1>10. op[o].at # "done" /\ (op[o].at = "idle" \/ op[o].job = "feedback")
  BY <1>1
<1>11. UNCHANGED <<record, findings, plan, writer, runs, published>>
  BY <1>1
<1> QED
  BY <1>5, <1>7, <1>8, <1>9, <1>10, <1>11, <1>22, FilingStep

LEMMA OpenFeedbackStep ==
  ASSUME EvidenceInv, NEW o \in Operator, OpenFeedback(o)
  PROVE  EvidenceInv'
<1>1. /\ op[o].at = "loaded" /\ op[o].job = "feedback" /\ Goes(o, "cut")
      /\ op[o].at \in InHand
      /\ UNCHANGED <<record, findings, plan, recent, writer, runs, published>>
  BY InHandIs DEF OpenFeedback
<1>2. /\ feedback' = [feedback EXCEPT !.whole = FALSE]
      /\ overlapped' = overlapped \cup
           {s \in {StoreName} : \E p \in Operator \ {o} :
                                  op[p].job = "feedback" /\ op[p].at \in InHand}
  BY DEF OpenFeedback
<1>3. op \in [Operator -> WorkRecord] /\ feedback \in [items : SUBSET Operator, whole : BOOLEAN]
  BY DEF EvidenceInv, EvidenceTypes
<1>4. /\ feedback' \in [items : SUBSET Operator, whole : BOOLEAN]
      /\ feedback'.items = feedback.items /\ ~feedback'.whole
  BY <1>2, <1>3
<1>5. overlapped \subseteq overlapped'
  BY <1>2
<1>6. StoreName \notin overlapped' => \A p \in Operator \ {o} : ~Filing(p)
  BY <1>2 DEF Filing, Busy
<1>7. PICK w : w = [op[o] EXCEPT !.at = "cut"]
  OBVIOUS
<1>8. /\ w \in WorkRecord /\ w.at = "cut" /\ w.job = "feedback" /\ w.dir = op[o].dir
      /\ w.run = op[o].run /\ w.copy = op[o].copy /\ w.items = op[o].items
  BY <1>1, <1>7, WorkAt, InHandIs
<1>9. op' = [op EXCEPT ![o] = w] /\ op'[o] = w /\ \A p \in Operator \ {o} : op'[p] = op[p]
  BY <1>1, <1>3, <1>7 DEF Goes
<1>10. StoreInv'
  <2>1. SUFFICES ASSUME StoreName \notin overlapped'
                 PROVE  /\ \A p \in Operator : Filing(p)' =>
                             /\ op'[p].items = feedback'.items
                             /\ op'[p].at = "cut" =>
                                  ~feedback'.whole /\ \A q \in Operator \ {p} : ~Filing(q)'
                        /\ \A p \in Operator :
                             op'[p].at = "done" /\ op'[p].job = "feedback" => p \in feedback'.items
    BY DEF StoreInv
  <2>2. StoreName \notin overlapped /\ StoreInv /\ Filing(o)
    BY <1>1, <1>5, <2>1 DEF EvidenceInv, Filing, Busy
  <2>3. \A p \in Operator \ {o} : ~Filing(p)'
    BY <1>6, <1>9, <2>1 DEF Filing, Busy
  <2> QED
    BY <1>4, <1>8, <1>9, <2>2, <2>3 DEF StoreInv
<1>11. w.dir = "none"
  BY <1>1, <1>8 DEF EvidenceInv, WorkInv, Busy
<1> QED
  BY <1>1, <1>4, <1>5, <1>8, <1>9, <1>10, <1>11, FilingStep

LEMMA SaveFeedbackStep ==
  ASSUME EvidenceInv, NEW o \in Operator, SaveFeedback(o)
  PROVE  EvidenceInv'
<1>1. /\ op[o].at = "cut" /\ op[o].job = "feedback" /\ Ends(o) /\ op[o].at \in InHand
      /\ UNCHANGED <<record, findings, plan, recent, writer, runs, published, overlapped>>
  BY InHandIs DEF SaveFeedback
<1>2. op \in [Operator -> WorkRecord] /\ op[o] \in WorkRecord
  BY DEF EvidenceInv, EvidenceTypes
<1>3. PICK w : w = [op[o] EXCEPT !.at = "done", !.copy = NoRecord, !.items = {}, !.prev = "none"]
  OBVIOUS
<1>4. /\ w \in WorkRecord /\ w.at = "done" /\ w.job = "feedback" /\ w.dir = op[o].dir
      /\ w.run = op[o].run /\ w.copy.run = 0
  <2>1. NoRecord \in StateRecord /\ NoRecord.run = 0
    BY NoRecordIs DEF NoRecordTyped
  <2> QED
    BY <1>1, <1>2, <1>3, <2>1 DEF WorkRecord
<1>5. op' = [op EXCEPT ![o] = w] /\ op'[o] = w /\ \A p \in Operator \ {o} : op'[p] = op[p]
  BY <1>1, <1>2, <1>3 DEF Ends
<1>6. /\ feedback' \in [items : SUBSET Operator, whole : BOOLEAN]
      /\ feedback'.items = op[o].items \cup {o}
  BY <1>2 DEF WorkRecord, SaveFeedback
<1>7. StoreInv'
  <2>1. SUFFICES ASSUME StoreName \notin overlapped'
                 PROVE  /\ \A p \in Operator : Filing(p)' =>
                             /\ op'[p].items = feedback'.items
                             /\ op'[p].at = "cut" =>
                                  ~feedback'.whole /\ \A q \in Operator \ {p} : ~Filing(q)'
                        /\ \A p \in Operator :
                             op'[p].at = "done" /\ op'[p].job = "feedback" => p \in feedback'.items
    BY DEF StoreInv
  <2>2. /\ StoreName \notin overlapped /\ StoreInv /\ Filing(o)
        /\ op[o].items = feedback.items /\ \A p \in Operator \ {o} : ~Filing(p)
    BY <1>1, <2>1 DEF EvidenceInv, Filing, Busy, StoreInv
  <2>3. \A p \in Operator : ~Filing(p)'
    BY <1>4, <1>5, <2>2, InHandIs DEF Filing, Busy
  <2> QED
    BY <1>1, <1>5, <1>6, <2>2, <2>3 DEF StoreInv
<1>8. w.dir = "none"
  BY <1>1, <1>4 DEF EvidenceInv, WorkInv, Busy
<1>9. /\ w.run = 0 \/ (w.dir = op[o].dir /\ w.run = op[o].run)
      /\ w.copy.run = 0 \/ (w.dir = op[o].dir /\ w.copy = op[o].copy)
      /\ w \in WorkRecord /\ w.at \in {"loaded", "cut", "done"}
  BY <1>4
<1>10. op[o].at # "done" /\ (op[o].at = "idle" \/ op[o].job = "feedback")
  BY <1>1
<1>11. UNCHANGED <<record, findings, plan, writer, runs, published, overlapped>>
  BY <1>1
<1> QED
  BY <1>4, <1>5, <1>6, <1>7, <1>8, <1>9, <1>10, <1>11, FilingStep

\* At every point of `ese release`, `ese publish` and `ese feedback`, beside runs that
\* replace the files and kills that cut them, EvidenceInv holds.
THEOREM EvidenceInductive == EvidenceSpec => []EvidenceInv
<1>1. EvidenceInit => EvidenceInv
  <2> SUFFICES ASSUME EvidenceInit PROVE EvidenceInv
    OBVIOUS
  <2>1. /\ record = [d \in Dir |-> NoRecord]
        /\ findings = [d \in Dir |-> [run |-> 0, status |-> "none", blocked |-> FALSE, whole |-> TRUE]]
        /\ plan = [d \in Dir |-> [run |-> 0, ready |-> FALSE]]
        /\ writer = [d \in Dir |-> "idle"] /\ runs = 0
        /\ op = [o \in Operator |-> NoWork]
        /\ feedback = [items |-> {}, whole |-> TRUE]
    BY DEF EvidenceInit
  <2>2. /\ NoWork \in WorkRecord /\ NoWork.at = "idle" /\ NoWork.run = 0 /\ NoWork.copy.run = 0
        /\ NoWork.job = "none" /\ NoWork = [NoWork EXCEPT !.at = "idle"]
    BY NoRecordIs, EvidenceAssumption DEF NoWork, NoRecordTyped, WorkRecord
  <2>3. NoRecord \in StateRecord /\ NoRecord.history = <<>> /\ NoRecord.run = 0
    BY NoRecordIs DEF NoRecordTyped, NoRecord
  <2>4. EvidenceTypes
    BY <2>1, <2>2, <2>3, EvidenceAssumption DEF EvidenceTypes, Artifacts
  <2>5. \A o \in Operator : ~Busy(o) /\ op[o] = NoWork
    BY <2>1, <2>2, InHandIs DEF Busy
  <2>6. WorkInv
    BY <2>2, <2>5 DEF WorkInv
  <2>7. NumberInv /\ PlanInv
    BY <2>1, <2>2, <2>3 DEF NumberInv, PlanInv
  <2>8. ASSUME NEW d \in Dir
        PROVE  HeldInv(d)
    <3>1. record[d].history = <<>> /\ DOMAIN record[d].history = {} /\ writer[d] = "idle"
      BY <2>1, <2>3
    <3>2. \A o \in Operator : ~InHandOf(o, d) /\ op[o].at = "idle"
      BY <2>2, <2>5 DEF InHandOf
    <3> QED
      BY <3>1, <3>2 DEF HeldInv
  <2>9. StoreInv
    BY <2>2, <2>5 DEF StoreInv, Filing
  <2> QED
    BY <2>4, <2>6, <2>7, <2>8, <2>9 DEF EvidenceInv
<1>2. EvidenceInv /\ [EvidenceNext]_evidenceVars => EvidenceInv'
  <2> SUFFICES ASSUME EvidenceInv, [EvidenceNext]_evidenceVars PROVE EvidenceInv'
    OBVIOUS
  <2>1. CASE UNCHANGED evidenceVars
    <3>1. /\ UNCHANGED <<record, findings, plan, writer, runs, op, feedback, published, overlapped>>
      BY <2>1 DEF evidenceVars
    <3>2. EvidenceTypes' /\ WorkInv' /\ NumberInv' /\ PlanInv' /\ StoreInv'
      BY <3>1 DEF EvidenceInv, EvidenceTypes, WorkInv, Busy, NumberInv, PlanInv, StoreInv, Filing
    <3>3. \A d \in Dir \ overlapped' : HeldInv(d)'
      BY <3>1, HeldFrame DEF EvidenceInv, InHandOf, Busy
    <3> QED
      BY <3>2, <3>3 DEF EvidenceInv
  <2>2. ASSUME NEW d \in Dir,
               WriteRoles(d) \/ RolesDone(d) \/ WriteRecord(d) \/ WriteExtras(d) \/ KillRun(d)
        PROVE  EvidenceInv'
    BY <2>2, WriteRolesStep, RolesDoneStep, WriteRecordStep, WriteExtrasStep, KillRunStep
  <2>3. ASSUME NEW o \in Operator,
               \/ \E d \in Asked : ShowReport(o, d)
               \/ Publish(o) \/ LoadRecord(o) \/ OpenRecord(o) \/ SaveDecision(o)
               \/ LoadFeedback(o) \/ OpenFeedback(o) \/ SaveFeedback(o) \/ KillCommand(o)
        PROVE  EvidenceInv'
    BY <2>3, ShowReportStep, PublishStep, LoadRecordStep, OpenRecordStep, SaveDecisionStep,
       LoadFeedbackStep, OpenFeedbackStep, SaveFeedbackStep, KillCommandStep
  <2> QED
    BY <2>1, <2>2, <2>3 DEF EvidenceNext
<1> QED
  BY <1>1, <1>2, PTL DEF EvidenceSpec

\* What an operator relies on holds of any number of directories and operators, as long
\* as no two had the file in hand and nobody was killed in it.
THEOREM EvidenceKept == EvidenceSpec => []EvidenceHolds
<1>1. EvidenceInv => EvidenceHolds
  <2> SUFFICES ASSUME EvidenceInv PROVE EvidenceHolds
    OBVIOUS
  <2>0. EvidenceTypes /\ WorkInv /\ PlanInv
    BY DEF EvidenceInv
  <2>1. FeedbackKept
    BY DEF EvidenceInv, StoreInv, FeedbackKept
  <2>2. HistoryIsOfItsRun /\ ReleasedWasPublished
    BY DEF EvidenceInv, HeldInv, HistoryIsOfItsRun, ReleasedWasPublished
  <2>3. ReadyIsReady
    <3>1. ASSUME NEW d \in Dir, Legible(d)
          PROVE  ReadyForRelease(d) <=> Summary(d) # "hold"
      <4>1. Evidence(d) \in EvidenceState
        <5>1. CASE record[d].history = <<>>
          BY <5>1 DEF Evidence, Derived, EvidenceState
        <5>2. CASE record[d].history # <<>>
          <6>1. record[d].history \in Seq(Entries)
            BY <2>0, HistoryIs
          <6>2. record[d].history[Len(record[d].history)] \in Entries
            BY <5>2, <6>1
          <6> QED
            BY <5>2, <6>2 DEF Evidence, Entries
        <5> QED
          BY <5>1, <5>2
      <4> QED
        BY <4>1 DEF ReadyForRelease, Summary, EvidenceState
    <3>2. ASSUME NEW d \in Dir, plan[d].ready, plan[d].run = record[d].run,
                 findings[d].run = record[d].run
          PROVE  record[d].status = "completed" /\ ~findings[d].blocked
      BY <2>0, <3>2 DEF PlanInv
    <3> QED
      BY <3>1, <3>2 DEF ReadyIsReady
  <2>4. DecisionKept
    <3> SUFFICES ASSUME NEW o \in Operator, op[o].at = "done", op[o].job # "feedback",
                        op[o].dir \notin overlapped, op[o].run = record[op[o].dir].run
                 PROVE  \E k \in DOMAIN record[op[o].dir].history :
                          record[op[o].dir].history[k].by = o
      BY DEF DecisionKept
    <3>1. op[o].dir \in Dir
      BY <2>0 DEF WorkInv
    <3>2. HeldInv(op[o].dir)
      BY <3>1 DEF EvidenceInv
    <3> QED
      BY <3>2 DEF HeldInv
  <2> QED
    BY <2>1, <2>2, <2>3, <2>4 DEF EvidenceHolds
<1> QED
  BY <1>1, EvidenceInductive, PTL

(***************************************************************************)
(* Extensions                                                              *)
(***************************************************************************)

ListedEntryPoint == IF surface = "packs" THEN PackEntryPoint ELSE EntryPoint

\* What is known of the entry points examined so far.
FoundInv ==
  /\ \A e \in 1..examined :
       e \in failures <=> installed[e].load = "faulty"
  /\ surface = "exporters" => "sarif" \in DOMAIN found /\ found["sarif"] = Builtin
  /\ \A e \in 1..examined : e \notin failures =>
       IF surface = "packs"
       THEN \A i \in 1..2 : /\ Lower(installed[e].keys[i]) \in DOMAIN found
                            /\ found[Lower(installed[e].keys[i])] <= e
       ELSE installed[e].keys[1] \in DOMAIN found /\ found[installed[e].keys[1]] <= e

\* What may be served.
ServedInv ==
  /\ surface = "none" => examined = 0 /\ served = "none"
  /\ served # "none" => examined = Len(installed)
  /\ surface = "policies" /\ served = "passed" => ~PolicyErrors
  /\ served = "clean" => failures = {}

ExtensionsInv ==
  /\ ExtensionsTypeOK
  /\ installed \in Seq(ListedEntryPoint)
  /\ FoundInv
  /\ ServedInv

\* The first definition of a key stays, and the key has one from now on.
LEMMA SetDefaultKeeps ==
  ASSUME NEW f, NEW k, NEW e
  PROVE  /\ DOMAIN SetDefault(f, k, e) = DOMAIN f \cup {k}
         /\ \A x \in DOMAIN f : SetDefault(f, k, e)[x] = f[x]
         /\ k \notin DOMAIN f => SetDefault(f, k, e)[k] = e
  BY DEF SetDefault

\* An entry point of a group.
LEMMA EntryFacts ==
  ASSUME installed \in Seq(ListedEntryPoint), NEW e \in 1..Len(installed)
  PROVE  /\ installed[e].load \in {"fine", "faulty"}
         /\ surface = "packs" => /\ DOMAIN installed[e].keys = 1..2
                                 /\ installed[e].keys[1] \in Key
                                 /\ installed[e].keys[2] \in Key
         /\ surface # "packs" => /\ DOMAIN installed[e].keys = 1..1
                                 /\ installed[e].keys[1] \in Key
                                 /\ installed[e].works \in {"fine", "objects", "raises"}
<1>1. installed[e] \in ListedEntryPoint
  OBVIOUS
<1>2. CASE surface = "packs"
  BY <1>1, <1>2 DEF ListedEntryPoint, PackEntryPoint
<1>3. CASE surface # "packs"
  BY <1>1, <1>3 DEF ListedEntryPoint, EntryPoint
<1> QED
  BY <1>2, <1>3

LEMMA LowerKey == \A k \in Key : Lower(k) \in Key \ {"KEY"}
  BY DEF Lower, Key

\* Asking for a surface starts with what is built in.
LEMMA AskStep ==
  ASSUME ExtensionsInv, Ask
  PROVE  ExtensionsInv'
<1>1. /\ surface = "none" /\ surface' \in Surface
      /\ UNCHANGED <<examined, failures, served>>
      /\ examined = 0 /\ served = "none"
  BY DEF Ask, ExtensionsInv, ServedInv
<1>2. installed' \in Seq(ListedEntryPoint)' /\ Len(installed') \in Nat
  <2>1. PICK n \in 0..MaxEntries : installed' \in [1..n -> ListedEntryPoint']
    BY <1>1 DEF Ask, ListedEntryPoint
  <2>2. n \in Nat
    BY <2>1
  <2> QED
    BY <2>1, <2>2
<1>3. found' = IF surface' = "exporters" THEN BuiltinReportExporters ELSE <<>>
  BY DEF Ask
<1>4. ExtensionsTypeOK'
  <2>1. DOMAIN found' \subseteq {"sarif"} /\ \A k \in DOMAIN found' : found'[k] = 0
    BY <1>3 DEF BuiltinReportExporters, Builtin
  <2>2. failures \subseteq 1..0
    BY <1>1 DEF ExtensionsInv, ExtensionsTypeOK
  <2> QED
    BY <1>1, <1>2, <2>1, <2>2 DEF ExtensionsTypeOK, Key
<1>5. FoundInv'
  BY <1>1, <1>3 DEF FoundInv, BuiltinReportExporters
<1>6. ServedInv'
  BY <1>1 DEF ServedInv, Surface
<1> QED
  BY <1>2, <1>4, <1>5, <1>6 DEF ExtensionsInv

\* Examining one more entry point: what was found before stays, and one that is
\* not faulty is found under its keys.
LEMMA LoadStep ==
  ASSUME ExtensionsInv, NEW s \in Surface, Load(s), surface = s,
         DOMAIN found \subseteq DOMAIN found',
         \A k \in DOMAIN found : found'[k] = found[k],
         \A k \in DOMAIN found' \ DOMAIN found :
           k \in (IF s = "packs" THEN Key \ {"KEY"} ELSE Key) /\ found'[k] = examined + 1,
         installed[examined + 1].load # "faulty" =>
           IF s = "packs" THEN \A i \in 1..2 : Lower(installed[examined + 1].keys[i]) \in DOMAIN found'
           ELSE installed[examined + 1].keys[1] \in DOMAIN found'
  PROVE  ExtensionsInv'
<1>1. /\ examined < Len(installed) /\ examined' = examined + 1
      /\ failures' = failures \cup Failed(examined + 1)
      /\ UNCHANGED <<surface, installed, served>>
  BY DEF Load
<1>2. /\ examined \in 0..Len(installed) /\ Len(installed) \in Nat
      /\ failures \subseteq 1..examined
      /\ \A k \in DOMAIN found : found[k] \in 0..examined
  BY DEF ExtensionsInv, ExtensionsTypeOK
<1>3. examined \in Nat /\ 1..examined' = 1..examined \cup {examined + 1}
  BY <1>1, <1>2
<1>4. Failed(examined + 1) = IF installed[examined + 1].load = "faulty" THEN {examined + 1} ELSE {}
  BY DEF Failed
<1>5. \A k \in DOMAIN found' : found'[k] \in 0..examined'
  BY <1>1, <1>2, <1>3
<1>6. ExtensionsTypeOK'
  <2>1. failures' \subseteq 1..examined'
    BY <1>1, <1>2, <1>3, <1>4
  <2>2. DOMAIN found' \subseteq IF s = "packs" THEN Key \ {"KEY"} ELSE Key
    BY DEF ExtensionsInv, ExtensionsTypeOK
  <2>3. examined' \in 0..Len(installed')
    BY <1>1, <1>2
  <2> QED
    BY <1>1, <1>5, <2>1, <2>2, <2>3 DEF ExtensionsInv, ExtensionsTypeOK
<1>7. FoundInv'
  <2>1. \A e \in 1..examined' : e \in failures' <=> installed'[e].load = "faulty"
    <3>1. examined + 1 \notin failures
      BY <1>2, <1>3
    <3>2. \A e \in 1..examined : e # examined + 1
      BY <1>3
    <3> QED
      BY <1>1, <1>3, <1>4, <3>1, <3>2 DEF ExtensionsInv, FoundInv
  <2>2. surface' = "exporters" => "sarif" \in DOMAIN found' /\ found'["sarif"] = Builtin
    BY <1>1 DEF ExtensionsInv, FoundInv
  <2>3. ASSUME NEW e \in 1..examined, e \notin failures'
        PROVE  IF surface = "packs"
               THEN \A i \in 1..2 : /\ Lower(installed[e].keys[i]) \in DOMAIN found'
                                    /\ found'[Lower(installed[e].keys[i])] <= e
               ELSE installed[e].keys[1] \in DOMAIN found' /\ found'[installed[e].keys[1]] <= e
    BY <1>1, <2>3 DEF ExtensionsInv, FoundInv
  <2>4. ASSUME examined + 1 \notin failures'
        PROVE  IF surface = "packs"
               THEN \A i \in 1..2 :
                      /\ Lower(installed[examined + 1].keys[i]) \in DOMAIN found'
                      /\ found'[Lower(installed[examined + 1].keys[i])] <= examined + 1
               ELSE /\ installed[examined + 1].keys[1] \in DOMAIN found'
                    /\ found'[installed[examined + 1].keys[1]] <= examined + 1
    <3>1. installed[examined + 1].load # "faulty"
      BY <1>1, <1>4, <2>4
    <3>2. \A k \in DOMAIN found' : found'[k] <= examined + 1
      BY <1>1, <1>3, <1>5
    <3> QED
      BY <3>1, <3>2
  <2>5. \A e \in 1..examined' : e \notin failures' =>
          IF surface' = "packs"
          THEN \A i \in 1..2 : /\ Lower(installed'[e].keys[i]) \in DOMAIN found'
                               /\ found'[Lower(installed'[e].keys[i])] <= e
          ELSE installed'[e].keys[1] \in DOMAIN found' /\ found'[installed'[e].keys[1]] <= e
    BY <1>1, <1>3, <2>3, <2>4
  <2> QED
    BY <2>1, <2>2, <2>5 DEF FoundInv
<1>8. ServedInv'
  <2>1. served = "none" /\ surface # "none"
    BY <1>1, <1>2 DEF ExtensionsInv, ServedInv, Surface
  <2> QED
    BY <1>1, <2>1 DEF ServedInv
<1>9. installed' \in Seq(ListedEntryPoint')
  BY <1>1 DEF ExtensionsInv, ListedEntryPoint
<1> QED
  BY <1>6, <1>7, <1>8, <1>9 DEF ExtensionsInv

\* A config pack provider.
LEMMA PacksStep ==
  ASSUME ExtensionsInv, DiscoverConfigPacks
  PROVE  ExtensionsInv'
<1>1. Load("packs") /\ surface = "packs"
  BY DEF DiscoverConfigPacks, Load
<1>2. PICK e : e = examined + 1
  OBVIOUS
<1>3. e \in 1..Len(installed)
  BY <1>1, <1>2 DEF Load, ExtensionsInv, ExtensionsTypeOK
<1>4. PICK k \in Key \ {"KEY"}, l \in Key \ {"KEY"} :
        k = Lower(installed[e].keys[1]) /\ l = Lower(installed[e].keys[2])
  BY <1>1, <1>3, EntryFacts, LowerKey DEF ExtensionsInv
<1>5. PICK first : first = SetDefault(found, k, e)
  OBVIOUS
<1>6. PICK both : both = SetDefault(first, l, e)
  OBVIOUS
<1>7. IF installed[e].load = "faulty" THEN found' \in {found, first} ELSE found' = both
  BY <1>2, <1>4, <1>5, <1>6 DEF DiscoverConfigPacks
<1>8. /\ DOMAIN first = DOMAIN found \cup {k}
      /\ \A x \in DOMAIN found : first[x] = found[x]
      /\ k \notin DOMAIN found => first[k] = e
  BY <1>5 DEF SetDefault
<1>9. /\ DOMAIN both = DOMAIN first \cup {l}
      /\ \A x \in DOMAIN first : both[x] = first[x]
      /\ l \notin DOMAIN first => both[l] = e
  BY <1>6 DEF SetDefault
<1>10. /\ DOMAIN found \subseteq DOMAIN found'
       /\ \A x \in DOMAIN found : found'[x] = found[x]
       /\ \A x \in DOMAIN found' \ DOMAIN found : x \in Key \ {"KEY"} /\ found'[x] = e
       /\ installed[e].load # "faulty" => k \in DOMAIN found' /\ l \in DOMAIN found'
  BY <1>7, <1>8, <1>9
<1>11. installed[e].load # "faulty" =>
         \A i \in 1..2 : Lower(installed[e].keys[i]) \in DOMAIN found'
  BY <1>4, <1>10
<1> QED
  BY <1>1, <1>2, <1>10, <1>11, LoadStep DEF Surface

\* Any other entry point.
LEMMA DefinitionStep ==
  ASSUME ExtensionsInv, NEW s \in Surface \ {"packs"}, Load(s), DefinitionFound
  PROVE  ExtensionsInv'
<1> DEFINE e == examined + 1
<1>1. surface = s /\ e \in 1..Len(installed)
  BY DEF Load, ExtensionsInv, ExtensionsTypeOK
<1>2. PICK k \in Key : k = installed[e].keys[1]
  BY <1>1, EntryFacts DEF ExtensionsInv
<1>3. IF installed[e].load = "faulty" THEN UNCHANGED found ELSE found' = SetDefault(found, k, e)
  BY <1>2 DEF DefinitionFound
<1>4. /\ DOMAIN SetDefault(found, k, e) = DOMAIN found \cup {k}
      /\ \A x \in DOMAIN found : SetDefault(found, k, e)[x] = found[x]
      /\ k \notin DOMAIN found => SetDefault(found, k, e)[k] = e
  BY SetDefaultKeeps
<1>5. /\ DOMAIN found \subseteq DOMAIN found'
      /\ \A x \in DOMAIN found : found'[x] = found[x]
      /\ \A x \in DOMAIN found' \ DOMAIN found : x \in Key /\ found'[x] = e
      /\ installed[e].load # "faulty" => installed[e].keys[1] \in DOMAIN found'
  BY <1>2, <1>3, <1>4
<1> QED
  BY <1>1, <1>5, LoadStep

\* Serving changes nothing of what is known.
LEMMA ServeStep ==
  ASSUME ExtensionsInv, Discovered, NEW s, Serve(s),
         s \in {"passed", "failed", "unknown", "clean"},
         surface = "policies" /\ s = "passed" => ~PolicyErrors,
         s = "clean" => failures = {}
  PROVE  ExtensionsInv'
<1>1. served' = s /\ UNCHANGED <<surface, installed, examined, found, failures>>
  BY DEF Serve
<1>2. surface # "none" /\ examined = Len(installed)
  BY DEF Discovered
<1>3. PolicyErrors' <=> PolicyErrors
  BY <1>1 DEF PolicyErrors, Works
<1>4. ExtensionsTypeOK'
  BY <1>1 DEF ExtensionsInv, ExtensionsTypeOK
<1>5. FoundInv'
  BY <1>1 DEF ExtensionsInv, FoundInv
<1>6. ServedInv'
  BY <1>1, <1>2, <1>3 DEF ServedInv
<1> QED
  BY <1>1, <1>4, <1>5, <1>6 DEF ExtensionsInv, ListedEntryPoint

LEMMA ResolveStep ==
  ASSUME ExtensionsInv, NEW s \in Surface \ {"policies"}, NEW k, Resolve(s, k)
  PROVE  ExtensionsInv'
<1>1. Discovered /\ surface = s /\ \E v \in {"unknown", "passed", "failed"} : Serve(v)
  BY DEF Resolve
<1> QED
  BY <1>1, ServeStep

\* The groups' loaders: what is found, what is reported and what is served agree with the
\* entry points examined so far.
THEOREM ExtensionsInductive == ExtensionsSpec => []ExtensionsInv
<1>1. ExtensionsInit => ExtensionsInv
  <2> SUFFICES ASSUME ExtensionsInit PROVE ExtensionsInv
    OBVIOUS
  <2>1. /\ surface = "none" /\ installed = <<>> /\ examined = 0 /\ found = <<>>
        /\ failures = {} /\ served = "none"
    BY DEF ExtensionsInit
  <2>2. installed \in Seq(ListedEntryPoint) /\ Len(installed) = 0
    BY <2>1
  <2>3. ExtensionsTypeOK
    BY <2>1, <2>2 DEF ExtensionsTypeOK
  <2>4. FoundInv
    BY <2>1 DEF FoundInv
  <2> QED
    BY <2>1, <2>2, <2>3, <2>4 DEF ExtensionsInv, ServedInv
<1>2. ExtensionsInv /\ [ExtensionsNext]_extensionVars => ExtensionsInv'
  <2> SUFFICES ASSUME ExtensionsInv, [ExtensionsNext]_extensionVars PROVE ExtensionsInv'
    OBVIOUS
  <2>1. CASE UNCHANGED extensionVars
    BY <2>1 DEF extensionVars, ExtensionsInv, ListedEntryPoint, ExtensionsTypeOK, FoundInv,
       ServedInv, PolicyErrors, Works
  <2>2. CASE Ask
    BY <2>2, AskStep
  <2>3. CASE DiscoverConfigPacks
    BY <2>3, PacksStep
  <2>4. CASE DiscoverPolicyChecks \/ DiscoverExternalReportExporters
             \/ DiscoverArtifactViews \/ DiscoverIntegrations \/ DiscoverApplicationBundles
    BY <2>4, DefinitionStep
       DEF DiscoverPolicyChecks, DiscoverExternalReportExporters, DiscoverArtifactViews,
           DiscoverIntegrations, DiscoverApplicationBundles, Surface
  <2>5. CASE EvaluatePolicyChecks
    <3>1. Discovered /\ Serve(IF PolicyErrors THEN "failed" ELSE "passed")
      BY <2>5 DEF EvaluatePolicyChecks
    <3> QED
      BY <3>1, ServeStep
  <2>6. CASE ReportDocuments
    <3>1. Discovered /\ surface = "views" /\ (Serve("failed") \/ Serve("passed"))
      BY <2>6 DEF ReportDocuments
    <3> QED
      BY <3>1, ServeStep
  <2>7. CASE DoctorEnvironment
    <3>1. Discovered /\ Serve(IF failures = {} THEN "clean" ELSE "failed")
      BY <2>7 DEF DoctorEnvironment
    <3> QED
      BY <3>1, ServeStep
  <2>8. ASSUME NEW k \in Key,
               \/ GetConfigPack(k) \/ RenderReportExport(k) \/ RenderExternalArtifactView(k)
               \/ PublishRunEvidence(k) \/ ResolveApplicationBundle(k)
        PROVE  ExtensionsInv'
    BY <2>8, ResolveStep
       DEF GetConfigPack, RenderReportExport, RenderExternalArtifactView, PublishRunEvidence,
           ResolveApplicationBundle, Surface
  <2> QED
    BY <2>1, <2>2, <2>3, <2>4, <2>5, <2>6, <2>7, <2>8 DEF ExtensionsNext
<1> QED
  BY <1>1, <1>2, PTL DEF ExtensionsSpec

\* What is installed is used or reported, for any number of entry points: the first
\* definition of a key stands, and no check or view fails unseen.
THEOREM Honoured == ExtensionsSpec => []InstalledIsHonoured
<1>1. ExtensionsInv => InstalledIsHonoured
  <2> SUFFICES ASSUME ExtensionsInv PROVE InstalledIsHonoured
    OBVIOUS
  <2>0. /\ examined \in 0..Len(installed) /\ Len(installed) \in Nat
        /\ \A k \in DOMAIN found : found[k] \in 0..examined
    BY DEF ExtensionsInv, ExtensionsTypeOK
  <2>1. FirstDefinitionStands
    <3>1. ASSUME NEW e \in 1..examined, e \notin failures, NEW i \in DOMAIN installed[e].keys
          PROVE  \E x \in DOMAIN found :
                   x \in {installed[e].keys[i], Lower(installed[e].keys[i])} /\ found[x] <= e
      <4>1. e \in 1..Len(installed)
        BY <2>0
      <4>2. CASE surface = "packs"
        <5>1. i \in 1..2
          BY <3>1, <4>1, <4>2, EntryFacts DEF ExtensionsInv
        <5> QED
          BY <3>1, <4>2, <5>1 DEF ExtensionsInv, FoundInv
      <4>3. CASE surface # "packs"
        <5>1. i = 1
          BY <3>1, <4>1, <4>3, EntryFacts DEF ExtensionsInv
        <5> QED
          BY <3>1, <4>3, <5>1 DEF ExtensionsInv, FoundInv
      <4> QED
        BY <4>2, <4>3
    <3> QED
      BY <3>1 DEF FirstDefinitionStands, ExtensionsInv, FoundInv
  <2>2. ASSUME surface = "policies", served = "passed", NEW e \in 1..Len(installed)
        PROVE  /\ installed[e].load = "fine"
               /\ installed[e].works = "fine" \/ found[installed[e].keys[1]] < e
    <3>1. examined = Len(installed) /\ ~PolicyErrors
      BY <2>2 DEF ExtensionsInv, ServedInv
    <3>2. e \notin failures /\ installed[e].load = "fine"
      BY <2>2, <3>1, EntryFacts DEF PolicyErrors, ExtensionsInv, FoundInv
    <3>3. PICK k \in DOMAIN found : k = installed[e].keys[1] /\ found[k] <= e
      BY <2>2, <3>1, <3>2 DEF ExtensionsInv, FoundInv
    <3>4. Works(k) = "fine"
      BY <3>1 DEF PolicyErrors
    <3>5. found[k] = e => installed[e].works = "fine"
      BY <3>4, <2>0, <2>2 DEF Works, Builtin
    <3>6. found[k] \in Nat /\ e \in Nat
      BY <2>0
    <3> QED
      BY <3>2, <3>3, <3>5, <3>6
  <2>3. ASSUME served = "clean", NEW e \in 1..Len(installed)
        PROVE  installed[e].load = "fine"
    <3>1. examined = Len(installed) /\ failures = {}
      BY <2>3 DEF ExtensionsInv, ServedInv
    <3> QED
      BY <2>3, <3>1, EntryFacts DEF ExtensionsInv, FoundInv
  <2> QED
    BY <2>1, <2>2, <2>3 DEF InstalledIsHonoured, PoliciesFailClosed
<1> QED
  BY <1>1, ExtensionsInductive, PTL

(***************************************************************************)
(* EseConfig                                                               *)
(***************************************************************************)

Fields ==
  {"mode", "provider", "model", "models", "providers", "pairs", "apart", "specialists",
   "distinct", "adapter", "scope", "url"}

WellFormed(c) ==
  /\ DOMAIN c = Fields
  /\ c.mode \in {"ensemble", "solo"}
  /\ DOMAIN c.models \in Team
  /\ DOMAIN c.providers = DOMAIN c.models

\* What setup and tasks generate.
Generated(c) ==
  /\ c.scope /\ c.specialists = 0 /\ c.distinct = 0 /\ c.apart = {}
  /\ c.pairs \subseteq {b \in Baseline : b \subseteq DOMAIN c.models}
  /\ c.provider \in Provider
  /\ \A r \in DOMAIN c.models : c.providers[r] = c.provider
  /\ c.mode = "ensemble" => c.models = Diverse(c.provider, c.model, DOMAIN c.models)

FileInv ==
  /\ configFile.by = "nobody" => configFile = NoFile
  /\ configFile.by # "nobody" => WellFormed(configFile.cfg)
  /\ configFile.by = "setup" => Generated(configFile.cfg)

RunInv ==
  /\ run.by = "nobody" => run = NoRun
  /\ run.by # "nobody" => WellFormed(run.cfg) /\ AdapterContract(run.cfg)
  /\ run.by = "doctor" => Accepted(run.cfg)

ConfigInv == ConfigTypeOK /\ FileInv /\ RunInv

(* The diversity of generated models *)

LEMMA LeastOfNaturals ==
  ASSUME NEW T \in SUBSET Nat, T # {}
  PROVE  \E k \in T : \A l \in T : k <= l
<1>1. PICK k \in T : \A x \in Nat : <<x, k>> \in OpToRel(<, Nat) => x \notin T
  BY NatLessThanWellFounded, WFMin
<1>2. \A x \in Nat : x < k => x \notin T
  BY <1>1 DEF OpToRel
<1> QED
  BY <1>2

\* assign_distinct changes one role's model at most, and gives it an alternative nobody
\* it must differ from has, if there is one.
LEMMA AssignFacts ==
  ASSUME NEW p \in Provider, NEW base, NEW models, NEW a
  PROVE  /\ \A r \in DOMAIN models \ {a[1]} : Assign(p, base, models, a)[r] = models[r]
         /\ a[1] \in DOMAIN models =>
              \/ /\ Assign(p, base, models, a)[a[1]] \in Range(Common[p]) \ {base}
                 /\ \A r \in a[2] \cap DOMAIN models : Assign(p, base, models, a)[a[1]] # models[r]
              \/ /\ \A o \in Range(Common[p]) \ {base} : \E r \in a[2] \cap DOMAIN models : o = models[r]
                 /\ Assign(p, base, models, a)[a[1]] = models[a[1]]
<1>1. PICK banned : banned = {models[r] : r \in a[2] \cap DOMAIN models}
  OBVIOUS
<1>2. PICK free : free = {k \in DOMAIN Common[p] : Common[p][k] \notin banned \cup {base}}
  OBVIOUS
<1>3. PICK first : first = CHOOSE k \in free : \A l \in free : k <= l
  OBVIOUS
<1>4. PICK result : result = Assign(p, base, models, a)
  OBVIOUS
<1>5. result = IF a[1] \in DOMAIN models /\ free # {}
               THEN [models EXCEPT ![a[1]] = Common[p][first]] ELSE models
  BY <1>1, <1>2, <1>3, <1>4 DEF Assign
<1>6. Common[p] \in Seq(Range(Common[p]))
  BY ConfigAssumption DEF Provider
<1>7. DOMAIN Common[p] \subseteq Nat
  BY <1>6
<1>8. Range(Common[p]) = {Common[p][k] : k \in DOMAIN Common[p]}
  BY DEF Range
<1>9. free # {} => first \in free
  <2> SUFFICES ASSUME free # {} PROVE first \in free
    OBVIOUS
  <2>1. free \subseteq Nat
    BY <1>2, <1>7
  <2>2. \E k \in free : \A l \in free : k <= l
    BY <2>1, LeastOfNaturals
  <2> QED
    BY <1>3, <2>2
<1>10. free # {} => Common[p][first] \in Range(Common[p]) \ {base} /\ Common[p][first] \notin banned
  BY <1>2, <1>8, <1>9
<1>11. free = {} => \A o \in Range(Common[p]) \ {base} : o \in banned
  BY <1>2, <1>8
<1>12. \A r \in DOMAIN models \ {a[1]} : result[r] = models[r]
  BY <1>5
<1>13. a[1] \in DOMAIN models /\ free # {} => result[a[1]] = Common[p][first]
  BY <1>5
<1>14. free = {} => result[a[1]] = models[a[1]]
  BY <1>5
<1>15. a[1] \in DOMAIN models =>
         \/ /\ result[a[1]] \in Range(Common[p]) \ {base}
            /\ \A r \in a[2] \cap DOMAIN models : result[a[1]] # models[r]
         \/ /\ \A o \in Range(Common[p]) \ {base} : \E r \in a[2] \cap DOMAIN models : o = models[r]
            /\ result[a[1]] = models[a[1]]
  BY <1>1, <1>10, <1>11, <1>13, <1>14
<1> QED
  BY <1>4, <1>12, <1>15

LEMMA AssignTeam ==
  ASSUME NEW p, NEW base, NEW models, NEW assignment
  PROVE  DOMAIN Assign(p, base, models, assignment) = DOMAIN models
  BY DEF Assign

LEMMA DiverseTeam ==
  ASSUME NEW p \in Provider, NEW base, NEW team
  PROVE  DOMAIN Diverse(p, base, team) = team
<1>2. DOMAIN [r \in team |-> base] = team
  OBVIOUS
<1> QED
  BY <1>2, AssignTeam DEF Diverse

\* With two alternatives to the base model, no two roles that check one another have
\* the same.
LEMMA DiverseApart ==
  ASSUME NEW p \in Provider, NEW base, NEW team,
         NEW others, others = Range(Common[p]) \ {base},
         NEW x \in others, NEW y \in others, x # y,
         NEW pair \in Baseline, pair \subseteq team
  PROVE  \A q, r \in pair : q # r => Diverse(p, base, team)[q] # Diverse(p, base, team)[r]
<1>1. Len(Common[p]) >= 2
  <2>1. Common[p] \in Seq(Range(Common[p])) /\ Range(Common[p]) = {Common[p][k] : k \in DOMAIN Common[p]}
    BY ConfigAssumption DEF Provider, Range
  <2>2. Len(Common[p]) \in Nat /\ DOMAIN Common[p] = 1..Len(Common[p])
    BY <2>1
  <2>3. PICK i \in 1..Len(Common[p]), j \in 1..Len(Common[p]) : Common[p][i] = x /\ Common[p][j] = y
    BY <2>1, <2>2
  <2>4. i # j
    BY <2>3
  <2> QED
    BY <2>2, <2>3, <2>4
<1>2. PICK m0 : m0 = [r \in team |-> base]
  OBVIOUS
<1>31. PICK a1 : a1 = Assignments[1]
  OBVIOUS
<1>32. a1[1] = "implementer" /\ a1[2] = {"architect"}
  BY <1>31 DEF Assignments
<1>3. PICK m1 : m1 = Assign(p, base, m0, a1)
  OBVIOUS
<1>41. PICK a2 : a2 = Assignments[2]
  OBVIOUS
<1>42. a2[1] = "adversarial_reviewer" /\ a2[2] = {"implementer", "security_auditor"}
  BY <1>41 DEF Assignments
<1>4. PICK m2 : m2 = Assign(p, base, m1, a2)
  OBVIOUS
<1>51. PICK a3 : a3 = Assignments[3]
  OBVIOUS
<1>52. a3[1] = "security_auditor" /\ a3[2] = {"implementer", "adversarial_reviewer"}
  BY <1>51 DEF Assignments
<1>5. PICK m3 : m3 = Assign(p, base, m2, a3)
  OBVIOUS
<1>61. PICK a4 : a4 = Assignments[4]
  OBVIOUS
<1>62. a4[1] = "release_manager" /\ a4[2] = {"implementer"}
  BY <1>61 DEF Assignments
<1>6. PICK m4 : m4 = Assign(p, base, m3, a4)
  OBVIOUS
<1>7. ~(Len(Common[p]) < 2)
  <2>1. Common[p] \in Seq(Range(Common[p]))
    BY ConfigAssumption DEF Provider
  <2>2. Len(Common[p]) \in Nat
    BY <2>1
  <2> QED
    BY <1>1, <2>2
<1>8. Diverse(p, base, team) = m4
  BY <1>2, <1>3, <1>31, <1>4, <1>41, <1>5, <1>51, <1>6, <1>61, <1>7 DEF Diverse
<1>10. base \notin others
  OBVIOUS
<1>11. /\ DOMAIN m1 = team
       /\ \A r \in team \ {"implementer"} : m1[r] = base
       /\ "implementer" \in team => m1["implementer"] \in others
  <2>1. DOMAIN m1 = team
    BY <1>2, <1>3, AssignTeam
  <2>2. \A r \in team \ {"implementer"} : m1[r] = base
    BY <1>2, <1>3, <1>32, AssignFacts
  <2>3. "implementer" \in team =>
          \/ m1["implementer"] \in others
          \/ \A o \in others : \E r \in {"architect"} \cap team : o = m0[r]
    BY <1>2, <1>3, <1>32, AssignFacts
  <2> QED
    BY <1>2, <1>10, <2>1, <2>2, <2>3
<1>12. /\ DOMAIN m2 = team
       /\ \A r \in team \ {"adversarial_reviewer"} : m2[r] = m1[r]
       /\ "adversarial_reviewer" \in team =>
            /\ m2["adversarial_reviewer"] \in others
            /\ "implementer" \in team => m2["adversarial_reviewer"] # m1["implementer"]
  <2>1. DOMAIN m2 = team
    BY <1>4, <1>11, AssignTeam
  <2>2. \A r \in team \ {"adversarial_reviewer"} : m2[r] = m1[r]
    BY <1>4, <1>42, <1>11, AssignFacts
  <2>3. "adversarial_reviewer" \in team =>
          \/ /\ m2["adversarial_reviewer"] \in others
             /\ "implementer" \in team => m2["adversarial_reviewer"] # m1["implementer"]
          \/ \A o \in others : \E r \in {"implementer", "security_auditor"} \cap team : o = m1[r]
    BY <1>4, <1>42, <1>11, AssignFacts
  <2>4. ~ \A o \in others : \E r \in {"implementer", "security_auditor"} \cap team : o = m1[r]
    <3>1. x # base /\ y # base
      OBVIOUS
    <3>2. x # m1["implementer"] \/ y # m1["implementer"]
      OBVIOUS
    <3>3. "security_auditor" \in team => m1["security_auditor"] = base
      BY <1>11
    <3> QED
      BY <3>1, <3>2, <3>3
  <2> QED
    BY <2>1, <2>2, <2>3, <2>4
<1>13. /\ DOMAIN m3 = team
       /\ \A r \in team \ {"security_auditor"} : m3[r] = m2[r]
       /\ "security_auditor" \in team =>
            /\ "implementer" \in team => m3["security_auditor"] # m2["implementer"]
            /\ "adversarial_reviewer" \in team => m3["security_auditor"] # m2["adversarial_reviewer"]
  <2>1. DOMAIN m3 = team
    BY <1>5, <1>12, AssignTeam
  <2>2. \A r \in team \ {"security_auditor"} : m3[r] = m2[r]
    BY <1>5, <1>52, <1>12, AssignFacts
  <2>3. "security_auditor" \in team =>
          \/ \A r \in {"implementer", "adversarial_reviewer"} \cap team : m3["security_auditor"] # m2[r]
          \/ m3["security_auditor"] = m2["security_auditor"]
    BY <1>5, <1>52, <1>12, AssignFacts
  <2>4. /\ "security_auditor" \in team => m2["security_auditor"] = base
        /\ "implementer" \in team => m2["implementer"] # base
        /\ "adversarial_reviewer" \in team => m2["adversarial_reviewer"] # base
    BY <1>10, <1>11, <1>12
  <2> QED
    BY <2>1, <2>2, <2>3, <2>4
<1>14. /\ \A r \in team \ {"release_manager"} : m4[r] = m3[r]
       /\ "release_manager" \in team /\ "implementer" \in team =>
            m4["release_manager"] # m3["implementer"]
  <2>1. \A r \in team \ {"release_manager"} : m4[r] = m3[r]
    BY <1>6, <1>62, <1>13, AssignFacts
  <2>2. "release_manager" \in team =>
          \/ "implementer" \in team => m4["release_manager"] # m3["implementer"]
          \/ \A o \in others : \E r \in {"implementer"} \cap team : o = m3[r]
    BY <1>6, <1>62, <1>13, AssignFacts
  <2>3. ~ \A o \in others : \E r \in {"implementer"} \cap team : o = m3[r]
    <3>1. x # m3["implementer"] \/ y # m3["implementer"]
      OBVIOUS
    <3> QED
      BY <3>1
  <2> QED
    BY <2>1, <2>2, <2>3
<1>15. CASE pair = {"architect", "implementer"}
  BY <1>8, <1>10, <1>11, <1>12, <1>13, <1>14, <1>15
<1>16. CASE pair = {"implementer", "adversarial_reviewer"}
  BY <1>8, <1>11, <1>12, <1>13, <1>14, <1>16
<1>17. CASE pair = {"implementer", "security_auditor"}
  BY <1>8, <1>12, <1>13, <1>14, <1>17
<1>18. CASE pair = {"adversarial_reviewer", "security_auditor"}
  BY <1>8, <1>12, <1>13, <1>14, <1>18
<1>19. CASE pair = {"implementer", "release_manager"}
  BY <1>8, <1>12, <1>13, <1>14, <1>19
<1> QED
  BY <1>15, <1>16, <1>17, <1>18, <1>19 DEF Baseline

(* What is generated passes the doctor. *)

LEMMA CardinalityOfTwo ==
  ASSUME NEW q, NEW r
  PROVE  q # r => Cardinality({q, r}) = 2
<1> SUFFICES ASSUME q # r PROVE Cardinality({q, r}) = 2
  OBVIOUS
<1>1. IsFiniteSet({q}) /\ Cardinality({q}) = 1
  BY FS_Singleton
<1>2. Cardinality({q} \cup {r}) = Cardinality({q}) + 1
  BY <1>1, FS_AddElement
<1>3. {q, r} = {q} \cup {r}
  OBVIOUS
<1> QED
  BY <1>1, <1>2, <1>3

LEMMA TwoOfMany ==
  ASSUME NEW S, Cardinality(S) >= 2
  PROVE  \E x \in S, y \in S : x # y
<1> SUFFICES ASSUME \A x \in S, y \in S : x = y PROVE FALSE
  OBVIOUS
<1>1. CASE S = {}
  BY <1>1, FS_EmptySet
<1>2. CASE S # {}
  <2>1. PICK x \in S : S = {x}
    BY <1>2
  <2>2. Cardinality({x}) = 1
    BY FS_Singleton
  <2>3. Cardinality(S) = 1
    BY <2>1, <2>2
  <2> QED
    BY <2>3
<1> QED
  BY <1>1, <1>2

LEMMA GeneratedAccepted ==
  ASSUME NEW c, WellFormed(c), Generated(c), ~strict,
         Cardinality(Range(Common[c.provider]) \ {c.model}) >= 2
  PROVE  Accepted(c)
<1>1. PICK team \in Team : team = DOMAIN c.models
  BY DEF WellFormed
<1>2. IsFiniteSet(team)
  BY ConfigAssumption
<1>3. c.scope /\ c.specialists = 0 /\ c.distinct = 0 /\ c.apart = {} /\ c.pairs \subseteq Baseline
  BY DEF Generated
<1>4. Named(c) = team
  <2>1. \A b \in c.pairs \cup c.apart : b \subseteq team
    BY <1>1, <1>3 DEF Generated
  <2> QED
    BY <1>1, <2>1 DEF Named
<1>5. Cardinality(Named(c) \ {"architect", "implementer"}) >= c.specialists
  <2>1. IsFiniteSet(team \ {"architect", "implementer"})
    BY <1>2, FS_Subset
  <2> QED
    BY <1>3, <1>4, <2>1, FS_CardinalityType
<1>6. Cardinality({Identity(c, r) : r \in Named(c)}) >= c.distinct
  <2>1. PICK S : S = {Identity(c, r) : r \in team}
    OBVIOUS
  <2>2. IsFiniteSet(S)
    <3>1. PICK f : f = [r \in team |-> Identity(c, r)]
      OBVIOUS
    <3>2. f \in Surjection(team, S)
      BY <2>1, <3>1 DEF Surjection
    <3> QED
      BY <1>2, <3>2, FS_Surjection
  <2> QED
    BY <1>3, <1>4, <2>1, <2>2, FS_CardinalityType
<1>7. ASSUME c.mode = "ensemble", NEW pair \in Baseline, pair \subseteq team
      PROVE  Cardinality({Identity(c, r) : r \in pair}) = 2
  <2>1. PICK p, base : p = c.provider /\ base = c.model
    OBVIOUS
  <2>2. PICK others : others = Range(Common[p]) \ {base}
    OBVIOUS
  <2>3. PICK x \in others, y \in others : x # y
    BY <2>1, <2>2, TwoOfMany
  <2>4. c.models = Diverse(p, base, team) /\ p \in Provider
    BY <1>1, <1>7, <2>1 DEF Generated
  <2>5. \A q, r \in pair : q # r => Diverse(p, base, team)[q] # Diverse(p, base, team)[r]
    BY <1>7, <2>2, <2>3, <2>4, DiverseApart, ZenonT(30)
  <2>6. \A q, r \in pair : q # r => c.models[q] # c.models[r]
    BY <2>4, <2>5
  <2>7. PICK q \in pair, r \in pair : q # r /\ pair = {q, r}
    BY DEF Baseline
  <2>8. /\ Identity(c, q) = <<c.providers[q], c.models[q]>>
        /\ Identity(c, r) = <<c.providers[r], c.models[r]>>
    BY <1>1, <1>7 DEF Identity
  <2>9. Identity(c, q) # Identity(c, r)
    BY <2>6, <2>7, <2>8
  <2>10. {Identity(c, z) : z \in pair} = {Identity(c, q), Identity(c, r)}
    BY <2>7
  <2> QED
    BY <2>9, <2>10, CardinalityOfTwo
<1>8. \A pair \in Baseline \cup c.pairs : pair \in Baseline
  BY <1>3
<1> QED
  BY <1>3, <1>4, <1>5, <1>6, <1>7, <1>8 DEF Accepted

(* The invariant. *)

LEMMA ConfigFacts ==
  ASSUME NEW choice \in ModelChoices, NEW mode \in {"ensemble", "solo"}, NEW team \in Team,
         NEW models, DOMAIN models = team, NEW adapter, NEW url,
         NEW c, c = Config(choice, mode, models, adapter, url)
  PROVE  /\ WellFormed(c)
         /\ mode = "ensemble" /\ models = Diverse(choice[1], choice[2], team) => Generated(c)
         /\ mode = "solo" => Generated(c)
<1>1. /\ DOMAIN c = Fields
      /\ c.mode = mode /\ c.provider = choice[1] /\ c.model = choice[2] /\ c.models = models
      /\ c.providers = [r \in DOMAIN models |-> choice[1]]
      /\ c.pairs = IF mode = "ensemble" THEN {b \in Baseline : b \subseteq DOMAIN models} ELSE {}
      /\ c.apart = {} /\ c.specialists = 0 /\ c.distinct = 0
  BY DEF Config, Fields
<1>2. c.scope
  BY DEF Config
<1>3. choice[1] \in Provider
  BY DEF ModelChoices
<1>4. WellFormed(c)
  BY <1>1 DEF WellFormed
<1>5. c.pairs \subseteq {b \in Baseline : b \subseteq DOMAIN c.models}
  BY <1>1
<1>6. \A r \in DOMAIN c.models : c.providers[r] = c.provider
  BY <1>1
<1>7. c.mode = "ensemble" /\ models = Diverse(choice[1], choice[2], team) =>
        c.models = Diverse(c.provider, c.model, DOMAIN c.models)
  BY <1>1
<1> QED
  BY <1>1, <1>2, <1>3, <1>4, <1>5, <1>6, <1>7 DEF Generated

LEMMA TaskConfigFacts ==
  ASSUME NEW c \in TaskConfigs
  PROVE  WellFormed(c) /\ Generated(c) /\ AdapterContract(c)
<1>1. AdapterContract(c)
  BY DEF TaskConfigs
<1>2. PICK choice \in ModelChoices, team \in Team :
        \E adapter, url :
          c = Config(choice, "ensemble", Diverse(choice[1], choice[2], team), adapter, url)
  BY DEF TaskConfigs
<1>3. choice[1] \in Provider
  BY DEF ModelChoices
<1>4. DOMAIN Diverse(choice[1], choice[2], team) = team
  BY <1>3, DiverseTeam
<1> QED
  BY <1>1, <1>2, <1>4, ConfigFacts

LEMMA SetupConfigFacts ==
  ASSUME NEW c \in SetupConfigs
  PROVE  WellFormed(c) /\ Generated(c)
<1>1. PICK choice \in ModelChoices, team \in Team, mode \in {"ensemble", "solo"} :
        c \in {Config(choice, mode, SimpleModels(choice, mode, team),
                      adapter, adapter = "custom_api") :
                 adapter \in {"dry-run"} \cup ({choice[1]} \cap Live)}
  BY DEF SetupConfigs
<1>2. PICK models : models = SimpleModels(choice, mode, team)
  OBVIOUS
<1>3. PICK adapter : c = Config(choice, mode, models, adapter, adapter = "custom_api")
  BY <1>1, <1>2
<1>4. choice[1] \in Provider
  BY DEF ModelChoices
<1>5. CASE mode = "ensemble"
  <2>1. models = Diverse(choice[1], choice[2], team)
    BY <1>2, <1>5 DEF SimpleModels
  <2> QED
    BY <1>3, <1>4, <1>5, <2>1, DiverseTeam, ConfigFacts
<1>6. CASE mode = "solo"
  <2>1. models = [r \in team |-> choice[2]]
    BY <1>2, <1>6 DEF SimpleModels
  <2> QED
    BY <1>3, <1>6, <2>1, ConfigFacts
<1> QED
  BY <1>5, <1>6

LEMMA AdvancedConfigFacts ==
  ASSUME NEW c \in AdvancedConfigs
  PROVE  WellFormed(c)
<1>0. PICK choice \in ModelChoices, team \in Team, mode \in {"ensemble", "solo"} :
        c \in {Config(choice, mode, [r \in team |-> choice[2]], adapter, adapter = "custom_api") :
                 adapter \in {"dry-run", Reference} \cup ({choice[1]} \cap Live)}
  BY DEF AdvancedConfigs
<1>1. PICK adapter : c = Config(choice, mode, [r \in team |-> choice[2]],
                                adapter, adapter = "custom_api")
  BY <1>0
<1>2. DOMAIN [r \in team |-> choice[2]] = team
  OBVIOUS
<1> QED
  BY <1>1, <1>2, ConfigFacts

LEMMA WizardStep ==
  ASSUME ConfigInv, Wizard
  PROVE  ConfigInv'
<1>1. PICK c : \/ (c \in SetupConfigs /\ configFile' = [by |-> "setup", cfg |-> c])
              \/ (c \in AdvancedConfigs /\ configFile' = [by |-> "hand", cfg |-> c])
  BY DEF Wizard
<1>2. made < MaxRuns /\ made' = made + 1 /\ UNCHANGED <<run, strict, edits>>
  BY DEF Wizard
<1>3. /\ WellFormed(c) /\ configFile'.cfg = c /\ configFile'.by \in {"setup", "hand"}
      /\ configFile'.by = "setup" => Generated(c)
  BY <1>1, SetupConfigFacts, AdvancedConfigFacts
<1>4. RunInv'
  BY <1>2 DEF ConfigInv, RunInv, Accepted
<1>5. FileInv'
  BY <1>3 DEF FileInv
<1>6. ConfigTypeOK'
  BY <1>2, <1>3, ConfigAssumption DEF ConfigInv, ConfigTypeOK, WellFormed
<1> QED
  BY <1>4, <1>5, <1>6 DEF ConfigInv

LEMMA EditedWellFormed ==
  ASSUME NEW c, WellFormed(c),
         NEW d \in {[c EXCEPT !.scope = ~@], [c EXCEPT !.pairs = {}],
                    [c EXCEPT !.apart = {{"architect", "implementer"}}],
                    [c EXCEPT !.specialists = 2], [c EXCEPT !.distinct = 2],
                    [c EXCEPT !.adapter = "openai"], [c EXCEPT !.url = ~@]}
               \cup UNION {{[c EXCEPT !.models[r] = Own], [c EXCEPT !.providers[r] = "local"]} :
                           r \in DOMAIN c.models}
  PROVE  WellFormed(d)
<1>1. DOMAIN c = Fields
  BY DEF WellFormed
<1>2. DOMAIN d = Fields
  BY <1>1
<1>3. d.mode = c.mode
  BY <1>1 DEF Fields
<1>4. DOMAIN d.models = DOMAIN c.models
  BY <1>1 DEF Fields
<1>5. DOMAIN d.providers = DOMAIN c.providers
  BY <1>1 DEF Fields
<1> QED
  BY <1>2, <1>3, <1>4, <1>5 DEF WellFormed

LEMMA EditFileStep ==
  ASSUME ConfigInv, EditFile
  PROVE  ConfigInv'
<1>1. configFile.by # "nobody"
  BY DEF EditFile, ConfigInv, FileInv
<1>2. WellFormed(configFile.cfg)
  BY <1>1 DEF ConfigInv, FileInv
<1>3. PICK d : WellFormed(d) /\ configFile' = [by |-> "hand", cfg |-> d]
  BY <1>2, EditedWellFormed DEF EditFile
<1>4. edits < MaxEdits /\ edits' = edits + 1 /\ UNCHANGED <<run, strict, made>>
  BY DEF EditFile
<1>5. RunInv'
  BY <1>4 DEF ConfigInv, RunInv, Accepted
<1>6. FileInv'
  BY <1>3 DEF FileInv
<1>7. ConfigTypeOK'
  BY <1>3, <1>4, ConfigAssumption DEF ConfigInv, ConfigTypeOK, WellFormed
<1> QED
  BY <1>5, <1>6, <1>7 DEF ConfigInv

\* What a run that was let through leaves: a configuration that can be let through again.
LEMMA RunStarted ==
  ASSUME ConfigInv, made < MaxRuns, made' = made + 1, UNCHANGED <<strict, edits>>,
         NEW who \in {"doctor", "dashboard"}, NEW c, Started(who, c),
         WellFormed(c), AdapterContract(c), who = "doctor" => Accepted(c),
         FileInv', configFile'.by \in {"nobody", "setup", "hand"}
  PROVE  ConfigInv'
<1>1. run'.by = who /\ run'.cfg = c
  BY DEF Started
<1>2. who = "doctor" => Accepted(c)'
  BY <1>1 DEF Accepted
<1>3. RunInv'
  BY <1>1 DEF RunInv, AdapterContract, Accepted, WellFormed, Named, Identity
<1>4. ConfigTypeOK'
  BY <1>1, ConfigAssumption DEF ConfigInv, ConfigTypeOK, WellFormed, FileInv
<1> QED
  BY <1>3, <1>4 DEF ConfigInv

LEMMA StartRunStep ==
  ASSUME ConfigInv, StartRun
  PROVE  ConfigInv'
<1>1. PICK from \in {configFile, run}, scope \in BOOLEAN :
        from.by # "nobody" /\ LoadConfig(from.cfg, scope)
  BY DEF StartRun
<1>2. PICK c : c = from.cfg
  OBVIOUS
<1>3. PICK effective : effective = [c EXCEPT !.scope = @ \/ scope]
  OBVIOUS
<1>4. AdapterContract(c) /\ Accepted(effective) /\ Started("doctor", effective)
  BY <1>1, <1>2, <1>3 DEF LoadConfig
<1>5. WellFormed(c)
  BY <1>1, <1>2 DEF ConfigInv, FileInv, RunInv
<1>6. /\ DOMAIN effective = Fields
      /\ \A f \in Fields \ {"scope"} : effective[f] = c[f]
  BY <1>3, <1>5 DEF WellFormed
<1>7. WellFormed(effective)
  BY <1>5, <1>6 DEF WellFormed, Fields
<1>8. AdapterContract(effective)
  BY <1>4, <1>6 DEF AdapterContract, Fields
<1>9. made < MaxRuns /\ made' = made + 1 /\ UNCHANGED <<configFile, strict, edits>>
  BY DEF StartRun
<1>10. FileInv' /\ configFile'.by \in {"nobody", "setup", "hand"}
  BY <1>9 DEF ConfigInv, FileInv, ConfigTypeOK
<1> QED
  BY <1>4, <1>7, <1>8, <1>9, <1>10, RunStarted

LEMMA SavedFile ==
  ASSUME ConfigInv, NEW c \in TaskConfigs, Saved(c)
  PROVE  FileInv' /\ configFile'.by \in {"nobody", "setup", "hand"}
<1>1. CASE configFile' = configFile
  BY <1>1 DEF ConfigInv, ConfigTypeOK, FileInv
<1>2. CASE configFile' = [by |-> "setup", cfg |-> c]
  BY <1>2, TaskConfigFacts DEF FileInv
<1> QED
  BY <1>1, <1>2 DEF Saved

LEMMA TaskStep ==
  ASSUME ConfigInv, Task
  PROVE  ConfigInv'
<1>1. made < MaxRuns /\ made' = made + 1 /\ UNCHANGED <<strict, edits>>
  BY DEF Task
<1>2. PICK c \in TaskConfigs : /\ Saved(c)
                              /\ IF Accepted(c) THEN Started("doctor", c) ELSE UNCHANGED run
  BY DEF Task
<1>3. FileInv' /\ configFile'.by \in {"nobody", "setup", "hand"}
  BY <1>2, SavedFile
<1>4. CASE Accepted(c)
  BY <1>1, <1>2, <1>3, <1>4, TaskConfigFacts, RunStarted
<1>5. CASE UNCHANGED run
  <2>1. RunInv'
    BY <1>1, <1>5 DEF ConfigInv, RunInv, Accepted
  <2>2. ConfigTypeOK'
    BY <1>1, <1>3, <1>5, ConfigAssumption DEF ConfigInv, ConfigTypeOK, FileInv, WellFormed
  <2> QED
    BY <1>3, <2>1, <2>2 DEF ConfigInv
<1> QED
  BY <1>2, <1>4, <1>5

LEMMA DashboardTaskStep ==
  ASSUME ConfigInv, DashboardTask
  PROVE  ConfigInv'
<1>1. made < MaxRuns /\ made' = made + 1 /\ UNCHANGED <<strict, edits>>
  BY DEF DashboardTask
<1>2. PICK c \in TaskConfigs : Saved(c) /\ Started("dashboard", c)
  BY DEF DashboardTask
<1>3. FileInv' /\ configFile'.by \in {"nobody", "setup", "hand"}
  BY <1>2, SavedFile
<1> QED
  BY <1>1, <1>2, <1>3, TaskConfigFacts, RunStarted

\* config.py, doctor.py, framework_defaults.py: what is generated is well formed, and what
\* the doctor let through satisfies its checks for as long as it is kept.
THEOREM ConfigInductive == ConfigSpec => []ConfigInv
<1>1. ConfigInit => ConfigInv
  <2> SUFFICES ASSUME ConfigInit PROVE ConfigInv
    OBVIOUS
  <2>1. configFile = [by |-> "nobody"] /\ run = [by |-> "nobody"] /\ strict \in BOOLEAN
    BY DEF ConfigInit, NoFile, NoRun
  <2>2. configFile.by = "nobody" /\ run.by = "nobody"
    BY <2>1
  <2>3. ConfigTypeOK
    BY <2>1, <2>2, ConfigAssumption DEF ConfigInit, ConfigTypeOK
  <2>4. FileInv /\ RunInv
    BY <2>1, <2>2 DEF FileInv, RunInv, NoFile, NoRun
  <2> QED
    BY <2>3, <2>4 DEF ConfigInv
<1>2. ConfigInv /\ [ConfigNext]_configVars => ConfigInv'
  <2> SUFFICES ASSUME ConfigInv, [ConfigNext]_configVars PROVE ConfigInv'
    OBVIOUS
  <2>1. CASE UNCHANGED configVars
    BY <2>1 DEF configVars, ConfigInv, ConfigTypeOK, FileInv, RunInv, Accepted
  <2> QED
    BY <2>1, WizardStep, EditFileStep, StartRunStep, TaskStep, DashboardTaskStep DEF ConfigNext
<1> QED
  BY <1>1, <1>2, PTL DEF ConfigSpec

\* doctor.py, provider_runtime.py: runs go to the adapter of their roles' provider, what the
\* doctor let through can be rerun, and what simple setup and tasks generate passes it.
THEOREM ConfigsKept == ConfigSpec => []ConfigsHold
<1>1. ConfigInv => ConfigsHold
  <2> SUFFICES ASSUME ConfigInv PROVE ConfigsHold
    OBVIOUS
  <2>1. RunsAreServed
    <3> SUFFICES ASSUME run # NoRun, run.cfg.adapter \in {"openai", "local"},
                        NEW r \in DOMAIN run.cfg.models
                 PROVE  Identity(run.cfg, r)[1] = run.cfg.adapter
      BY DEF RunsAreServed
    <3>1. WellFormed(run.cfg) /\ AdapterContract(run.cfg)
      BY DEF ConfigInv, RunInv
    <3>2. run.cfg.providers[r] = run.cfg.adapter
      BY <3>1 DEF AdapterContract, WellFormed, Live
    <3>3. Identity(run.cfg, r) = <<run.cfg.providers[r], run.cfg.models[r]>>
      BY DEF Identity
    <3> QED
      BY <3>2, <3>3
  <2>2. RunsCanBeRepeated
    <3> SUFFICES ASSUME run.by = "doctor"
                 PROVE  Independent(run.cfg) /\ AdapterContract(run.cfg) /\ Accepted(run.cfg)
      BY DEF RunsCanBeRepeated
    <3>1. AdapterContract(run.cfg) /\ Accepted(run.cfg)
      BY DEF ConfigInv, RunInv
    <3>2. Independent(run.cfg)
      BY <3>1 DEF Independent, Accepted, Named
    <3> QED
      BY <3>1, <3>2
  <2>3. GeneratedPasses
    <3> SUFFICES ASSUME configFile.by = "setup", ~strict,
                        Cardinality(Range(Common[configFile.cfg.provider])
                                    \ {configFile.cfg.model}) >= 2
                 PROVE  Accepted(configFile.cfg)
      BY DEF GeneratedPasses
    <3>1. WellFormed(configFile.cfg) /\ Generated(configFile.cfg)
      BY DEF ConfigInv, FileInv
    <3> QED
      BY <3>1, GeneratedAccepted
  <2> QED
    BY <2>1, <2>2, <2>3 DEF ConfigsHold
<1> QED
  BY <1>1, ConfigInductive, PTL
=============================================================================
