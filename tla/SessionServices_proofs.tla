----------------------- MODULE SessionServices_proofs -----------------------
(* Proofs about what the service keeps of sessions, users, challenges, evidence and    *)
(* alike sessions, for any workers, requests, connections and outages; and about the   *)
(* score of a session, for any values of what it shows.                                *)
EXTENDS SessionStore, UserCache, WsSession, IdentityGraph, SdkEvidence, SdkScoring, Functions,
        FiniteSetTheorems, WellFoundedInduction, TLAPS

(***************************************************************************)
(* SessionStore                                                            *)
(***************************************************************************)

LEMMA SessionStep ==
  ASSUME FieldsKept, faults \in Nat, [SessionNext]_sessionVars
  PROVE  FieldsKept' /\ faults' \in Nat
<1>1. ASSUME NEW w \in Worker, CreateSession(w) \/ EvaluateSession(w) \/ EvaluateTelegram(w)
      PROVE  FieldsKept' /\ faults' \in Nat
  BY <1>1 DEF CreateSession, EvaluateSession, EvaluateTelegram, Request, FieldsKept
<1>2. ASSUME NEW w \in Worker, UpdateLoads(w)
      PROVE  FieldsKept' /\ faults' \in Nat
  BY <1>2 DEF UpdateLoads, FieldsKept
<1>3. ASSUME NEW w \in Worker, UpdateStores(w)
      PROVE  FieldsKept' /\ faults' \in Nat
  <2>1. PICK u : u = Head(todo[w])
    OBVIOUS
  <2>2. faults' = faults
    BY <1>3 DEF UpdateStores
  <2>3. CASE redisUp /\ Serializable(With(loaded[w], u))
    <3>1. /\ stored' = [loaded[w] EXCEPT ![u.field] = u.value]
          /\ newest' = [newest EXCEPT ![u.field] = u.value]
          /\ raced' = (raced \/ loaded[w] # stored)
      BY <1>3, <2>1, <2>3 DEF UpdateStores, With
    <3>2. ASSUME ~ raced', faults' = 0 PROVE stored' = newest'
      <4>1. loaded[w] = stored /\ stored = newest
        BY <2>2, <3>1, <3>2 DEF FieldsKept
      <4> QED
        BY <3>1, <4>1
    <3> QED
      BY <2>2, <3>2 DEF FieldsKept
  <2>4. CASE ~ (redisUp /\ Serializable(With(loaded[w], u)))
    <3>1. UNCHANGED <<stored, newest, raced>>
      BY <1>3, <2>1, <2>4 DEF UpdateStores
    <3> QED
      BY <2>2, <3>1 DEF FieldsKept
  <2> QED
    BY <2>3, <2>4
<1>4. ASSUME SessionExpires PROVE FieldsKept' /\ faults' \in Nat
  BY <1>4 DEF SessionExpires, FieldsKept
<1>5. ASSUME RedisMoves PROVE FieldsKept' /\ faults' \in Nat
  BY <1>5 DEF RedisMoves, FieldsKept
<1>6. CASE UNCHANGED sessionVars
  BY <1>6 DEF sessionVars, FieldsKept
<1> QED
  BY <1>1, <1>2, <1>3, <1>4, <1>5, <1>6 DEF SessionNext

\* update_session_field: while Redis stays, and no two updates of the session overlap, it
\* holds the last value stored of every field, however many workers and requests there are.
THEOREM FieldsAreKept == SessionSpec => []FieldsKept
<1>1. SessionInit => FieldsKept /\ faults \in Nat
  BY DEF SessionInit, FieldsKept
<1>2. (FieldsKept /\ faults \in Nat) /\ [SessionNext]_sessionVars
        => (FieldsKept /\ faults \in Nat)'
  BY SessionStep
<1> QED
  BY <1>1, <1>2, PTL DEF SessionSpec

\* An update of one field of a session.
FieldUpdate == [field : Field, value : Value]

LEMMA ValuesAre ==
  /\ A1 \in Value /\ Nothing \in Value /\ Level \subseteq Value
  /\ NoFields \in [Field -> Value]
  /\ \A u \in FieldUpdate : u.field \in Field /\ u.value \in Value
BY DEF Value, NoFields, FieldUpdate

LEMMA LoadedType == ASSUME SessionTypeOK PROVE LoadSession \in [Field -> Value]
BY ValuesAre DEF LoadSession, SessionTypeOK

\* A request numbers its values, and updates one field or two.
LEMMA RequestType ==
  ASSUME SessionTypeOK, NEW w \in Worker, NEW fields \in Seq(FieldUpdate), Request(w, fields),
         created' \in Level \cup {Nothing}, used' \subseteq Level \cup {A1}
  PROVE  SessionTypeOK'
<1>1. issued' \in 0..MaxRequests
  BY SessionAssumption DEF Request, SessionTypeOK
<1>2. todo' \in [Worker -> Seq(FieldUpdate)]
  BY DEF Request, SessionTypeOK, FieldUpdate
<1> QED
  BY <1>1, <1>2 DEF Request, SessionTypeOK, FieldUpdate

LEMMA IssuedValue == ASSUME SessionTypeOK, issued < MaxRequests PROVE issued + 1 \in Value
<1>1. issued + 1 \in 1..MaxRequests
  BY SessionAssumption DEF SessionTypeOK
<1> QED BY <1>1 DEF Value

LEMMA OneFieldIs ==
  ASSUME NEW f \in Field, NEW v \in Value
  PROVE  [field |-> f, value |-> v] \in FieldUpdate
BY DEF FieldUpdate

\* store_session never stores a session_meta, and so every evaluation takes the lowest level.
NoLevelKept == stored["session_meta"] = Nothing /\ used \subseteq {A1}

LEMMA SessionStepType ==
  ASSUME SessionTypeOK, NoLevelKept, [SessionNext]_sessionVars
  PROVE  SessionTypeOK'
<1>f. {"session_meta", "last_evaluation", "enforcement_outcome"} = Field
  BY DEF Field
<1>1. ASSUME NEW w \in Worker, CreateSession(w) PROVE SessionTypeOK'
  <2>1. created' \in Level /\ used' = {}
    BY <1>1 DEF CreateSession
  <2>2. [field |-> "session_meta", value |-> created'] \in FieldUpdate
    BY <1>f, <2>1, ValuesAre, OneFieldIs
  <2>3. <<[field |-> "session_meta", value |-> created']>> \in Seq(FieldUpdate)
    BY <2>2
  <2> QED
    BY <1>1, <2>1, <2>3, RequestType DEF CreateSession
<1>2. ASSUME NEW w \in Worker, EvaluateSession(w) PROVE SessionTypeOK'
  <2> DEFINE meta == LoadSession["session_meta"]
             result == [field |-> "last_evaluation", value |-> issued']
             fields == IF meta = Nothing
                       THEN <<[field |-> "session_meta", value |-> A1], result>> ELSE <<result>>
  <2>1. Request(w, fields) /\ used' = used \cup {LevelSeen(meta)} /\ created' = created
    BY <1>2 DEF EvaluateSession
  <2>2. result \in FieldUpdate
    BY <1>f, <2>1, IssuedValue, OneFieldIs DEF Request
  <2>3. [field |-> "session_meta", value |-> A1] \in FieldUpdate
    BY <1>f, ValuesAre, OneFieldIs
  <2> HIDE DEF result
  <2>4. fields \in Seq(FieldUpdate)
    BY <2>2, <2>3
  <2>5. LevelSeen(meta) = A1
    BY <1>f DEF LoadSession, NoFields, NoLevelKept, LevelSeen
  <2> QED
    BY <2>1, <2>4, <2>5, RequestType DEF SessionTypeOK
<1>3. ASSUME NEW w \in Worker, EvaluateTelegram(w) PROVE SessionTypeOK'
  <2> DEFINE first == [field |-> "last_evaluation", value |-> issued']
             then == [field |-> "enforcement_outcome", value |-> issued']
  <2>1. Request(w, <<first, then>>) /\ UNCHANGED <<created, used>>
    BY <1>3 DEF EvaluateTelegram
  <2>2. first \in FieldUpdate /\ then \in FieldUpdate
    BY <1>f, <2>1, IssuedValue, OneFieldIs DEF Request
  <2> HIDE DEF first, then
  <2>3. <<first, then>> \in Seq(FieldUpdate)
    BY <2>2
  <2> QED
    BY <2>1, <2>3, RequestType DEF SessionTypeOK
<1>4. ASSUME NEW w \in Worker, UpdateLoads(w) PROVE SessionTypeOK'
  BY <1>4, LoadedType DEF UpdateLoads, SessionTypeOK
<1>5. ASSUME NEW w \in Worker, UpdateStores(w) PROVE SessionTypeOK'
  <2>1. todo[w] \in Seq(FieldUpdate) /\ todo[w] # <<>> /\ loaded[w] # Idle
    BY <1>5 DEF UpdateStores, SessionTypeOK, FieldUpdate
  <2>2. PICK u \in FieldUpdate : u = Head(todo[w])
    BY <2>1
  <2>3. Tail(todo[w]) \in Seq(FieldUpdate) /\ loaded[w] \in [Field -> Value]
    BY <2>1 DEF SessionTypeOK
  <2>4. With(loaded[w], u) \in [Field -> Value] /\ [newest EXCEPT ![u.field] = u.value] \in [Field -> Value]
    BY <2>3, ValuesAre DEF With, SessionTypeOK
  <2>5. /\ stored' \in [Field -> Value] /\ newest' \in [Field -> Value] /\ raced' \in BOOLEAN
        /\ todo' = [todo EXCEPT ![w] = Tail(@)] /\ loaded' = [loaded EXCEPT ![w] = Idle]
        /\ UNCHANGED <<redisUp, issued, created, used, faults>>
    BY <1>5, <2>2, <2>4 DEF UpdateStores, SessionTypeOK
  <2>6. todo' \in [Worker -> Seq(FieldUpdate)]
    BY <2>3, <2>5 DEF SessionTypeOK, FieldUpdate
  <2> QED
    BY <2>5, <2>6 DEF SessionTypeOK, FieldUpdate
<1>6. CASE SessionExpires
  BY <1>6, ValuesAre DEF SessionExpires, SessionTypeOK
<1>7. CASE RedisMoves
  <2>1. faults' \in 0..MaxFaults
    BY <1>7, SessionAssumption DEF RedisMoves, SessionTypeOK
  <2>2. UNCHANGED <<stored, todo, loaded, issued, created, used, newest, raced>>
    BY <1>7 DEF RedisMoves
  <2>3. redisUp' \in BOOLEAN
    BY <1>7 DEF RedisMoves
  <2> QED
    BY <2>1, <2>2, <2>3 DEF SessionTypeOK
<1>8. CASE UNCHANGED sessionVars
  BY <1>8 DEF sessionVars, SessionTypeOK
<1> QED
  BY <1>1, <1>2, <1>3, <1>4, <1>5, <1>6, <1>7, <1>8 DEF SessionNext

LEMMA NoLevelStep ==
  ASSUME SessionTypeOK, NoLevelKept, [SessionNext]_sessionVars
  PROVE  NoLevelKept'
<1>1. ASSUME NEW w \in Worker, CreateSession(w) PROVE NoLevelKept'
  BY <1>1 DEF CreateSession, Request, NoLevelKept
<1>2. ASSUME NEW w \in Worker, EvaluateSession(w) PROVE NoLevelKept'
  <2>1. LoadSession["session_meta"] = Nothing
    BY DEF LoadSession, NoFields, NoLevelKept, Field
  <2>2. LevelSeen(LoadSession["session_meta"]) = A1
    BY <2>1 DEF LevelSeen
  <2>3. stored' = stored /\ used' = used \cup {LevelSeen(LoadSession["session_meta"])}
    BY <1>2 DEF EvaluateSession, Request
  <2> QED
    BY <2>2, <2>3 DEF NoLevelKept
<1>3. ASSUME NEW w \in Worker, EvaluateTelegram(w) PROVE NoLevelKept'
  BY <1>3 DEF EvaluateTelegram, Request, NoLevelKept
<1>4. ASSUME NEW w \in Worker, UpdateLoads(w) PROVE NoLevelKept'
  BY <1>4 DEF UpdateLoads, NoLevelKept
<1>5. ASSUME NEW w \in Worker, UpdateStores(w) PROVE NoLevelKept'
  BY <1>5 DEF UpdateStores, Serializable, NoLevelKept
<1>6. CASE SessionExpires \/ RedisMoves \/ UNCHANGED sessionVars
  BY <1>6 DEF SessionExpires, RedisMoves, sessionVars, NoLevelKept, NoFields, Field
<1> QED
  BY <1>1, <1>2, <1>3, <1>4, <1>5, <1>6 DEF SessionNext

\* update_session_field: whatever requests, expiries and outages come, no session_meta ever
\* reaches Redis, and the session and the requests in hand keep their types.
THEOREM NoLevelIsKept == SessionSpec => [](SessionTypeOK /\ NoLevelKept)
<1>1. SessionInit => SessionTypeOK /\ NoLevelKept
  <2> SUFFICES ASSUME SessionInit PROVE SessionTypeOK /\ NoLevelKept
    OBVIOUS
  <2>1. 0 \in 0..MaxRequests /\ 0 \in 0..MaxFaults
    BY SessionAssumption
  <2>2. NoFields["session_meta"] = Nothing
    BY DEF NoFields, Field
  <2>3. NoLevelKept
    BY <2>2 DEF SessionInit, NoLevelKept
  <2>4. /\ stored \in [Field -> Value] /\ newest \in [Field -> Value]
        /\ issued \in 0..MaxRequests /\ faults \in 0..MaxFaults
    BY <2>1, ValuesAre DEF SessionInit
  <2>5. /\ todo \in [Worker -> Seq([field : Field, value : Value])]
        /\ loaded \in [Worker -> [Field -> Value] \cup {Idle}]
    BY DEF SessionInit
  <2>6. created \in Level \cup {Nothing} /\ used \subseteq Level \cup {A1}
    BY DEF SessionInit
  <2> QED
    BY <2>3, <2>4, <2>5, <2>6 DEF SessionInit, SessionTypeOK
<1>2. SessionTypeOK /\ NoLevelKept /\ [SessionNext]_sessionVars => (SessionTypeOK /\ NoLevelKept)'
  BY SessionStepType, NoLevelStep
<1> QED
  BY <1>1, <1>2, PTL DEF SessionSpec

\* The session in Redis and the requests in hand keep their types, whatever overlaps.
THEOREM SessionTypes == SessionSpec => []SessionTypeOK
BY NoLevelIsKept, PTL

(***************************************************************************)
(* UserCache                                                               *)
(***************************************************************************)

LEMMA Kinds ==
  /\ NoCopy \notin Row /\ Away \notin Row /\ Miss \notin Row
  /\ LetIn \subseteq Row
BY DEF NoCopy, Away, Miss, Row, LetIn

\* Only users who are active are let in.
LEMMA GrantIs ==
  ASSUME UserTypeOK, NEW r \in Reader, NEW u \in LetIn, Grant(r, u)
  PROVE  granted' \in [Reader -> LetIn \cup {NoCopy}]
BY DEF Grant, UserTypeOK

LEMMA UserInitType == UserInit => UserTypeOK
<1> SUFFICES ASSUME UserInit PROVE UserTypeOK
  OBVIOUS
<1>1. 0 \in 0..MaxAge /\ 0 \in 0..MaxChanges /\ 0 \in 0..MaxOutages
  BY CacheAssumption
<1>2. row \in Row
  BY DEF UserInit, Row
<1> QED BY <1>1, <1>2 DEF UserInit, UserTypeOK

\* A request takes its steps.
LEMMA ReadType == ASSUME UserTypeOK, NEW r \in Reader, Read(r) PROVE UserTypeOK'
<1>1. CASE ReadCopy(r)
  <2>1. CASE cacheUp /\ copy # NoCopy
    <3>1. copy \in LetIn /\ Grant(r, copy) /\ age' = age /\ UNCHANGED reading
      BY <1>1, <2>1 DEF ReadCopy, AgeOnHit, UserTypeOK
    <3>2. granted' \in [Reader -> LetIn \cup {NoCopy}]
      BY <3>1, GrantIs
    <3> QED BY <1>1, <3>1, <3>2 DEF ReadCopy, UserTypeOK
  <2>2. CASE ~(cacheUp /\ copy # NoCopy)
    <3>1. reading' \in [Reader -> LetIn \cup {Away, Miss}] /\ UNCHANGED <<granted, age>>
      BY <1>1, <2>2 DEF ReadCopy, UserTypeOK
    <3> QED BY <1>1, <3>1 DEF ReadCopy, UserTypeOK
  <2> QED BY <2>1, <2>2
<1>2. CASE ReadRow(r)
  <2>1. row.active => row \in LetIn
    BY DEF UserTypeOK, LetIn
  <2>2. /\ reading' \in [Reader -> LetIn \cup {Away, Miss}]
        /\ granted' \in [Reader -> LetIn \cup {NoCopy}]
    BY <1>2, <2>1 DEF ReadRow, UserTypeOK
  <2> QED BY <1>2, <2>2 DEF ReadRow, UserTypeOK
<1>3. CASE StoreCopy(r)
  <2>1. reading[r] \in LetIn /\ reading' \in [Reader -> LetIn \cup {Away, Miss}]
    BY <1>3, Kinds DEF StoreCopy, UserTypeOK
  <2>2. granted' \in [Reader -> LetIn \cup {NoCopy}]
    BY <1>3, <2>1, GrantIs DEF StoreCopy
  <2>3. copy' \in LetIn \cup {NoCopy} /\ age' \in 0..MaxAge
    BY <1>3, <2>1, CacheAssumption DEF StoreCopy, UserTypeOK
  <2> QED BY <1>3, <2>1, <2>2, <2>3 DEF StoreCopy, UserTypeOK
<1> QED BY <1>1, <1>2, <1>3 DEF Read

LEMMA UserStepType == UserTypeOK /\ [UserNext]_userVars => UserTypeOK'
<1> SUFFICES ASSUME UserTypeOK, [UserNext]_userVars PROVE UserTypeOK'
  OBVIOUS
<1>1. CASE UNCHANGED userVars
  BY <1>1 DEF userVars, UserTypeOK
<1>2. CASE ChangeRow
  BY <1>2, CacheAssumption DEF ChangeRow, UserTypeOK
<1>3. CASE DeleteCopy
  <2>1. copy' \in LetIn \cup {NoCopy} /\ age' \in 0..MaxAge
    BY <1>3, CacheAssumption DEF DeleteCopy, UserTypeOK
  <2>2. admin' = FALSE /\ missed' = ~cacheUp
    BY <1>3 DEF DeleteCopy
  <2>3. missed' \in BOOLEAN
    BY <2>2
  <2>4. overtaken' \in BOOLEAN
    BY <1>3 DEF DeleteCopy
  <2> QED BY <1>3, <2>1, <2>2, <2>3, <2>4 DEF DeleteCopy, UserTypeOK
<1>4. CASE Tick
  BY <1>4, CacheAssumption DEF Tick, UserTypeOK
<1>5. CASE Outage
  BY <1>5, CacheAssumption DEF Outage, UserTypeOK
<1> QED BY <1>1, <1>2, <1>3, <1>4, <1>5, ReadType DEF UserNext

\* UserTypeOK holds of every interleaving of requests and updates.
THEOREM UserTypes == UserSpec => []UserTypeOK
BY UserInitType, UserStepType, PTL DEF UserSpec

LEMMA CopyStep ==
  UserTypeOK /\ CopyIsOfTheRow /\ [UserNext]_userVars => CopyIsOfTheRow'
<1> SUFFICES ASSUME UserTypeOK, CopyIsOfTheRow, [UserNext]_userVars,
                    ~admin', ~missed', ~overtaken'
    PROVE  /\ copy' \in {row', NoCopy}
           /\ \A r \in Reader : reading'[r] \in {row', Away, Miss}
  BY DEF CopyIsOfTheRow
<1>1. CASE UNCHANGED userVars
  BY <1>1 DEF userVars, CopyIsOfTheRow
<1>2. ASSUME NEW r \in Reader, Read(r)
      PROVE  /\ copy' \in {row', NoCopy}
             /\ \A s \in Reader : reading'[s] \in {row', Away, Miss}
  <2>1. /\ UNCHANGED <<row, admin, missed, overtaken>>
        /\ copy \in {row, NoCopy} /\ \A s \in Reader : reading[s] \in {row, Away, Miss}
    BY <1>2 DEF Read, ReadCopy, ReadRow, StoreCopy, CopyIsOfTheRow
  <2>2. /\ copy' \in {copy, reading[r]} /\ (copy' # copy => reading[r] \in Row)
        /\ reading' \in {reading, [reading EXCEPT ![r] = Miss],
                         [reading EXCEPT ![r] = row], [reading EXCEPT ![r] = Away]}
    BY <1>2 DEF Read, ReadCopy, ReadRow, StoreCopy
  <2> QED BY <2>1, <2>2, Kinds DEF UserTypeOK
<1>3. CASE DeleteCopy
  <2>1. copy' = NoCopy /\ row' = row /\ reading' = reading
    BY <1>3 DEF DeleteCopy, UserTypeOK
  <2>2. \A r \in Reader : reading[r] \notin Row \ {row}
    BY <1>3 DEF DeleteCopy
  <2> QED BY <2>1, <2>2, Kinds DEF UserTypeOK
<1>4. CASE ChangeRow
  BY <1>4 DEF ChangeRow
<1>5. CASE Tick
  BY <1>5 DEF Tick, CopyIsOfTheRow
<1>6. CASE Outage
  BY <1>6 DEF Outage, CopyIsOfTheRow
<1> QED BY <1>1, <1>2, <1>3, <1>4, <1>5, <1>6 DEF UserNext

\* Once a change is done no copy, and no request about to store one, has an older row,
\* but where Redis was away or the change was overtaken.
THEOREM CopiesAreOfTheRow == UserSpec => []CopyIsOfTheRow
<1>1. UserInit => CopyIsOfTheRow
  BY DEF UserInit, CopyIsOfTheRow
<1> QED BY <1>1, UserTypes, CopyStep, PTL DEF UserSpec

(***************************************************************************)
(* WsSession                                                               *)
(***************************************************************************)

\* A valid answer.
ValidAnswer == [by : WsWorker, issued : Int, at : Int]

WsTypes ==
  /\ clock \in Nat
  /\ at \in [Connection -> {"closed", "receiving", "uncertain", "issuing"}]
  /\ DOMAIN mode = Connection
  /\ modeKept \in [WsWorker \cup {Redis} -> Mode \cup {"unset"}]
  /\ lastKept \in [WsWorker \cup {Redis} -> Int]
  /\ active \in [WsWorker -> Int]
  /\ challenges \in [WsWorker -> Seq(Nat)]
  /\ valid \in Seq(ValidAnswer)
  /\ redisThere \in BOOLEAN /\ redisLeft \in BOOLEAN
  /\ ~redisLeft => redisThere

\* One coroutine of a worker at a time has decided to issue a challenge.
OneIssues ==
  \A c, d \in Connection :
    at[c] = "issuing" /\ at[d] = "issuing" /\ WorkerOf[c] = WorkerOf[d] => c = d

\* Redis has the mode that was told last, and what no worker told nobody has.
ModeInv ==
  ~redisLeft =>
    /\ modeKept[Redis] # "unset" => told = modeKept[Redis]
    /\ modeKept[Redis] = "unset" =>
         told = "production" /\ \A w \in WsWorker : modeKept[w] = "unset"

\* Redis has the time of the last challenge of any worker, and each worker that of his
\* own; who has decided to issue one has let the cooldown of his worker pass.
SpacedInv ==
  ~redisLeft =>
    /\ lastKept[Redis] <= clock
    /\ \A w \in WsWorker : \A i \in DOMAIN challenges[w] :
         challenges[w][i] <= lastKept[Redis] /\ challenges[w][i] <= lastKept[w]
    /\ \A c \in Connection : at[c] = "issuing" =>
         \A i \in DOMAIN challenges[WorkerOf[c]] : clock - challenges[WorkerOf[c]][i] >= Cooldown
    /\ ChallengesAreSpaced

\* The open challenge of a worker was issued, and has no valid answer yet.
OpenInv ==
  ~redisLeft =>
    /\ \A w \in WsWorker : active[w] # Unset =>
         /\ \E k \in DOMAIN challenges[w] : challenges[w][k] = active[w]
         /\ \A i \in DOMAIN valid : valid[i].by = w => valid[i].issued # active[w]
    /\ AnsweredOnce

WsInv == WsTypes /\ OneIssues /\ ModeInv /\ SpacedInv /\ OpenInv

LEMMA WorkersOfConnections == \A c \in Connection : WorkerOf[c] \in WsWorker
BY DEF WsWorker

LEMMA ValidBy == ASSUME WsInv, NEW i \in DOMAIN valid PROVE valid[i].by \in WsWorker
<1>1. valid \in Seq(ValidAnswer)
  BY DEF WsInv, WsTypes
<1>2. valid[i] \in ValidAnswer
  BY <1>1
<1> QED
  BY <1>2 DEF ValidAnswer

LEMMA WsInitInv == WsInit => WsInv
<1> SUFFICES ASSUME WsInit PROVE WsInv
  OBVIOUS
<1>1. WsTypes
  <2>1. clock \in Nat
    BY WsAssumption DEF WsInit
  <2>2. valid \in Seq(ValidAnswer) /\ challenges \in [WsWorker -> Seq(Nat)]
    BY DEF WsInit
  <2>3. at \in [Connection -> {"closed", "receiving", "uncertain", "issuing"}]
    BY DEF WsInit
  <2>4. DOMAIN mode = Connection /\ modeKept \in [WsWorker \cup {Redis} -> Mode \cup {"unset"}]
    BY DEF WsInit
  <2>5. lastKept \in [WsWorker \cup {Redis} -> Int] /\ active \in [WsWorker -> Int]
    BY DEF WsInit, Unset
  <2>6. redisThere = TRUE /\ redisLeft = FALSE
    BY DEF WsInit
  <2> QED
    BY <2>1, <2>2, <2>3, <2>4, <2>5, <2>6 DEF WsTypes
<1>2. OneIssues /\ ModeInv
  BY DEF WsInit, OneIssues, ModeInv
<1>3. \A w \in WsWorker : challenges[w] = <<>>
  BY DEF WsInit
<1>4. SpacedInv
  BY <1>3, WsAssumption DEF WsInit, SpacedInv, ChallengesAreSpaced, Unset
<1>5. OpenInv
  BY DEF WsInit, OpenInv, AnsweredOnce, Unset
<1> QED
  BY <1>1, <1>2, <1>4, <1>5 DEF WsInv

LEMMA ConnectStep ==
  ASSUME WsInv, NEW c \in Connection,
         at' = [at EXCEPT ![c] = "receiving"] \/ at' = [at EXCEPT ![c] = "closed"],
         DOMAIN mode' = DOMAIN mode,
         UNCHANGED <<clock, modeKept, lastKept, active, redisThere, told, challenges, valid,
                     redisLeft>>
  PROVE  WsInv'
<1>1. /\ at' \in [Connection -> {"closed", "receiving", "uncertain", "issuing"}]
      /\ \A d \in Connection : at'[d] = "issuing" => at[d] = "issuing"
  BY DEF WsInv, WsTypes
<1>2. WsTypes' /\ OneIssues' /\ ModeInv'
  BY <1>1 DEF WsInv, WsTypes, OneIssues, ModeInv
<1>3. SpacedInv'
  BY <1>1 DEF WsInv, SpacedInv, ChallengesAreSpaced
<1>4. OpenInv'
  BY DEF WsInv, OpenInv, AnsweredOnce
<1> QED
  BY <1>2, <1>3, <1>4 DEF WsInv

LEMMA SetModeStep ==
  ASSUME WsInv, NEW c \in Connection, SetMode(c)
  PROVE  WsInv'
<1>1. PICK m \in Mode : modeKept' = Keep(modeKept, WorkerOf[c], m) /\ told' = m
  BY DEF SetMode
<1>2. UNCHANGED <<clock, at, lastKept, active, redisThere, challenges, valid, redisLeft>>
  BY DEF SetMode
<1>3. DOMAIN modeKept = WsWorker \cup {Redis} /\ modeKept \in [WsWorker \cup {Redis} -> Mode \cup {"unset"}]
  BY DEF WsInv, WsTypes
<1>4. modeKept' \in [WsWorker \cup {Redis} -> Mode \cup {"unset"}]
  BY <1>1, <1>3 DEF Keep
<1>5. WsTypes' /\ OneIssues'
  <2>1. DOMAIN mode' = DOMAIN mode
    BY DEF SetMode
  <2> QED
    BY <1>2, <1>4, <2>1 DEF WsInv, WsTypes, OneIssues
<1>6. redisThere => modeKept'[Redis] = m
  BY <1>1, <1>3 DEF Keep
<1>7. ModeInv'
  <2>1. m # "unset"
    BY DEF Mode
  <2> QED
    BY <1>1, <1>2, <1>6, <2>1 DEF WsInv, WsTypes, ModeInv
<1>8. SpacedInv'
  BY <1>2 DEF WsInv, SpacedInv, ChallengesAreSpaced
<1>9. OpenInv'
  BY <1>2 DEF WsInv, OpenInv, AnsweredOnce
<1> QED
  BY <1>5, <1>7, <1>8, <1>9 DEF WsInv

LEMMA EvaluateStep ==
  ASSUME WsInv, NEW c \in Connection, Evaluate(c)
  PROVE  WsInv'
<1>1. PICK w \in WsWorker : w = WorkerOf[c]
  BY WorkersOfConnections
<1>2. PICK next \in {"receiving", "uncertain"} : at' = [at EXCEPT ![c] = next]
  BY DEF Evaluate
<1>3. UNCHANGED <<clock, mode, modeKept, lastKept, redisThere, told, challenges, redisLeft>>
  BY DEF Evaluate
<1>4. \/ UNCHANGED <<active, valid>>
      \/ active' = [active EXCEPT ![w] = Unset] /\ UNCHANGED valid
      \/ /\ active' = [active EXCEPT ![w] = Unset]
         /\ active[w] # Unset /\ TooSoon < clock - active[w] /\ clock - active[w] < TooLate
         /\ valid' = Append(valid, [by |-> w, issued |-> active[w], at |-> clock])
  BY <1>1 DEF Evaluate, Validate, Closed
<1>5. /\ at' \in [Connection -> {"closed", "receiving", "uncertain", "issuing"}]
      /\ \A d \in Connection : at'[d] = "issuing" => at[d] = "issuing"
  BY <1>2 DEF WsInv, WsTypes
<1>6. OneIssues' /\ ModeInv'
  BY <1>3, <1>5 DEF WsInv, OneIssues, ModeInv
<1>7. SpacedInv'
  BY <1>3, <1>5 DEF WsInv, SpacedInv, ChallengesAreSpaced
<1>8. active \in [WsWorker -> Int] /\ clock \in Nat /\ valid \in Seq(ValidAnswer) /\ Unset \in Int
  BY DEF WsInv, WsTypes, Unset
<1>9. CASE UNCHANGED <<active, valid>>
  <2>1. WsTypes'
    BY <1>3, <1>5, <1>9 DEF WsInv, WsTypes
  <2>2. OpenInv'
    BY <1>3, <1>9 DEF WsInv, OpenInv, AnsweredOnce
  <2> QED
    BY <1>6, <1>7, <2>1, <2>2 DEF WsInv
<1>10. CASE active' = [active EXCEPT ![w] = Unset] /\ UNCHANGED valid
  <2>1. WsTypes'
    BY <1>3, <1>5, <1>8, <1>10 DEF WsInv, WsTypes
  <2>2. OpenInv'
    BY <1>3, <1>8, <1>10 DEF WsInv, OpenInv, AnsweredOnce
  <2> QED
    BY <1>6, <1>7, <2>1, <2>2 DEF WsInv
<1>11. CASE /\ active' = [active EXCEPT ![w] = Unset]
            /\ active[w] # Unset /\ TooSoon < clock - active[w] /\ clock - active[w] < TooLate
            /\ valid' = Append(valid, [by |-> w, issued |-> active[w], at |-> clock])
  <2>1. PICK a : a = [by |-> w, issued |-> active[w], at |-> clock]
    OBVIOUS
  <2>2. a \in ValidAnswer /\ a.by = w /\ a.issued = active[w] /\ a.at = clock
    BY <1>8, <2>1 DEF ValidAnswer
  <2>3. /\ valid' = Append(valid, a) /\ valid' \in Seq(ValidAnswer)
        /\ DOMAIN valid' = DOMAIN valid \cup {Len(valid) + 1}
        /\ valid'[Len(valid) + 1] = a
        /\ \A i \in DOMAIN valid : valid'[i] = valid[i]
    BY <1>8, <1>11, <2>1, <2>2
  <2>4. WsTypes'
    BY <1>3, <1>5, <1>8, <1>11, <2>3 DEF WsInv, WsTypes
  <2>5. OpenInv'
    <3> SUFFICES ASSUME ~redisLeft PROVE OpenInv'
      BY <1>3 DEF OpenInv
    <3>1. /\ \E k \in DOMAIN challenges[w] : challenges[w][k] = active[w]
          /\ \A i \in DOMAIN valid : valid[i].by = w => valid[i].issued # active[w]
      BY <1>11 DEF WsInv, OpenInv
    <3>2. \A v \in WsWorker : active'[v] # Unset => v # w /\ active'[v] = active[v]
      BY <1>8, <1>11
    <3>3. a.at - a.issued \in (TooSoon + 1)..(TooLate - 1)
      BY <1>8, <1>11, <2>2, WsAssumption
    <3>4. /\ \E k \in DOMAIN challenges[a.by] : challenges[a.by][k] = a.issued
          /\ \A i \in DOMAIN valid : valid[i].by = a.by => valid[i].issued # a.issued
      BY <2>2, <3>1
    <3>5. AnsweredOnce'
      <4> SUFFICES ASSUME NEW i \in DOMAIN valid'
                   PROVE  /\ \E k \in DOMAIN challenges[valid'[i].by] :
                               challenges[valid'[i].by][k] = valid'[i].issued
                          /\ valid'[i].at - valid'[i].issued \in (TooSoon + 1)..(TooLate - 1)
                          /\ \A j \in DOMAIN valid' :
                               valid'[i].by = valid'[j].by /\ valid'[i].issued = valid'[j].issued
                                 => i = j
        BY <1>3 DEF AnsweredOnce
      <4>1. CASE i \in DOMAIN valid
        BY <2>3, <3>4, <4>1, SMTT(20) DEF WsInv, OpenInv, AnsweredOnce
      <4>2. CASE i = Len(valid) + 1
        BY <2>3, <3>3, <3>4, <4>2
      <4> QED
        BY <2>3, <4>1, <4>2
    <3>6. \A v \in WsWorker : active'[v] # Unset =>
            /\ \E k \in DOMAIN challenges[v] : challenges[v][k] = active'[v]
            /\ \A i \in DOMAIN valid' : valid'[i].by = v => valid'[i].issued # active'[v]
      BY <2>2, <2>3, <3>2 DEF WsInv, OpenInv
    <3> QED
      BY <1>3, <3>5, <3>6 DEF OpenInv
  <2> QED
    BY <1>6, <1>7, <2>4, <2>5 DEF WsInv
<1> QED
  BY <1>4, <1>9, <1>10, <1>11

LEMMA DecideStep ==
  ASSUME WsInv, NEW c \in Connection, DecideChallenge(c)
  PROVE  WsInv'
<1>1. PICK last : last = KeptLast(WorkerOf[c])
  OBVIOUS
<1>2. /\ Yields(WorkerOf[c])
      /\ at' = [at EXCEPT ![c] =
           IF last = Unset \/ clock - last >= Cooldown THEN "issuing" ELSE "receiving"]
      /\ UNCHANGED <<clock, mode, modeKept, lastKept, active, redisThere, told, challenges, valid,
                     redisLeft>>
  BY <1>1 DEF DecideChallenge
<1>3. /\ at' \in [Connection -> {"closed", "receiving", "uncertain", "issuing"}]
      /\ \A d \in Connection \ {c} : at'[d] = at[d]
      /\ at'[c] = "issuing" => last = Unset \/ clock - last >= Cooldown
  BY <1>2 DEF WsInv, WsTypes
<1>4. \A d \in Connection : WorkerOf[d] = WorkerOf[c] => at[d] # "issuing"
  BY <1>2 DEF Yields
<1>5. WsTypes' /\ OneIssues' /\ ModeInv'
  BY <1>2, <1>3, <1>4 DEF WsInv, WsTypes, OneIssues, ModeInv
<1>6. SpacedInv'
  <2> SUFFICES ASSUME ~redisLeft PROVE SpacedInv'
    BY <1>2 DEF SpacedInv
  <2>1. PICK w \in WsWorker : w = WorkerOf[c]
    BY WorkersOfConnections
  <2>2. /\ lastKept[Redis] \in Int /\ lastKept[w] \in Int
        /\ clock \in Nat /\ challenges[w] \in Seq(Nat)
    BY DEF WsInv, WsTypes
  <2>3. last = lastKept[Redis] \/ last = lastKept[w]
    BY <1>1, <2>1 DEF KeptLast
  <2>4. at'[c] = "issuing" => \A i \in DOMAIN challenges[w] : clock - challenges[w][i] >= Cooldown
    <3> SUFFICES ASSUME at'[c] = "issuing", NEW i \in DOMAIN challenges[w]
                 PROVE  clock - challenges[w][i] >= Cooldown
      OBVIOUS
    <3>1. challenges[w][i] <= last /\ challenges[w][i] \in Nat /\ last \in Int
      BY <2>2, <2>3 DEF WsInv, SpacedInv
    <3>2. last # Unset
      BY <3>1 DEF Unset
    <3>3. clock - last >= Cooldown
      BY <1>3, <3>2
    <3> QED
      BY <2>2, <3>1, <3>3, WsAssumption
  <2> QED
    BY <1>2, <1>3, <2>1, <2>4 DEF WsInv, SpacedInv, ChallengesAreSpaced
<1>7. OpenInv'
  BY <1>2 DEF WsInv, OpenInv, AnsweredOnce
<1> QED
  BY <1>5, <1>6, <1>7 DEF WsInv

LEMMA IssueStep ==
  ASSUME WsInv, NEW c \in Connection, Issue(c)
  PROVE  WsInv'
<1>1. PICK w \in WsWorker : w = WorkerOf[c]
  BY WorkersOfConnections
<1>2. /\ at[c] = "issuing" /\ at' = [at EXCEPT ![c] = "receiving"]
      /\ lastKept' = Keep(lastKept, w, clock)
      /\ active' = [active EXCEPT ![w] = clock]
      /\ challenges' = [challenges EXCEPT ![w] = Append(@, clock)]
      /\ UNCHANGED <<clock, mode, modeKept, redisThere, told, valid, redisLeft>>
  BY <1>1 DEF Issue
<1>3. /\ clock \in Nat /\ lastKept \in [WsWorker \cup {Redis} -> Int]
      /\ active \in [WsWorker -> Int] /\ challenges \in [WsWorker -> Seq(Nat)]
  BY DEF WsInv, WsTypes
<1>4. PICK old \in Seq(Nat) : old = challenges[w]
  BY <1>3
<1>5. /\ challenges' \in [WsWorker -> Seq(Nat)]
      /\ challenges'[w] = Append(old, clock)
      /\ \A v \in WsWorker \ {w} : challenges'[v] = challenges[v]
  BY <1>2, <1>3, <1>4
<1>6. /\ DOMAIN challenges'[w] = DOMAIN old \cup {Len(old) + 1}
      /\ challenges'[w][Len(old) + 1] = clock
      /\ \A i \in DOMAIN old : challenges'[w][i] = old[i]
      /\ Len(challenges'[w]) = Len(old) + 1
  <2>1. PICK now \in Nat : now = clock
    BY <1>3
  <2>2. /\ DOMAIN Append(old, now) = DOMAIN old \cup {Len(old) + 1}
        /\ Append(old, now)[Len(old) + 1] = now
        /\ \A i \in DOMAIN old : Append(old, now)[i] = old[i]
        /\ Len(Append(old, now)) = Len(old) + 1
    OBVIOUS
  <2> QED
    BY <1>5, <2>1, <2>2
<1>7. /\ lastKept' \in [WsWorker \cup {Redis} -> Int]
      /\ lastKept'[w] = clock
      /\ \A v \in WsWorker \ {w} : v # Redis => lastKept'[v] = lastKept[v]
      /\ redisThere => lastKept'[Redis] = clock
  BY <1>2, <1>3 DEF Keep
<1>8. /\ at' \in [Connection -> {"closed", "receiving", "uncertain", "issuing"}]
      /\ at'[c] = "receiving" /\ \A d \in Connection \ {c} : at'[d] = at[d]
  BY <1>2 DEF WsInv, WsTypes
<1>9. active' \in [WsWorker -> Int] /\ active'[w] = clock /\ \A v \in WsWorker \ {w} : active'[v] = active[v]
  BY <1>2, <1>3
<1>10. WsTypes' /\ OneIssues' /\ ModeInv'
  BY <1>2, <1>5, <1>7, <1>8, <1>9 DEF WsInv, WsTypes, OneIssues, ModeInv
<1>11. ~redisLeft => \A i \in DOMAIN old : clock - old[i] >= Cooldown
  BY <1>1, <1>2, <1>4 DEF WsInv, SpacedInv
<1>12. SpacedInv'
  <2> SUFFICES ASSUME ~redisLeft PROVE SpacedInv'
    BY <1>2 DEF SpacedInv
  <2>1. lastKept'[Redis] = clock /\ lastKept[Redis] <= clock
    BY <1>7 DEF WsInv, WsTypes, SpacedInv
  <2>2. ASSUME NEW v \in WsWorker, NEW i \in DOMAIN challenges'[v]
        PROVE  challenges'[v][i] <= clock
    <3>1. CASE v # w
      <4>1. challenges[v][i] <= lastKept[Redis] /\ challenges[v][i] \in Nat /\ lastKept[Redis] \in Int
        BY <1>3, <1>5, <2>2, <3>1, SMTT(20) DEF WsInv, SpacedInv
      <4> QED
        BY <1>3, <1>5, <2>1, <3>1, <4>1
    <3>2. CASE v = w /\ i \in DOMAIN old
      <4>1. old[i] <= lastKept[Redis] /\ old[i] \in Nat /\ lastKept[Redis] \in Int
        BY <1>3, <1>4, <2>2, <3>2 DEF WsInv, SpacedInv
      <4> QED
        BY <1>3, <1>6, <2>1, <3>2, <4>1
    <3> QED
      BY <1>3, <1>6, <2>2, <3>1, <3>2
  <2>3. ASSUME NEW d \in Connection, at'[d] = "issuing", NEW i \in DOMAIN challenges'[WorkerOf[d]]
        PROVE  clock - challenges'[WorkerOf[d]][i] >= Cooldown
    <3>1. d # c /\ at[d] = "issuing"
      BY <1>8, <2>3
    <3>2. WorkerOf[d] # w /\ WorkerOf[d] \in WsWorker
      BY <1>1, <1>2, <3>1, WorkersOfConnections DEF WsInv, OneIssues
    <3> QED
      BY <1>5, <2>3, <3>1, <3>2 DEF WsInv, SpacedInv
  <2>4. ChallengesAreSpaced'
    <3> SUFFICES ASSUME NEW v \in WsWorker, NEW i \in 1..(Len(challenges'[v]) - 1)
                 PROVE  challenges'[v][i + 1] - challenges'[v][i] >= Cooldown
      BY DEF ChallengesAreSpaced
    <3>1. CASE v # w
      BY <1>5, <3>1 DEF WsInv, SpacedInv, ChallengesAreSpaced
    <3>2. CASE v = w /\ i # Len(old)
      <4>1. PICK n \in Nat : n = Len(old) /\ DOMAIN old = 1..n
        BY <1>4
      <4>2. Len(challenges'[v]) = n + 1 /\ i # n
        BY <1>6, <3>2, <4>1
      <4>3. i \in 1..(n + 1 - 1)
        BY <4>2
      <4>4. i \in 1..(n - 1) /\ i \in 1..n /\ i + 1 \in 1..n
        BY <4>1, <4>2, <4>3
      <4>5. old[i + 1] - old[i] >= Cooldown
        BY <1>4, <3>2, <4>1, <4>4 DEF WsInv, SpacedInv, ChallengesAreSpaced
      <4> QED
        BY <1>6, <3>2, <4>1, <4>4, <4>5, SMTT(20)
    <3>3. CASE v = w /\ i = Len(old)
      <4>1. i \in DOMAIN old
        BY <1>4, <1>6, <3>3
      <4> QED
        BY <1>6, <1>11, <3>3, <4>1
    <3> QED
      BY <3>1, <3>2, <3>3
  <2> QED
    <3>1. clock' = clock /\ redisLeft' = redisLeft /\ clock \in Nat
      BY <1>2, <1>3
    <3>2. lastKept'[Redis] <= clock'
      BY <2>1, <3>1
    <3>3. \A v \in WsWorker : \A i \in DOMAIN challenges'[v] : challenges'[v][i] <= lastKept'[Redis]
      BY <2>1, <2>2
    <3>4. ASSUME NEW v \in WsWorker, NEW i \in DOMAIN challenges'[v]
          PROVE  challenges'[v][i] <= lastKept'[v]
      <4>1. CASE v = w \/ v = Redis
        BY <1>7, <2>1, <2>2, <4>1
      <4>2. CASE v # w /\ v # Redis
        BY <1>5, <1>7, <4>2 DEF WsInv, SpacedInv
      <4> QED
        BY <4>1, <4>2
    <3> QED
      BY <2>3, <2>4, <3>1, <3>2, <3>3, <3>4 DEF SpacedInv
<1>13. OpenInv'
  <2> SUFFICES ASSUME ~redisLeft PROVE OpenInv'
    BY <1>2 DEF OpenInv
  <2>1. \A v \in WsWorker : \A k \in DOMAIN challenges[v] :
          k \in DOMAIN challenges'[v] /\ challenges'[v][k] = challenges[v][k]
    BY <1>4, <1>5, <1>6
  <2>2. ASSUME NEW i \in DOMAIN valid, valid[i].by = w PROVE valid[i].issued # clock
    <3>1. PICK k \in DOMAIN old : old[k] = valid[i].issued
      BY <1>4, <2>2 DEF WsInv, OpenInv, AnsweredOnce
    <3>2. clock - old[k] >= Cooldown /\ old[k] \in Nat
      BY <1>4, <1>11
    <3> QED
      BY <1>3, <3>1, <3>2, WsAssumption
  <2>3. \A v \in WsWorker : active'[v] # Unset =>
          /\ \E k \in DOMAIN challenges'[v] : challenges'[v][k] = active'[v]
          /\ \A i \in DOMAIN valid : valid[i].by = v => valid[i].issued # active'[v]
    BY <1>4, <1>6, <1>9, <2>1, <2>2 DEF WsInv, OpenInv
  <2>4. AnsweredOnce'
    <3>1. valid' = valid /\ redisLeft' = redisLeft
      BY <1>2
    <3>2. AnsweredOnce
      BY DEF WsInv, OpenInv
    <3> SUFFICES ASSUME NEW i \in DOMAIN valid
                 PROVE  /\ \E k \in DOMAIN challenges'[valid[i].by] :
                             challenges'[valid[i].by][k] = valid[i].issued
                        /\ valid[i].at - valid[i].issued \in (TooSoon + 1)..(TooLate - 1)
                        /\ \A j \in DOMAIN valid :
                             valid[i].by = valid[j].by /\ valid[i].issued = valid[j].issued => i = j
      BY <3>1 DEF AnsweredOnce
    <3>3. valid[i].by \in WsWorker
      BY ValidBy
    <3> QED
      BY <2>1, <3>2, <3>3 DEF AnsweredOnce
  <2> QED
    BY <1>2, <2>3, <2>4 DEF OpenInv
<1> QED
  BY <1>10, <1>12, <1>13 DEF WsInv

LEMMA TimeStep == WsInv /\ TimePasses => WsInv'
<1> SUFFICES ASSUME WsInv, TimePasses PROVE WsInv'
  OBVIOUS
<1>1. clock' = clock + 1 /\ UNCHANGED <<at, mode, modeKept, lastKept, active, redisThere,
                                        told, challenges, valid, redisLeft>>
  BY DEF TimePasses
<1>2. \A c \in Connection : at[c] # "issuing"
  BY WorkersOfConnections DEF TimePasses, Yields
<1>3. WsTypes' /\ OneIssues' /\ ModeInv'
  BY <1>1 DEF WsInv, WsTypes, OneIssues, ModeInv
<1>4. SpacedInv'
  <2>1. lastKept[Redis] \in Int /\ clock \in Nat
    BY DEF WsInv, WsTypes
  <2>2. lastKept[Redis] <= clock => lastKept[Redis] <= clock + 1
    BY <2>1
  <2> QED
    BY <1>1, <1>2, <2>2 DEF WsInv, SpacedInv, ChallengesAreSpaced
<1>5. OpenInv'
  BY <1>1 DEF WsInv, OpenInv, AnsweredOnce
<1> QED
  BY <1>3, <1>4, <1>5 DEF WsInv

LEMMA RedisStep == WsInv /\ RedisGoes => WsInv'
BY DEF RedisGoes, WsInv, WsTypes, OneIssues, ModeInv, SpacedInv, OpenInv

LEMMA WsStep == WsInv /\ [WsNext]_wsVars => WsInv'
<1> SUFFICES ASSUME WsInv, [WsNext]_wsVars PROVE WsInv'
  OBVIOUS
<1>1. CASE UNCHANGED wsVars
  BY <1>1 DEF wsVars, WsInv, WsTypes, OneIssues, ModeInv, SpacedInv, ChallengesAreSpaced, OpenInv,
     AnsweredOnce
<1>2. ASSUME NEW c \in Connection, Connect(c) PROVE WsInv'
  <2>1. DOMAIN mode' = DOMAIN mode
    BY <1>2 DEF Connect
  <2> QED
    BY <1>2, <2>1, ConnectStep DEF Connect
<1>3. ASSUME NEW c \in Connection, Disconnect(c) PROVE WsInv'
  <2>1. DOMAIN mode' = DOMAIN mode
    BY <1>3 DEF Disconnect
  <2> QED
    BY <1>3, <2>1, ConnectStep DEF Disconnect
<1> QED
  BY <1>1, <1>2, <1>3, SetModeStep, EvaluateStep, DecideStep, IssueStep, TimeStep, RedisStep
     DEF WsNext

\* ws_server.py, ChallengeValidator: as long as Redis stays, the challenges of a worker are
\* a cooldown apart, each is answered validly once and in time, and a connection starts in
\* the mode told last until that expires; for any number of connections and workers.
THEOREM ChallengesKept == WsSpec => ChallengesHold
<1>1. WsInv => ChallengesAreSpaced /\ AnsweredOnce
  BY DEF WsInv, SpacedInv, OpenInv, ChallengesAreSpaced, AnsweredOnce
<1>2. ASSUME WsInv, [WsNext]_wsVars, NEW c \in Connection,
             at[c] = "closed", at'[c] = "receiving", ~redisLeft,
             modeKept[Redis] = "unset" \/ Lives(modeSince, ModeLife)
      PROVE  mode'[c] = told
  <2>1. Connect(c)
    <3>1. \A d \in Connection : ~ (Disconnect(d) \/ DecideChallenge(d) \/ Issue(d) \/ Evaluate(d))
      BY <1>2 DEF Disconnect, DecideChallenge, Issue, Evaluate, Receives, WsInv, WsTypes
    <3>2. ASSUME NEW d \in Connection, Connect(d) PROVE d = c
      BY <1>2, <3>2 DEF Connect, WsInv, WsTypes
    <3> QED
      BY <1>2, <3>1, <3>2 DEF WsNext, wsVars, SetMode, TimePasses, RedisGoes
  <2>2. redisThere /\ WorkerOf[c] \in WsWorker
    BY <1>2, WorkersOfConnections DEF WsInv, WsTypes
  <2>3. PICK kept : kept = KeptMode(WorkerOf[c])
    OBVIOUS
  <2>4. told = IF kept = "unset" THEN "production" ELSE kept
    BY <1>2, <2>2, <2>3 DEF WsInv, ModeInv, KeptMode
  <2>5. DOMAIN mode = Connection
    BY <1>2 DEF WsInv, WsTypes
  <2>6. mode' = [mode EXCEPT ![c] = IF kept = "unset" THEN "production" ELSE kept]
    BY <2>1, <2>3 DEF Connect
  <2> QED
    BY <2>4, <2>5, <2>6
<1>3. WsInv /\ [WsNext]_wsVars =>
        (\A c \in Connection :
           /\ at[c] = "closed" /\ at'[c] = "receiving" /\ ~redisLeft
           /\ modeKept[Redis] = "unset" \/ Lives(modeSince, ModeLife)
           => mode'[c] = told)
  BY <1>2
<1> QED
  BY <1>1, <1>3, WsInitInv, WsStep, PTL DEF WsSpec, ChallengesHold, ModeIsShared

LEMMA ModeType ==
  ASSUME WsTypeOK, NEW w \in WsWorker
  PROVE  KeptMode(w) \in Mode \cup {"unset"}
BY DEF KeptMode, WsTypeOK

\* A time in the worker and in Redis is not ahead of the clock.
LEMMA WsTypeStep == WsInv /\ WsTypeOK /\ [WsNext]_wsVars => WsTypeOK'
<1> SUFFICES ASSUME WsInv, WsTypeOK, [WsNext]_wsVars PROVE WsTypeOK'
  OBVIOUS
<1>0. clock \in Nat /\ \A c \in Connection : WorkerOf[c] \in WsWorker
  BY WorkersOfConnections DEF WsInv, WsTypes
<1>1. ASSUME NEW c \in Connection, Connect(c) PROVE WsTypeOK'
  <2>1. PICK kept \in Mode \cup {"unset"} : kept = KeptMode(WorkerOf[c])
    BY <1>0, ModeType
  <2>2. mode' = [mode EXCEPT ![c] = IF kept = "unset" THEN "production" ELSE kept]
    BY <1>1, <2>1 DEF Connect
  <2>3. mode' \in [Connection -> Mode]
    BY <2>2 DEF WsTypeOK, Mode
  <2> QED
    BY <1>1, <2>3 DEF Connect, WsTypeOK
<1>2. ASSUME NEW c \in Connection, Disconnect(c) PROVE WsTypeOK'
  BY <1>2 DEF Disconnect, WsTypeOK, Mode
<1>3. ASSUME NEW c \in Connection, SetMode(c) PROVE WsTypeOK'
  <2>1. PICK m \in Mode : mode' = [mode EXCEPT ![c] = m] /\ modeKept' = Keep(modeKept, WorkerOf[c], m)
    BY <1>3 DEF SetMode
  <2>2. modeKept' \in [WsWorker \cup {Redis} -> Mode \cup {"unset"}]
    BY <2>1 DEF Keep, WsTypeOK
  <2>3. mode' \in [Connection -> Mode]
    BY <2>1 DEF WsTypeOK
  <2>4. modeSince' \in 0..clock
    BY <1>0, <1>3 DEF SetMode, WsTypeOK
  <2> QED
    BY <1>3, <2>2, <2>3, <2>4 DEF SetMode, WsTypeOK
<1>4. ASSUME NEW c \in Connection, Evaluate(c) PROVE WsTypeOK'
  <2>1. active' \in {active, Closed(WorkerOf[c])}
    BY <1>4 DEF Evaluate, Validate
  <2>2. active' \in [WsWorker -> 0..clock \cup {Unset}]
    BY <2>1 DEF Closed, WsTypeOK
  <2>3. \A n \in 0..EventCap : CappedEvents(n + 1) \in 0..EventCap
    BY WsAssumption DEF CappedEvents
  <2>4. events' = [events EXCEPT ![WorkerOf[c]] = CappedEvents(events[WorkerOf[c]] + 1)]
    BY <1>4 DEF Evaluate
  <2>5. events' \in [WsWorker -> 0..EventCap]
    BY <1>0, <2>3, <2>4 DEF WsTypeOK
  <2>6. at' \in [Connection -> {"closed", "receiving", "uncertain", "issuing"}]
    BY <1>4 DEF Evaluate, WsTypeOK
  <2> QED
    BY <1>4, <2>2, <2>5, <2>6 DEF Evaluate, WsTypeOK
<1>5. ASSUME NEW c \in Connection, DecideChallenge(c) PROVE WsTypeOK'
  BY <1>5 DEF DecideChallenge, WsTypeOK
<1>6. ASSUME NEW c \in Connection, Issue(c) PROVE WsTypeOK'
  <2>1. clock \in 0..clock
    BY <1>0
  <2>2. lastKept' = Keep(lastKept, WorkerOf[c], clock)
    BY <1>6 DEF Issue
  <2>3. lastKept' \in [WsWorker \cup {Redis} -> 0..clock \cup {Unset}]
    BY <2>1, <2>2 DEF Keep, WsTypeOK
  <2>4. active' = [active EXCEPT ![WorkerOf[c]] = clock]
    BY <1>6 DEF Issue
  <2>5. active' \in [WsWorker -> 0..clock \cup {Unset}]
    BY <2>1, <2>4 DEF WsTypeOK
  <2> QED
    BY <1>6, <2>3, <2>5 DEF Issue, WsTypeOK
<1>7. CASE TimePasses
  <2>1. clock' = clock + 1
    BY <1>7 DEF TimePasses
  <2>2. 0..clock \subseteq 0..clock'
    BY <1>0, <2>1
  <2>3. /\ lastKept \in [WsWorker \cup {Redis} -> 0..clock' \cup {Unset}]
        /\ active \in [WsWorker -> 0..clock' \cup {Unset}]
        /\ modeSince \in 0..clock'
    BY <2>2 DEF WsTypeOK
  <2> QED
    BY <1>7, <2>3 DEF TimePasses, WsTypeOK
<1>8. CASE RedisGoes \/ UNCHANGED wsVars
  BY <1>8 DEF RedisGoes, wsVars, WsTypeOK
<1> QED
  BY <1>1, <1>2, <1>3, <1>4, <1>5, <1>6, <1>7, <1>8 DEF WsNext

\* What the workers and Redis keep of modes, challenges and events keeps its type, and
\* a worker keeps no more events than the cap, however its connections interleave.
THEOREM WsTyped == WsSpec => []WsTypeOK
<1>1. WsInit => WsTypeOK
  <2>1. 0 \in 0..EventCap
    BY WsAssumption
  <2> QED
    <3>1. WsInit => /\ clock \in Nat /\ 0 \in 0..clock
                    /\ modeSince \in 0..clock
      BY WsAssumption DEF WsInit
    <3> QED
      BY <2>1, <3>1 DEF WsInit, WsTypeOK, Mode
<1> QED
  BY <1>1, WsInitInv, WsStep, WsTypeStep, PTL DEF WsSpec

(***************************************************************************)
(* IdentityGraph                                                           *)
(***************************************************************************)

AddingField == {"at", "session", "kind", "left", "size", "peer"}

\* What an evaluator has in hand.
AddingInv(e) ==
  /\ DOMAIN adding[e] = AddingField
  /\ adding[e].at \in {"idle", "known", "comparing", "connecting"}
  /\ adding[e].left \subseteq DOMAIN features
  /\ adding[e].at # "idle" => adding[e].session \in sessions
  /\ adding[e].at \in {"comparing", "connecting"} => adding[e].session \in DOMAIN features
  /\ adding[e].at = "connecting" =>
       /\ adding[e].peer \in DOMAIN features \ {adding[e].session}
       /\ adding[e].peer \in graph[adding[e].session]

GraphTypes ==
  /\ DOMAIN features \subseteq sessions /\ sessions \subseteq GraphSession
  /\ graph \in [GraphSession -> SUBSET GraphSession]
  /\ \A s \in GraphSession : graph[s] \subseteq DOMAIN features \ {s}
  /\ DOMAIN adding = Evaluator
  /\ \A e \in Evaluator : AddingInv(e)

\* Evaluator e has still to connect s with t in both directions, if they are alike.
ToConnect(e, s, t) ==
  /\ adding[e].session = s
  /\ \/ adding[e].at = "known"
     \/ adding[e].at \in {"comparing", "connecting"} /\ adding[e].kind = features[s]
          /\ t \in adding[e].left
     \/ adding[e].at = "connecting" /\ adding[e].peer = t

\* Two sessions alike are connected, given up, or in an evaluator's hands: his who was the
\* last to extract features of one of the two.
AlikeInv ==
  \A s, t \in DOMAIN features :
    s # t /\ <<features[s], features[t]>> \in Alike =>
      \/ t \in graph[s] /\ s \in graph[t]
      \/ s \in failed \/ t \in failed
      \/ \E e \in Evaluator : ToConnect(e, s, t) \/ ToConnect(e, t, s)

\* A connection goes both ways, but for the one that is being made.
BothWays ==
  \A s, t \in GraphSession : t \in graph[s] =>
    \/ s \in graph[t]
    \/ \E e \in Evaluator :
         adding[e].at = "connecting" /\ adding[e].session = s /\ adding[e].peer = t

GraphInv == GraphTypes /\ AlikeInv /\ BothWays

LEMMA GraphInitInv == GraphInit => GraphInv
<1> SUFFICES ASSUME GraphInit PROVE GraphInv
  OBVIOUS
<1>1. DOMAIN features = {}
  BY DEF GraphInit
<1>2. \A e \in Evaluator : adding[e] = NotAdding
  BY DEF GraphInit
<1>3. ASSUME NEW e \in Evaluator PROVE AddingInv(e)
  BY <1>1, <1>2 DEF AddingInv, NotAdding, AddingField
<1>4. GraphTypes
  BY <1>1, <1>3 DEF GraphInit, GraphTypes
<1>5. AlikeInv /\ BothWays
  BY <1>1 DEF GraphInit, AlikeInv, BothWays
<1> QED
  BY <1>4, <1>5 DEF GraphInv

LEMMA AddToGraphStep ==
  ASSUME GraphInv, NEW e \in Evaluator, AddToGraph(e)
  PROVE  GraphInv'
<1>1. PICK s \in GraphSession :
        /\ sessions' = sessions \cup {s}
        /\ adding' = [adding EXCEPT ![e] = [NotAdding EXCEPT !.at = "known", !.session = s]]
        /\ failed' = failed \ {s}
  BY DEF AddToGraph
<1>2. adding[e].at = "idle" /\ UNCHANGED <<features, graph>>
  BY DEF AddToGraph
<1>3. DOMAIN adding = Evaluator
  BY DEF GraphInv, GraphTypes
<1>4. /\ DOMAIN adding' = Evaluator
      /\ \A d \in Evaluator \ {e} : adding'[d] = adding[d]
      /\ adding'[e] = [NotAdding EXCEPT !.at = "known", !.session = s]
  BY <1>1, <1>3
<1>5. /\ DOMAIN adding'[e] = AddingField
      /\ adding'[e].at = "known" /\ adding'[e].session = s /\ adding'[e].left = {}
  BY <1>4 DEF NotAdding, AddingField
<1>6. ASSUME NEW d \in Evaluator PROVE AddingInv(d)'
  <2>1. CASE d = e
    BY <1>1, <1>5, <2>1 DEF AddingInv
  <2>2. CASE d # e
    <3>1. AddingInv(d)
      BY DEF GraphInv, GraphTypes
    <3> QED
      BY <1>1, <1>2, <1>4, <2>2, <3>1 DEF AddingInv
  <2> QED
    BY <2>1, <2>2
<1>7. GraphTypes'
  BY <1>1, <1>2, <1>4, <1>6 DEF GraphInv, GraphTypes
<1>8. \A d \in Evaluator : \A x, y : ToConnect(d, x, y) => ToConnect(d, x, y)'
  BY <1>2, <1>4 DEF ToConnect
<1>9. \A y : ToConnect(e, s, y)'
  BY <1>5 DEF ToConnect
<1>10. AlikeInv'
  BY <1>1, <1>2, <1>8, <1>9 DEF GraphInv, AlikeInv
<1>11. BothWays'
  BY <1>2, <1>4 DEF GraphInv, BothWays
<1> QED
  BY <1>7, <1>10, <1>11 DEF GraphInv

LEMMA ExtractStep ==
  ASSUME GraphInv, NEW e \in Evaluator, ExtractFeatures(e)
  PROVE  GraphInv'
<1>1. PICK s : s = adding[e].session
  OBVIOUS
<1>2. PICK k \in Kind :
        /\ features' = Extended(features, s, k)
        /\ adding' = [adding EXCEPT ![e].at = "comparing", ![e].kind = k,
                        ![e].left = DOMAIN features', ![e].size = Cardinality(DOMAIN features')]
  BY <1>1 DEF ExtractFeatures
<1>3. adding[e].at = "known" /\ UNCHANGED <<sessions, graph, failed>>
  BY DEF ExtractFeatures
<1>4. DOMAIN adding = Evaluator /\ DOMAIN adding[e] = AddingField /\ s \in sessions
  BY <1>1, <1>3 DEF GraphInv, GraphTypes, AddingInv
<1>5. /\ DOMAIN features' = DOMAIN features \cup {s}
      /\ features'[s] = k /\ \A x \in DOMAIN features \ {s} : features'[x] = features[x]
  BY <1>2 DEF Extended
<1>6. /\ DOMAIN adding' = Evaluator
      /\ \A d \in Evaluator \ {e} : adding'[d] = adding[d]
  BY <1>2, <1>4
<1>7. /\ DOMAIN adding'[e] = AddingField
      /\ adding'[e].at = "comparing" /\ adding'[e].session = s /\ adding'[e].kind = k
      /\ adding'[e].left = DOMAIN features'
  BY <1>1, <1>2, <1>4 DEF AddingField
<1>8. ASSUME NEW d \in Evaluator PROVE AddingInv(d)'
  <2>1. CASE d = e
    BY <1>3, <1>4, <1>5, <1>7, <2>1 DEF AddingInv
  <2>2. CASE d # e
    <3>1. AddingInv(d)
      BY DEF GraphInv, GraphTypes
    <3> QED
      BY <1>3, <1>5, <1>6, <2>2, <3>1 DEF AddingInv
  <2> QED
    BY <2>1, <2>2
<1>9. GraphTypes'
  BY <1>3, <1>4, <1>5, <1>6, <1>8 DEF GraphInv, GraphTypes
<1>10. \A d \in Evaluator : \A x \in DOMAIN features \ {s} : \A y :
         ToConnect(d, x, y) => ToConnect(d, x, y)'
  BY <1>1, <1>5, <1>6 DEF ToConnect
<1>11. \A y \in DOMAIN features' : ToConnect(e, s, y)'
  BY <1>5, <1>7 DEF ToConnect
<1>12. AlikeInv'
  BY <1>3, <1>5, <1>10, <1>11 DEF GraphInv, AlikeInv
<1>13. BothWays'
  BY <1>3, <1>6 DEF GraphInv, BothWays
<1> QED
  BY <1>9, <1>12, <1>13 DEF GraphInv

\* An evaluator who leaves, with nothing left to connect or giving it up.
LEMMA LeaveStep ==
  ASSUME GraphInv, NEW e \in Evaluator,
         adding[e].at = "comparing", adding' = [adding EXCEPT ![e] = NotAdding],
         UNCHANGED <<sessions, features, graph>>,
         \/ adding[e].left = {} /\ failed' = failed
         \/ failed' = failed \cup {adding[e].session}
  PROVE  GraphInv'
<1>1. /\ DOMAIN adding' = Evaluator /\ adding'[e] = NotAdding
      /\ \A d \in Evaluator \ {e} : adding'[d] = adding[d]
  BY DEF GraphInv, GraphTypes
<1>2. ASSUME NEW d \in Evaluator PROVE AddingInv(d)'
  <2>1. CASE d = e
    BY <1>1, <2>1 DEF AddingInv, NotAdding, AddingField
  <2>2. CASE d # e
    <3>1. AddingInv(d)
      BY DEF GraphInv, GraphTypes
    <3> QED
      BY <1>1, <2>2, <3>1 DEF AddingInv
  <2> QED
    BY <2>1, <2>2
<1>3. GraphTypes'
  BY <1>1, <1>2 DEF GraphInv, GraphTypes
<1>4. \A d \in Evaluator \ {e} : \A x, y : ToConnect(d, x, y) => ToConnect(d, x, y)'
  BY <1>1 DEF ToConnect
<1>5. \A x, y : ToConnect(e, x, y) => x \in failed'
  BY DEF ToConnect
<1>6. AlikeInv'
  BY <1>4, <1>5 DEF GraphInv, AlikeInv
<1>7. BothWays'
  BY <1>1 DEF GraphInv, BothWays
<1> QED
  BY <1>3, <1>6, <1>7 DEF GraphInv

LEMMA CompareStep ==
  ASSUME GraphInv, NEW e \in Evaluator, Compare(e)
  PROVE  GraphInv'
<1>1. PICK s : s = adding[e].session
  OBVIOUS
<1>2. PICK peer \in adding[e].left :
        IF peer # s /\ <<adding[e].kind, features[peer]>> \in Alike
        THEN /\ graph' = [graph EXCEPT ![s] = @ \cup {peer}]
             /\ adding' = [adding EXCEPT ![e].left = @ \ {peer}, ![e].peer = peer,
                                         ![e].at = "connecting"]
        ELSE adding' = [adding EXCEPT ![e].left = @ \ {peer}] /\ UNCHANGED graph
  BY <1>1 DEF Compare
<1>3. adding[e].at = "comparing" /\ UNCHANGED <<sessions, features, failed>>
  BY DEF Compare
<1>4. /\ DOMAIN adding = Evaluator /\ DOMAIN adding[e] = AddingField
      /\ s \in DOMAIN features /\ peer \in DOMAIN features
      /\ DOMAIN features \subseteq GraphSession
      /\ graph \in [GraphSession -> SUBSET GraphSession]
  BY <1>1, <1>3 DEF GraphInv, GraphTypes, AddingInv
<1>5. PICK alike \in BOOLEAN : alike <=> peer # s /\ <<adding[e].kind, features[peer]>> \in Alike
  OBVIOUS
<1>6. /\ DOMAIN adding' = Evaluator
      /\ \A d \in Evaluator \ {e} : adding'[d] = adding[d]
      /\ DOMAIN adding'[e] = AddingField
      /\ adding'[e].session = s /\ adding'[e].kind = adding[e].kind
      /\ adding'[e].left = adding[e].left \ {peer}
      /\ alike => adding'[e].at = "connecting" /\ adding'[e].peer = peer
      /\ ~alike => adding'[e].at = "comparing"
  BY <1>1, <1>2, <1>3, <1>4, <1>5 DEF AddingField
<1>7. /\ graph' \in [GraphSession -> SUBSET GraphSession]
      /\ \A x \in GraphSession : graph[x] \subseteq graph'[x]
      /\ \A x \in GraphSession : \A y \in graph'[x] :
           y \in graph[x] \/ (alike /\ x = s /\ y = peer)
      /\ alike => peer \in graph'[s]
  BY <1>2, <1>4, <1>5
<1>8. ASSUME NEW d \in Evaluator PROVE AddingInv(d)'
  <2>0. AddingInv(d)
    BY DEF GraphInv, GraphTypes
  <2>1. CASE d = e
    BY <1>1, <1>3, <1>4, <1>5, <1>6, <1>7, <2>0, <2>1 DEF AddingInv, GraphInv, GraphTypes
  <2>2. CASE d # e
    BY <1>3, <1>4, <1>6, <1>7, <2>0, <2>2 DEF AddingInv
  <2> QED
    BY <2>1, <2>2
<1>9. GraphTypes'
  <2>1. \A x \in GraphSession : graph'[x] \subseteq DOMAIN features' \ {x}
    BY <1>3, <1>4, <1>5, <1>7 DEF GraphInv, GraphTypes
  <2> QED
    BY <1>3, <1>6, <1>7, <1>8, <2>1 DEF GraphInv, GraphTypes
<1>10. \A d \in Evaluator : \A x, y \in DOMAIN features :
         x # y /\ <<features[x], features[y]>> \in Alike /\ ToConnect(d, x, y) =>
           ToConnect(d, x, y)'
  BY <1>1, <1>3, <1>5, <1>6 DEF ToConnect
<1>11. AlikeInv'
  <2> SUFFICES ASSUME NEW x \in DOMAIN features, NEW y \in DOMAIN features, x # y,
                      <<features[x], features[y]>> \in Alike
               PROVE  \/ y \in graph'[x] /\ x \in graph'[y]
                      \/ x \in failed \/ y \in failed
                      \/ \E d \in Evaluator : ToConnect(d, x, y)' \/ ToConnect(d, y, x)'
    BY <1>3 DEF AlikeInv
  <2>1. <<features[y], features[x]>> \in Alike
    BY AlikeAssumption
  <2>2. \/ y \in graph[x] /\ x \in graph[y]
        \/ x \in failed \/ y \in failed
        \/ \E d \in Evaluator : ToConnect(d, x, y) \/ ToConnect(d, y, x)
    BY DEF GraphInv, AlikeInv
  <2> QED
    BY <1>4, <1>7, <1>10, <2>1, <2>2
<1>12. BothWays'
  BY <1>3, <1>6, <1>7 DEF GraphInv, BothWays
<1> QED
  BY <1>9, <1>11, <1>12 DEF GraphInv

LEMMA ConnectBackStep ==
  ASSUME GraphInv, NEW e \in Evaluator, ConnectBack(e)
  PROVE  GraphInv'
<1>1. PICK s, peer : s = adding[e].session /\ peer = adding[e].peer
  OBVIOUS
<1>2. /\ adding[e].at = "connecting" /\ UNCHANGED <<sessions, features, failed>>
      /\ graph' = [graph EXCEPT ![peer] = @ \cup {s}]
      /\ adding' = [adding EXCEPT ![e].at = "comparing"]
  BY <1>1 DEF ConnectBack, Goto
<1>3. /\ DOMAIN adding = Evaluator /\ DOMAIN adding[e] = AddingField
      /\ s \in DOMAIN features /\ peer \in DOMAIN features /\ s # peer
      /\ peer \in graph[s]
      /\ DOMAIN features \subseteq GraphSession
      /\ graph \in [GraphSession -> SUBSET GraphSession]
  BY <1>1, <1>2 DEF GraphInv, GraphTypes, AddingInv
<1>4. /\ DOMAIN adding' = Evaluator
      /\ \A d \in Evaluator \ {e} : adding'[d] = adding[d]
      /\ DOMAIN adding'[e] = AddingField
      /\ adding'[e].at = "comparing" /\ adding'[e].session = s
      /\ adding'[e].kind = adding[e].kind /\ adding'[e].left = adding[e].left
  BY <1>1, <1>2, <1>3 DEF AddingField
<1>5. /\ graph' \in [GraphSession -> SUBSET GraphSession]
      /\ \A x \in GraphSession : graph[x] \subseteq graph'[x]
      /\ \A x \in GraphSession : \A y \in graph'[x] :
           y \in graph[x] \/ (x = peer /\ y = s)
      /\ peer \in graph'[s] /\ s \in graph'[peer]
  BY <1>2, <1>3
<1>6. ASSUME NEW d \in Evaluator PROVE AddingInv(d)'
  <2>0. AddingInv(d)
    BY DEF GraphInv, GraphTypes
  <2>1. CASE d = e
    BY <1>1, <1>2, <1>3, <1>4, <2>0, <2>1 DEF AddingInv, GraphInv, GraphTypes
  <2>2. CASE d # e
    BY <1>2, <1>3, <1>4, <1>5, <2>0, <2>2 DEF AddingInv
  <2> QED
    BY <2>1, <2>2
<1>7. GraphTypes'
  <2>1. \A x \in GraphSession : graph'[x] \subseteq DOMAIN features' \ {x}
    BY <1>2, <1>3, <1>5 DEF GraphInv, GraphTypes
  <2> QED
    BY <1>2, <1>4, <1>5, <1>6, <2>1 DEF GraphInv, GraphTypes
<1>8. \A d \in Evaluator : \A x, y \in DOMAIN features :
        ToConnect(d, x, y) => ToConnect(d, x, y)' \/ (x = s /\ y = peer)
  BY <1>1, <1>2, <1>4 DEF ToConnect
<1>9. AlikeInv'
  BY <1>2, <1>3, <1>5, <1>8 DEF GraphInv, AlikeInv
<1>10. BothWays'
  BY <1>1, <1>2, <1>3, <1>4, <1>5 DEF GraphInv, BothWays
<1> QED
  BY <1>7, <1>9, <1>10 DEF GraphInv

\* identity_graph.py: connections go both ways but for the one being made, and who is
\* alike is connected, given up, or still to be connected.
THEOREM GraphInductive == GraphSpec => []GraphInv
<1>1. GraphInv /\ [GraphNext]_graphVars => GraphInv'
  <2> SUFFICES ASSUME GraphInv, [GraphNext]_graphVars PROVE GraphInv'
    OBVIOUS
  <2>1. CASE UNCHANGED graphVars
    BY <2>1 DEF graphVars, GraphInv, GraphTypes, AddingInv, AlikeInv, ToConnect, BothWays
  <2>2. ASSUME NEW e \in Evaluator, GiveUp(e) PROVE GraphInv'
    BY <2>2, LeaveStep DEF GiveUp
  <2>3. ASSUME NEW e \in Evaluator, AddEnds(e) PROVE GraphInv'
    BY <2>3, LeaveStep DEF AddEnds
  <2> QED
    BY <2>1, <2>2, <2>3, AddToGraphStep, ExtractStep, CompareStep, ConnectBackStep DEF GraphNext
<1> QED
  BY <1>1, GraphInitInv, PTL DEF GraphSpec

\* A cluster holds its session and whatever is connected to one of its sessions.
LEMMA ClusterIsClosed ==
  ASSUME graph \in [GraphSession -> SUBSET GraphSession], NEW s \in GraphSession
  PROVE  /\ s \in SessionCluster(s) /\ SessionCluster(s) \in SUBSET GraphSession
         /\ \A x \in SessionCluster(s) : graph[x] \subseteq SessionCluster(s)
BY DEF SessionCluster

LEMMA ClusterIsLeast ==
  ASSUME NEW s \in GraphSession, NEW S \in SUBSET GraphSession, s \in S,
         \A x \in S : graph[x] \subseteq S
  PROVE  SessionCluster(s) \subseteq S
BY DEF SessionCluster

\* When connections go both ways, a session of a cluster has the cluster for its own.
LEMMA OneCluster ==
  ASSUME graph \in [GraphSession -> SUBSET GraphSession],
         \A x, y \in GraphSession : y \in graph[x] => x \in graph[y],
         NEW s \in GraphSession, NEW t \in SessionCluster(s)
  PROVE  SessionCluster(t) = SessionCluster(s)
<1>1. t \in GraphSession
  BY DEF SessionCluster
<1>2. SessionCluster(t) \subseteq SessionCluster(s)
  BY <1>1, ClusterIsClosed, ClusterIsLeast
<1>3. s \in SessionCluster(t)
  <2> SUFFICES ASSUME s \notin SessionCluster(t) PROVE FALSE
    OBVIOUS
  <2>1. PICK S : S = GraphSession \ SessionCluster(t)
    OBVIOUS
  <2>2. \A x \in S : graph[x] \subseteq S
    BY <1>1, <2>1, ClusterIsClosed
  <2>3. SessionCluster(s) \subseteq S
    BY <2>1, <2>2, ClusterIsLeast
  <2> QED
    BY <1>1, <2>1, <2>3, ClusterIsClosed
<1>4. SessionCluster(s) \subseteq SessionCluster(t)
  BY <1>1, <1>3, ClusterIsClosed, ClusterIsLeast
<1> QED
  BY <1>2, <1>4

\* _build_connections, get_session_cluster, get_session_risk: between additions, sessions
\* alike are connected, and a cluster and its risk are one from whichever session.
THEOREM ClustersKept == GraphSpec => []ClustersHold
<1>1. GraphInv => ClustersHold
  <2> SUFFICES ASSUME GraphInv PROVE ClustersHold
    OBVIOUS
  <2>1. AlikeAreConnected
    BY DEF GraphInv, AlikeInv, ToConnect, AlikeAreConnected, Quiet
  <2>2. OneRiskPerCluster
    <3> SUFFICES ASSUME Quiet, NEW s \in sessions, NEW t \in SessionCluster(s)
                 PROVE  SessionCluster(t) = SessionCluster(s) /\ SessionRisk(t) = SessionRisk(s)
      BY DEF OneRiskPerCluster
    <3>1. graph \in [GraphSession -> SUBSET GraphSession] /\ s \in GraphSession
      BY DEF GraphInv, GraphTypes
    <3>2. \A x, y \in GraphSession : y \in graph[x] => x \in graph[y]
      BY DEF Quiet, GraphInv, BothWays
    <3>3. SessionCluster(t) = SessionCluster(s)
      BY <3>1, <3>2, OneCluster
    <3>4. SessionCluster(s) \subseteq sessions
      <4>1. sessions \in SUBSET GraphSession /\ \A x \in sessions : graph[x] \subseteq sessions
        BY DEF GraphInv, GraphTypes
      <4> QED
        BY <3>1, <4>1, ClusterIsLeast
    <3> QED
      BY <3>3, <3>4 DEF SessionRisk
  <2> QED
    BY <2>1, <2>2 DEF ClustersHold
<1> QED
  BY <1>1, GraphInductive, PTL

\* What the run checks of the graph's variables, from what the proofs keep of them.
LEMMA GraphStepType ==
  ASSUME GraphInv, failed \subseteq GraphSession, adds \in 0..MaxAdds, [GraphNext]_graphVars
  PROVE  failed' \subseteq GraphSession /\ adds' \in 0..MaxAdds
<1>1. CASE UNCHANGED <<adds, failed>>
  BY <1>1
<1>2. ASSUME NEW e \in Evaluator, AddToGraph(e)
      PROVE  failed' \subseteq GraphSession /\ adds' \in 0..MaxAdds
  BY <1>2, AddsAssumption DEF AddToGraph
<1>3. ASSUME NEW e \in Evaluator, GiveUp(e)
      PROVE  failed' \subseteq GraphSession /\ adds' \in 0..MaxAdds
  <2>1. adding[e].session \in GraphSession
    BY <1>3 DEF GiveUp, GraphInv, GraphTypes, AddingInv
  <2> QED
    BY <1>3, <2>1 DEF GiveUp
<1>4. [GraphNext]_graphVars =>
        \/ UNCHANGED <<adds, failed>>
        \/ \E e \in Evaluator : AddToGraph(e) \/ GiveUp(e)
  BY DEF GraphNext, graphVars, ExtractFeatures, Compare, ConnectBack, AddEnds
<1> QED
  BY <1>1, <1>2, <1>3, <1>4

\* The graph, and what each thread adds to it, keep their types, however they interleave.
THEOREM GraphTyped == GraphSpec => []GraphTypeOK
<1> DEFINE Bounded == failed \subseteq GraphSession /\ adds \in 0..MaxAdds
<1>1. GraphInit => Bounded
  BY AddsAssumption DEF GraphInit
<1>2. GraphInv /\ Bounded /\ [GraphNext]_graphVars => Bounded'
  BY GraphStepType
<1>3. GraphInv /\ Bounded => GraphTypeOK
  BY DEF GraphInv, GraphTypes, AddingInv, GraphTypeOK
<1> HIDE DEF Bounded
<1> QED
  BY <1>1, <1>2, <1>3, GraphInductive, PTL DEF GraphSpec

(***************************************************************************)
(* SdkEvidence                                                             *)
(***************************************************************************)

\* The numbers below k are k.
LEMMA Below ==
  ASSUME NEW k \in Nat PROVE IsFiniteSet(0..(k - 1)) /\ Cardinality(0..(k - 1)) = k
<1>1. PICK m \in Int : m = k - 1
  OBVIOUS
<1>2. 0 \in Int
  OBVIOUS
<1>3. IsFiniteSet(0..m) /\ Cardinality(0..m) = IF 0 > m THEN 0 ELSE m - 0 + 1
  BY <1>2, FS_Interval
<1> QED
  BY <1>1, <1>3

\* Of artifacts numbered apart, as many are newer than one that is not among the n newest
\* as are the newest: n.
LEMMA NewestAreN ==
  ASSUME NEW S, IsFiniteSet(S), NEW n \in Nat,
         \A b \in S : b.id \in Int,
         \A b, c \in S : b.id = c.id => b = c,
         NEW a \in S, a \notin NewestOf(S, n)
  PROVE  Cardinality({b \in NewestOf(S, n) : b.id > a.id}) = n
<1>1. PICK newer : newer = [b \in S |-> {x \in S : x.id > b.id}]
  OBVIOUS
<1>2. PICK f : f = [b \in S |-> Cardinality(newer[b])]
  OBVIOUS
<1>3. PICK N \in Nat : N = Cardinality(S)
  BY FS_CardinalityType
<1>4. ASSUME NEW b \in S
      PROVE  f[b] \in 0..(N - 1) /\ f[b] = Cardinality(newer[b]) /\ IsFiniteSet(newer[b])
  <2>1. newer[b] \in SUBSET (S \ {b})
    BY <1>1
  <2>2. IsFiniteSet(S \ {b}) /\ Cardinality(S \ {b}) = N - 1
    BY <1>3, FS_RemoveElement
  <2>3. IsFiniteSet(newer[b]) /\ Cardinality(newer[b]) <= N - 1
    BY <2>1, <2>2, FS_Subset
  <2>4. Cardinality(newer[b]) \in Nat
    BY <2>3, FS_CardinalityType
  <2> QED
    BY <1>2, <2>3, <2>4
<1>5. ASSUME NEW b \in S, NEW c \in S, b.id < c.id PROVE f[c] < f[b]
  <2>1. newer[c] \subseteq newer[b] /\ newer[c] # newer[b]
    BY <1>1, <1>5
  <2>2. IsFiniteSet(newer[b]) /\ f[b] = Cardinality(newer[b]) /\ f[c] = Cardinality(newer[c])
    BY <1>4
  <2>3. Cardinality(newer[c]) <= Cardinality(newer[b])
        /\ (Cardinality(newer[c]) = Cardinality(newer[b]) => newer[c] = newer[b])
    BY <2>1, <2>2, FS_Subset
  <2>4. f[b] \in Int /\ f[c] \in Int
    BY <1>4
  <2> QED
    BY <2>1, <2>2, <2>3, <2>4
<1>6. f \in Injection(S, 0..(N - 1))
  <2>1. f \in [S -> 0..(N - 1)]
    BY <1>2, <1>4
  <2>2. \A b, c \in S : f[b] = f[c] => b = c
    <3> SUFFICES ASSUME NEW b \in S, NEW c \in S, f[b] = f[c], b # c PROVE FALSE
      OBVIOUS
    <3>1. b.id < c.id \/ c.id < b.id
      OBVIOUS
    <3>2. f[b] \in Int /\ f[c] \in Int
      BY <1>4
    <3> QED
      BY <1>5, <3>1, <3>2
  <2> QED
    BY <2>1, <2>2 DEF Injection, IsInjective
<1>7. f \in Surjection(S, 0..(N - 1))
  <2>1. IsFiniteSet(0..(N - 1)) /\ Cardinality(0..(N - 1)) = N
    BY Below
  <2> QED
    BY <1>3, <1>6, <2>1, FS_Injection
<1>8. PICK T : T = NewestOf(S, n)
  OBVIOUS
<1>9. T = {b \in S : f[b] < n}
  <2>1. \A b \in S : f[b] = Cardinality({x \in S : x.id > b.id})
    BY <1>1, <1>2
  <2> QED
    BY <1>8, <2>1 DEF NewestOf
<1>10. n <= f[a] /\ n <= N - 1
  BY <1>4, <1>8, <1>9
<1>11. {b \in T : b.id > a.id} = T
  <2>1. ASSUME NEW b \in T PROVE b.id > a.id
    <3>1. b \in S /\ f[b] < n /\ b # a
      BY <1>8, <1>9
    <3>2. ~ (b.id < a.id)
      <4> SUFFICES ASSUME b.id < a.id PROVE FALSE
        OBVIOUS
      <4>1. f[a] < f[b] /\ f[a] \in Int /\ f[b] \in Int
        BY <1>4, <1>5, <3>1
      <4> QED
        BY <1>10, <3>1, <4>1
    <3>3. b.id # a.id
      BY <3>1
    <3> QED
      BY <3>1, <3>2, <3>3
  <2> QED
    BY <2>1
<1>12. Cardinality(T) = n
  <2>1. PICK g : g = [b \in T |-> f[b]]
    OBVIOUS
  <2>2. g \in Injection(T, 0..(n - 1))
    BY <1>4, <1>6, <1>9, <2>1 DEF Injection, IsInjective
  <2>3. g \in Surjection(T, 0..(n - 1))
    <3>1. \A k \in 0..(n - 1) : \E b \in S : f[b] = k
      BY <1>7, <1>10 DEF Surjection
    <3>2. \A k \in 0..(n - 1) : \E b \in T : g[b] = k
      BY <1>9, <2>1, <3>1
    <3>3. g \in [T -> 0..(n - 1)]
      BY <1>4, <1>9, <2>1
    <3> QED
      BY <3>2, <3>3 DEF Surjection
  <2>4. IsFiniteSet(T)
    BY <1>9, FS_Subset
  <2>5. Cardinality(T) = Cardinality(0..(n - 1))
    BY <2>2, <2>3, <2>4, FS_Surjection
  <2> QED
    BY <2>5, Below
<1> QED
  BY <1>8, <1>11, <1>12

(* The invariant. *)

SdkArtifact == [id : Nat, tenant : Tenant, has : PayloadThing]

RequestState == [at : {"idle", "built", "stored"}, artifact : SdkArtifact \cup {NoArtifact}]

SdkTypes ==
  /\ backend \in {"none", "memory", "postgres", "refused"}
  /\ built \in Nat
  /\ artifactTable \in SUBSET SdkArtifact /\ IsFiniteSet(artifactTable)
  /\ inMemory \in [ApiWorker -> SUBSET SdkArtifact]
  /\ \A w \in ApiWorker : IsFiniteSet(inMemory[w])
  /\ pending \in [ApiWorker -> RequestState]
  /\ \A w \in ApiWorker : pending[w].at # "idle" =>
       pending[w].artifact \in SdkArtifact /\ pending[w].artifact.has # "answer"
  /\ answered \in SUBSET SdkArtifact

\* An artifact that is stored, or in a worker's hands.
There(a) ==
  \/ a \in artifactTable
  \/ \E w \in ApiWorker : a \in inMemory[w] \/ (pending[w].at # "idle" /\ pending[w].artifact = a)

\* Artifacts are numbered as they are built.
NumberedInv ==
  /\ \A a : There(a) => a.id <= built
  /\ \A a, b : There(a) /\ There(b) /\ a.id = b.id => a = b

\* What is stored in the database stays, and nothing else is answered.
DurableInv ==
  /\ backend = "none" => answered = {} /\ \A w \in ApiWorker : pending[w].at = "idle"
  /\ backend = "postgres" =>
       answered \subseteq artifactTable
         /\ \A w \in ApiWorker : pending[w].at = "stored" => pending[w].artifact \in artifactTable

SdkInv == SdkTypes /\ NumberedInv /\ DurableInv /\ NothingRawIsKept /\ OwnNewestAreShown

LEMMA SdkInitInv == SdkInit => SdkInv
<1> SUFFICES ASSUME SdkInit PROVE SdkInv
  OBVIOUS
<1>1. NoRequest \in RequestState /\ NoRequest.at = "idle"
  BY DEF NoRequest, RequestState
<1>2. /\ artifactTable = {} /\ inMemory = [w \in ApiWorker |-> {}]
      /\ pending = [w \in ApiWorker |-> NoRequest]
      /\ backend = "none" /\ built = 0 /\ answered = {} /\ shown = NothingShown
  BY DEF SdkInit
<1>3. \A w \in ApiWorker : inMemory[w] = {} /\ pending[w].at = "idle"
  BY <1>1, <1>2
<1>4. SdkTypes
  BY <1>1, <1>2, <1>3, FS_EmptySet DEF SdkTypes
<1>5. NumberedInv /\ DurableInv /\ NothingRawIsKept
  BY <1>2, <1>3 DEF NumberedInv, There, DurableInv, NothingRawIsKept
<1>6. OwnNewestAreShown
  BY <1>2 DEF OwnNewestAreShown, NothingShown
<1> QED
  BY <1>4, <1>5, <1>6 DEF SdkInv

\* Steps that show nothing, and after which there is nothing that was not there.
LEMMA QuietStep ==
  ASSUME SdkInv, SdkTypes', DurableInv', NothingRawIsKept', UNCHANGED shown,
         built' = built, \A a : There(a)' => There(a)
  PROVE  SdkInv'
<1>1. NumberedInv'
  BY DEF SdkInv, NumberedInv
<1>2. OwnNewestAreShown'
  BY DEF SdkInv, OwnNewestAreShown
<1> QED
  BY <1>1, <1>2 DEF SdkInv

LEMMA StartServiceStep == SdkInv /\ StartService => SdkInv'
<1> SUFFICES ASSUME SdkInv, StartService PROVE SdkInv'
  OBVIOUS
<1>1. backend = "none" /\ UNCHANGED <<artifactTable, inMemory, dbUp, pending, built, answered, shown>>
  BY DEF StartService
<1>2. backend' \in {"none", "memory", "postgres", "refused"}
  BY DEF StartService, StoreFor
<1>3. SdkTypes'
  BY <1>1, <1>2 DEF SdkInv, SdkTypes
<1>4. DurableInv'
  BY <1>1 DEF SdkInv, DurableInv
<1>5. NothingRawIsKept' /\ \A a : There(a)' => There(a)
  BY <1>1 DEF SdkInv, NothingRawIsKept, There
<1> QED
  BY <1>1, <1>3, <1>4, <1>5, QuietStep

LEMMA EvaluateInteractionStep ==
  ASSUME SdkInv, NEW w \in ApiWorker, EvaluateInteraction(w)
  PROVE  SdkInv'
<1>1. PICK place \in PayloadPlace, thing \in PayloadThing, tenant \in Tenant :
        /\ ~Rejected(place, thing)
        /\ pending' = [pending EXCEPT ![w] =
             [at |-> "built", artifact |-> [id |-> built + 1, tenant |-> tenant, has |-> thing]]]
  BY DEF EvaluateInteraction
<1>2. /\ backend \in {"memory", "postgres"} /\ pending[w].at = "idle" /\ built' = built + 1
      /\ UNCHANGED <<backend, artifactTable, inMemory, dbUp, answered, shown>>
  BY DEF EvaluateInteraction
<1>3. PICK a : a = [id |-> built + 1, tenant |-> tenant, has |-> thing]
  OBVIOUS
<1>4. built \in Nat /\ pending \in [ApiWorker -> RequestState]
  BY DEF SdkInv, SdkTypes
<1>5. a \in SdkArtifact /\ a.id = built + 1 /\ a.has # "answer"
  BY <1>1, <1>3, <1>4 DEF SdkArtifact, Rejected
<1>6. PICK q : q = [at |-> "built", artifact |-> a]
  OBVIOUS
<1>7. q \in RequestState /\ q.at = "built" /\ q.artifact = a
  BY <1>5, <1>6 DEF RequestState
<1>8. /\ pending' \in [ApiWorker -> RequestState]
      /\ pending'[w] = q /\ \A v \in ApiWorker \ {w} : pending'[v] = pending[v]
  BY <1>1, <1>3, <1>4, <1>6, <1>7
<1>9. SdkTypes'
  BY <1>2, <1>4, <1>5, <1>7, <1>8 DEF SdkInv, SdkTypes
<1>10. \A b : There(b)' => There(b) \/ b = a
  BY <1>2, <1>7, <1>8 DEF There
<1>11. NumberedInv'
  <2>1. \A b : There(b) => b.id <= built /\ b.id \in Nat
    BY DEF SdkInv, NumberedInv, There, SdkTypes, SdkArtifact
  <2>2. \A b : There(b) => b.id <= built + 1 /\ b.id # built + 1
    BY <1>4, <2>1
  <2> QED
    BY <1>2, <1>4, <1>5, <1>10, <2>2 DEF SdkInv, NumberedInv
<1>12. DurableInv'
  BY <1>2, <1>7, <1>8 DEF SdkInv, DurableInv
<1>13. NothingRawIsKept' /\ OwnNewestAreShown'
  BY <1>2 DEF SdkInv, NothingRawIsKept, OwnNewestAreShown
<1> QED
  BY <1>9, <1>11, <1>12, <1>13 DEF SdkInv

LEMMA PutStep ==
  ASSUME SdkInv, NEW w \in ApiWorker, Put(w)
  PROVE  SdkInv'
<1>1. PICK a : a = pending[w].artifact
  OBVIOUS
<1>2. /\ pending[w].at = "built" /\ UNCHANGED <<backend, dbUp, built, answered, shown>>
  BY DEF Put
<1>3. /\ a \in SdkArtifact /\ a.has # "answer" /\ There(a)
      /\ pending \in [ApiWorker -> RequestState] /\ inMemory \in [ApiWorker -> SUBSET SdkArtifact]
  BY <1>1, <1>2 DEF SdkInv, SdkTypes, There
<1>4. CASE ~ (Minimized(a) /\ (backend = "postgres" => dbUp))
  <2>1. pending' = [pending EXCEPT ![w] = NoRequest] /\ UNCHANGED <<artifactTable, inMemory>>
    BY <1>1, <1>4 DEF Put
  <2>2. NoRequest \in RequestState /\ NoRequest.at = "idle"
    BY DEF NoRequest, RequestState
  <2>3. /\ pending' \in [ApiWorker -> RequestState]
        /\ pending'[w] = NoRequest /\ \A v \in ApiWorker \ {w} : pending'[v] = pending[v]
    BY <1>3, <2>1, <2>2
  <2>4. SdkTypes'
    BY <1>2, <2>1, <2>2, <2>3 DEF SdkInv, SdkTypes
  <2>5. DurableInv'
    BY <1>2, <2>1, <2>2, <2>3 DEF SdkInv, DurableInv
  <2>6. NothingRawIsKept' /\ \A b : There(b)' => There(b)
    BY <2>1, <2>2, <2>3 DEF SdkInv, NothingRawIsKept, There
  <2> QED
    BY <1>2, <2>4, <2>5, <2>6, QuietStep
<1>5. CASE Minimized(a) /\ (backend = "postgres" => dbUp)
  <2>1. /\ pending' = [pending EXCEPT ![w].at = "stored"]
        /\ backend = "postgres" => artifactTable' = artifactTable \cup {a} /\ UNCHANGED inMemory
        /\ backend # "postgres" =>
             inMemory' = [inMemory EXCEPT ![w] = @ \cup {a}] /\ UNCHANGED artifactTable
    BY <1>1, <1>5 DEF Put
  <2>2. pending[w] \in RequestState
    BY <1>3
  <2>3. PICK q : q = [pending[w] EXCEPT !.at = "stored"]
    OBVIOUS
  <2>4. q \in RequestState /\ q.at = "stored" /\ q.artifact = a
    BY <1>1, <2>2, <2>3 DEF RequestState
  <2>5. /\ pending' \in [ApiWorker -> RequestState]
        /\ pending'[w] = q /\ \A v \in ApiWorker \ {w} : pending'[v] = pending[v]
    BY <1>3, <2>1, <2>3, <2>4
  <2>6. /\ artifactTable \subseteq artifactTable' /\ artifactTable' \subseteq artifactTable \cup {a}
        /\ IsFiniteSet(artifactTable')
    <3>1. IsFiniteSet(artifactTable) /\ IsFiniteSet(artifactTable \cup {a})
      BY FS_AddElement DEF SdkInv, SdkTypes
    <3> QED
      BY <2>1, <3>1
  <2>7. ASSUME NEW v \in ApiWorker
        PROVE  /\ inMemory'[v] \subseteq inMemory[v] \cup {a} /\ IsFiniteSet(inMemory'[v])
    <3>1. IsFiniteSet(inMemory[v]) /\ IsFiniteSet(inMemory[v] \cup {a})
      BY FS_AddElement DEF SdkInv, SdkTypes
    <3>2. inMemory'[v] = inMemory[v] \/ inMemory'[v] = inMemory[v] \cup {a}
      BY <1>3, <2>1
    <3> QED
      BY <3>1, <3>2
  <2>8. inMemory' \in [ApiWorker -> SUBSET SdkArtifact]
    BY <1>3, <2>1
  <2>9. SdkTypes'
    <3>1. artifactTable' \in SUBSET SdkArtifact
      BY <1>3, <2>6 DEF SdkInv, SdkTypes
    <3> QED
      BY <1>2, <1>3, <2>4, <2>5, <2>6, <2>7, <2>8, <3>1 DEF SdkInv, SdkTypes
  <2>10. \A b : There(b)' => There(b)
    BY <1>2, <1>3, <2>4, <2>5, <2>6, <2>7 DEF There
  <2>11. NothingRawIsKept'
    <3>1. a.has \notin {"answer", "password", "marker"}
      BY <1>3, <1>5 DEF Minimized
    <3>2. \A b \in artifactTable' \cup UNION {inMemory'[v] : v \in ApiWorker} :
            b = a \/ b \in artifactTable \cup UNION {inMemory[v] : v \in ApiWorker}
      BY <2>6, <2>7
    <3> QED
      BY <3>1, <3>2 DEF SdkInv, NothingRawIsKept
  <2>12. DurableInv'
    <3>1. backend = "postgres" => a \in artifactTable'
      BY <2>1
    <3> QED
      BY <1>2, <2>4, <2>5, <2>6, <3>1 DEF SdkInv, DurableInv
  <2> QED
    BY <1>2, <2>9, <2>10, <2>11, <2>12, QuietStep
<1> QED
  BY <1>4, <1>5

LEMMA AnswerEvaluationStep ==
  ASSUME SdkInv, NEW w \in ApiWorker, AnswerEvaluation(w)
  PROVE  SdkInv'
<1>1. /\ pending[w].at = "stored" /\ answered' = answered \cup {pending[w].artifact}
      /\ pending' = [pending EXCEPT ![w] = NoRequest]
      /\ UNCHANGED <<backend, artifactTable, inMemory, dbUp, built, shown>>
  BY DEF AnswerEvaluation
<1>2. NoRequest \in RequestState /\ NoRequest.at = "idle"
  BY DEF NoRequest, RequestState
<1>3. pending \in [ApiWorker -> RequestState] /\ pending[w].artifact \in SdkArtifact
  BY <1>1 DEF SdkInv, SdkTypes
<1>4. /\ pending' \in [ApiWorker -> RequestState]
      /\ pending'[w] = NoRequest /\ \A v \in ApiWorker \ {w} : pending'[v] = pending[v]
  BY <1>1, <1>2, <1>3
<1>5. SdkTypes'
  BY <1>1, <1>2, <1>3, <1>4 DEF SdkInv, SdkTypes
<1>6. DurableInv'
  BY <1>1, <1>2, <1>4 DEF SdkInv, DurableInv
<1>7. NothingRawIsKept' /\ \A b : There(b)' => There(b)
  BY <1>1, <1>2, <1>4 DEF SdkInv, NothingRawIsKept, There
<1> QED
  BY <1>1, <1>5, <1>6, <1>7, QuietStep

LEMMA RestartWorkerStep ==
  ASSUME SdkInv, NEW w \in ApiWorker, RestartWorker(w)
  PROVE  SdkInv'
<1>1. /\ inMemory' = [inMemory EXCEPT ![w] = {}] /\ pending' = [pending EXCEPT ![w] = NoRequest]
      /\ UNCHANGED <<backend, artifactTable, dbUp, built, answered, shown>>
  BY DEF RestartWorker
<1>2. NoRequest \in RequestState /\ NoRequest.at = "idle"
  BY DEF NoRequest, RequestState
<1>3. pending \in [ApiWorker -> RequestState] /\ inMemory \in [ApiWorker -> SUBSET SdkArtifact]
  BY DEF SdkInv, SdkTypes
<1>4. /\ pending' \in [ApiWorker -> RequestState]
      /\ pending'[w] = NoRequest /\ \A v \in ApiWorker \ {w} : pending'[v] = pending[v]
  BY <1>1, <1>2, <1>3
<1>5. /\ inMemory' \in [ApiWorker -> SUBSET SdkArtifact]
      /\ inMemory'[w] = {} /\ \A v \in ApiWorker \ {w} : inMemory'[v] = inMemory[v]
  BY <1>1, <1>3
<1>6. SdkTypes'
  BY <1>1, <1>2, <1>4, <1>5, FS_EmptySet DEF SdkInv, SdkTypes
<1>7. DurableInv'
  BY <1>1, <1>2, <1>4 DEF SdkInv, DurableInv
<1>8. NothingRawIsKept' /\ \A b : There(b)' => There(b)
  BY <1>1, <1>2, <1>4, <1>5 DEF SdkInv, NothingRawIsKept, There
<1> QED
  BY <1>1, <1>6, <1>7, <1>8, QuietStep

LEMMA ListCardsStep ==
  ASSUME SdkInv, NEW w \in ApiWorker, ListCards(w)
  PROVE  SdkInv'
<1>1. PICK user \in DashboardUser, asked \in Tenant \cup {NoTenant} :
        LET tenant == ListingTenant(user, asked) IN
        shown' = [tenant |-> IF user.admin THEN NoTenant ELSE user.tenant,
                  artifacts |-> Recent(Stored(w), tenant),
                  missing |-> {a \in Stored(w) : tenant \in {NoTenant, a.tenant}} \ Recent(Stored(w), tenant)]
        /\ tenant # "none"
  BY DEF ListCards
<1>2. UNCHANGED <<backend, artifactTable, inMemory, dbUp, pending, built, answered>>
  BY DEF ListCards
<1>3. PICK tenant : tenant = ListingTenant(user, asked)
  OBVIOUS
<1>4. PICK S : S = {a \in Stored(w) : tenant \in {NoTenant, a.tenant}}
  OBVIOUS
<1>5. /\ shown'.tenant = IF user.admin THEN NoTenant ELSE user.tenant
      /\ shown'.artifacts = NewestOf(S, ListLimit)
      /\ shown'.missing = S \ NewestOf(S, ListLimit)
      /\ tenant # "none"
  BY <1>1, <1>3, <1>4 DEF Recent
<1>6. IsFiniteSet(S) /\ \A a \in S : There(a)
  <2>1. IsFiniteSet(Stored(w)) /\ \A a \in Stored(w) : There(a)
    BY DEF Stored, There, SdkInv, SdkTypes
  <2> QED
    BY <1>4, <2>1, FS_Subset
<1>7. (\A b \in S : b.id \in Int) /\ (\A b, c \in S : b.id = c.id => b = c)
  <2>1. \A b : There(b) => b \in SdkArtifact
    BY DEF There, SdkInv, SdkTypes
  <2> QED
    BY <1>6, <2>1 DEF SdkInv, NumberedInv, SdkArtifact
<1>8. \A a \in shown'.missing : Cardinality({b \in shown'.artifacts : b.id > a.id}) = ListLimit
  <2> SUFFICES ASSUME NEW a \in S \ NewestOf(S, ListLimit)
               PROVE  Cardinality({b \in NewestOf(S, ListLimit) : b.id > a.id}) = ListLimit
    BY <1>5
  <2> QED
    BY <1>6, <1>7, NewestAreN, SdkAssumption
<1>9. shown'.tenant # NoTenant => \A a \in shown'.artifacts : a.tenant = shown'.tenant
  <2> SUFFICES ASSUME shown'.tenant # NoTenant, NEW a \in S PROVE a.tenant = shown'.tenant
    BY <1>5 DEF NewestOf
  <2>1. ~user.admin /\ shown'.tenant = user.tenant
    BY <1>5
  <2>2. tenant = user.tenant
    BY <1>3, <1>5, <2>1 DEF ListingTenant
  <2> QED
    BY <1>4, <2>1, <2>2
<1>10. OwnNewestAreShown'
  BY <1>8, <1>9 DEF OwnNewestAreShown
<1> QED
  BY <1>2, <1>10 DEF SdkInv, SdkTypes, NumberedInv, There, DurableInv, NothingRawIsKept

LEMMA GetArtifactStep ==
  ASSUME SdkInv, NEW w \in ApiWorker, GetArtifact(w)
  PROVE  SdkInv'
<1>1. PICK user \in DashboardUser, a \in Stored(w) :
        /\ CanAccess(user, a)
        /\ shown' = [tenant |-> IF user.admin THEN NoTenant ELSE user.tenant,
                     artifacts |-> {a}, missing |-> {}]
  BY DEF GetArtifact
<1>2. UNCHANGED <<backend, artifactTable, inMemory, dbUp, pending, built, answered>>
  BY DEF GetArtifact
<1>3. /\ shown'.tenant = IF user.admin THEN NoTenant ELSE user.tenant
      /\ shown'.artifacts = {a} /\ shown'.missing = {}
  BY <1>1
<1>4. OwnNewestAreShown'
  BY <1>1, <1>3 DEF OwnNewestAreShown, CanAccess
<1> QED
  BY <1>2, <1>4 DEF SdkInv, SdkTypes, NumberedInv, There, DurableInv, NothingRawIsKept

\* sdk_artifacts.py: the invariant of the artifacts: numbered apart, bare of content, and
\* those answered from the database still in it.
THEOREM SdkInductive == SdkSpec => []SdkInv
<1>1. SdkInv /\ [SdkNext]_sdkVars => SdkInv'
  <2> SUFFICES ASSUME SdkInv, [SdkNext]_sdkVars PROVE SdkInv'
    OBVIOUS
  <2>1. CASE UNCHANGED sdkVars \/ DatabaseMoves
    BY <2>1 DEF sdkVars, DatabaseMoves, SdkInv, SdkTypes, NumberedInv, There, DurableInv,
       NothingRawIsKept, OwnNewestAreShown
  <2> QED
    BY <2>1, StartServiceStep, EvaluateInteractionStep, PutStep, AnswerEvaluationStep,
       ListCardsStep, GetArtifactStep, RestartWorkerStep DEF SdkNext
<1> QED
  BY <1>1, SdkInitInv, PTL DEF SdkSpec

\* evaluate_interaction, the evidence routes: what a caller is answered is kept in the
\* database, nothing raw is kept anywhere, and a tenant's user gets his own and the newest.
THEOREM ArtifactsKept == SdkSpec => []ArtifactsHold
<1>1. SdkInv => ArtifactsHold
  BY DEF SdkInv, DurableInv, ArtifactsHold, AnsweredIsKept
<1> QED
  BY <1>1, SdkInductive, PTL

\* What the requests of a worker have in hand.
SdkRequests ==
  \A w \in ApiWorker : pending[w].at # "idle" =>
    pending[w].artifact \in Artifact /\ backend \in {"memory", "postgres"}
SdkBounded == SdkTypeOK /\ SdkRequests

LEMMA SdkStepType == SdkInv /\ SdkBounded /\ [SdkNext]_sdkVars => SdkBounded'
<1> SUFFICES ASSUME SdkInv, SdkBounded, [SdkNext]_sdkVars PROVE SdkBounded'
  OBVIOUS
<1> USE DEF SdkBounded
<1>0. /\ pending \in [ApiWorker -> RequestState]
      /\ inMemory \in [ApiWorker -> SUBSET SdkArtifact]
  BY DEF SdkInv, SdkTypes
<1>n. NoRequest.at = "idle" /\ NoRequest.artifact = NoArtifact
  BY DEF NoRequest
<1>1. CASE StartService
  <2>1. backend' \in {"memory", "postgres", "refused"} /\ backend = "none"
    BY <1>1 DEF StartService, StoreFor
  <2>2. \A w \in ApiWorker : pending[w].at = "idle" /\ inMemory[w] = {}
    BY <2>1 DEF SdkInv, DurableInv, SdkTypeOK
  <2> QED
    BY <1>1, <2>1, <2>2 DEF StartService, SdkTypeOK, SdkRequests
<1>2. ASSUME NEW w \in ApiWorker, EvaluateInteraction(w) PROVE SdkBounded'
  <2>1. PICK thing \in PayloadThing, tenant \in Tenant :
          pending' = [pending EXCEPT ![w] =
            [at |-> "built", artifact |-> [id |-> built + 1, tenant |-> tenant, has |-> thing]]]
    BY <1>2 DEF EvaluateInteraction
  <2>2. built + 1 \in 1..MaxArtifacts /\ built' = built + 1
    BY <1>2, SdkAssumption DEF EvaluateInteraction, SdkTypeOK
  <2>3. PICK a \in Artifact : a = [id |-> built + 1, tenant |-> tenant, has |-> thing]
    BY <2>2 DEF Artifact
  <2>4. pending' = [pending EXCEPT ![w] = [at |-> "built", artifact |-> a]]
    BY <2>1, <2>3
  <2>5. \A v \in ApiWorker : pending'[v] = IF v = w THEN [at |-> "built", artifact |-> a]
                                           ELSE pending[v]
    BY <1>0, <2>4
  <2>6. built' \in 0..MaxArtifacts
    BY <2>2, SdkAssumption
  <2> QED
    BY <1>2, <2>5, <2>6 DEF EvaluateInteraction, SdkTypeOK, SdkRequests
<1>3. ASSUME NEW w \in ApiWorker, Put(w) PROVE SdkBounded'
  <2>1. PICK a \in Artifact : a = pending[w].artifact
    BY <1>3 DEF Put, SdkRequests
  <2>2. \/ /\ pending' = [pending EXCEPT ![w].at = "stored"]
           /\ \/ /\ backend = "postgres" /\ artifactTable' = artifactTable \cup {a}
                 /\ inMemory' = inMemory
              \/ /\ backend # "postgres" /\ artifactTable' = artifactTable
                 /\ inMemory' = [inMemory EXCEPT ![w] = @ \cup {a}]
        \/ pending' = [pending EXCEPT ![w] = NoRequest] /\ UNCHANGED <<artifactTable, inMemory>>
    BY <1>3, <2>1 DEF Put
  <2>3. artifactTable' \subseteq Artifact
    BY <2>2 DEF SdkTypeOK
  <2>4. backend' = backend /\ backend \in {"memory", "postgres"}
    BY <1>3 DEF Put, SdkRequests
  <2>5. \A v \in ApiWorker :
          /\ pending'[v] \in {pending[v], NoRequest, [pending[v] EXCEPT !.at = "stored"]}
          /\ pending'[v].at # "idle" => v = w \/ pending'[v] = pending[v]
          /\ inMemory'[v] = inMemory[v] \/ (backend = "memory" /\ inMemory'[v] = inMemory[v] \cup {a})
    <3> TAKE v \in ApiWorker
    <3>1. pending[v] \in RequestState
      BY <1>0
    <3>2. CASE /\ pending' = [pending EXCEPT ![w].at = "stored"]
               /\ inMemory' \in {inMemory, [inMemory EXCEPT ![w] = @ \cup {a}]}
      BY <1>0, <2>2, <2>4, <3>2
    <3>3. CASE pending' = [pending EXCEPT ![w] = NoRequest] /\ inMemory' = inMemory
      BY <1>0, <1>n, <3>3
    <3> QED
      BY <2>2, <3>2, <3>3
  <2>6. ASSUME NEW v \in ApiWorker
        PROVE  /\ pending'[v].at \in {"idle", "built", "stored"}
               /\ pending'[v].artifact \in Artifact \cup {NoArtifact}
               /\ pending'[v].at # "idle" => pending'[v].artifact \in Artifact
    <3>1. pending[v] \in RequestState /\ pending[v].artifact \in Artifact \cup {NoArtifact}
      BY <1>0 DEF SdkTypeOK
    <3>2. CASE pending'[v] \in {pending[v], NoRequest}
      BY <1>n, <3>1, <3>2 DEF RequestState, SdkRequests
    <3>3. CASE pending'[v] = [pending[v] EXCEPT !.at = "stored"]
      <4>1. pending'[v].at = "stored" /\ pending'[v].artifact = pending[v].artifact
        BY <3>1, <3>3 DEF RequestState
      <4>2. v = w \/ pending'[v] = pending[v]
        BY <2>5, <4>1
      <4> QED
        BY <2>1, <3>1, <3>2, <4>1, <4>2
    <3> QED
      BY <2>5, <3>2, <3>3
  <2>7. ASSUME NEW v \in ApiWorker
        PROVE  inMemory'[v] \subseteq Artifact /\ (backend' # "memory" => inMemory'[v] = {})
    BY <2>4, <2>5 DEF SdkTypeOK
  <2>8. dbUp' = dbUp /\ answered' = answered /\ built' = built
    BY <1>3 DEF Put
  <2> QED
    BY <2>3, <2>4, <2>6, <2>7, <2>8 DEF SdkTypeOK, SdkRequests
<1>4. ASSUME NEW w \in ApiWorker, AnswerEvaluation(w) \/ RestartWorker(w) PROVE SdkBounded'
  <2>1. pending' = [pending EXCEPT ![w] = NoRequest]
    BY <1>4 DEF AnswerEvaluation, RestartWorker
  <2>2. \A v \in ApiWorker : pending'[v] = IF v = w THEN NoRequest ELSE pending[v]
    BY <1>0, <2>1
  <2>3. answered' \subseteq Artifact
    BY <1>4 DEF AnswerEvaluation, RestartWorker, SdkTypeOK, SdkRequests
  <2>4. \A v \in ApiWorker : inMemory'[v] \in {inMemory[v], {}}
    BY <1>0, <1>4 DEF AnswerEvaluation, RestartWorker
  <2>5. UNCHANGED <<backend, artifactTable, dbUp, built>>
    BY <1>4 DEF AnswerEvaluation, RestartWorker
  <2> QED
    BY <1>n, <2>2, <2>3, <2>4, <2>5 DEF SdkTypeOK, SdkRequests
<1>5. ASSUME NEW w \in ApiWorker, ListCards(w) \/ GetArtifact(w) PROVE SdkBounded'
  <2>1. UNCHANGED <<backend, artifactTable, inMemory, dbUp, pending, built, answered>>
    BY <1>5 DEF ListCards, GetArtifact
  <2> QED
    BY <2>1 DEF SdkTypeOK, SdkRequests
<1>6. CASE DatabaseMoves
  BY <1>6 DEF DatabaseMoves, SdkTypeOK, SdkRequests
<1>7. CASE UNCHANGED sdkVars
  BY <1>7 DEF sdkVars, SdkTypeOK, SdkRequests
<1> QED
  BY <1>1, <1>2, <1>3, <1>4, <1>5, <1>6, <1>7 DEF SdkNext

\* The artifacts keep their type, and a durable store leaves none in a worker's memory.
THEOREM SdkTyped == SdkSpec => []SdkTypeOK
<1>1. SdkInit => SdkBounded
  <2> SUFFICES ASSUME SdkInit PROVE SdkBounded
    OBVIOUS
  <2>1. 0 \in 0..MaxArtifacts
    BY SdkAssumption
  <2>2. \A w \in ApiWorker : pending[w] = NoRequest /\ inMemory[w] = {}
    BY DEF SdkInit
  <2>3. NoRequest.at = "idle" /\ NoRequest.artifact = NoArtifact
    BY DEF NoRequest
  <2> QED
    BY <2>1, <2>2, <2>3 DEF SdkInit, SdkBounded, SdkTypeOK, SdkRequests
<1>2. SdkBounded => SdkTypeOK
  BY DEF SdkBounded
<1> QED
  BY <1>1, <1>2, SdkStepType, SdkInductive, PTL DEF SdkSpec

(***************************************************************************)
(* SdkScoring                                                              *)
(***************************************************************************)

LEMMA LeastNumber ==
  ASSUME NEW T \in SUBSET Nat, T # {}
  PROVE  \E k \in T : \A l \in T : k <= l
<1>1. PICK k \in T : \A x \in Nat : <<x, k>> \in OpToRel(<, Nat) => x \notin T
  BY NatLessThanWellFounded, WFMin
<1>2. \A x \in Nat : x < k => x \notin T
  BY <1>1 DEF OpToRel
<1> QED
  BY <1>2

LEMMA WholeIs == Whole = 10000 /\ Whole \in Nat
BY DEF Whole
LEMMA ClampedIs ==
  ASSUME NEW x \in Int
  PROVE  /\ x < 0 => Clamped(x) = 0
         /\ x > Whole => Clamped(x) = Whole
         /\ 0 <= x /\ x <= Whole => Clamped(x) = x
BY WholeIs DEF Clamped

LEMMA InWhole == ASSUME NEW x \in Int, 0 <= x, x <= 10000 PROVE x \in 0..Whole
<1>1. x <= Whole /\ Whole \in Int
  BY WholeIs
<1> QED BY <1>1

LEMMA PartsOfWhole ==
  /\ 0..Whole \in SUBSET Nat /\ 0..Whole \in SUBSET Int
  /\ 0 \in 0..Whole /\ Whole \in 0..Whole
BY WholeIs

LEMMA ClampedType ==
  ASSUME NEW x \in Int
  PROVE  Clamped(x) \in 0..Whole
<1>1. CASE x < 0
  <2>1. Clamped(x) = 0
    BY <1>1, ClampedIs
  <2> QED BY <2>1, PartsOfWhole
<1>2. CASE x > Whole
  <2>1. Clamped(x) = Whole
    BY <1>2, ClampedIs
  <2> QED BY <2>1, PartsOfWhole
<1>3. CASE 0 <= x /\ x <= Whole
  <2>1. Clamped(x) = x
    BY <1>3, ClampedIs
  <2>2. 0 <= x /\ x <= 10000
    BY <1>3, WholeIs
  <2>3. x \in 0..Whole
    BY <2>2, InWhole
  <2> QED BY <2>1, <2>3
<1>4. x < 0 \/ x > Whole \/ (0 <= x /\ x <= Whole)
  BY WholeIs
<1> QED BY <1>1, <1>2, <1>3, <1>4

LEMMA ClampedSame == ASSUME NEW s \in 0..Whole PROVE Clamped(s) = s
<1>1. s \in Int /\ 0 <= s /\ s <= Whole
  BY WholeIs
<1> QED BY <1>1, ClampedIs

LEMMA ComplementType ==
  ASSUME NEW s \in 0..Whole PROVE Whole - s \in 0..Whole /\ Whole - s \in Nat
<1>1. PICK c \in Int : c = Whole - s
  BY WholeIs
<1>2. 0 <= c /\ c <= Whole
  BY <1>1, WholeIs
<1>3. c \in 0..Whole /\ c \in Nat
  BY <1>2, WholeIs
<1> QED BY <1>1, <1>3

LEMMA RestShrinks ==
  ASSUME NEW x \in 0..Whole, NEW y \in 0..Whole, x <= y
  PROVE  Whole - y <= Whole - x
<1>1. x \in Nat /\ y \in Nat
  BY PartsOfWhole
<1> QED BY <1>1, WholeIs

LEMMA ClampedGrows ==
  ASSUME NEW a \in Int, NEW b \in Int, a <= b
  PROVE  Clamped(a) <= Clamped(b)
<1>1. PICK c \in 0..Whole : c = Clamped(a)
  BY ClampedType
<1>2. PICK d \in 0..Whole : d = Clamped(b)
  BY ClampedType
<1>3. c \in Nat /\ c <= Whole /\ d \in Nat /\ d <= Whole
  BY WholeIs
<1>4. CASE a < 0
  <2>1. c = 0
    BY <1>1, <1>4, ClampedIs
  <2>2. c <= d
    BY <1>3, <2>1
  <2> QED BY <1>1, <1>2, <2>2
<1>5. CASE b > Whole
  <2>1. d = Whole
    BY <1>2, <1>5, ClampedIs
  <2>2. c <= d
    BY <1>3, <2>1
  <2> QED BY <1>1, <1>2, <2>2
<1>6. CASE 0 <= a /\ b <= Whole
  <2>1. a <= Whole /\ 0 <= b
    BY <1>6, WholeIs
  <2>2. Clamped(a) = a /\ Clamped(b) = b
    BY <1>6, <2>1, ClampedIs
  <2> QED BY <2>2
<1> QED BY <1>4, <1>5, <1>6, WholeIs

LEMMA ComplementShrinks ==
  ASSUME NEW a \in Int, NEW b \in Int, a <= b
  PROVE  \E c, d \in 0..Whole : c = Whole - Clamped(a) /\ d = Whole - Clamped(b) /\ d <= c
<1>1. Clamped(a) \in 0..Whole /\ Clamped(b) \in 0..Whole /\ Clamped(a) <= Clamped(b)
  BY ClampedType, ClampedGrows
<1>2. Whole - Clamped(a) \in 0..Whole /\ Whole - Clamped(b) \in 0..Whole
  BY <1>1, ComplementType
<1>3. Whole - Clamped(b) <= Whole - Clamped(a)
  BY <1>1, RestShrinks
<1> QED BY <1>2, <1>3

\* A part of a likelihood is one, and is greater of greater ones.
LEMMA ProductGrows ==
  ASSUME NEW a \in Nat, NEW b \in Nat, NEW c \in Nat, NEW d \in Nat, a <= c, b <= d
  PROVE  a * b <= c * d
<1>1. a * b <= c * b
  OBVIOUS
<1>2. c * b <= c * d
  OBVIOUS
<1> QED BY <1>1, <1>2

LEMMA DivisionGrows ==
  ASSUME NEW a \in Nat, NEW b \in Nat, a <= b
  PROVE  a \div Whole \in Nat /\ a \div Whole <= b \div Whole
BY DEF Whole

LEMMA TimesGrows ==
  ASSUME NEW a \in Nat, NEW b \in Nat, NEW c \in Nat, NEW d \in Nat, a <= c, b <= d
  PROVE  Times(a, b) \in Nat /\ Times(a, b) <= Times(c, d)
<1>1. a * b \in Nat /\ c * d \in Nat /\ a * b <= c * d
  BY ProductGrows
<1> QED BY <1>1, DivisionGrows DEF Times

LEMMA TimesWhole == \A a \in Nat : Times(a, Whole) = a /\ Times(Whole, a) = a
BY DEF Times, Whole

LEMMA TimesPart ==
  ASSUME NEW a \in 0..Whole, NEW b \in 0..Whole
  PROVE  Times(a, b) \in 0..Whole /\ Times(a, b) <= a
<1>1. Whole \in Nat /\ a \in Nat /\ b \in Nat /\ a <= Whole /\ b <= Whole
  BY DEF Whole
<1>2. Times(a, b) \in Nat /\ Times(a, b) <= Times(a, Whole)
  BY <1>1, TimesGrows
<1> QED BY <1>1, <1>2, TimesWhole

Pick(T) == CHOOSE x \in T : TRUE

\* What is left of Whole when the strengths of a set were taken, one after the other.
IsLeft(r, v, D) ==
  r = [T \in SUBSET D |->
         IF T = {} THEN Whole
         ELSE Times(r[T \ {Pick(T)}], Whole - Clamped(v[Pick(T)]))]

Left(v) == CHOOSE r : IsLeft(r, v, DOMAIN v)

LEMMA ProductIsLeft ==
  ASSUME NEW v PROVE ProductOfComplements(v) = Whole - Left(v)[DOMAIN v]
BY Zenon DEF ProductOfComplements, FoldFunction, FoldFunctionOnSet, MapThenFoldSet, IsLeft,
             Left, Pick

\* The recursion has a solution: one for the sets of at most n gives one for those of n + 1.
LEMMA LeftExists ==
  ASSUME NEW v, NEW D, IsFiniteSet(D)
  PROVE  \E r : IsLeft(r, v, D)
<1> DEFINE Upto(n) == {T \in SUBSET D : Cardinality(T) <= n}
           Body(g, T) == IF T = {} THEN Whole
                         ELSE Times(g[T \ {Pick(T)}], Whole - Clamped(v[Pick(T)]))
           Partial(g, n) == g = [T \in Upto(n) |-> Body(g, T)]
           Without == {n \in Nat : ~ \E g : Partial(g, n)}
<1>1. ASSUME NEW n \in Nat, NEW g, Partial(g, n)
      PROVE  Partial([T \in Upto(n + 1) |-> Body(g, T)], n + 1)
  <2> DEFINE h == [T \in Upto(n + 1) |-> Body(g, T)]
  <2>1. ASSUME NEW T \in Upto(n + 1), T # {} PROVE g[T \ {Pick(T)}] = h[T \ {Pick(T)}]
    <3>1. Pick(T) \in T
      BY <2>1 DEF Pick
    <3>2. IsFiniteSet(T)
      BY FS_Subset
    <3>3. /\ IsFiniteSet(T \ {Pick(T)})
          /\ Cardinality(T \ {Pick(T)}) = Cardinality(T) - 1
          /\ Cardinality(T) \in Nat
      BY <3>1, <3>2, FS_RemoveElement, FS_CardinalityType
    <3>4. T \ {Pick(T)} \in Upto(n) /\ T \ {Pick(T)} \in Upto(n + 1)
      BY <3>3
    <3>5. g[T \ {Pick(T)}] = Body(g, T \ {Pick(T)})
      <4> HIDE DEF Body, Upto
      <4> QED BY <1>1, <3>4
    <3>6. h[T \ {Pick(T)}] = Body(g, T \ {Pick(T)})
      <4> HIDE DEF Body, Upto
      <4> QED BY <3>4
    <3> QED BY <3>5, <3>6
  <2>2. ASSUME NEW T \in Upto(n + 1) PROVE Body(g, T) = Body(h, T)
    BY <2>1, <2>2
  <2> HIDE DEF Body, Upto
  <2>3. h = [T \in Upto(n + 1) |-> Body(h, T)]
    BY <2>2
  <2> QED BY <2>3
<1>2. \E g : Partial(g, 0)
  <2> DEFINE g == [T \in Upto(0) |-> Whole]
  <2>1. ASSUME NEW T \in Upto(0) PROVE T = {}
    <3>1. IsFiniteSet(T) /\ Cardinality(T) \in Nat /\ Cardinality(T) <= 0
      BY FS_Subset, FS_CardinalityType
    <3>2. Cardinality(T) = 0
      BY <3>1
    <3> QED BY <3>1, <3>2, FS_EmptySet
  <2>2. \A T \in Upto(0) : Whole = Body(g, T)
    BY <2>1
  <2> HIDE DEF Body, Upto
  <2>3. g = [T \in Upto(0) |-> Body(g, T)]
    BY <2>2
  <2> QED BY <2>3
<1>3. Without = {}
  <2> SUFFICES ASSUME Without # {} PROVE FALSE
    OBVIOUS
  <2>1. PICK k \in Without : \A l \in Without : k <= l
    <3> HIDE DEF Partial
    <3>1. Without \in SUBSET Nat
      OBVIOUS
    <3> HIDE DEF Without
    <3> QED BY <3>1, LeastNumber
  <2> HIDE DEF Partial, Body, Upto
  <2>2. k \in Nat /\ k # 0
    BY <1>2
  <2>3. k - 1 \in Nat /\ k - 1 \notin Without
    BY <2>1, <2>2
  <2>4. PICK g : Partial(g, k - 1)
    BY <2>3
  <2>5. (k - 1) + 1 = k
    BY <2>2
  <2>6. \E h : Partial(h, (k - 1) + 1)
    BY <1>1, <2>3, <2>4
  <2> QED BY <2>5, <2>6
<1>4. PICK g : Partial(g, Cardinality(D))
  <2> HIDE DEF Partial
  <2> QED BY <1>3, FS_CardinalityType
<1>5. Upto(Cardinality(D)) = SUBSET D
  BY FS_Subset
<1>6. IsLeft(g, v, D)
  BY <1>4, <1>5 DEF IsLeft
<1> QED BY <1>6

\* What holds of {} and of a set when it does without what is picked first, does of all.
LEMMA LeftInduction ==
  ASSUME NEW D, IsFiniteSet(D), NEW G, {} \in G,
         \A T \in SUBSET D : T # {} /\ T \ {Pick(T)} \in G => T \in G
  PROVE  \A T \in SUBSET D : T \in G
<1> DEFINE Sizes == {n \in Nat : \E T \in SUBSET D : Cardinality(T) = n /\ T \notin G}
<1>1. Sizes = {}
  <2> SUFFICES ASSUME Sizes # {} PROVE FALSE
    OBVIOUS
  <2>1. PICK k \in Sizes : \A l \in Sizes : k <= l
    <3>1. Sizes \in SUBSET Nat
      OBVIOUS
    <3> HIDE DEF Sizes
    <3> QED BY <3>1, LeastNumber
  <2>2. PICK T \in SUBSET D : Cardinality(T) = k /\ T \notin G
    OBVIOUS
  <2>3. T # {} /\ T \ {Pick(T)} \notin G
    BY <2>2
  <2>4. Pick(T) \in T
    BY <2>3 DEF Pick
  <2>5. IsFiniteSet(T)
    BY FS_Subset
  <2>6. /\ Cardinality(T \ {Pick(T)}) = k - 1
        /\ k \in Nat /\ Cardinality(T \ {Pick(T)}) \in Nat
    BY <2>2, <2>4, <2>5, FS_RemoveElement, FS_CardinalityType, FS_Subset
  <2>7. k - 1 \in Sizes
    BY <2>3, <2>6
  <2> QED BY <2>1, <2>6, <2>7
<1> QED
  <2> SUFFICES ASSUME NEW T \in SUBSET D PROVE T \in G
    OBVIOUS
  <2>1. Cardinality(T) \in Nat
    BY FS_Subset, FS_CardinalityType
  <2> QED BY <1>1, <2>1

\* What is left shrinks as the strengths grow, whatever order they are taken in.
LEMMA LeftShrinks ==
  ASSUME NEW D, IsFiniteSet(D), NEW v \in [D -> Int], NEW w \in [D -> Int],
         \A x \in D : v[x] <= w[x],
         NEW r, IsLeft(r, v, D), NEW q, IsLeft(q, w, D)
  PROVE  \A T \in SUBSET D : r[T] \in 0..Whole /\ q[T] \in 0..Whole /\ q[T] <= r[T]
<1> DEFINE Fine(T) == r[T] \in 0..Whole /\ q[T] \in 0..Whole /\ q[T] <= r[T]
           G == {T \in SUBSET D : Fine(T)}
<1>1. Fine({})
  BY DEF IsLeft, Whole
<1>2. ASSUME NEW T \in SUBSET D, T # {}, Fine(T \ {Pick(T)}) PROVE Fine(T)
  <2>1. Pick(T) \in D
    BY <1>2 DEF Pick
  <2>2. PICK x \in D : x = Pick(T)
    BY <2>1
  <2>3. PICK a \in Int : a = v[x]
    OBVIOUS
  <2>4. PICK b \in Int : b = w[x]
    OBVIOUS
  <2>5. PICK R \in 0..Whole : R = r[T \ {x}]
    BY <1>2, <2>2
  <2>6. PICK Q \in 0..Whole : Q = q[T \ {x}] /\ Q <= R
    BY <1>2, <2>2, <2>5
  <2>7. r[T] = Times(R, Whole - Clamped(a)) /\ q[T] = Times(Q, Whole - Clamped(b))
    BY <1>2, <2>2, <2>3, <2>4, <2>5, <2>6 DEF IsLeft
  <2>8. PICK c \in 0..Whole, d \in 0..Whole :
               c = Whole - Clamped(a) /\ d = Whole - Clamped(b) /\ d <= c
    BY <2>2, <2>3, <2>4, ComplementShrinks
  <2>11. Times(R, c) \in 0..Whole /\ Times(Q, d) \in 0..Whole
    BY TimesPart
  <2>12. Times(Q, d) <= Times(R, c)
    <3>1. Q \in Nat /\ d \in Nat /\ R \in Nat /\ c \in Nat
      BY PartsOfWhole
    <3> QED BY <2>6, <2>8, <3>1, TimesGrows
  <2> QED BY <2>7, <2>8, <2>11, <2>12
<1>3. \A T \in SUBSET D : T \in G
  <2>1. {} \in G
    BY <1>1
  <2>2. \A T \in SUBSET D : T # {} /\ T \ {Pick(T)} \in G => T \in G
    <3> HIDE DEF Fine
    <3> QED BY <1>2
  <2> HIDE DEF G
  <2> QED BY <2>1, <2>2, LeftInduction
<1> QED BY <1>3

\* What is left when one strength was taken, and nothing else.
LEMMA LeftOfOne ==
  ASSUME NEW D, IsFiniteSet(D), NEW v, NEW x \in D, NEW s \in 0..Whole, v[x] = s,
         \A y \in D \ {x} : v[y] = 0,
         NEW r, IsLeft(r, v, D)
  PROVE  r[D] = Whole - s
<1> DEFINE LeftIn(T) == IF x \in T THEN Whole - s ELSE Whole
           G == {T \in SUBSET D : r[T] = LeftIn(T)}
<1>1. {} \in G
  BY DEF IsLeft
<1>2. ASSUME NEW T \in SUBSET D, T # {}, T \ {Pick(T)} \in G PROVE T \in G
  <2>1. PICK p \in T : p = Pick(T)
    BY <1>2 DEF Pick
  <2>2. r[T] = Times(LeftIn(T \ {p}), Whole - Clamped(v[p]))
    BY <1>2, <2>1 DEF IsLeft
  <2>3. CASE p = x
    <3>1. LeftIn(T \ {p}) = Whole /\ LeftIn(T) = Whole - s
      BY <2>3
    <3>2. Clamped(v[p]) = s
      BY <2>3, ClampedSame
    <3> QED BY <2>2, <3>1, <3>2, ComplementType, TimesWhole
  <2>4. CASE p # x
    <3>1. Clamped(v[p]) = 0 /\ LeftIn(T \ {p}) = LeftIn(T)
      <4>1. v[p] = 0
        BY <2>1, <2>4
      <4>2. Clamped(0) = 0
        BY ClampedIs, WholeIs
      <4> QED BY <2>4, <4>1, <4>2
    <3>2. LeftIn(T) \in Nat /\ Whole - 0 = Whole
      <4>1. Whole - s \in Nat
        BY ComplementType
      <4>2. Whole - 0 = Whole /\ Whole \in Nat
        BY WholeIs
      <4> QED BY <4>1, <4>2
    <3> HIDE DEF LeftIn
    <3> QED BY <2>2, <3>1, <3>2, TimesWhole
  <2> QED BY <2>3, <2>4
<1>3. \A T \in SUBSET D : T \in G
  <2> HIDE DEF G
  <2> QED BY <1>1, <1>2, LeftInduction
<1>4. D \in G
  BY <1>3
<1> QED BY <1>4

LEMMA ProductOfOne ==
  ASSUME NEW D, IsFiniteSet(D), NEW v, DOMAIN v = D, NEW x \in D, NEW s \in 0..Whole, v[x] = s,
         \A y \in D \ {x} : v[y] = 0
  PROVE  ProductOfComplements(v) = s
<1>1. IsLeft(Left(v), v, D)
  BY LeftExists DEF Left
<1>2. Left(v)[D] = Whole - s
  BY <1>1, LeftOfOne
<1>3. Whole - (Whole - s) = s
  BY WholeIs
<1> QED BY <1>2, <1>3, ProductIsLeft

\* _product_of_complements: of strengths that are greater, or as great, in the same places.
LEMMA ProductOfComplementsGrows ==
  ASSUME NEW D, IsFiniteSet(D), NEW v \in [D -> Int], NEW w \in [D -> Int],
         \A x \in D : v[x] <= w[x]
  PROVE  /\ ProductOfComplements(v) \in 0..Whole /\ ProductOfComplements(w) \in 0..Whole
         /\ ProductOfComplements(v) <= ProductOfComplements(w)
<1>1. DOMAIN v = D /\ DOMAIN w = D
  OBVIOUS
<1>2. IsLeft(Left(v), v, D) /\ IsLeft(Left(w), w, D)
  BY <1>1, LeftExists DEF Left
<1>3. D \in SUBSET D
  OBVIOUS
<1>4. /\ Left(v)[D] \in 0..Whole /\ Left(w)[D] \in 0..Whole
      /\ Left(w)[D] <= Left(v)[D]
  BY <1>2, <1>3, LeftShrinks
<1>5. PICK c \in 0..Whole, d \in 0..Whole : c = Left(v)[D] /\ d = Left(w)[D] /\ d <= c
  BY <1>4
<1>6. ProductOfComplements(v) = Whole - c /\ ProductOfComplements(w) = Whole - d
  BY <1>1, <1>5, ProductIsLeft
<1>7. Whole - c \in 0..Whole /\ Whole - d \in 0..Whole /\ Whole - c <= Whole - d
  <2>1. d <= c
    BY <1>5
  <2>2. Whole - c <= Whole - d
    BY <2>1, RestShrinks
  <2> QED BY <2>2, ComplementType
<1> QED BY <1>6, <1>7

(* What the detectors make of a packet. *)

LEMMA Groups ==
  ASSUME NEW h \in Packets
  PROVE  /\ \A feature \in {"paste", "focus", "render", "duration", "cpm", "stddev",
                           "corrections", "rate"} : h.typing[feature] \in Observed
         /\ h.challenge.latency \in Observed /\ h.challenge.expected \in Observed
         /\ \A feature \in {"entropy", "hesitation", "scroll"} : h.pointer[feature] \in Observed
         /\ \A feature \in {"bursts", "interval", "spread", "idle", "deltas", "submit",
                           "exploratory", "directness", "retries", "repairs"} :
              h.agentic[feature] \in Observed
<1>1. /\ h.typing \in Typing /\ h.challenge \in Challenge
      /\ h.pointer \in Pointer /\ h.agentic \in Agentic
  BY DEF Packets
<1> QED BY <1>1, PacketAssumption

\* How strong it may be.
Strength == 0..8500

\* A detector says one thing, with a severity and a confidence in percent, or none.
Single(A, reason, category) ==
  \/ A = {}
  \/ \E severity \in {"low", "medium", "high"}, confidence \in 1..100 :
       A = {Sign(reason, category, severity, confidence)}

Says(A, reason, category, x) ==
  IF x = 0 THEN A = {}
  ELSE \E s : A = {s} /\ s.reason = reason /\ s.category = category /\ s.strength = x

LEMMA Weighed ==
  ASSUME NEW severity \in {"low", "medium", "high"}, NEW confidence \in 1..100
  PROVE  /\ SeverityWeight[severity] * confidence \in Strength
         /\ SeverityWeight[severity] * confidence # 0
<1>1. PICK w \in {25, 55, 85} : w = SeverityWeight[severity]
  BY DEF SeverityWeight
<1>2. w * confidence \in Nat /\ 0 < w * confidence /\ w * confidence <= 8500
  BY <1>1
<1>3. w * confidence \in Strength /\ w * confidence # 0
  BY <1>2 DEF Strength
<1> QED BY <1>1, <1>3

LEMMA SingleSays ==
  ASSUME NEW A, NEW reason, NEW category, Single(A, reason, category)
  PROVE  /\ StrengthOf(A, reason) \in Strength
         /\ Says(A, reason, category, StrengthOf(A, reason))
<1>1. CASE A = {}
  <2>1. StrengthOf(A, reason) = 0
    BY <1>1 DEF StrengthOf
  <2> QED BY <1>1, <2>1 DEF Says, Strength
<1>2. ASSUME NEW severity \in {"low", "medium", "high"}, NEW confidence \in 1..100,
             A = {Sign(reason, category, severity, confidence)}
      PROVE  /\ StrengthOf(A, reason) \in Strength
             /\ Says(A, reason, category, StrengthOf(A, reason))
  <2>1. PICK s : s = Sign(reason, category, severity, confidence)
    OBVIOUS
  <2>2. /\ s.reason = reason /\ s.category = category
        /\ s.strength = SeverityWeight[severity] * confidence
    BY <2>1 DEF Sign
  <2>3. StrengthOf(A, reason) = s.strength
    BY <1>2, <2>1, <2>2 DEF StrengthOf
  <2> QED BY <1>2, <2>1, <2>2, <2>3, Weighed DEF Says
<1> QED BY <1>1, <1>2 DEF Single

LEMMA SignIfSingle ==
  ASSUME NEW holds, NEW reason, NEW category, NEW severity \in {"low", "medium", "high"},
         NEW confidence, holds => confidence \in 1..100
  PROVE  Single(SignIf(holds, reason, category, severity, confidence), reason, category)
BY DEF SignIf, Single

\* How strong the one thing is that a detector says; 0 when it is silent.
PasteOrInstantInputVoice(h) == StrengthOf(PasteOrInstantInput(h), "paste_or_instant_input")
UniformTypingCadenceVoice(h) == StrengthOf(UniformTypingCadence(h), "uniform_typing_cadence")
ZeroCorrectionPatternVoice(h) == StrengthOf(ZeroCorrectionPattern(h), "zero_correction_pattern")
ImplausibleReadResponseTimeVoice(h) == StrengthOf(ImplausibleReadResponseTime(h), "implausible_read_response_time")
ModelThinkingCadenceVoice(h) == StrengthOf(ModelThinkingCadence(h), "model_thinking_cadence")
BurstPauseActionLoopVoice(h) == StrengthOf(BurstPauseActionLoop(h), "burst_pause_action_loop")
LargeInstantInputDeltaVoice(h) == StrengthOf(LargeInstantInputDelta(h), "large_instant_input_delta")
LowExploratoryNoiseVoice(h) == StrengthOf(LowExploratoryNoise(h), "low_exploratory_noise")
StructuredRetryPatternVoice(h) == StrengthOf(StructuredRetryPattern(h), "structured_retry_pattern")
ImplausibleTaskEfficiencyVoice(h) == StrengthOf(ImplausibleTaskEfficiency(h), "implausible_task_efficiency")

LEMMA PasteOrInstantInputSays ==
  ASSUME NEW h \in Packets
  PROVE  /\ PasteOrInstantInputVoice(h) \in Strength
         /\ Says(PasteOrInstantInput(h), "paste_or_instant_input", "input_method", PasteOrInstantInputVoice(h))
<1>1. Single(PasteOrInstantInput(h), "paste_or_instant_input", "input_method")
  <2> DEFINE said(severity, confidence) ==
        {Sign("paste_or_instant_input", "input_method", severity, confidence)}
  <2>1. PasteOrInstantInput(h) \in {{}, said("high", 82), said("low", 45), said("medium", 62)}
    BY DEF PasteOrInstantInput
  <2> QED BY <2>1 DEF Single
<1> QED BY <1>1, SingleSays DEF PasteOrInstantInputVoice

LEMMA UniformTypingCadenceSays ==
  ASSUME NEW h \in Packets
  PROVE  /\ UniformTypingCadenceVoice(h) \in Strength
         /\ Says(UniformTypingCadence(h), "uniform_typing_cadence", "typing_cadence", UniformTypingCadenceVoice(h))
<1>1. Single(UniformTypingCadence(h), "uniform_typing_cadence", "typing_cadence")
  BY DEF UniformTypingCadence, Single
<1> QED BY <1>1, SingleSays DEF UniformTypingCadenceVoice

LEMMA ZeroCorrectionPatternSays ==
  ASSUME NEW h \in Packets
  PROVE  /\ ZeroCorrectionPatternVoice(h) \in Strength
         /\ Says(ZeroCorrectionPattern(h), "zero_correction_pattern", "typing_cadence", ZeroCorrectionPatternVoice(h))
<1>1. Single(ZeroCorrectionPattern(h), "zero_correction_pattern", "typing_cadence")
  BY SignIfSingle DEF ZeroCorrectionPattern
<1> QED BY <1>1, SingleSays DEF ZeroCorrectionPatternVoice

\* The quicker the answer, the surer; 55 at least.
LEMMA Hastiness ==
  ASSUME NEW d \in Nat, NEW floor \in Nat, floor > 0
  PROVE  55 + (d * 45) \div floor \in Nat /\ 55 + (d * 45) \div floor >= 55
<1>1. PICK k \in Nat : k = d * 45
  OBVIOUS
<1>2. k \div floor \in Nat
  OBVIOUS
<1> QED BY <1>1, <1>2

LEMMA ImplausibleReadResponseTimeSays ==
  ASSUME NEW h \in Packets
  PROVE  /\ ImplausibleReadResponseTimeVoice(h) \in Strength
         /\ Says(ImplausibleReadResponseTime(h), "implausible_read_response_time", "agentic_behavior", ImplausibleReadResponseTimeVoice(h))
<1>1. Single(ImplausibleReadResponseTime(h), "implausible_read_response_time", "agentic_behavior")
  <2> DEFINE latency == h.challenge.latency
             floor == LeastTime(h.challenge.expected, 55)
             holds == latency # Unseen /\ h.challenge.expected > 0 /\ 100 * latency < floor
             sure == 55 + ((floor - 100 * latency) * 45) \div floor
             confidence == IF sure > 92 THEN 92 ELSE sure
  <2>1. ASSUME holds PROVE confidence \in 1..100
    <3>1. latency \in Nat /\ h.challenge.expected \in Nat
      BY <2>1, Groups DEF Observed, Unseen
    <3>2. floor \in Nat /\ floor > 0
      BY <3>1 DEF LeastTime
    <3> HIDE DEF floor, latency
    <3>3. floor - 100 * latency \in Nat
      BY <2>1, <3>1, <3>2
    <3>4. sure \in Nat /\ sure >= 55
      BY <3>2, <3>3, Hastiness
    <3> QED BY <3>4
  <2>2. ImplausibleReadResponseTime(h)
          = SignIf(holds, "implausible_read_response_time", "agentic_behavior",
                   IF latency <= 300 \/ 10000 * latency <= 35 * floor THEN "high" ELSE "medium",
                   confidence)
    BY DEF ImplausibleReadResponseTime
  <2> HIDE DEF holds, confidence, floor, latency
  <2> QED BY <2>1, <2>2, SignIfSingle
<1> QED BY <1>1, SingleSays DEF ImplausibleReadResponseTimeVoice

LEMMA ModelThinkingCadenceSays ==
  ASSUME NEW h \in Packets
  PROVE  /\ ModelThinkingCadenceVoice(h) \in Strength
         /\ Says(ModelThinkingCadence(h), "model_thinking_cadence", "agentic_behavior", ModelThinkingCadenceVoice(h))
<1>1. Single(ModelThinkingCadence(h), "model_thinking_cadence", "agentic_behavior")
  <2> DEFINE a == h.agentic
             strict == a.bursts >= 4 /\ a.interval >= 2200 /\ AtMost(a.spread, 180)
             sure == IF strict THEN 82 ELSE 68
             holds == a.bursts >= 3 /\ a.interval \in 1200..8000 /\ AtMost(a.spread, 450)
             severity == IF strict THEN "high" ELSE "medium"
             confidence == IF AtLeast(a.idle, 2000) THEN sure + 5 ELSE sure
  <2>1. ModelThinkingCadence(h)
          = SignIf(holds, "model_thinking_cadence", "agentic_behavior", severity, confidence)
    BY DEF ModelThinkingCadence
  <2>2. severity \in {"low", "medium", "high"} /\ confidence \in 1..100
    <3> HIDE DEF strict
    <3> QED OBVIOUS
  <2> HIDE DEF holds, severity, confidence
  <2> QED BY <2>1, <2>2, SignIfSingle
<1> QED BY <1>1, SingleSays DEF ModelThinkingCadenceVoice

LEMMA BurstPauseActionLoopSays ==
  ASSUME NEW h \in Packets
  PROVE  /\ BurstPauseActionLoopVoice(h) \in Strength
         /\ Says(BurstPauseActionLoop(h), "burst_pause_action_loop", "agentic_behavior", BurstPauseActionLoopVoice(h))
<1>1. Single(BurstPauseActionLoop(h), "burst_pause_action_loop", "agentic_behavior")
  <2> DEFINE bursts == h.agentic.bursts
             holds == bursts >= 3 /\ AtLeast(h.agentic.interval, 900)
             severity == IF bursts < 5 THEN "medium" ELSE "high"
             confidence == IF bursts > 5 THEN 86 ELSE 56 + 6 * bursts
  <2>1. holds => confidence \in 1..100
    <3>1. bursts \in Int
      BY Groups DEF Observed, Unseen
    <3> HIDE DEF bursts
    <3> QED BY <3>1
  <2>2. severity \in {"low", "medium", "high"}
    OBVIOUS
  <2>3. BurstPauseActionLoop(h)
          = SignIf(holds, "burst_pause_action_loop", "agentic_behavior", severity, confidence)
    BY DEF BurstPauseActionLoop
  <2> HIDE DEF holds, severity, confidence
  <2> QED BY <2>1, <2>2, <2>3, SignIfSingle
<1> QED BY <1>1, SingleSays DEF BurstPauseActionLoopVoice

LEMMA LargeInstantInputDeltaSays ==
  ASSUME NEW h \in Packets
  PROVE  /\ LargeInstantInputDeltaVoice(h) \in Strength
         /\ Says(LargeInstantInputDelta(h), "large_instant_input_delta", "agentic_behavior", LargeInstantInputDeltaVoice(h))
<1>1. Single(LargeInstantInputDelta(h), "large_instant_input_delta", "agentic_behavior")
  BY SignIfSingle DEF LargeInstantInputDelta
<1> QED BY <1>1, SingleSays DEF LargeInstantInputDeltaVoice

LEMMA LowExploratoryNoiseSays ==
  ASSUME NEW h \in Packets
  PROVE  /\ LowExploratoryNoiseVoice(h) \in Strength
         /\ Says(LowExploratoryNoise(h), "low_exploratory_noise", "agentic_behavior", LowExploratoryNoiseVoice(h))
<1>1. Single(LowExploratoryNoise(h), "low_exploratory_noise", "agentic_behavior")
  BY SignIfSingle DEF LowExploratoryNoise
<1> QED BY <1>1, SingleSays DEF LowExploratoryNoiseVoice

LEMMA StructuredRetryPatternSays ==
  ASSUME NEW h \in Packets
  PROVE  /\ StructuredRetryPatternVoice(h) \in Strength
         /\ Says(StructuredRetryPattern(h), "structured_retry_pattern", "agentic_behavior", StructuredRetryPatternVoice(h))
<1>1. Single(StructuredRetryPattern(h), "structured_retry_pattern", "agentic_behavior")
  BY SignIfSingle DEF StructuredRetryPattern
<1> QED BY <1>1, SingleSays DEF StructuredRetryPatternVoice

LEMMA ImplausibleTaskEfficiencySays ==
  ASSUME NEW h \in Packets
  PROVE  /\ ImplausibleTaskEfficiencyVoice(h) \in Strength
         /\ Says(ImplausibleTaskEfficiency(h), "implausible_task_efficiency", "agentic_behavior", ImplausibleTaskEfficiencyVoice(h))
<1>1. Single(ImplausibleTaskEfficiency(h), "implausible_task_efficiency", "agentic_behavior")
  <2> DEFINE a == h.agentic
             utmost == AtLeast(a.directness, 96) /\ AtMost(a.idle, 120) /\ AtMost(a.submit, 300)
             holds == /\ AtLeast(a.directness, 90) /\ AtMost(a.idle, 250) /\ AtMost(a.submit, 450)
                      /\ AtMost(a.exploratory, 1)
             severity == IF utmost THEN "high" ELSE "medium"
             confidence == IF utmost THEN 82 ELSE 68
  <2>1. ImplausibleTaskEfficiency(h)
          = SignIf(holds, "implausible_task_efficiency", "agentic_behavior", severity, confidence)
    BY DEF ImplausibleTaskEfficiency
  <2>2. severity \in {"low", "medium", "high"} /\ confidence \in 1..100
    OBVIOUS
  <2> HIDE DEF holds, severity, confidence
  <2> QED BY <2>1, <2>2, SignIfSingle
<1> QED BY <1>1, SingleSays DEF ImplausibleTaskEfficiencyVoice

\* What all of them say.
Voice(h) ==
  [paste_or_instant_input |-> PasteOrInstantInputVoice(h),
   uniform_typing_cadence |-> UniformTypingCadenceVoice(h),
   zero_correction_pattern |-> ZeroCorrectionPatternVoice(h),
   implausible_read_response_time |-> ImplausibleReadResponseTimeVoice(h),
   model_thinking_cadence |-> ModelThinkingCadenceVoice(h),
   burst_pause_action_loop |-> BurstPauseActionLoopVoice(h),
   large_instant_input_delta |-> LargeInstantInputDeltaVoice(h),
   low_exploratory_noise |-> LowExploratoryNoiseVoice(h),
   structured_retry_pattern |-> StructuredRetryPatternVoice(h),
   implausible_task_efficiency |-> ImplausibleTaskEfficiencyVoice(h)]

AutomationReason == {"paste_or_instant_input", "uniform_typing_cadence", "zero_correction_pattern"}
AgenticReason ==
  {"implausible_read_response_time", "model_thinking_cadence",
   "burst_pause_action_loop", "large_instant_input_delta", "low_exploratory_noise",
   "structured_retry_pattern", "implausible_task_efficiency"}
Reason == AutomationReason \cup AgenticReason
CategoryOf(reason) ==
  IF reason = "paste_or_instant_input" THEN "input_method"
  ELSE IF reason \in AutomationReason THEN "typing_cadence" ELSE "agentic_behavior"

Voices == [Reason -> Strength]

LEMMA VoiceType ==
  ASSUME NEW h \in Packets PROVE Voice(h) \in Voices
<1>1. \A r \in Reason : Voice(h)[r] \in Strength
  <2>1. /\ PasteOrInstantInputVoice(h) \in Strength
       /\ UniformTypingCadenceVoice(h) \in Strength
       /\ ZeroCorrectionPatternVoice(h) \in Strength
       /\ ImplausibleReadResponseTimeVoice(h) \in Strength
       /\ ModelThinkingCadenceVoice(h) \in Strength
    BY PasteOrInstantInputSays, UniformTypingCadenceSays, ZeroCorrectionPatternSays,
       ImplausibleReadResponseTimeSays, ModelThinkingCadenceSays
  <2>2. /\ BurstPauseActionLoopVoice(h) \in Strength
       /\ LargeInstantInputDeltaVoice(h) \in Strength
       /\ LowExploratoryNoiseVoice(h) \in Strength
       /\ StructuredRetryPatternVoice(h) \in Strength
       /\ ImplausibleTaskEfficiencyVoice(h) \in Strength
    BY BurstPauseActionLoopSays, LargeInstantInputDeltaSays, LowExploratoryNoiseSays,
       StructuredRetryPatternSays, ImplausibleTaskEfficiencySays
  <2> QED BY <2>1, <2>2 DEF Voice, Reason, AutomationReason, AgenticReason
<1>2. Voice(h) = [r \in Reason |-> Voice(h)[r]]
  BY DEF Voice, Reason, AutomationReason, AgenticReason
<1> QED BY <1>1, <1>2 DEF Voices

\* The detectors of R say S: each that is not silent one signal, as strong as v has it.
Spoken(R, v) == {r \in R : v[r] > 0}
Speak(S, R, v) ==
  /\ \A s \in S : /\ s.reason \in Spoken(R, v)
                  /\ s.category = CategoryOf(s.reason)
                  /\ s.strength = v[s.reason]
  /\ \A r \in Spoken(R, v) : \E s \in S : s.reason = r
  /\ \A s, t \in S : s.reason = t.reason => s = t

LEMMA OneSpeaks ==
  ASSUME NEW v \in Voices, NEW r \in Reason, NEW A, Says(A, r, CategoryOf(r), v[r])
  PROVE  Speak(A, {r}, v)
<1>1. v[r] \in Strength
  BY DEF Voices
<1>2. CASE v[r] = 0
  <2>1. A = {}
    BY <1>2 DEF Says
  <2>2. Spoken({r}, v) = {}
    BY <1>2 DEF Spoken
  <2> QED BY <2>1, <2>2 DEF Speak
<1>3. CASE v[r] # 0
  <2>1. PICK s : A = {s} /\ s.reason = r /\ s.category = CategoryOf(r) /\ s.strength = v[r]
    BY <1>3 DEF Says
  <2>2. v[r] > 0
    <3>1. PICK x \in Strength : x = v[r]
      BY <1>1
    <3>2. x # 0
      BY <1>3, <3>1
    <3>3. x > 0
      BY <3>2 DEF Strength
    <3> QED BY <3>1, <3>3
  <2>3. Spoken({r}, v) = {r}
    BY <2>2 DEF Spoken
  <2> QED BY <2>1, <2>3 DEF Speak
<1> QED BY <1>2, <1>3

LEMMA AllSpeak ==
  ASSUME NEW v, NEW A, NEW B, NEW P, NEW Q, P \cap Q = {}, Speak(A, P, v), Speak(B, Q, v)
  PROVE  Speak(A \cup B, P \cup Q, v)
<1>1. Spoken(P \cup Q, v) = Spoken(P, v) \cup Spoken(Q, v)
  BY DEF Spoken
<1>2. Spoken(P, v) \cap Spoken(Q, v) = {}
  BY DEF Spoken
<1> QED BY <1>1, <1>2 DEF Speak

LEMMA AutomationSpeaks ==
  ASSUME NEW h \in Packets
  PROVE  Speak(AutomationSignals(h), AutomationReason, Voice(h))
<1> DEFINE a == "paste_or_instant_input"
           b == "uniform_typing_cadence"
           c == "zero_correction_pattern"
<1>1. Voice(h) \in Voices
  BY VoiceType
<1>2. Speak(PasteOrInstantInput(h), {a}, Voice(h))
  <2>1. /\ a \in Reason /\ CategoryOf(a) = "input_method"
        /\ Voice(h)[a] = PasteOrInstantInputVoice(h)
    BY DEF Reason, AutomationReason, CategoryOf, Voice
  <2>2. Says(PasteOrInstantInput(h), a, CategoryOf(a), Voice(h)[a])
    BY <2>1, PasteOrInstantInputSays
  <2> QED BY <1>1, <2>1, <2>2, OneSpeaks
<1>3. Speak(UniformTypingCadence(h), {b}, Voice(h))
  <2>1. /\ b \in Reason /\ CategoryOf(b) = "typing_cadence"
        /\ Voice(h)[b] = UniformTypingCadenceVoice(h)
    BY DEF Reason, AutomationReason, CategoryOf, Voice
  <2>2. Says(UniformTypingCadence(h), b, CategoryOf(b), Voice(h)[b])
    BY <2>1, UniformTypingCadenceSays
  <2> QED BY <1>1, <2>1, <2>2, OneSpeaks
<1>4. Speak(ZeroCorrectionPattern(h), {c}, Voice(h))
  <2>1. /\ c \in Reason /\ CategoryOf(c) = "typing_cadence"
        /\ Voice(h)[c] = ZeroCorrectionPatternVoice(h)
    BY DEF Reason, AutomationReason, CategoryOf, Voice
  <2>2. Says(ZeroCorrectionPattern(h), c, CategoryOf(c), Voice(h)[c])
    BY <2>1, ZeroCorrectionPatternSays
  <2> QED BY <1>1, <2>1, <2>2, OneSpeaks
<1>5. {a} \cap {b} = {} /\ ({a} \cup {b}) \cap {c} = {}
  OBVIOUS
<1>6. ({a} \cup {b}) \cup {c} = AutomationReason
  BY DEF AutomationReason
<1>7. Speak(PasteOrInstantInput(h) \cup UniformTypingCadence(h), {a} \cup {b}, Voice(h))
  <2> HIDE DEF a, b
  <2> QED BY <1>2, <1>3, <1>5, AllSpeak
<1>8. Speak(AutomationSignals(h), ({a} \cup {b}) \cup {c}, Voice(h))
  <2> HIDE DEF a, b, c
  <2> QED BY <1>4, <1>5, <1>7, AllSpeak DEF AutomationSignals
<1> QED BY <1>6, <1>8

\* Said of a detector by name, for the seven that look for an agent.
LEMMA AgenticOneSpeaks ==
  ASSUME NEW v \in Voices, NEW r \in AgenticReason, NEW A, Says(A, r, "agentic_behavior", v[r])
  PROVE  Speak(A, {r}, v)
<1>1. r \in Reason /\ CategoryOf(r) = "agentic_behavior"
  BY DEF Reason, AutomationReason, AgenticReason, CategoryOf
<1> QED BY <1>1, OneSpeaks

LEMMA AgenticSpeaks ==
  ASSUME NEW h \in Packets
  PROVE  Speak(AgenticSignals(h), AgenticReason, Voice(h))
<1> DEFINE a == "implausible_read_response_time"
           b == "model_thinking_cadence"
           c == "burst_pause_action_loop"
           d == "large_instant_input_delta"
           e == "low_exploratory_noise"
           f == "structured_retry_pattern"
           g == "implausible_task_efficiency"
<1>0. Voice(h) \in Voices
  BY VoiceType
<1>1. Speak(ImplausibleReadResponseTime(h), {a}, Voice(h))
  <2>1. a \in AgenticReason /\ Voice(h)[a] = ImplausibleReadResponseTimeVoice(h)
    BY DEF AgenticReason, Voice
  <2>2. Says(ImplausibleReadResponseTime(h), a, "agentic_behavior", Voice(h)[a])
    BY <2>1, ImplausibleReadResponseTimeSays
  <2> HIDE DEF a
  <2> QED BY <1>0, <2>1, <2>2, AgenticOneSpeaks
<1>2. Speak(ModelThinkingCadence(h), {b}, Voice(h))
  <2>1. b \in AgenticReason /\ Voice(h)[b] = ModelThinkingCadenceVoice(h)
    BY DEF AgenticReason, Voice
  <2>2. Says(ModelThinkingCadence(h), b, "agentic_behavior", Voice(h)[b])
    BY <2>1, ModelThinkingCadenceSays
  <2> HIDE DEF b
  <2> QED BY <1>0, <2>1, <2>2, AgenticOneSpeaks
<1>3. Speak(BurstPauseActionLoop(h), {c}, Voice(h))
  <2>1. c \in AgenticReason /\ Voice(h)[c] = BurstPauseActionLoopVoice(h)
    BY DEF AgenticReason, Voice
  <2>2. Says(BurstPauseActionLoop(h), c, "agentic_behavior", Voice(h)[c])
    BY <2>1, BurstPauseActionLoopSays
  <2> HIDE DEF c
  <2> QED BY <1>0, <2>1, <2>2, AgenticOneSpeaks
<1>4. Speak(LargeInstantInputDelta(h), {d}, Voice(h))
  <2>1. d \in AgenticReason /\ Voice(h)[d] = LargeInstantInputDeltaVoice(h)
    BY DEF AgenticReason, Voice
  <2>2. Says(LargeInstantInputDelta(h), d, "agentic_behavior", Voice(h)[d])
    BY <2>1, LargeInstantInputDeltaSays
  <2> HIDE DEF d
  <2> QED BY <1>0, <2>1, <2>2, AgenticOneSpeaks
<1>5. Speak(LowExploratoryNoise(h), {e}, Voice(h))
  <2>1. e \in AgenticReason /\ Voice(h)[e] = LowExploratoryNoiseVoice(h)
    BY DEF AgenticReason, Voice
  <2>2. Says(LowExploratoryNoise(h), e, "agentic_behavior", Voice(h)[e])
    BY <2>1, LowExploratoryNoiseSays
  <2> HIDE DEF e
  <2> QED BY <1>0, <2>1, <2>2, AgenticOneSpeaks
<1>6. Speak(StructuredRetryPattern(h), {f}, Voice(h))
  <2>1. f \in AgenticReason /\ Voice(h)[f] = StructuredRetryPatternVoice(h)
    BY DEF AgenticReason, Voice
  <2>2. Says(StructuredRetryPattern(h), f, "agentic_behavior", Voice(h)[f])
    BY <2>1, StructuredRetryPatternSays
  <2> HIDE DEF f
  <2> QED BY <1>0, <2>1, <2>2, AgenticOneSpeaks
<1>7. Speak(ImplausibleTaskEfficiency(h), {g}, Voice(h))
  <2>1. g \in AgenticReason /\ Voice(h)[g] = ImplausibleTaskEfficiencyVoice(h)
    BY DEF AgenticReason, Voice
  <2>2. Says(ImplausibleTaskEfficiency(h), g, "agentic_behavior", Voice(h)[g])
    BY <2>1, ImplausibleTaskEfficiencySays
  <2> HIDE DEF g
  <2> QED BY <1>0, <2>1, <2>2, AgenticOneSpeaks
<1>8. /\ {a} \cap {b} = {}
      /\ {a, b} \cap {c} = {}
      /\ {a, b, c} \cap {d} = {}
      /\ {a, b, c, d} \cap {e} = {}
      /\ {a, b, c, d, e} \cap {f} = {}
      /\ {a, b, c, d, e, f} \cap {g} = {}
  OBVIOUS
<1> DEFINE two == ImplausibleReadResponseTime(h) \cup ModelThinkingCadence(h)
           three == two \cup BurstPauseActionLoop(h)
           four == three \cup LargeInstantInputDelta(h)
           five == four \cup LowExploratoryNoise(h)
           six == five \cup StructuredRetryPattern(h)
           seven == six \cup ImplausibleTaskEfficiency(h)
<1> HIDE DEF a, b, c, d, e, f, g
<1>9. Speak(two, {a, b}, Voice(h))
  <2>1. {a} \cup {b} = {a, b}
    OBVIOUS
  <2>2. Speak(ImplausibleReadResponseTime(h) \cup ModelThinkingCadence(h), {a} \cup {b}, Voice(h))
    BY <1>1, <1>2, <1>8, AllSpeak
  <2> QED BY <2>1, <2>2
<1>10. Speak(three, {a, b, c}, Voice(h))
  <2>1. {a, b} \cup {c} = {a, b, c}
    OBVIOUS
  <2> HIDE DEF two
  <2>2. Speak(two \cup BurstPauseActionLoop(h), {a, b} \cup {c}, Voice(h))
    BY <1>9, <1>3, <1>8, AllSpeak
  <2> QED BY <2>1, <2>2
<1>11. Speak(four, {a, b, c, d}, Voice(h))
  <2>1. {a, b, c} \cup {d} = {a, b, c, d}
    OBVIOUS
  <2> HIDE DEF three
  <2>2. Speak(three \cup LargeInstantInputDelta(h), {a, b, c} \cup {d}, Voice(h))
    BY <1>10, <1>4, <1>8, AllSpeak
  <2> QED BY <2>1, <2>2
<1>12. Speak(five, {a, b, c, d, e}, Voice(h))
  <2>1. {a, b, c, d} \cup {e} = {a, b, c, d, e}
    OBVIOUS
  <2> HIDE DEF four
  <2>2. Speak(four \cup LowExploratoryNoise(h), {a, b, c, d} \cup {e}, Voice(h))
    BY <1>11, <1>5, <1>8, AllSpeak
  <2> QED BY <2>1, <2>2
<1>13. Speak(six, {a, b, c, d, e, f}, Voice(h))
  <2>1. {a, b, c, d, e} \cup {f} = {a, b, c, d, e, f}
    OBVIOUS
  <2> HIDE DEF five
  <2>2. Speak(five \cup StructuredRetryPattern(h), {a, b, c, d, e} \cup {f}, Voice(h))
    BY <1>12, <1>6, <1>8, AllSpeak
  <2> QED BY <2>1, <2>2
<1>14. Speak(seven, {a, b, c, d, e, f, g}, Voice(h))
  <2>1. {a, b, c, d, e, f} \cup {g} = {a, b, c, d, e, f, g}
    OBVIOUS
  <2> HIDE DEF six
  <2>2. Speak(six \cup ImplausibleTaskEfficiency(h), {a, b, c, d, e, f} \cup {g}, Voice(h))
    BY <1>13, <1>7, <1>8, AllSpeak
  <2> QED BY <2>1, <2>2
<1>15. {a, b, c, d, e, f, g} = AgenticReason
  BY DEF AgenticReason, a, b, c, d, e, f, g
<1>16. seven = AgenticSignals(h)
  BY DEF AgenticSignals
<1> QED BY <1>14, <1>15, <1>16

\* What is made of the signals, seen from the voices.

LEMMA StrengthIs ==
  ASSUME NEW v \in Voices, NEW R, NEW S, Speak(S, R, v), NEW r \in Reason
  PROVE  StrengthOf(S, r) = IF r \in R THEN v[r] ELSE 0
<1>0. v[r] \in Strength
  BY DEF Voices
<1>1. CASE r \in Spoken(R, v)
  <2>1. \E s \in S : s.reason = r
    BY <1>1 DEF Speak
  <2>2. \A s \in S : s.reason = r => s.strength = v[r]
    BY DEF Speak
  <2>3. StrengthOf(S, r) = v[r]
    BY <2>1, <2>2 DEF StrengthOf
  <2> QED BY <1>1, <2>3 DEF Spoken
<1>2. CASE r \notin Spoken(R, v)
  <2>1. ~ \E s \in S : s.reason = r
    BY <1>2 DEF Speak
  <2>2. StrengthOf(S, r) = 0
    BY <2>1 DEF StrengthOf
  <2>3. r \in R => v[r] = 0
    <3>1. \A x \in Strength : x > 0 \/ x = 0
      BY DEF Strength
    <3> QED BY <1>0, <1>2, <3>1 DEF Spoken
  <2> QED BY <2>2, <2>3
<1> QED BY <1>1, <1>2

\* The ten reasons, in the order of their detectors.
ReasonAt ==
  <<"paste_or_instant_input", "uniform_typing_cadence", "zero_correction_pattern",
    "implausible_read_response_time", "model_thinking_cadence",
    "burst_pause_action_loop", "large_instant_input_delta", "low_exploratory_noise",
    "structured_retry_pattern", "implausible_task_efficiency">>

LEMMA ReasonFinite == IsFiniteSet(Reason)
<1> DEFINE h == [i \in 1..10 |-> ReasonAt[i]]
<1>1. \A r \in Reason : \E i \in 1..10 : ReasonAt[i] = r
  BY DEF Reason, AutomationReason, AgenticReason, ReasonAt
<1>2. \A i \in 1..10 : ReasonAt[i] \in Reason
  BY DEF Reason, AutomationReason, AgenticReason, ReasonAt
<1>3. h \in Surjection(1..10, Reason)
  BY <1>1, <1>2 DEF Surjection
<1>4. IsFiniteSet(1..10)
  <2>1. PICK m \in Int, n \in Int : m = 1 /\ n = 10
    OBVIOUS
  <2>2. IsFiniteSet(m..n)
    BY FS_Interval
  <2> QED BY <2>1, <2>2
<1> HIDE DEF h
<1> QED BY <1>3, <1>4, FS_Surjection

LEMMA Categories ==
  /\ DOMAIN Detectors = {"input_method", "typing_cadence", "agentic_behavior"}
  /\ \A c \in DOMAIN Detectors : /\ Detectors[c] \in SUBSET Reason
                                 /\ IsFiniteSet(Detectors[c])
                                 /\ CategoryWeight[c] \in 60..80
  /\ IsFiniteSet(DOMAIN Detectors)
<1>1. DOMAIN Detectors = {"input_method", "typing_cadence", "agentic_behavior"}
  BY DEF Detectors
<1>2. /\ Detectors["input_method"] = {"paste_or_instant_input"}
      /\ Detectors["typing_cadence"] = {"uniform_typing_cadence", "zero_correction_pattern"}
      /\ Detectors["agentic_behavior"] = AgenticReason
  BY DEF Detectors, AgenticReason
<1>3. IsFiniteSet(Reason)
  BY ReasonFinite
<1>4. \A c \in DOMAIN Detectors : Detectors[c] \in SUBSET Reason
  BY <1>1, <1>2 DEF Reason, AutomationReason
<1>5. \A c \in DOMAIN Detectors : IsFiniteSet(Detectors[c])
  BY <1>3, <1>4, FS_Subset
<1>6. \A c \in DOMAIN Detectors : CategoryWeight[c] \in 60..80
  BY <1>1 DEF CategoryWeight
<1>7. IsFiniteSet({"input_method", "typing_cadence", "agentic_behavior"})
  <2>1. IsFiniteSet({"input_method"})
    BY FS_Singleton
  <2>2. IsFiniteSet({"input_method"} \cup {"typing_cadence"})
    BY <2>1, FS_AddElement
  <2>3. IsFiniteSet(({"input_method"} \cup {"typing_cadence"}) \cup {"agentic_behavior"})
    BY <2>2, FS_AddElement
  <2> QED BY <2>3
<1> QED BY <1>1, <1>4, <1>5, <1>6, <1>7

Graver(v, w) == \A r \in Reason : v[r] <= w[r]

LEMMA StrengthGrows ==
  ASSUME NEW v \in Voices, NEW w \in Voices, Graver(v, w), NEW R,
         NEW S, Speak(S, R, v), NEW T, Speak(T, R, w), NEW r \in Reason
  PROVE  /\ StrengthOf(S, r) \in Strength /\ StrengthOf(T, r) \in Strength
         /\ StrengthOf(S, r) <= StrengthOf(T, r)
<1>1. v[r] \in Strength /\ w[r] \in Strength /\ v[r] <= w[r]
  BY DEF Voices, Graver
<1>2. 0 \in Strength /\ 0 <= 0
  BY DEF Strength
<1>3. CASE r \in R
  BY <1>1, <1>3, StrengthIs
<1>4. CASE r \notin R
  <2>1. StrengthOf(S, r) = 0 /\ StrengthOf(T, r) = 0
    BY <1>4, StrengthIs
  <2> QED BY <1>2, <2>1
<1> QED BY <1>3, <1>4

LEMMA WeightedGrows ==
  ASSUME NEW k \in 60..80, NEW a \in 0..Whole, NEW b \in 0..Whole, a <= b
  PROVE  /\ (k * a) \div 100 \in Int /\ (k * b) \div 100 \in Int
         /\ (k * a) \div 100 <= (k * b) \div 100
<1>1. a \in Nat /\ b \in Nat /\ k \in Nat
  BY WholeIs
<1>2. k * a <= k * b
  BY <1>1, ProductGrows
<1>3. PICK x \in Nat, y \in Nat : x = k * a /\ y = k * b
  BY <1>1
<1>4. x \div 100 \in Int /\ y \div 100 \in Int /\ x \div 100 <= y \div 100
  BY <1>2, <1>3
<1> QED BY <1>3, <1>4

CategoryRisk(S, c) ==
  (CategoryWeight[c] * ProductOfComplements([reason \in Detectors[c] |-> StrengthOf(S, reason)]))
    \div 100

LEMMA CategoryRiskGrows ==
  ASSUME NEW v \in Voices, NEW w \in Voices, Graver(v, w), NEW R,
         NEW S, Speak(S, R, v), NEW T, Speak(T, R, w), NEW c \in DOMAIN Detectors
  PROVE  /\ CategoryRisk(S, c) \in Int /\ CategoryRisk(T, c) \in Int
         /\ CategoryRisk(S, c) <= CategoryRisk(T, c)
<1> DEFINE p == [reason \in Detectors[c] |-> StrengthOf(S, reason)]
           q == [reason \in Detectors[c] |-> StrengthOf(T, reason)]
<1>1. Detectors[c] \in SUBSET Reason /\ IsFiniteSet(Detectors[c]) /\ CategoryWeight[c] \in 60..80
  BY Categories
<1>2. \A r \in Detectors[c] : /\ StrengthOf(S, r) \in Strength /\ StrengthOf(T, r) \in Strength
                              /\ StrengthOf(S, r) <= StrengthOf(T, r)
  BY <1>1, StrengthGrows
<1>3. Strength \in SUBSET Int
  BY DEF Strength
<1>4. p \in [Detectors[c] -> Int] /\ q \in [Detectors[c] -> Int]
  BY <1>2, <1>3
<1>5. \A r \in Detectors[c] : p[r] <= q[r]
  BY <1>2
<1> HIDE DEF p, q
<1>6. /\ ProductOfComplements(p) \in 0..Whole /\ ProductOfComplements(q) \in 0..Whole
      /\ ProductOfComplements(p) <= ProductOfComplements(q)
  BY <1>1, <1>4, <1>5, ProductOfComplementsGrows
<1>7. /\ (CategoryWeight[c] * ProductOfComplements(p)) \div 100 \in Int
      /\ (CategoryWeight[c] * ProductOfComplements(q)) \div 100 \in Int
      /\ (CategoryWeight[c] * ProductOfComplements(p)) \div 100
           <= (CategoryWeight[c] * ProductOfComplements(q)) \div 100
  BY <1>1, <1>6, WeightedGrows
<1> QED BY <1>7 DEF CategoryRisk, p, q

\* _aggregate_risk grows with the signals.
LEMMA AggregateRiskGrows ==
  ASSUME NEW v \in Voices, NEW w \in Voices, Graver(v, w), NEW R,
         NEW S, Speak(S, R, v), NEW T, Speak(T, R, w)
  PROVE  /\ AggregateRisk(S) \in 0..Whole /\ AggregateRisk(T) \in 0..Whole
         /\ AggregateRisk(S) <= AggregateRisk(T)
<1> DEFINE p == [c \in DOMAIN Detectors |-> CategoryRisk(S, c)]
           q == [c \in DOMAIN Detectors |-> CategoryRisk(T, c)]
<1>1. AggregateRisk(S) = ProductOfComplements(p) /\ AggregateRisk(T) = ProductOfComplements(q)
  BY DEF AggregateRisk, CategoryRisk
<1>2. p \in [DOMAIN Detectors -> Int] /\ q \in [DOMAIN Detectors -> Int]
  BY CategoryRiskGrows
<1>3. \A c \in DOMAIN Detectors : p[c] <= q[c]
  BY CategoryRiskGrows
<1>4. IsFiniteSet(DOMAIN Detectors)
  BY Categories
<1> HIDE DEF p, q
<1>5. /\ ProductOfComplements(p) \in 0..Whole /\ ProductOfComplements(q) \in 0..Whole
      /\ ProductOfComplements(p) <= ProductOfComplements(q)
  BY <1>2, <1>3, <1>4, ProductOfComplementsGrows
<1> QED BY <1>1, <1>5

\* How many signals, and of how many categories.
LEMMA SignalCount ==
  ASSUME NEW v \in Voices, NEW R \in SUBSET Reason, NEW S, Speak(S, R, v)
  PROVE  /\ IsFiniteSet(S) /\ IsFiniteSet(Spoken(R, v))
         /\ Cardinality(S) = Cardinality(Spoken(R, v))
<1>1. IsFiniteSet(Reason)
  BY ReasonFinite
<1>2. Spoken(R, v) \in SUBSET Reason
  BY DEF Spoken
<1>3. IsFiniteSet(Spoken(R, v))
  BY <1>1, <1>2, FS_Subset
<1> DEFINE h == [s \in S |-> s.reason]
<1>4. h \in Injection(S, Spoken(R, v)) /\ h \in Surjection(S, Spoken(R, v))
  <2>1. \A s \in S : s.reason \in Spoken(R, v)
    BY DEF Speak
  <2>2. \A r \in Spoken(R, v) : \E s \in S : s.reason = r
    BY DEF Speak
  <2>3. \A s, t \in S : s.reason = t.reason => s = t
    BY DEF Speak
  <2>4. h \in [S -> Spoken(R, v)]
    BY <2>1
  <2>5. \A s, t \in S : h[s] = h[t] => s = t
    BY <2>3
  <2>6. \A r \in Spoken(R, v) : \E s \in S : h[s] = r
    BY <2>2
  <2> HIDE DEF h
  <2> QED BY <2>4, <2>5, <2>6 DEF Injection, Surjection, IsInjective
<1> HIDE DEF h
<1> QED BY <1>3, <1>4, FS_Injection

LEMMA SpokenGrows ==
  ASSUME NEW v \in Voices, NEW w \in Voices, Graver(v, w), NEW R \in SUBSET Reason
  PROVE  Spoken(R, v) \in SUBSET Spoken(R, w)
<1>1. \A x, y \in Strength : x > 0 /\ x <= y => y > 0
  BY DEF Strength
<1>2. \A r \in R : v[r] \in Strength /\ w[r] \in Strength /\ v[r] <= w[r]
  BY DEF Voices, Graver
<1> QED BY <1>1, <1>2 DEF Spoken

LEMMA CategoryCount ==
  ASSUME NEW v \in Voices, NEW R \in SUBSET Reason, NEW S, Speak(S, R, v)
  PROVE  /\ CategoriesOf(S) = {CategoryOf(r) : r \in Spoken(R, v)}
         /\ IsFiniteSet(CategoriesOf(S))
         /\ Cardinality(CategoriesOf(S)) \in Nat /\ Cardinality(Spoken(R, v)) \in Nat
         /\ Cardinality(CategoriesOf(S)) <= Cardinality(Spoken(R, v))
<1>1. CategoriesOf(S) = {CategoryOf(r) : r \in Spoken(R, v)}
  <2>1. \A s \in S : s.reason \in Spoken(R, v) /\ s.category = CategoryOf(s.reason)
    BY DEF Speak
  <2>2. \A r \in Spoken(R, v) : \E s \in S : s.reason = r
    BY DEF Speak
  <2> QED BY <2>1, <2>2 DEF CategoriesOf
<1>2. IsFiniteSet(Spoken(R, v))
  BY SignalCount
<1> DEFINE C == {CategoryOf(r) : r \in Spoken(R, v)}
           h == [r \in Spoken(R, v) |-> CategoryOf(r)]
<1>3. h \in Surjection(Spoken(R, v), C)
  BY DEF Surjection
<1> HIDE DEF C, h
<1>4. IsFiniteSet(C) /\ Cardinality(C) <= Cardinality(Spoken(R, v))
  BY <1>2, <1>3, FS_Surjection
<1>5. Cardinality(C) \in Nat /\ Cardinality(Spoken(R, v)) \in Nat
  BY <1>2, <1>4, FS_CardinalityType
<1> QED BY <1>1, <1>4, <1>5 DEF C

LEMMA CountsGrow ==
  ASSUME NEW v \in Voices, NEW w \in Voices, Graver(v, w), NEW R \in SUBSET Reason,
         NEW S, Speak(S, R, v), NEW T, Speak(T, R, w)
  PROVE  /\ Cardinality(S) \in Nat /\ Cardinality(T) \in Nat
         /\ Cardinality(S) <= Cardinality(T)
         /\ Cardinality(CategoriesOf(S)) \in Nat /\ Cardinality(CategoriesOf(T)) \in Nat
         /\ Cardinality(CategoriesOf(S)) <= Cardinality(CategoriesOf(T))
<1>1. Spoken(R, v) \in SUBSET Spoken(R, w)
  BY SpokenGrows
<1>2. CategoriesOf(S) \in SUBSET CategoriesOf(T)
  <2>1. CategoriesOf(S) = {CategoryOf(r) : r \in Spoken(R, v)}
    BY CategoryCount
  <2>2. CategoriesOf(T) = {CategoryOf(r) : r \in Spoken(R, w)}
    BY CategoryCount
  <2> QED BY <1>1, <2>1, <2>2
<1>3. /\ IsFiniteSet(Spoken(R, w)) /\ Cardinality(S) = Cardinality(Spoken(R, v))
      /\ Cardinality(T) = Cardinality(Spoken(R, w))
  BY SignalCount
<1>4. Cardinality(Spoken(R, v)) <= Cardinality(Spoken(R, w))
  BY <1>1, <1>3, FS_Subset
<1>5. /\ Cardinality(Spoken(R, v)) \in Nat /\ Cardinality(Spoken(R, w)) \in Nat
      /\ Cardinality(CategoriesOf(S)) \in Nat /\ Cardinality(CategoriesOf(T)) \in Nat
      /\ IsFiniteSet(CategoriesOf(T))
  BY CategoryCount
<1>6. Cardinality(CategoriesOf(S)) <= Cardinality(CategoriesOf(T))
  BY <1>2, <1>5, FS_Subset
<1> QED BY <1>3, <1>4, <1>5, <1>6

\* How much may speak for a human, and what counts of it.
Support == 0..3000
Counted(x) == IF x > 3000 THEN 3000 ELSE x

LEMMA CountedType == ASSUME NEW x \in Nat PROVE Counted(x) \in Support
BY DEF Counted, Support

LEMMA SupportType == ASSUME NEW f \in Packets PROVE HumanFeatureSupport(f) \in Support
<1>1. \A holds, n \in Nat : When(holds, n) \in Nat
  BY DEF When
<1>2. \A m \in Nat, n \in Nat : m + n \in Nat
  OBVIOUS
<1>3. PICK n \in Nat : HumanFeatureSupport(f) = Counted(n)
  <2> DEFINE t == f.typing
             p == f.pointer
             a1 == When(t.stddev \in 25..220 /\ t.cpm \in 80..420, 900)
             a2 == When(t.corrections > 0 \/ t.rate > 0, 500)
             a3 == When(t.paste = 0, 300)
             a4 == When(AtLeast(t.focus, 150), 300)
             a5 == When(/\ f.challenge.expected # Unseen
                        /\ 100 * f.challenge.latency >= LeastTime(f.challenge.expected, 75), 700)
             a6 == When(AtLeast(p.entropy, 35), 400)
             a7 == When(AtLeast(p.hesitation, 80), 300)
             a8 == When(AtLeast(p.scroll, 35), 300)
             points == a1 + a2 + a3 + a4 + a5 + a6 + a7 + a8
  <2>1. HumanFeatureSupport(f) = Counted(points)
    BY DEF HumanFeatureSupport, Counted
  <2>2. a1 \in Nat
    BY <1>1 DEF When
  <2>3. a2 \in Nat
    BY <1>1 DEF When
  <2>4. a3 \in Nat
    BY <1>1 DEF When
  <2>5. a4 \in Nat
    BY <1>1 DEF When
  <2>6. a5 \in Nat
    BY <1>1 DEF When
  <2>7. a6 \in Nat
    BY <1>1 DEF When
  <2>8. a7 \in Nat
    BY <1>1 DEF When
  <2>9. a8 \in Nat
    BY <1>1 DEF When
  <2> HIDE DEF a1, a2, a3, a4, a5, a6, a7, a8
  <2>10. points \in Nat
    BY <2>2, <2>3, <2>4, <2>5, <2>6, <2>7, <2>8, <2>9, <1>2
  <2> QED BY <2>1, <2>10
<1> QED BY <1>3, CountedType

LEMMA CorroborationGrows ==
  ASSUME NEW a, NEW b, NEW c, NEW d, NEW n \in Nat, NEW m \in Nat, n <= m,
         n = Cardinality(CategoriesOf(a)) + Cardinality(CategoriesOf(b)),
         m = Cardinality(CategoriesOf(c)) + Cardinality(CategoriesOf(d))
  PROVE  /\ Corroboration(a, b) \in Nat /\ Corroboration(c, d) \in Nat
         /\ Corroboration(a, b) <= Corroboration(c, d)
         /\ n <= 1 => Corroboration(a, b) = 0
<1> DEFINE e(k) == IF k <= 1 THEN 0 ELSE IF k >= 4 THEN 1500 ELSE 500 * (k - 1)
<1>1. Corroboration(a, b) = e(n)
  BY DEF Corroboration
<1>2. Corroboration(c, d) = e(m)
  BY DEF Corroboration
<1>3. e(n) \in Nat /\ e(m) \in Nat /\ e(n) <= e(m)
  OBVIOUS
<1>4. n <= 1 => e(n) = 0
  OBVIOUS
<1> HIDE DEF e
<1> QED BY <1>1, <1>2, <1>3, <1>4

LEMMA SumGrows ==
  ASSUME NEW x \in Nat, NEW y \in Nat, x <= y, NEW u \in Nat, NEW w \in Nat, u <= w
  PROVE  x + u \in Int /\ y + w \in Int /\ x + u <= y + w
OBVIOUS

LEMMA CombinedRiskGrows ==
  ASSUME NEW a, NEW b, NEW c, NEW d,
         AggregateRisk(a) \in 0..Whole, AggregateRisk(b) \in 0..Whole,
         AggregateRisk(c) \in 0..Whole, AggregateRisk(d) \in 0..Whole,
         AggregateRisk(a) <= AggregateRisk(c), AggregateRisk(b) <= AggregateRisk(d),
         Corroboration(a, b) \in Nat, Corroboration(c, d) \in Nat,
         Corroboration(a, b) <= Corroboration(c, d)
  PROVE  /\ CombinedRisk(a, b) \in 0..Whole /\ CombinedRisk(c, d) \in 0..Whole
         /\ CombinedRisk(a, b) <= CombinedRisk(c, d)
<1> DEFINE p == [k \in {1, 2} |-> AggregateRisk(IF k = 1 THEN a ELSE b)]
           q == [k \in {1, 2} |-> AggregateRisk(IF k = 1 THEN c ELSE d)]
<1>1. p \in [{1, 2} -> Int] /\ q \in [{1, 2} -> Int] /\ \A k \in {1, 2} : p[k] <= q[k]
  <2>1. /\ AggregateRisk(a) \in Int /\ AggregateRisk(b) \in Int
        /\ AggregateRisk(c) \in Int /\ AggregateRisk(d) \in Int
    BY PartsOfWhole
  <2> QED BY <2>1
<1>2. IsFiniteSet({1, 2})
  <2>1. IsFiniteSet({1} \cup {2})
    BY FS_Singleton, FS_AddElement
  <2>2. {1} \cup {2} = {1, 2}
    OBVIOUS
  <2> QED BY <2>1, <2>2
<1>3. /\ CombinedRisk(a, b) = Clamped(ProductOfComplements(p) + Corroboration(a, b))
      /\ CombinedRisk(c, d) = Clamped(ProductOfComplements(q) + Corroboration(c, d))
  BY DEF CombinedRisk
<1> HIDE DEF p, q
<1>4. /\ ProductOfComplements(p) \in 0..Whole /\ ProductOfComplements(q) \in 0..Whole
      /\ ProductOfComplements(p) <= ProductOfComplements(q)
  BY <1>1, <1>2, ProductOfComplementsGrows
<1>5. ProductOfComplements(p) \in Nat /\ ProductOfComplements(q) \in Nat
  BY <1>4, PartsOfWhole
<1>6. /\ ProductOfComplements(p) + Corroboration(a, b) \in Int
      /\ ProductOfComplements(q) + Corroboration(c, d) \in Int
      /\ ProductOfComplements(p) + Corroboration(a, b)
           <= ProductOfComplements(q) + Corroboration(c, d)
  BY <1>4, <1>5, SumGrows
<1>7. CombinedRisk(a, b) \in 0..Whole /\ CombinedRisk(c, d) \in 0..Whole
  BY <1>3, <1>6, ClampedType
<1>8. CombinedRisk(a, b) <= CombinedRisk(c, d)
  BY <1>3, <1>6, ClampedGrows
<1> QED BY <1>7, <1>8

LEMMA SupportIsPart == ASSUME NEW h \in Support PROVE h \in 0..Whole
<1>1. h \in Int /\ 0 <= h /\ h <= 10000
  BY DEF Support
<1> QED BY <1>1, InWhole

\* Scaled down by what speaks for a human, less so when less does.
LEMMA ScaledGrows ==
  ASSUME NEW a \in 0..Whole, NEW b \in 0..Whole, a <= b,
         NEW m \in {3000, 6000}, NEW h \in Support, NEW k \in Support, k <= h
  PROVE  /\ Times(a, Whole - Times(m, h)) \in 0..Whole /\ Times(b, Whole - Times(m, k)) \in 0..Whole
         /\ Times(a, Whole - Times(m, h)) <= Times(b, Whole - Times(m, k))
<1>1. a \in Nat /\ b \in Nat
  BY PartsOfWhole
<1>2. m \in Nat /\ m \in 0..Whole
  <2>1. m \in Int /\ 0 <= m /\ m <= 10000
    OBVIOUS
  <2> QED BY <2>1, InWhole
<1>3. h \in Nat /\ k \in Nat
  BY DEF Support
<1>4. h \in 0..Whole /\ k \in 0..Whole
  BY SupportIsPart
<1>5. Times(m, k) \in 0..Whole /\ Times(m, h) \in 0..Whole
  BY <1>2, <1>4, TimesPart
<1>6. Times(m, k) <= Times(m, h)
  <2>1. m <= m
    BY <1>2
  <2> QED BY <1>2, <1>3, <2>1, TimesGrows
<1>7. Whole - Times(m, h) \in 0..Whole /\ Whole - Times(m, k) \in 0..Whole
  BY <1>5, ComplementType
<1>8. Whole - Times(m, h) <= Whole - Times(m, k)
  BY <1>5, <1>6, RestShrinks
<1>9. PICK x \in 0..Whole, y \in 0..Whole :
        x = Whole - Times(m, h) /\ y = Whole - Times(m, k) /\ x <= y
  BY <1>7, <1>8
<1>10. Times(a, x) \in 0..Whole /\ Times(b, y) \in 0..Whole
  BY TimesPart
<1>11. Times(a, x) <= Times(b, y)
  <2>1. x \in Nat /\ y \in Nat
    BY PartsOfWhole
  <2> QED BY <1>1, <1>9, <2>1, TimesGrows
<1> QED BY <1>9, <1>10, <1>11

\* The share of the evidence that n of them are.
Part(n, of) == IF n >= of THEN Whole ELSE (n * Whole) \div of

LEMMA PartGrows ==
  ASSUME NEW n \in Nat, NEW m \in Nat, n <= m, NEW of \in {3, 4}
  PROVE  /\ Part(n, of) \in Nat /\ Part(m, of) \in Nat /\ Part(m, of) <= Whole
         /\ Part(n, of) <= Part(m, of)
<1>1. CASE of = 3
  <2>1. /\ Part(n, 3) \in Nat /\ Part(m, 3) \in Nat /\ Part(m, 3) <= Whole
        /\ Part(n, 3) <= Part(m, 3)
    BY DEF Part, Whole
  <2> QED BY <1>1, <2>1
<1>2. CASE of = 4
  <2>1. /\ Part(n, 4) \in Nat /\ Part(m, 4) \in Nat /\ Part(m, 4) <= Whole
        /\ Part(n, 4) <= Part(m, 4)
    BY DEF Part, Whole
  <2> QED BY <1>2, <2>1
<1> QED BY <1>1, <1>2

Sufficiency(x, y) == 2000 + Times(8000, (x + y) \div 2)

LEMMA AtLeastTwenty == ASSUME NEW x \in Nat, x <= 8000 PROVE 2000 + x \in 0..Whole
<1>1. 2000 + x \in Int /\ 0 <= 2000 + x /\ 2000 + x <= 10000
  OBVIOUS
<1> QED BY <1>1, InWhole

LEMMA SufficiencyGrows ==
  ASSUME NEW x \in Nat, NEW y \in Nat, NEW z \in Nat, NEW w \in Nat, x <= z, y <= w,
         z <= Whole, w <= Whole
  PROVE  /\ Sufficiency(x, y) \in 0..Whole /\ Sufficiency(z, w) \in 0..Whole
         /\ Sufficiency(x, y) <= Sufficiency(z, w)
         /\ 2000 <= Sufficiency(z, w)
<1>1. PICK s \in Nat, t \in Nat : s = (x + y) \div 2 /\ t = (z + w) \div 2 /\ s <= t /\ t <= Whole
  BY WholeIs
<1>2. s <= t /\ t <= Whole /\ s <= Whole
  BY <1>1, WholeIs
<1>3. 8000 \in Nat /\ 8000 <= 8000 /\ Whole \in Nat
  BY WholeIs
<1>4. Times(8000, s) \in Nat /\ Times(8000, s) <= Times(8000, t)
  BY <1>2, <1>3, TimesGrows
<1>5. Times(8000, t) \in Nat /\ Times(8000, t) <= Times(8000, Whole)
  BY <1>2, <1>3, TimesGrows
<1>6. Times(8000, Whole) = 8000
  BY <1>3, TimesWhole
<1>7. PICK u \in Nat, v \in Nat : u = Times(8000, s) /\ v = Times(8000, t) /\ u <= v /\ v <= 8000
  BY <1>4, <1>5, <1>6
<1>8. 2000 + u <= 2000 + v /\ 2000 <= 2000 + v
  BY <1>7
<1>10. u \in Nat /\ u <= 8000 /\ v \in Nat /\ v <= 8000
  BY <1>7
<1>11. 2000 + u \in 0..Whole /\ 2000 + v \in 0..Whole
  BY <1>10, AtLeastTwenty
<1>9. Sufficiency(x, y) = 2000 + u /\ Sufficiency(z, w) = 2000 + v
  BY <1>1, <1>7 DEF Sufficiency
<1> QED BY <1>8, <1>9, <1>10, <1>11

LEMMA EvidenceGrows ==
  ASSUME NEW c \in Nat, NEW d \in Nat, c <= d, NEW s \in Nat, NEW t \in Nat, s <= t
  PROVE  /\ EvidenceSufficiency(c, s) \in 0..Whole /\ EvidenceSufficiency(d, t) \in 0..Whole
         /\ EvidenceSufficiency(c, s) <= EvidenceSufficiency(d, t)
<1>1. /\ EvidenceSufficiency(c, s) = IF s = 0 THEN 2000 ELSE Sufficiency(Part(c, 3), Part(s, 4))
      /\ EvidenceSufficiency(d, t) = IF t = 0 THEN 2000 ELSE Sufficiency(Part(d, 3), Part(t, 4))
  BY DEF EvidenceSufficiency, Sufficiency, Part
<1>2. /\ Part(c, 3) \in Nat /\ Part(d, 3) \in Nat /\ Part(d, 3) <= Whole
      /\ Part(c, 3) <= Part(d, 3)
  BY PartGrows
<1>3. /\ Part(s, 4) \in Nat /\ Part(t, 4) \in Nat /\ Part(t, 4) <= Whole
      /\ Part(s, 4) <= Part(t, 4)
  BY PartGrows
<1>4. /\ Sufficiency(Part(c, 3), Part(s, 4)) \in 0..Whole
      /\ Sufficiency(Part(d, 3), Part(t, 4)) \in 0..Whole
      /\ Sufficiency(Part(c, 3), Part(s, 4)) <= Sufficiency(Part(d, 3), Part(t, 4))
      /\ 2000 <= Sufficiency(Part(d, 3), Part(t, 4))
  BY <1>2, <1>3, SufficiencyGrows
<1>5. 2000 \in 0..Whole /\ 2000 <= 2000
  BY WholeIs
<1>6. t = 0 => s = 0
  OBVIOUS
<1> QED BY <1>1, <1>4, <1>5, <1>6

SureOf(evidence, risk) == Times(evidence, 5000 + risk \div 2)

LEMMA HalfAndMore == ASSUME NEW x \in 0..Whole PROVE 5000 + x \div 2 \in 0..Whole
<1>1. x \in Nat /\ x <= 10000
  BY WholeIs
<1>2. /\ 5000 + x \div 2 \in Int
      /\ 0 <= 5000 + x \div 2 /\ 5000 + x \div 2 <= 10000
  BY <1>1
<1> QED BY <1>2, InWhole

LEMMA ConfidenceGrows ==
  ASSUME NEW a \in 0..Whole, NEW b \in 0..Whole, a <= b, NEW r \in 0..Whole, NEW q \in 0..Whole, r <= q
  PROVE  /\ SureOf(a, r) \in 0..Whole /\ SureOf(b, q) \in 0..Whole
         /\ SureOf(a, r) <= SureOf(b, q)
<1>1. 5000 + r \div 2 \in 0..Whole
  BY HalfAndMore
<1>2. 5000 + q \div 2 \in 0..Whole
  BY HalfAndMore
<1>3. r \in Nat /\ q \in Nat
  BY PartsOfWhole
<1>4. 5000 + r \div 2 <= 5000 + q \div 2
  BY <1>3
<1>5. PICK x \in 0..Whole, y \in 0..Whole : x = 5000 + r \div 2 /\ y = 5000 + q \div 2 /\ x <= y
  BY <1>1, <1>2, <1>4
<1>6. a \in Nat /\ b \in Nat /\ x \in Nat /\ y \in Nat
  BY PartsOfWhole
<1>7. Times(a, x) \in 0..Whole /\ Times(b, y) \in 0..Whole
  BY TimesPart
<1>8. a <= b /\ x <= y
  BY <1>5
<1>9. Times(a, x) <= Times(b, y)
  BY <1>6, <1>8, TimesGrows
<1> QED BY <1>5, <1>7, <1>9 DEF SureOf

\* How far up the ladder a risk and a confidence lead.
Rung(risk, confidence) ==
  IF risk < 3000 THEN 0
  ELSE IF risk < 5000 THEN IF confidence < 4500 THEN 0 ELSE 1
  ELSE IF risk < 7000 THEN IF confidence < 4000 THEN 1 ELSE 2
  ELSE IF confidence < 4500 THEN 2 ELSE 3

LEMMA LadderIs ==
  /\ Ladder["allow"] = 0 /\ Ladder["observe"] = 0 /\ Ladder["soft_challenge"] = 1
  /\ Ladder["step_up_auth"] = 2 /\ Ladder["manual_review"] = 3
  /\ DOMAIN Ladder = {"allow", "observe", "soft_challenge", "step_up_auth", "manual_review"}
BY DEF Ladder

LEMMA RungIs ==
  ASSUME NEW r \in Nat, NEW c \in Nat
  PROVE  /\ RecommendedOutcome(r, c) \in DOMAIN Ladder
         /\ Ladder[RecommendedOutcome(r, c)] = Rung(r, c)
<1> DEFINE o == RecommendedOutcome(r, c)
           low == r < 3000
           mid == r \in 3000..4999
           high == r \in 5000..6999
           sure == c >= 5000
           doubtful == c < 4500
           unsure == c < 4000
<1>1. o = CASE low -> IF sure THEN "allow" ELSE "observe"
            [] mid -> IF doubtful THEN "observe" ELSE "soft_challenge"
            [] high -> IF unsure THEN "soft_challenge" ELSE "step_up_auth"
            [] OTHER -> IF doubtful THEN "step_up_auth" ELSE "manual_review"
  BY DEF RecommendedOutcome
<1>2. mid <=> ~ low /\ r < 5000
  OBVIOUS
<1>3. high <=> ~ low /\ ~ mid /\ r < 7000
  OBVIOUS
<1>4. Rung(r, c) = IF low THEN 0
                    ELSE IF mid THEN IF doubtful THEN 0 ELSE 1
                    ELSE IF high THEN IF unsure THEN 1 ELSE 2
                    ELSE IF doubtful THEN 2 ELSE 3
  <2> HIDE DEF doubtful, unsure
  <2>1. Rung(r, c) = IF r < 3000 THEN 0
                      ELSE IF r < 5000 THEN IF doubtful THEN 0 ELSE 1
                      ELSE IF r < 7000 THEN IF unsure THEN 1 ELSE 2
                      ELSE IF doubtful THEN 2 ELSE 3
    BY DEF Rung, doubtful, unsure
  <2> HIDE DEF mid, high
  <2> QED BY <1>2, <1>3, <2>1
<1>5. mid => ~ low
  BY <1>2
<1>6. high => ~ low /\ ~ mid
  BY <1>3
<1> HIDE DEF o, low, mid, high, sure, doubtful, unsure
<1>7. o \in {"allow", "observe", "soft_challenge", "step_up_auth", "manual_review"}
  BY <1>1, <1>5, <1>6
<1>8. Ladder[o] = Rung(r, c)
  <2>1. CASE low
    <3>1. o \in {"allow", "observe"}
      BY <1>1, <1>5, <1>6, <2>1
    <3>2. Rung(r, c) = 0
      BY <1>4, <2>1
    <3> QED BY <3>1, <3>2, LadderIs
  <2>2. CASE mid /\ doubtful
    <3>1. o = "observe"
      BY <1>1, <1>5, <1>6, <2>2
    <3>2. Rung(r, c) = 0
      BY <1>4, <1>5, <2>2
    <3> QED BY <3>1, <3>2, LadderIs
  <2>3. CASE mid /\ ~ doubtful
    <3>1. o = "soft_challenge"
      BY <1>1, <1>5, <1>6, <2>3
    <3>2. Rung(r, c) = 1
      BY <1>4, <1>5, <2>3
    <3> QED BY <3>1, <3>2, LadderIs
  <2>4. CASE high /\ unsure
    <3>1. o = "soft_challenge"
      BY <1>1, <1>5, <1>6, <2>4
    <3>2. Rung(r, c) = 1
      BY <1>4, <1>6, <2>4
    <3> QED BY <3>1, <3>2, LadderIs
  <2>5. CASE high /\ ~ unsure
    <3>1. o = "step_up_auth"
      BY <1>1, <1>5, <1>6, <2>5
    <3>2. Rung(r, c) = 2
      BY <1>4, <1>6, <2>5
    <3> QED BY <3>1, <3>2, LadderIs
  <2>6. CASE ~ low /\ ~ mid /\ ~ high /\ doubtful
    <3>1. o = "step_up_auth"
      BY <1>1, <2>6
    <3>2. Rung(r, c) = 2
      BY <1>4, <2>6
    <3> QED BY <3>1, <3>2, LadderIs
  <2>7. CASE ~ low /\ ~ mid /\ ~ high /\ ~ doubtful
    <3>1. o = "manual_review"
      BY <1>1, <2>7
    <3>2. Rung(r, c) = 3
      BY <1>4, <2>7
    <3> QED BY <3>1, <3>2, LadderIs
  <2> QED BY <2>1, <2>2, <2>3, <2>4, <2>5, <2>6, <2>7
<1> QED BY <1>7, <1>8, LadderIs DEF o

LEMMA RungGrows ==
  ASSUME NEW r \in Nat, NEW q \in Nat, r <= q, NEW c \in Nat, NEW d \in Nat, c <= d
  PROVE  /\ Rung(r, c) \in Nat /\ Rung(q, d) \in Nat /\ Rung(r, c) <= Rung(q, d)
         /\ r < 7000 /\ c < 4000 => Rung(r, c) <= 1
BY DEF Rung

(* A packet that has more against it has a score with more against it. *)

Heavier(f, g) ==
  /\ Graver(Voice(f), Voice(g))
  /\ HumanFeatureSupport(g) <= HumanFeatureSupport(f)

LEMMA SameIsNoMore == ASSUME NEW f \in Packets PROVE Heavier(f, f)
<1>1. Strength \in SUBSET Int /\ Support \in SUBSET Int
  BY DEF Strength, Support
<1>0. \A n \in Int : n <= n
  OBVIOUS
<1>2. \A r \in Reason : Voice(f)[r] \in Int /\ Voice(f)[r] <= Voice(f)[r]
  <2>1. Voice(f) \in [Reason -> Strength]
    BY VoiceType DEF Voices
  <2>2. \A r \in Reason : Voice(f)[r] \in Int
    BY <1>1, <2>1
  <2> QED BY <1>0, <2>2
<1>3. HumanFeatureSupport(f) <= HumanFeatureSupport(f)
  <2>1. HumanFeatureSupport(f) \in Int
    BY <1>1, SupportType
  <2> QED BY <1>0, <2>1
<1> QED BY <1>2, <1>3 DEF Heavier, Graver

CountOfSignals(f) == Cardinality(AutomationSignals(f)) + Cardinality(AgenticSignals(f))
CountOfCategories(f) ==
  Cardinality(CategoriesOf(AutomationSignals(f))) + Cardinality(CategoriesOf(AgenticSignals(f)))

LEMMA ObservationCounts ==
  ASSUME NEW f \in Packets, NEW g \in Packets, Heavier(f, g)
  PROVE  /\ CountOfSignals(f) \in Nat /\ CountOfSignals(g) \in Nat
         /\ CountOfSignals(f) <= CountOfSignals(g)
         /\ CountOfCategories(f) \in Nat /\ CountOfCategories(g) \in Nat
         /\ CountOfCategories(f) <= CountOfCategories(g)
<1>1. Voice(f) \in Voices /\ Voice(g) \in Voices /\ Graver(Voice(f), Voice(g))
  BY VoiceType DEF Heavier
<1>2. AutomationReason \in SUBSET Reason /\ AgenticReason \in SUBSET Reason
  BY DEF Reason
<1>3. /\ Speak(AutomationSignals(f), AutomationReason, Voice(f))
      /\ Speak(AutomationSignals(g), AutomationReason, Voice(g))
      /\ Speak(AgenticSignals(f), AgenticReason, Voice(f))
      /\ Speak(AgenticSignals(g), AgenticReason, Voice(g))
  BY AutomationSpeaks, AgenticSpeaks
<1>4. PICK a \in Nat, b \in Nat :
        /\ a = Cardinality(AutomationSignals(f)) /\ b = Cardinality(AutomationSignals(g)) /\ a <= b
  BY <1>1, <1>2, <1>3, CountsGrow
<1>5. PICK c \in Nat, d \in Nat :
        /\ c = Cardinality(AgenticSignals(f)) /\ d = Cardinality(AgenticSignals(g)) /\ c <= d
  BY <1>1, <1>2, <1>3, CountsGrow
<1>6. PICK k \in Nat, l \in Nat :
        /\ k = Cardinality(CategoriesOf(AutomationSignals(f)))
        /\ l = Cardinality(CategoriesOf(AutomationSignals(g))) /\ k <= l
  BY <1>1, <1>2, <1>3, CountsGrow
<1>7. PICK m \in Nat, n \in Nat :
        /\ m = Cardinality(CategoriesOf(AgenticSignals(f)))
        /\ n = Cardinality(CategoriesOf(AgenticSignals(g))) /\ m <= n
  BY <1>1, <1>2, <1>3, CountsGrow
<1>8. /\ CountOfSignals(f) = a + c /\ CountOfSignals(g) = b + d
      /\ CountOfCategories(f) = k + m /\ CountOfCategories(g) = l + n
  BY <1>4, <1>5, <1>6, <1>7 DEF CountOfSignals, CountOfCategories
<1>9. /\ a + c \in Nat /\ b + d \in Nat /\ a + c <= b + d
      /\ k + m \in Nat /\ l + n \in Nat /\ k + m <= l + n
  BY <1>4, <1>5, <1>6, <1>7
<1> QED BY <1>8, <1>9

RiskOf(f) ==
  Times(CombinedRisk(AutomationSignals(f), AgenticSignals(f)),
        Whole - Times(6000, HumanFeatureSupport(f)))
ConfidenceOf(f) ==
  SureOf(EvidenceSufficiency(CountOfCategories(f), CountOfSignals(f)), RiskOf(f))

LEMMA ScoreIs ==
  ASSUME NEW f
  PROVE  /\ DOMAIN ScoreInteraction(f)
              = {"risk", "confidence", "presence", "automation", "agentic", "action"}
         /\ ScoreInteraction(f).risk = RiskOf(f)
         /\ ScoreInteraction(f).confidence = ConfidenceOf(f)
         /\ ScoreInteraction(f).presence
              = Clamped(Times(5800, Whole - RiskOf(f)) + Times(4000, HumanFeatureSupport(f)))
         /\ ScoreInteraction(f).automation
              = Times(AggregateRisk(AutomationSignals(f)),
                      Whole - Times(6000, HumanFeatureSupport(f)))
         /\ ScoreInteraction(f).agentic = AgenticLikelihood(f)
         /\ ScoreInteraction(f).action = RecommendedOutcome(RiskOf(f), ConfidenceOf(f))
BY DEF ScoreInteraction, RiskOf, ConfidenceOf, SureOf, CountOfCategories, CountOfSignals

LEMMA RiskGrows ==
  ASSUME NEW f \in Packets, NEW g \in Packets, Heavier(f, g)
  PROVE  /\ RiskOf(f) \in 0..Whole /\ RiskOf(g) \in 0..Whole
         /\ RiskOf(f) <= RiskOf(g)
         /\ AggregateRisk(AutomationSignals(f)) \in 0..Whole
         /\ AggregateRisk(AgenticSignals(f)) \in 0..Whole
<1> DEFINE a == AutomationSignals(f)
           b == AgenticSignals(f)
           c == AutomationSignals(g)
           d == AgenticSignals(g)
<1>1. Voice(f) \in Voices /\ Voice(g) \in Voices /\ Graver(Voice(f), Voice(g))
  BY VoiceType DEF Heavier
<1>2. Speak(a, AutomationReason, Voice(f)) /\ Speak(c, AutomationReason, Voice(g))
  BY AutomationSpeaks
<1>3. Speak(b, AgenticReason, Voice(f)) /\ Speak(d, AgenticReason, Voice(g))
  BY AgenticSpeaks
<1>4. PICK n \in Nat, m \in Nat :
        /\ n = Cardinality(CategoriesOf(a)) + Cardinality(CategoriesOf(b))
        /\ m = Cardinality(CategoriesOf(c)) + Cardinality(CategoriesOf(d))
        /\ n <= m
  BY ObservationCounts DEF CountOfCategories
<1>5. /\ HumanFeatureSupport(f) \in Support /\ HumanFeatureSupport(g) \in Support
      /\ HumanFeatureSupport(g) <= HumanFeatureSupport(f)
  BY SupportType DEF Heavier
<1> HIDE DEF a, b, c, d
<1>6. /\ AggregateRisk(a) \in 0..Whole /\ AggregateRisk(c) \in 0..Whole
      /\ AggregateRisk(a) <= AggregateRisk(c)
  BY <1>1, <1>2, AggregateRiskGrows
<1>7. /\ AggregateRisk(b) \in 0..Whole /\ AggregateRisk(d) \in 0..Whole
      /\ AggregateRisk(b) <= AggregateRisk(d)
  BY <1>1, <1>3, AggregateRiskGrows
<1>8. /\ Corroboration(a, b) \in Nat /\ Corroboration(c, d) \in Nat
      /\ Corroboration(a, b) <= Corroboration(c, d)
  BY <1>4, CorroborationGrows
<1>9. /\ CombinedRisk(a, b) \in 0..Whole /\ CombinedRisk(c, d) \in 0..Whole
      /\ CombinedRisk(a, b) <= CombinedRisk(c, d)
  BY <1>6, <1>7, <1>8, CombinedRiskGrows
<1>10. 6000 \in {3000, 6000}
  OBVIOUS
<1>11. /\ Times(CombinedRisk(a, b), Whole - Times(6000, HumanFeatureSupport(f))) \in 0..Whole
       /\ Times(CombinedRisk(c, d), Whole - Times(6000, HumanFeatureSupport(g))) \in 0..Whole
       /\ Times(CombinedRisk(a, b), Whole - Times(6000, HumanFeatureSupport(f)))
            <= Times(CombinedRisk(c, d), Whole - Times(6000, HumanFeatureSupport(g)))
  BY <1>5, <1>9, <1>10, ScaledGrows
<1> QED BY <1>6, <1>7, <1>11 DEF RiskOf, a, b, c, d

LEMMA ConfidenceOfGrows ==
  ASSUME NEW f \in Packets, NEW g \in Packets, Heavier(f, g)
  PROVE  /\ ConfidenceOf(f) \in 0..Whole /\ ConfidenceOf(g) \in 0..Whole
         /\ ConfidenceOf(f) <= ConfidenceOf(g)
<1>1. /\ RiskOf(f) \in 0..Whole /\ RiskOf(g) \in 0..Whole /\ RiskOf(f) <= RiskOf(g)
  BY RiskGrows
<1>2. /\ EvidenceSufficiency(CountOfCategories(f), CountOfSignals(f)) \in 0..Whole
      /\ EvidenceSufficiency(CountOfCategories(g), CountOfSignals(g)) \in 0..Whole
      /\ EvidenceSufficiency(CountOfCategories(f), CountOfSignals(f))
           <= EvidenceSufficiency(CountOfCategories(g), CountOfSignals(g))
  BY ObservationCounts, EvidenceGrows
<1> QED BY <1>1, <1>2, ConfidenceGrows DEF ConfidenceOf

\* Never a lighter outcome of more against a session.
LEMMA ActionGrows ==
  ASSUME NEW f \in Packets, NEW g \in Packets, Heavier(f, g)
  PROVE  Ladder[ScoreInteraction(g).action] >= Ladder[ScoreInteraction(f).action]
<1>1. PICK r \in Nat, q \in Nat : r = RiskOf(f) /\ q = RiskOf(g) /\ r <= q
  BY RiskGrows, PartsOfWhole
<1>2. PICK c \in Nat, d \in Nat : c = ConfidenceOf(f) /\ d = ConfidenceOf(g) /\ c <= d
  BY ConfidenceOfGrows, PartsOfWhole
<1>3. Ladder[RecommendedOutcome(r, c)] = Rung(r, c) /\ Ladder[RecommendedOutcome(q, d)] = Rung(q, d)
  BY RungIs
<1>4. PICK x \in Nat, y \in Nat : x = Rung(r, c) /\ y = Rung(q, d) /\ x <= y
  BY <1>1, <1>2, RungGrows
<1>5. y >= x
  BY <1>4
<1> QED BY <1>1, <1>2, <1>3, <1>4, <1>5, ScoreIs

LEMMA Weights == 5800 \in 0..Whole /\ 4000 \in 0..Whole
<1>1. 5800 \in 0..Whole
  BY InWhole
<1>2. 4000 \in 0..Whole
  BY InWhole
<1> QED BY <1>1, <1>2

LEMMA ScoreType ==
  ASSUME NEW f \in Packets
  PROVE  /\ \A part \in DOMAIN ScoreInteraction(f) \ {"action"} :
              ScoreInteraction(f)[part] \in 0..Whole
         /\ ScoreInteraction(f).action \in DOMAIN Ladder
<1>0. Heavier(f, f)
  BY SameIsNoMore
<1>1. /\ RiskOf(f) \in 0..Whole /\ ConfidenceOf(f) \in 0..Whole
      /\ AggregateRisk(AutomationSignals(f)) \in 0..Whole
      /\ AggregateRisk(AgenticSignals(f)) \in 0..Whole
  BY <1>0, RiskGrows, ConfidenceOfGrows
<1>2. HumanFeatureSupport(f) \in Support
  BY <1>0, SupportType DEF Heavier
<1>3. ScoreInteraction(f).automation \in 0..Whole
  <2>1. 6000 \in {3000, 6000}
    OBVIOUS
  <2>2. AggregateRisk(AutomationSignals(f)) <= AggregateRisk(AutomationSignals(f))
    BY <1>1, PartsOfWhole
  <2>3. HumanFeatureSupport(f) <= HumanFeatureSupport(f)
    BY <1>0, SupportType DEF Heavier
  <2> QED BY <1>1, <1>2, <2>1, <2>2, <2>3, ScaledGrows, ScoreIs
<1>4. ScoreInteraction(f).agentic \in 0..Whole
  <2>1. 3000 \in {3000, 6000}
    OBVIOUS
  <2>2. AggregateRisk(AgenticSignals(f)) <= AggregateRisk(AgenticSignals(f))
    BY <1>1, PartsOfWhole
  <2>3. HumanFeatureSupport(f) <= HumanFeatureSupport(f)
    BY <1>0, SupportType DEF Heavier
  <2>4. Times(AggregateRisk(AgenticSignals(f)), Whole - Times(3000, HumanFeatureSupport(f)))
          \in 0..Whole
    BY <1>1, <1>2, <2>1, <2>2, <2>3, ScaledGrows
  <2>5. AgenticLikelihood(f) \in 0..Whole
    BY <2>4, PartsOfWhole, ClampedType DEF AgenticLikelihood
  <2> QED BY <2>5, ScoreIs
<1>5. ScoreInteraction(f).presence \in 0..Whole
  <2>1. Times(5800, Whole - RiskOf(f)) \in Int
    <3>1. PICK w \in 0..Whole : w = 5800
      BY Weights
    <3>2. Whole - RiskOf(f) \in 0..Whole
      BY <1>1, ComplementType
    <3>3. Times(w, Whole - RiskOf(f)) \in 0..Whole
      BY <3>2, TimesPart
    <3> QED BY <3>1, <3>3, PartsOfWhole
  <2>2. Times(4000, HumanFeatureSupport(f)) \in Int
    <3>1. PICK w \in 0..Whole : w = 4000
      BY Weights
    <3>2. HumanFeatureSupport(f) \in 0..Whole
      BY <1>2, SupportIsPart
    <3>3. Times(w, HumanFeatureSupport(f)) \in 0..Whole
      BY <3>2, TimesPart
    <3> QED BY <3>1, <3>3, PartsOfWhole
  <2>3. Times(5800, Whole - RiskOf(f)) + Times(4000, HumanFeatureSupport(f)) \in Int
    BY <2>1, <2>2
  <2> QED BY <2>3, ClampedType, ScoreIs
<1>6. ScoreInteraction(f).action \in DOMAIN Ladder
  <2>1. RiskOf(f) \in Nat /\ ConfidenceOf(f) \in Nat
    BY <1>1, PartsOfWhole
  <2> QED BY <2>1, RungIs, ScoreIs
<1>7. ASSUME NEW part \in DOMAIN ScoreInteraction(f) \ {"action"}
      PROVE  ScoreInteraction(f)[part] \in 0..Whole
  <2>1. part \in {"risk", "confidence", "presence", "automation", "agentic"}
    BY ScoreIs
  <2>2. ScoreInteraction(f).risk \in 0..Whole /\ ScoreInteraction(f).confidence \in 0..Whole
    BY <1>1, ScoreIs
  <2> QED BY <1>3, <1>4, <1>5, <2>1, <2>2
<1> QED BY <1>6, <1>7

LEMMA ActionRung ==
  ASSUME NEW f \in Packets PROVE Ladder[ScoreInteraction(f).action] \in Nat
<1>1. ScoreInteraction(f).action \in DOMAIN Ladder
  BY ScoreType
<1> QED BY <1>1, LadderIs

(* One signal, however strong. *)

\* As much as it may weigh: the most an agentic signal may, in its category.
Lone == 0..6800

LEMMA LoneIs == ASSUME NEW x \in Lone PROVE x \in Nat /\ x \in 0..Whole /\ x <= 6800
<1>1. x \in Nat /\ x <= 6800
  BY DEF Lone
<1>2. x \in 0..Whole
  BY WholeIs DEF Lone
<1> QED BY <1>1, <1>2
LEMMA NoneIsLone == 0 \in Lone
BY DEF Lone

LEMMA LoneWeight ==
  ASSUME NEW w \in 60..80, NEW x \in Strength
  PROVE  /\ (w * x) \div 100 \in Lone
         /\ x = 0 => (w * x) \div 100 = 0
<1>1. w \in Nat /\ w <= 80 /\ x \in Nat /\ x <= 8500
  BY DEF Strength
<1>2. w * x <= 80 * 8500
  BY <1>1, ProductGrows
<1>3. PICK p \in Nat : p = w * x
  BY <1>1
<1>4. p <= 680000
  BY <1>2, <1>3
<1>5. p \div 100 \in Lone
  BY <1>4 DEF Lone
<1>6. x = 0 => w * x = 0
  BY <1>1
<1>7. 0 \div 100 = 0
  OBVIOUS
<1> QED BY <1>3, <1>5, <1>6, <1>7

LEMMA ReasonsByDetector ==
  /\ \A r \in Reason : CategoryOf(r) \in DOMAIN Detectors /\ r \in Detectors[CategoryOf(r)]
  /\ \A c \in DOMAIN Detectors, r \in Reason : r \in Detectors[c] => c = CategoryOf(r)
  /\ \A c \in DOMAIN Detectors : Detectors[c] # {}
<1>1. DOMAIN Detectors = {"input_method", "typing_cadence", "agentic_behavior"}
  BY DEF Detectors
<1>2. /\ Detectors["input_method"] = {"paste_or_instant_input"}
      /\ Detectors["typing_cadence"] = {"uniform_typing_cadence", "zero_correction_pattern"}
      /\ Detectors["agentic_behavior"] = AgenticReason
  BY DEF Detectors, AgenticReason
<1>3. /\ AutomationReason = {"paste_or_instant_input"}
                              \cup {"uniform_typing_cadence", "zero_correction_pattern"}
      /\ "paste_or_instant_input" \notin {"uniform_typing_cadence", "zero_correction_pattern"}
      /\ AutomationReason \cap AgenticReason = {}
      /\ "model_thinking_cadence" \in AgenticReason
  BY DEF AutomationReason, AgenticReason
<1>4. \A c \in DOMAIN Detectors : Detectors[c] # {}
  BY <1>1, <1>2, <1>3
<1>5. \A r \in Reason :
        /\ r = "paste_or_instant_input" => CategoryOf(r) = "input_method"
        /\ r \in {"uniform_typing_cadence", "zero_correction_pattern"}
             => CategoryOf(r) = "typing_cadence"
        /\ r \in AgenticReason => CategoryOf(r) = "agentic_behavior"
  BY <1>3 DEF CategoryOf
<1>6. \A r \in Reason :
        \/ r = "paste_or_instant_input"
        \/ r \in {"uniform_typing_cadence", "zero_correction_pattern"}
        \/ r \in AgenticReason
  BY <1>3 DEF Reason
<1>7. \A r \in Reason : CategoryOf(r) \in DOMAIN Detectors /\ r \in Detectors[CategoryOf(r)]
  BY <1>1, <1>2, <1>5, <1>6
<1>8. \A c \in DOMAIN Detectors, r \in Reason : r \in Detectors[c] => c = CategoryOf(r)
  BY <1>1, <1>2, <1>5
<1> QED BY <1>4, <1>7, <1>8

LEMMA LoneRisk ==
  ASSUME NEW v \in Voices, NEW R, NEW S, Speak(S, R, v),
         NEW q \in Reason, \A r \in Reason \ {q} : v[r] = 0
  PROVE  /\ AggregateRisk(S) \in Lone
         /\ q \notin R => AggregateRisk(S) = 0
<1>1. \A r \in Reason : StrengthOf(S, r) = IF r \in R THEN v[r] ELSE 0
  BY StrengthIs
<1>2. StrengthOf(S, q) \in Strength /\ (q \notin R => StrengthOf(S, q) = 0)
  <2>1. v[q] \in Strength
    BY DEF Voices
  <2>2. 0 \in Strength
    BY DEF Strength
  <2> QED BY <1>1, <2>1, <2>2
<1>3. \A r \in Reason \ {q} : StrengthOf(S, r) = 0
  BY <1>1
<1>4. PICK x \in Strength : x = StrengthOf(S, q)
  BY <1>2
<1>5. x \in 0..Whole /\ 0 \in 0..Whole
  BY WholeIs DEF Strength
<1> DEFINE p(c) == [reason \in Detectors[c] |-> StrengthOf(S, reason)]
           k == CategoryOf(q)
<1>6. k \in DOMAIN Detectors /\ q \in Detectors[k]
  BY ReasonsByDetector
<1>7. ProductOfComplements(p(k)) = x
  <2>1. IsFiniteSet(Detectors[k]) /\ Detectors[k] \in SUBSET Reason
    BY <1>6, Categories
  <2>2. DOMAIN p(k) = Detectors[k] /\ p(k)[q] = x
    BY <1>4, <1>6
  <2>3. \A y \in Detectors[k] \ {q} : p(k)[y] = 0
    BY <1>3, <2>1
  <2> HIDE DEF p, k
  <2> QED BY <1>5, <1>6, <2>1, <2>2, <2>3, ProductOfOne
<1>8. ASSUME NEW c \in DOMAIN Detectors, c # k PROVE ProductOfComplements(p(c)) = 0
  <2>1. IsFiniteSet(Detectors[c]) /\ Detectors[c] \in SUBSET Reason /\ Detectors[c] # {}
    BY Categories, ReasonsByDetector
  <2>2. q \notin Detectors[c]
    BY <1>8, ReasonsByDetector
  <2>3. PICK d \in Detectors[c] : TRUE
    BY <2>1
  <2>4. DOMAIN p(c) = Detectors[c] /\ \A y \in Detectors[c] : p(c)[y] = 0
    BY <1>3, <2>1, <2>2
  <2>5. p(c)[d] = 0 /\ \A y \in Detectors[c] \ {d} : p(c)[y] = 0
    BY <2>4
  <2> HIDE DEF p, k
  <2> QED BY <1>5, <2>1, <2>4, <2>5, ProductOfOne
<1>9. \A c \in DOMAIN Detectors :
        /\ CategoryWeight[c] \in 60..80
        /\ CategoryRisk(S, c) = (CategoryWeight[c] * ProductOfComplements(p(c))) \div 100
  BY Categories DEF CategoryRisk
<1> HIDE DEF p
<1>10. PICK y \in Lone : y = CategoryRisk(S, k) /\ (x = 0 => y = 0)
  <2>1. CategoryWeight[k] \in 60..80
    BY <1>6, <1>9
  <2>2. /\ (CategoryWeight[k] * x) \div 100 \in Lone
        /\ x = 0 => (CategoryWeight[k] * x) \div 100 = 0
    BY <2>1, LoneWeight
  <2>3. CategoryRisk(S, k) = (CategoryWeight[k] * x) \div 100
    BY <1>6, <1>7, <1>9
  <2> QED BY <2>2, <2>3
<1>11. ASSUME NEW c \in DOMAIN Detectors, c # k PROVE CategoryRisk(S, c) = 0
  <2>1. CategoryWeight[c] \in 60..80 /\ 0 \in Strength
    BY <1>9 DEF Strength
  <2>2. (CategoryWeight[c] * 0) \div 100 = 0
    BY <2>1, LoneWeight
  <2> QED BY <1>8, <1>9, <1>11, <2>2
<1> DEFINE all == [c \in DOMAIN Detectors |-> CategoryRisk(S, c)]
<1>12. AggregateRisk(S) = ProductOfComplements(all)
  BY DEF AggregateRisk, CategoryRisk
<1>13. /\ DOMAIN all = DOMAIN Detectors /\ all[k] = y
       /\ \A c \in DOMAIN Detectors \ {k} : all[c] = 0
  BY <1>6, <1>10, <1>11
<1>14. IsFiniteSet(DOMAIN Detectors) /\ y \in 0..Whole
  BY Categories, LoneIs
<1> HIDE DEF all, k
<1>15. ProductOfComplements(all) = y
  BY <1>6, <1>13, <1>14, ProductOfOne
<1> QED BY <1>2, <1>4, <1>10, <1>12, <1>15

LEMMA LoneCombined ==
  ASSUME NEW a, NEW b, Corroboration(a, b) = 0,
         AggregateRisk(a) \in Lone, AggregateRisk(b) \in Lone,
         AggregateRisk(a) = 0 \/ AggregateRisk(b) = 0
  PROVE  CombinedRisk(a, b) \in Lone
<1> DEFINE p == [k \in {1, 2} |-> AggregateRisk(IF k = 1 THEN a ELSE b)]
<1>1. DOMAIN p = {1, 2} /\ p[1] = AggregateRisk(a) /\ p[2] = AggregateRisk(b)
  OBVIOUS
<1>2. IsFiniteSet({1, 2})
  <2>1. IsFiniteSet({1} \cup {2})
    BY FS_Singleton, FS_AddElement
  <2>2. {1} \cup {2} = {1, 2}
    OBVIOUS
  <2> QED BY <2>1, <2>2
<1>3. CombinedRisk(a, b) = Clamped(ProductOfComplements(p) + 0)
  BY DEF CombinedRisk
<1> HIDE DEF p
<1>4. PICK i \in {1, 2}, j \in {1, 2} : i # j /\ p[j] = 0 /\ p[i] \in Lone
  BY <1>1
<1>5. PICK s \in Lone : s = p[i]
  BY <1>4
<1>6. s \in 0..Whole /\ s \in Nat
  BY LoneIs
<1>7. \A y \in {1, 2} \ {i} : p[y] = 0
  BY <1>4
<1>8. ProductOfComplements(p) = s
  BY <1>1, <1>2, <1>5, <1>6, <1>7, ProductOfOne
<1>9. s + 0 = s
  BY <1>6
<1>10. Clamped(s) = s
  BY <1>6, ClampedSame
<1> QED BY <1>3, <1>8, <1>9, <1>10

LEMMA AtMostOne ==
  ASSUME NEW T, IsFiniteSet(T), Cardinality(T) <= 1, NEW a \in T, NEW b \in T
  PROVE  a = b
<1> SUFFICES ASSUME a # b PROVE FALSE
  OBVIOUS
<1>1. /\ IsFiniteSet(T \ {a}) /\ Cardinality(T \ {a}) = Cardinality(T) - 1
      /\ Cardinality(T) \in Nat /\ Cardinality(T \ {a}) \in Nat
  BY FS_RemoveElement, FS_CardinalityType
<1>2. Cardinality(T \ {a}) = 0
  BY <1>1
<1>3. T \ {a} = {}
  BY <1>1, <1>2, FS_EmptySet
<1> QED BY <1>3

\* What a set of detectors counts for, of which at most q speaks.
LEMMA LoneCounts ==
  ASSUME NEW v \in Voices, NEW R \in SUBSET Reason, NEW S, Speak(S, R, v),
         NEW q, Spoken(R, v) \in SUBSET {q}
  PROVE  /\ Cardinality(S) \in Nat /\ Cardinality(S) <= 1
         /\ Cardinality(CategoriesOf(S)) \in Nat /\ Cardinality(CategoriesOf(S)) <= 1
         /\ q \notin R => Cardinality(S) = 0 /\ Cardinality(CategoriesOf(S)) = 0
<1>1. IsFiniteSet({q}) /\ Cardinality({q}) = 1
  BY FS_Singleton
<1>2. Cardinality(Spoken(R, v)) <= 1
  BY <1>1, FS_Subset
<1>3. /\ Cardinality(S) = Cardinality(Spoken(R, v)) /\ Cardinality(Spoken(R, v)) \in Nat
      /\ Cardinality(CategoriesOf(S)) \in Nat
      /\ Cardinality(CategoriesOf(S)) <= Cardinality(Spoken(R, v))
  BY SignalCount, CategoryCount
<1>4. q \notin R => Cardinality(Spoken(R, v)) = 0
  <2>1. q \notin R => Spoken(R, v) = {}
    BY DEF Spoken
  <2> QED BY <2>1, FS_EmptySet
<1>5. Cardinality(CategoriesOf(S)) <= 1
  BY <1>2, <1>3
<1>6. Cardinality(Spoken(R, v)) = 0 => Cardinality(CategoriesOf(S)) = 0
  BY <1>3
<1> QED BY <1>2, <1>3, <1>4, <1>5, <1>6

LEMMA LoneEvidence ==
  ASSUME NEW n \in Nat, NEW m \in Nat, n <= 1, m <= 1
  PROVE  /\ EvidenceSufficiency(n, m) \in 0..Whole
         /\ EvidenceSufficiency(n, m) <= 4332 /\ 4332 \in 0..Whole
<1>1. 1 \in Nat
  OBVIOUS
<1>2. /\ EvidenceSufficiency(n, m) \in 0..Whole
      /\ EvidenceSufficiency(n, m) <= EvidenceSufficiency(1, 1)
      /\ EvidenceSufficiency(1, 1) \in 0..Whole
  BY <1>1, EvidenceGrows
<1>3. EvidenceSufficiency(1, 1) = 4332
  BY DEF EvidenceSufficiency, Times, Whole
<1> QED BY <1>2, <1>3

LEMMA LoneConfidence ==
  ASSUME NEW e \in 0..Whole, e <= 4332, NEW r \in Lone
  PROVE  SureOf(e, r) \in Nat /\ SureOf(e, r) < 4000
<1>1. PICK a \in 0..Whole : a = 4332
  <2>1. 4332 \in 0..Whole
    BY InWhole
  <2> QED BY <2>1
<1>2. PICK b \in 0..Whole : b = 6800
  <2>1. 6800 \in 0..Whole
    BY InWhole
  <2> QED BY <2>1
<1>3. r \in 0..Whole /\ r <= b
  BY <1>2, LoneIs
<1>4. e <= a
  BY <1>1
<1>5. SureOf(e, r) \in 0..Whole /\ SureOf(e, r) <= SureOf(a, b)
  BY <1>3, <1>4, ConfidenceGrows
<1>6. SureOf(4332, 6800) = 3638
  BY DEF SureOf, Times, Whole
<1>7. SureOf(a, b) = 3638
  BY <1>1, <1>2, <1>6
<1>8. PICK c \in Nat : c = SureOf(e, r)
  BY <1>5, PartsOfWhole
<1>9. c <= 3638
  BY <1>5, <1>7, <1>8
<1>10. c < 4000
  BY <1>9
<1> QED BY <1>8, <1>10

LEMMA LoneRiskOf ==
  ASSUME NEW r \in Lone, NEW h \in Support
  PROVE  Times(r, Whole - Times(6000, h)) \in Lone
<1>1. r \in 0..Whole /\ r \in Nat /\ r <= 6800
  BY LoneIs
<1>2. h \in 0..Whole
  BY SupportIsPart
<1>3. PICK w \in 0..Whole : w = 6000
  <2>1. 6000 \in 0..Whole
    BY InWhole
  <2> QED BY <2>1
<1>4. Times(w, h) \in 0..Whole
  BY <1>2, TimesPart
<1>5. Whole - Times(w, h) \in 0..Whole
  BY <1>4, ComplementType
<1>6. Times(r, Whole - Times(w, h)) \in 0..Whole /\ Times(r, Whole - Times(w, h)) <= r
  BY <1>1, <1>5, TimesPart
<1>7. PICK x \in Nat : x = Times(r, Whole - Times(w, h))
  BY <1>6, PartsOfWhole
<1>8. x <= r
  BY <1>6, <1>7
<1>9. x \in Lone
  BY <1>1, <1>8 DEF Lone
<1> QED BY <1>3, <1>7, <1>9

\* A session with at most one signal is asked for no more than a soft challenge.
LEMMA LoneSignal ==
  ASSUME NEW f \in Packets,
         ~ (Cardinality(SignalsOf(f)) > 1)
  PROVE  ~ (Ladder[ScoreInteraction(f).action] > 1)
<1> DEFINE a == AutomationSignals(f)
           b == AgenticSignals(f)
           v == Voice(f)
<1>1. v \in Voices /\ Speak(a, AutomationReason, v) /\ Speak(b, AgenticReason, v)
  BY VoiceType, AutomationSpeaks, AgenticSpeaks
<1>2. /\ AutomationReason \cap AgenticReason = {}
      /\ AutomationReason \in SUBSET Reason /\ AgenticReason \in SUBSET Reason
      /\ AutomationReason \cup AgenticReason = Reason
      /\ "paste_or_instant_input" \in Reason
  BY DEF Reason, AutomationReason, AgenticReason
<1>3. HumanFeatureSupport(f) \in Support
  BY SupportType
<1>4. ~ (Cardinality(a \cup b) > 1)
  BY DEF SignalsOf
<1> HIDE DEF a, b, v
<1>5. Speak(a \cup b, Reason, v)
  BY <1>1, <1>2, AllSpeak
<1>6. IsFiniteSet(Spoken(Reason, v)) /\ Cardinality(Spoken(Reason, v)) \in Nat
  BY <1>1, <1>5, SignalCount, FS_CardinalityType
<1>7. Cardinality(Spoken(Reason, v)) <= 1
  <2>1. Cardinality(a \cup b) = Cardinality(Spoken(Reason, v))
    BY <1>1, <1>5, SignalCount
  <2> QED BY <1>4, <1>6, <2>1
<1>8. PICK q \in Reason : Spoken(Reason, v) \in SUBSET {q}
  <2>1. Spoken(Reason, v) \in SUBSET Reason
    BY DEF Spoken
  <2>2. CASE Spoken(Reason, v) = {}
    BY <1>2, <2>2
  <2>3. CASE Spoken(Reason, v) # {}
    <3>1. PICK q \in Spoken(Reason, v) : TRUE
      BY <2>3
    <3>2. \A r \in Spoken(Reason, v) : r = q
      BY <1>6, <1>7, AtMostOne
    <3> QED BY <2>1, <3>2
  <2> QED BY <2>2, <2>3
<1>9. \A r \in Reason \ {q} : v[r] = 0
  <2>1. \A x \in Strength : ~ (x > 0) => x = 0
    <3>1. \A x \in Strength : x \in Nat
      BY DEF Strength
    <3>2. \A x \in Nat : ~ (x > 0) => x = 0
      OBVIOUS
    <3> QED BY <3>1, <3>2
  <2>2. \A r \in Reason \ {q} : ~ (v[r] > 0) /\ v[r] \in Strength
    BY <1>1, <1>8 DEF Spoken, Voices
  <2> QED BY <2>1, <2>2
<1>10. /\ Spoken(AutomationReason, v) \in SUBSET {q}
       /\ Spoken(AgenticReason, v) \in SUBSET {q}
  BY <1>2, <1>8 DEF Spoken
<1>11. q \notin AutomationReason \/ q \notin AgenticReason
  BY <1>2
<1>12. PICK k \in Nat, i \in Nat :
         /\ k = Cardinality(a) /\ i = Cardinality(CategoriesOf(a)) /\ k <= 1 /\ i <= 1
         /\ q \notin AutomationReason => k = 0 /\ i = 0
  BY <1>1, <1>2, <1>10, LoneCounts
<1>13. PICK l \in Nat, j \in Nat :
         /\ l = Cardinality(b) /\ j = Cardinality(CategoriesOf(b)) /\ l <= 1 /\ j <= 1
         /\ q \notin AgenticReason => l = 0 /\ j = 0
  BY <1>1, <1>2, <1>10, LoneCounts
<1>14. CountOfSignals(f) = k + l /\ CountOfCategories(f) = i + j
  BY <1>12, <1>13 DEF CountOfSignals, CountOfCategories, a, b
<1>15. k + l \in Nat /\ k + l <= 1 /\ i + j \in Nat /\ i + j <= 1
  BY <1>11, <1>12, <1>13
<1>16. Corroboration(a, b) = 0
  <2>1. PICK n \in Nat : n = i + j /\ n <= 1
    BY <1>15
  <2>2. n = Cardinality(CategoriesOf(a)) + Cardinality(CategoriesOf(b)) /\ n <= n
    BY <1>12, <1>13, <2>1
  <2> QED BY <2>1, <2>2, CorroborationGrows
<1>17. /\ AggregateRisk(a) \in Lone /\ (q \notin AutomationReason => AggregateRisk(a) = 0)
       /\ AggregateRisk(b) \in Lone /\ (q \notin AgenticReason => AggregateRisk(b) = 0)
  BY <1>1, <1>9, LoneRisk
<1>18. CombinedRisk(a, b) \in Lone
  BY <1>11, <1>16, <1>17, LoneCombined
<1>19. RiskOf(f) \in Lone
  BY <1>3, <1>18, LoneRiskOf DEF RiskOf, a, b
<1>20. PICK r \in Lone : r = RiskOf(f)
  BY <1>19
<1>21. PICK e \in 0..Whole : e = EvidenceSufficiency(i + j, k + l) /\ e <= 4332
  BY <1>15, LoneEvidence
<1>22. PICK c \in Nat : c = SureOf(e, r) /\ c < 4000
  BY <1>21, LoneConfidence
<1>23. ConfidenceOf(f) = c
  BY <1>14, <1>20, <1>21, <1>22 DEF ConfidenceOf
<1>24. r \in Nat /\ r < 7000
  <2>1. r \in Nat /\ r <= 6800
    BY LoneIs
  <2> QED BY <2>1
<1>25. Ladder[ScoreInteraction(f).action] = Rung(r, c)
  BY <1>20, <1>23, <1>24, RungIs, ScoreIs
<1>26. Rung(r, c) \in Nat /\ Rung(r, c) <= 1
  <2>1. r <= r /\ c <= c
    BY <1>24
  <2> QED BY <1>22, <1>24, <2>1, RungGrows
<1>27. ~ (Rung(r, c) > 1)
  BY <1>26
<1> QED BY <1>25, <1>27

(* The packets that are scored. *)

ScoringInv == session \in Packets /\ score = ScoreInteraction(session)

LEMMA ScoringHolds == ScoringSpec => []ScoringInv
<1>1. ScoringInit => ScoringInv
  BY DEF ScoringInit, ScoringInv
<1>2. ScoringInv /\ [Evaluated]_scoringVars => ScoringInv'
  BY DEF ScoringInv, Evaluated, scoringVars
<1> QED BY <1>1, <1>2, PTL DEF ScoringSpec

\* What MoreAgainst says of the detectors' signals, said of their voices.
LEMMA MoreAgainstIs ==
  ASSUME NEW f \in Packets, NEW g \in Packets, MoreAgainst(f, g)
  PROVE  Heavier(f, g)
<1>1. ASSUME NEW h \in Packets
      PROVE  Voice(h) \in Voices /\ \A r \in Reason : StrengthOf(SignalsOf(h), r) = Voice(h)[r]
  <2>1. /\ Voice(h) \in Voices
        /\ Speak(AutomationSignals(h), AutomationReason, Voice(h))
        /\ Speak(AgenticSignals(h), AgenticReason, Voice(h))
    BY VoiceType, AutomationSpeaks, AgenticSpeaks
  <2>2. AutomationReason \cap AgenticReason = {}
    BY DEF AutomationReason, AgenticReason
  <2>3. Speak(SignalsOf(h), Reason, Voice(h))
    BY <2>1, <2>2, AllSpeak DEF SignalsOf, Reason
  <2> QED BY <2>1, <2>3, StrengthIs
<1>2. \A r \in Reason : StrengthOf(SignalsOf(f), r) <= StrengthOf(SignalsOf(g), r)
  BY ReasonsByDetector DEF MoreAgainst
<1>3. Graver(Voice(f), Voice(g))
  BY <1>1, <1>2 DEF Graver
<1> QED BY <1>3 DEF Heavier, MoreAgainst

\* Every part of a score is a likelihood, whatever a packet holds.
THEOREM ScoringTypes == ScoringSpec => []ScoringTypeOK
<1>1. ScoringInv => ScoringTypeOK
  BY ScoreType DEF ScoringInv, ScoringTypeOK
<1> QED BY <1>1, ScoringHolds, PTL

\* _recommended_action: a session that is let off with less has no more against it.
THEOREM NeverLighterScored == ScoringSpec => NeverLighter
<1>1. ScoringInv /\ ScoringInv' /\ [Evaluated]_scoringVars
        => [Ladder[score'.action] < Ladder[score.action] => ~MoreAgainst(session, session')]_scoringVars
  <2> SUFFICES ASSUME ScoringInv, ScoringInv', MoreAgainst(session, session'),
                      Ladder[score'.action] < Ladder[score.action]
               PROVE  FALSE
    OBVIOUS
  <2>1. PICK f \in Packets, g \in Packets :
          /\ f = session /\ g = session'
          /\ score = ScoreInteraction(f) /\ score' = ScoreInteraction(g)
    BY DEF ScoringInv
  <2>2. Heavier(f, g)
    BY <2>1, MoreAgainstIs
  <2>3. PICK x \in Nat, y \in Nat :
          x = Ladder[ScoreInteraction(f).action] /\ y = Ladder[ScoreInteraction(g).action] /\ y >= x
    BY <2>2, ActionGrows, ActionRung
  <2> QED BY <2>1, <2>3
<1> QED BY <1>1, ScoringHolds, PTL DEF ScoringSpec, NeverLighter

\* The agentic likelihood moves with the agentic signals and what speaks for a human alone.
THEOREM AgenticOfItsOwn == ScoringSpec => AgenticIsItsOwn
<1>1. ScoringInv /\ ScoringInv' /\ [Evaluated]_scoringVars
        => [score'.agentic # score.agentic =>
              \/ AgenticSignals(session') # AgenticSignals(session)
              \/ HumanFeatureSupport(session') # HumanFeatureSupport(session)]_scoringVars
  <2> SUFFICES ASSUME ScoringInv, ScoringInv',
                      AgenticSignals(session') = AgenticSignals(session),
                      HumanFeatureSupport(session') = HumanFeatureSupport(session)
               PROVE  score'.agentic = score.agentic
    OBVIOUS
  <2>1. score = ScoreInteraction(session) /\ score' = ScoreInteraction(session')
    BY DEF ScoringInv
  <2>2. AgenticLikelihood(session') = AgenticLikelihood(session)
    BY DEF AgenticLikelihood
  <2> QED BY <2>1, <2>2, ScoreIs
<1> QED BY <1>1, ScoringHolds, PTL DEF ScoringSpec, AgenticIsItsOwn

\* "Low evidence caps confidence": one signal asks for no more than a soft challenge.
THEOREM OneSignal == ScoringSpec => []OneSignalIsNotEnough
<1>1. ScoringInv => OneSignalIsNotEnough
  BY LoneSignal DEF ScoringInv, OneSignalIsNotEnough
<1> QED BY <1>1, ScoringHolds, PTL

\* What every score promises.
THEOREM ScoresAreSound == ScoringSpec => ScoresHold
BY NeverLighterScored, AgenticOfItsOwn, OneSignal DEF ScoresHold
=============================================================================
