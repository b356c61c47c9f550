------------------------ MODULE MCEseServices_proofs ------------------------
(* Proofs about DashboardJobs, for any set of jobs and any number of restarts, and   *)
(* about the composition of the services of src/ese that MCEseServices checks: it    *)
(* does what each of its services does, so that what is proved of one holds there.   *)
EXTENDS MCEseServices, EseServices_proofs

USE DEF None, Torn, Unknown, Ended, Status

LEMMA InitInv == Init => IInv
BY BoundAssumption, JobAssumption DEF Init, IInv, TypeOK, Consistent, Persistent, Rank

\* A report of a status that follows the one before.
LEMMA ReportStep ==
  ASSUME IInv, NEW j \in Job, NEW s \in Status, NEW at, Report(j, s, at),
         \/ pc[j] = "idle" /\ s = "queued" /\ at = "starting"
         \/ pc[j] = "queued" /\ s = "running" /\ at = "marking"
         \/ pc[j] = "working" /\ s \in Ended /\ at = "ending"
  PROVE  IInv'
<1>1. /\ lock = None
      /\ table' = [table EXCEPT ![j] = s]
      /\ restarts' = restarts /\ seen' = seen
      /\ \/ /\ lock' = j
            /\ file' = [file EXCEPT ![j] = Torn]
            /\ pc' = [pc EXCEPT ![j] = at]
            /\ spoiled' = spoiled
         \/ /\ spoiled' = spoiled \cup {j}
            /\ pc' = [pc EXCEPT ![j] = "gone"]
            /\ file' \in {file, [file EXCEPT ![j] = Torn]}
            /\ lock' = lock
  BY DEF Report, Free, IInv, TypeOK
<1>2. TypeOK'
  <2>1. at \in {"starting", "marking", "ending"}
    OBVIOUS
  <2>2. table' \in [Job -> Status \cup {None}]
    BY <1>1 DEF IInv, TypeOK
  <2>3. file' \in [Job -> Status \cup {None, Torn}]
    BY <1>1 DEF IInv, TypeOK
  <2>4. pc' \in [Job -> {"idle", "starting", "queued", "marking", "working", "ending", "gone"}]
    BY <1>1, <2>1 DEF IInv, TypeOK
  <2> QED BY <1>1, <2>2, <2>3, <2>4 DEF IInv, TypeOK
<1>3. ASSUME NEW k \in Job
      PROVE  Consistent(k)' /\ (k \notin spoiled' => Persistent(k)')
  <2>1. CASE k # j
    <3>1. /\ table'[k] = table[k] /\ file'[k] = file[k] /\ seen'[k] = seen[k]
          /\ pc'[k] = pc[k] /\ lock # k /\ lock' # k
          /\ k \in spoiled <=> k \in spoiled'
      BY <1>1, <2>1, JobAssumption DEF IInv, TypeOK
    <3> QED BY <3>1 DEF IInv, Consistent, Persistent
  <2>2. CASE k = j
    <3>1. Consistent(j) /\ (j \notin spoiled => Persistent(j))
      BY DEF IInv
    <3>2. table'[j] = s /\ seen'[j] = seen[j]
      BY <1>1 DEF IInv, TypeOK
    <3>3. Consistent(j)'
      BY <1>1, <3>1, <3>2, JobAssumption DEF IInv, TypeOK, Consistent
    <3>4. j \notin spoiled' => Persistent(j)'
      <4> SUFFICES ASSUME j \notin spoiled' PROVE Persistent(j)'
        OBVIOUS
      <4>1. j \notin spoiled /\ lock' = j /\ file'[j] = Torn
        BY <1>1 DEF IInv, TypeOK
      <4>2. Rank(seen[j]) <= Rank(s) /\ seen[j] \notin Ended \cup {Unknown}
        BY <3>1, <4>1 DEF Consistent, Persistent, Rank, IInv, TypeOK
      <4> QED BY <3>2, <4>1, <4>2 DEF Persistent
    <3> QED BY <2>2, <3>3, <3>4
  <2> QED BY <2>1, <2>2
<1> QED BY <1>2, <1>3 DEF IInv

\* The file gets the status of the table, and the lock is free again.
LEMMA PersistedStep == ASSUME IInv, NEW j \in Job, Persisted(j) PROVE IInv'
<1>1. /\ lock = j /\ lock' = None
      /\ file' = [file EXCEPT ![j] = table[j]]
      /\ pc' = [pc EXCEPT ![j] = After(@)]
      /\ table' = table /\ restarts' = restarts /\ seen' = seen /\ spoiled' = spoiled
  BY DEF Persisted
<1>2. Consistent(j) /\ (j \notin spoiled => Persistent(j)) /\ pc[j] \in {"starting", "marking", "ending"}
  BY <1>1 DEF IInv, Consistent
<1>3. After(pc[j]) \in {"queued", "working", "gone"}
  BY <1>2 DEF After
<1>4. TypeOK'
  BY <1>1, <1>3 DEF IInv, TypeOK
<1>5. ASSUME NEW k \in Job
      PROVE  Consistent(k)' /\ (k \notin spoiled' => Persistent(k)')
  <2>1. CASE k # j
    BY <1>1, <2>1, JobAssumption DEF IInv, TypeOK, Consistent, Persistent
  <2>2. CASE k = j
    <3>1. pc'[j] = After(pc[j]) /\ file'[j] = table[j]
      BY <1>1 DEF IInv, TypeOK
    <3>2. Consistent(j)'
      BY <1>1, <1>2, <3>1, JobAssumption DEF Consistent, After
    <3>3. j \notin spoiled' => Persistent(j)'
      BY <1>1, <1>2, <3>1, JobAssumption DEF Persistent, Consistent, After
    <3> QED BY <2>2, <3>2, <3>3
  <2> QED BY <2>1, <2>2
<1> QED BY <1>4, <1>5 DEF IInv

\* What a poll is answered: of a job whose file could be written, the status in the
\* table, or that it is unknown, when its file was cut short.
LEMMA ToldIs ==
  ASSUME IInv, NEW j \in Job, Poll(j)
  PROVE  /\ lock = None /\ pc[j] # "idle" /\ Told(j) \in Status \cup {Unknown}
         /\ table[j] # None => Told(j) = table[j]
         /\ table[j] = None => Told(j) = Unknown /\ pc[j] = "gone"
         /\ table[j] = None /\ j \notin spoiled => file[j] = Torn
<1>1. lock = None /\ pc[j] # "idle" /\ lock # j
  BY JobAssumption DEF Poll, Free, IInv, TypeOK
<1>2. Consistent(j) /\ (j \notin spoiled => Persistent(j))
  BY DEF IInv
<1>3. Told(j) \in Status \cup {Unknown}
  BY DEF Told, IInv, TypeOK
<1>4. table[j] = None => pc[j] = "gone"
  BY <1>1, <1>2 DEF Consistent, IInv, TypeOK
<1>5. table[j] = None /\ j \notin spoiled => file[j] = Torn
  BY <1>1, <1>2 DEF Persistent
<1> QED BY <1>1, <1>3, <1>4, <1>5 DEF Told

LEMMA PollStep == ASSUME IInv, NEW j \in Job, Poll(j) PROVE IInv'
<1>1. /\ seen' = [seen EXCEPT ![j] = Told(j)]
      /\ UNCHANGED <<table, file, lock, pc, restarts, spoiled>>
  BY DEF Poll, store
<1>2. TypeOK'
  BY <1>1, ToldIs DEF IInv, TypeOK
<1>3. ASSUME NEW k \in Job
      PROVE  Consistent(k)' /\ (k \notin spoiled' => Persistent(k)')
  <2>1. CASE k # j
    <3>1. seen'[k] = seen[k]
      BY <1>1, <2>1 DEF IInv, TypeOK
    <3> QED BY <1>1, <3>1 DEF IInv, Consistent, Persistent
  <2>2. CASE k = j
    <3>1. seen'[j] = Told(j)
      BY <1>1 DEF IInv, TypeOK
    <3>2. Consistent(j) /\ (j \notin spoiled => Persistent(j)) /\ lock # j
      BY ToldIs, JobAssumption DEF IInv
    <3>3. Consistent(j)'
      BY <1>1, <3>2, ToldIs DEF Consistent
    <3>4. j \notin spoiled' => Persistent(j)'
      <4> SUFFICES ASSUME j \notin spoiled PROVE Persistent(j)'
        BY <1>1
      <4>1. CASE table[j] = None
        BY <1>1, <3>1, <3>2, <4>1, ToldIs DEF Persistent
      <4>2. CASE table[j] # None
        <5>1. seen'[j] = table[j] /\ table[j] \in Status
          BY <3>1, <4>2, ToldIs DEF IInv, TypeOK
        <5>2. table[j] \in Ended => pc[j] = "gone"
          BY <3>2 DEF Consistent, IInv, TypeOK
        <5>3. Rank(table[j]) <= Rank(table[j])
          BY DEF Rank
        <5> QED BY <1>1, <3>2, <5>1, <5>2, <5>3 DEF Persistent
      <4> QED BY <4>1, <4>2
    <3> QED BY <2>2, <3>3, <3>4
  <2> QED BY <2>1, <2>2
<1> QED BY <1>2, <1>3 DEF IInv

LEMMA RestartStep == ASSUME IInv, Restart PROVE IInv'
<1>1. /\ restarts < MaxRestarts /\ restarts' = restarts + 1
      /\ table' = [j \in Job |-> Loaded(file[j])]
      /\ lock' = None
      /\ pc' = [j \in Job |-> IF pc[j] = "idle" THEN "idle" ELSE "gone"]
      /\ UNCHANGED <<file, seen, spoiled>>
  BY DEF Restart
<1>2. TypeOK'
  BY <1>1, BoundAssumption DEF IInv, TypeOK, Loaded
<1>3. ASSUME NEW k \in Job
      PROVE  Consistent(k)' /\ (k \notin spoiled' => Persistent(k)')
  <2>1. /\ table'[k] = Loaded(file[k]) /\ pc'[k] = (IF pc[k] = "idle" THEN "idle" ELSE "gone")
        /\ Consistent(k) /\ (k \notin spoiled => Persistent(k)) /\ lock' # k
    BY <1>1, JobAssumption DEF IInv
  <2>2. Consistent(k)'
    BY <1>1, <2>1 DEF Consistent, Loaded
  <2>3. k \notin spoiled' => Persistent(k)'
    BY <1>1, <2>1 DEF Persistent, Consistent, Loaded, IInv, TypeOK
  <2> QED BY <2>2, <2>3
<1> QED BY <1>2, <1>3 DEF IInv

-----------------------------------------------------------------------------
\* What table, file, lock and thread of a job say of one another, unless a write
\* of its file failed: an invariant of the store.
THEOREM StoreInvariant == Spec => []IInv
<1>1. Init => IInv
  BY InitInv
<1>2. IInv /\ [Next]_vars => IInv'
  <2> SUFFICES ASSUME IInv, [Next]_vars PROVE IInv'
    OBVIOUS
  <2>1. ASSUME NEW j \in Job, Start(j) PROVE IInv'
    BY <2>1, ReportStep DEF Start
  <2>2. ASSUME NEW j \in Job, MarkRunning(j) PROVE IInv'
    BY <2>2, ReportStep DEF MarkRunning
  <2>3. ASSUME NEW j \in Job, NEW s \in Ended, End(j, s) PROVE IInv'
    BY <2>3, ReportStep DEF End
  <2>4. ASSUME NEW j \in Job, Persisted(j) PROVE IInv'
    BY <2>4, PersistedStep
  <2>5. ASSUME NEW j \in Job, Poll(j) PROVE IInv'
    BY <2>5, PollStep
  <2>6. CASE Restart
    BY <2>6, RestartStep
  <2>7. CASE UNCHANGED vars
    BY <2>7 DEF vars, store, IInv, TypeOK, Consistent, Persistent
  <2> QED BY <2>1, <2>2, <2>3, <2>4, <2>5, <2>6, <2>7 DEF Next, Work
<1> QED BY <1>1, <1>2, PTL DEF Spec

\* The variables of the job store keep their types.
THEOREM JobTypes == Spec => []TypeOK
<1>1. IInv => TypeOK
  BY DEF IInv
<1> QED BY <1>1, StoreInvariant, PTL

\* A result a client has seen survives every restart, wherever the dashboard died.
THEOREM ResultsKept == Spec => []EndedJobsAreKept
<1>1. IInv => EndedJobsAreKept
  <2> SUFFICES ASSUME IInv, NEW j \in Job, seen[j] \in Ended, j \notin spoiled
      PROVE  file[j] = seen[j] /\ table[j] = seen[j]
    BY DEF EndedJobsAreKept
  <2> QED BY DEF IInv, Consistent, Persistent
<1> QED BY <1>1, StoreInvariant, PTL

\* No client sees a job go backwards, whatever restarts lie between its polls; what it is
\* told may only be taken back of a job cut short before it was seen to have ended.
THEOREM Forward == Spec => NeverBackwards
<1>1. IInv /\ [Next]_vars =>
        [\A j \in Job : j \notin spoiled' /\ seen'[j] # seen[j] =>
           /\ seen[j] \notin Ended \cup {Unknown}
           /\ \/ Rank(seen[j]) < Rank(seen'[j])
              \/ seen'[j] = Unknown /\ file[j] = Torn]_vars
  <2> SUFFICES ASSUME IInv, Next, NEW j \in Job, j \notin spoiled', seen'[j] # seen[j]
      PROVE  /\ seen[j] \notin Ended \cup {Unknown}
             /\ \/ Rank(seen[j]) < Rank(seen'[j])
                \/ seen'[j] = Unknown /\ file[j] = Torn
    OBVIOUS
  <2>1. PICK k \in Job : Poll(k)
    BY DEF Next, Work, Start, MarkRunning, End, Report, Persisted, Restart
  <2>2. seen' = [seen EXCEPT ![k] = Told(k)] /\ spoiled' = spoiled
    BY <2>1 DEF Poll
  <2>3. j = k /\ seen'[j] = Told(j)
    BY <2>2 DEF IInv, TypeOK
  <2>4. Persistent(j)
    BY <2>2 DEF IInv
  <2>5. CASE table[j] = None
    <3>1. Told(j) = Unknown /\ file[j] = Torn
      BY <2>1, <2>2, <2>3, <2>5, ToldIs
    <3>2. seen[j] \notin Ended
      BY <2>4, <2>5 DEF Persistent
    <3> QED BY <2>3, <3>1, <3>2
  <2>6. CASE table[j] # None
    <3>1. Told(j) = table[j] /\ table[j] \in Status /\ seen[j] # table[j]
      BY <2>1, <2>3, <2>6, ToldIs DEF IInv, TypeOK
    <3>2. seen[j] # Unknown /\ Rank(seen[j]) <= Rank(table[j]) /\ seen[j] \notin Ended
      BY <2>4, <2>6, <3>1 DEF Persistent
    <3>3. Rank(seen[j]) < Rank(table[j])
      BY <3>1, <3>2 DEF Rank, IInv, TypeOK
    <3> QED BY <2>3, <3>1, <3>2, <3>3
  <2> QED BY <2>5, <2>6
<1> QED BY <1>1, StoreInvariant, PTL DEF Spec, NeverBackwards

(***************************************************************************)
(* The composition                                                         *)
(***************************************************************************)

\* A step of the composition is one of a service, and the others stand still.
LEMMA ServicesStep ==
  ASSUME [ServicesNext]_<<Jobs, Calls, Evidences, Groups, Configs, part>>
  PROVE  /\ [Next]_vars
         /\ [CallsNext]_callVars
         /\ [EvidenceNext]_evidenceVars
         /\ [ExtensionsNext]_extensionVars
         /\ [ConfigNext]_configVars
<1>1. CASE UNCHANGED <<Jobs, Calls, Evidences, Groups, Configs, part>>
  BY <1>1 DEF Jobs, Calls, Evidences, Groups, Configs
<1>2. CASE part = "jobs" /\ Next /\ UNCHANGED <<Calls, Evidences, Groups, Configs>>
  BY <1>2 DEF Calls, Evidences, Groups, Configs
<1>3. CASE part = "calls" /\ CallsNext /\ UNCHANGED <<Jobs, Evidences, Groups, Configs>>
  BY <1>3 DEF Jobs, Evidences, Groups, Configs
<1>4. CASE part = "evidence" /\ EvidenceNext /\ UNCHANGED <<Jobs, Calls, Groups, Configs>>
  BY <1>4 DEF Jobs, Calls, Groups, Configs
<1>5. CASE part = "extensions" /\ ExtensionsNext
             /\ UNCHANGED <<Jobs, Calls, Evidences, Configs>>
  BY <1>5 DEF Jobs, Calls, Evidences, Configs
<1>6. CASE part = "config" /\ ConfigNext /\ UNCHANGED <<Jobs, Calls, Evidences, Groups>>
  BY <1>6 DEF Jobs, Calls, Evidences, Groups
<1> QED BY <1>1, <1>2, <1>3, <1>4, <1>5, <1>6 DEF ServicesNext

\* The services of src/ese share no state: a behaviour of their composition is one of
\* every service, with the fairness of its threads.
THEOREM ServicesAreApart ==
  ServicesSpec => /\ Spec /\ CallsSpec
                  /\ EvidenceSpec /\ ExtensionsSpec /\ ConfigSpec
<1>1. ServicesInit => Init /\ CallsInit /\ EvidenceInit /\ ExtensionsInit /\ ConfigInit
  BY DEF ServicesInit
<1>2. [ServicesNext]_<<Jobs, Calls, Evidences, Groups, Configs, part>> =>
        /\ [Next]_vars
        /\ [CallsNext]_callVars
        /\ [EvidenceNext]_evidenceVars
        /\ [ExtensionsNext]_extensionVars
        /\ [ConfigNext]_configVars
  BY ServicesStep
<1> QED BY <1>1, <1>2, PTL DEF ServicesSpec, Spec, CallsSpec, EvidenceSpec,
                               ExtensionsSpec, ConfigSpec

\* What the evidence files hold is of the type the run checks.
LEMMA EvidenceIsTyped == EvidenceTypes => EvidenceTypeOK
<1> SUFFICES ASSUME EvidenceTypes PROVE EvidenceTypeOK
  OBVIOUS
<1>1. ASSUME NEW d \in Dir
      PROVE  /\ record[d].run \in 0..MaxRun /\ record[d].whole \in BOOLEAN
             /\ record[d].status \in RunStatus \cup {"none"}
             /\ \A k \in DOMAIN record[d].history : record[d].history[k] \in Entries
  <2>1. record[d] \in StateRecord
    BY DEF EvidenceTypes
  <2>2. record[d].history \in Seq(Entries)
    BY <2>1 DEF StateRecord
  <2>3. \A k \in DOMAIN record[d].history : record[d].history[k] \in Entries
    BY <2>2
  <2> QED BY <2>1, <2>3 DEF StateRecord
<1>2. ASSUME NEW o \in Operator PROVE op[o].at \in InHand \cup {"idle", "done", "failed"}
  BY DEF EvidenceTypes, WorkRecord
<1> QED BY <1>1, <1>2 DEF EvidenceTypes, EvidenceTypeOK, Artifacts

\* Every variable of every service of src/ese keeps its type, side by side.
THEOREM ServicesTypes == ServicesSpec => []ServicesTypeOK
<1>1. CallsInv => CallsTypeOK
  BY DEF CallsInv
<1>2. EvidenceInv => EvidenceTypeOK
  BY EvidenceIsTyped DEF EvidenceInv
<1>3. ExtensionsInv => ExtensionsTypeOK
  BY DEF ExtensionsInv
<1>4. ConfigInv => ConfigTypeOK
  BY DEF ConfigInv
<1>5. TypeOK /\ CallsTypeOK /\ EvidenceTypeOK /\ ExtensionsTypeOK /\ ConfigTypeOK
        => ServicesTypeOK
  BY DEF ServicesTypeOK
<1> QED BY <1>1, <1>2, <1>3, <1>4, <1>5, ServicesAreApart, JobTypes, CallsInvariant,
           EvidenceInductive, ExtensionsInductive, ConfigInductive, PTL

\* What is safe of each service is safe of the composition that the run checks: all the
\* properties of EseServices but that jobs and calls end.
THEOREM ServicesHold ==
  ServicesSpec =>
    /\ []EndedJobsAreKept /\ NeverBackwards
    /\ []SentOnlyWhenListed /\ CallIsOneCall
    /\ []EvidenceHolds /\ []InstalledIsHonoured /\ []ConfigsHold
BY ServicesAreApart, ResultsKept, Forward, ListedBeforeSent, CallsAreOneCalls,
   EvidenceKept, Honoured, ConfigsKept, PTL
=============================================================================
