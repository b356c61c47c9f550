------------------------- MODULE EsePipeline_proofs -------------------------
(***************************************************************************)
(* Theorems about the pipeline runner, for any number of runs and roles,   *)
(* any role order, and with or without overlapping runs; the last part is  *)
(* about directories that one invocation uses at a time.                   *)
(***************************************************************************)
EXTENDS EsePipeline, FiniteSetTheorems, SequenceTheorems, WellFoundedInduction,
        TLAPS

\* The first member of a set of naturals.
LEMMA LeastElement ==
  ASSUME NEW S \in SUBSET Nat, S # {}
  PROVE  \E m \in S : \A k \in S : m <= k
<1>1. S \subseteq Nat
  OBVIOUS
<1>2. PICK m \in S : \A k \in S : ~(<<k, m>> \in OpToRel(<, Nat))
  BY <1>1, NatLessThanWellFounded, WFMin
<1>3. \A k \in S : ~(k < m)
  BY <1>1, <1>2 DEF OpToRel
<1> QED
  BY <1>1, <1>3

(***************************************************************************)
(* Batches.                                                                *)
(***************************************************************************)

\* A batch is a set of roles of the order that starts at the pointer.
LEMMA BatchType ==
  ASSUME NEW i \in Nat \ {0}
  PROVE  Batch(i) \subseteq Role /\ (i \in Role => i \in Batch(i))
  BY RoleAssumption DEF Batch, Role

\* A batch is an interval, so its cardinality is the distance the index
\* pointer moves: the scan_pointer loop of run_pipeline.
LEMMA BatchInterval ==
  ASSUME NEW i \in Role
  PROVE  \E m \in (i + 1)..(N + 1) :
           /\ Batch(i) = i..(m - 1)
           /\ i + Cardinality(Batch(i)) = m
<1> DEFINE Out == {k \in (i + 1)..(N + 1) : k \notin Batch(i)}
<1>1. N \in Nat \ {0} /\ i \in Nat /\ i >= 1 /\ i <= N
  BY RoleAssumption DEF Role
<1>2. N + 1 \in Out
  BY <1>1, BatchType DEF Role
<1>3. Out \subseteq Nat
  BY <1>1
<1>4. \E m \in Out : \A k \in Out : m <= k
  <2> HIDE DEF Out
  <2> QED
    BY <1>2, <1>3, LeastElement
<1>5. PICK m \in Out : \A k \in Out : m <= k
  BY <1>4
<1>6. Batch(i) = i..(m - 1)
  <2>1. ASSUME NEW j \in i..(m - 1) PROVE j \in Batch(i)
    <3>1. j = i \/ j \in (i + 1)..(N + 1)
      BY <1>1, <1>5
    <3> QED
      BY <2>1, <3>1, <1>1, <1>5, BatchType
  <2>2. ASSUME NEW j \in Batch(i) PROVE j \in i..(m - 1)
    <3>1. j = i \/ (j \in i..N /\ \A k \in i..j : Parallel(k))
      BY <1>1 DEF Batch
    <3>2. CASE j = i
      BY <3>2, <1>1, <1>5
    <3>3. CASE j \in i..N /\ \A k \in i..j : Parallel(k)
      <4>1. ASSUME j >= m PROVE FALSE
        <5>1. m \in i..N /\ \A k \in i..m : Parallel(k)
          BY <3>3, <4>1, <1>1, <1>5
        <5> QED
          BY <5>1, <1>1, <1>5 DEF Batch
      <4> QED
        BY <3>3, <4>1, <1>1, <1>5
    <3> QED
      BY <3>1, <3>2, <3>3
  <2> QED
    BY <2>1, <2>2
<1>7. Cardinality(Batch(i)) = m - i
  BY <1>1, <1>5, <1>6, FS_Interval
<1> QED
  BY <1>1, <1>5, <1>6, <1>7

(***************************************************************************)
(* Type correctness.                                                       *)
(***************************************************************************)

\* ApplyResults keeps the typed part of a run's memory typed.
LEMMA ApplyResultsType ==
  ASSUME TypeOK, NEW r \in Run, ApplyResults(r)
  PROVE  /\ outputs' \in [Run -> [Role -> Run \cup {NoRun}]]
         /\ results' \in [Run -> Seq([role: Role, high: BOOLEAN])]
<1> DEFINE Rec == [role: Role, high: BOOLEAN]
<1>1. << >> \in Seq(Rec)
  OBVIOUS
<1>2. results' \in [Run -> Seq(Rec)]
  <2> HIDE DEF Rec
  <2>1. results \in [Run -> Seq(Rec)]
    BY DEF TypeOK, Rec
  <2> QED
    BY <1>1, <2>1 DEF ApplyResults
<1>3. [i \in Role |-> IF i \in DoneRoles(r) THEN r ELSE outputs[r][i]]
        \in [Role -> Run \cup {NoRun}]
  BY DEF TypeOK
<1>4. outputs' \in [Run -> [Role -> Run \cup {NoRun}]]
  BY <1>3 DEF TypeOK, ApplyResults
<1> QED
  BY <1>2, <1>4

\* So does returning from run_pipeline.
LEMMA LeaveType ==
  ASSUME TypeOK, NEW r \in Run, NEW how \in Phases, Leave(r, how)
  PROVE  /\ pc' \in [Run -> Phases]
         /\ start' \in [Run -> Role]
         /\ parent' \in [Run -> Run \cup {NoRun}]
         /\ ptr' \in [Run -> Nat \ {0}]
         /\ todo' \in [Run -> SUBSET Role]
         /\ results' \in [Run -> Seq([role: Role, high: BOOLEAN])]
         /\ failed' \in [Run -> SUBSET Role]
         /\ outputs' \in [Run -> [Role -> Run \cup {NoRun}]]
<1> DEFINE Rec == [role: Role, high: BOOLEAN]
<1>1. << >> \in Seq(Rec) /\ 1 \in Role /\ NoOutputs \in [Role -> Run \cup {NoRun}]
  BY RoleAssumption DEF NoOutputs, Role
<1>2. results' \in [Run -> Seq(Rec)]
  <2> HIDE DEF Rec
  <2>1. results \in [Run -> Seq(Rec)]
    BY DEF TypeOK, Rec
  <2> QED
    BY <1>1, <2>1 DEF Leave
<1>3. outputs' \in [Run -> [Role -> Run \cup {NoRun}]]
  BY <1>1 DEF TypeOK, Leave
<1>4. start' \in [Run -> Role] /\ pc' \in [Run -> Phases]
  BY <1>1 DEF TypeOK, Leave
<1>5. parent' \in [Run -> Run \cup {NoRun}] /\ ptr' \in [Run -> Nat \ {0}]
  BY DEF TypeOK, Leave
<1>6. todo' \in [Run -> SUBSET Role] /\ failed' \in [Run -> SUBSET Role]
  BY DEF TypeOK, Leave
<1> QED
  BY <1>2, <1>3, <1>4, <1>5, <1>6

\* Entering the loop.
LEMMA EnterLoopType ==
  ASSUME TypeOK, NEW r \in Run, NEW held \in [Role -> Run \cup {NoRun}],
         NEW exec, NEW p \in Run \cup {NoRun}, NEW unread \in SUBSET Role,
         EnterLoop(r, held, exec, p, unread)
  PROVE  TypeOK'
<1>1. start[r] \in Nat \ {0} /\ Batch(start[r]) \subseteq Role
  <2>1. start[r] \in Nat \ {0}
    BY RoleAssumption DEF TypeOK, Role
  <2> QED
    BY <2>1, BatchType
<1>2. pc' \in [Run -> Phases] /\ ptr' \in [Run -> Nat \ {0}]
  BY <1>1 DEF TypeOK, EnterLoop, Phases
<1>3. todo' \in [Run -> SUBSET Role]
  BY <1>1 DEF TypeOK, EnterLoop
<1>4. outputs' \in [Run -> [Role -> Run \cup {NoRun}]]
  BY DEF TypeOK, EnterLoop
<1>5. parent' \in [Run -> Run \cup {NoRun}]
  BY DEF TypeOK, EnterLoop
<1>6. blank' \in [Run -> SUBSET Role]
  BY DEF TypeOK, EnterLoop
<1> QED
  BY <1>2, <1>3, <1>4, <1>5, <1>6 DEF TypeOK, EnterLoop, diskVars

\* What a run is seeded with: the runs that wrote the reports before its start.
LEMMA SeedsType ==
  ASSUME TypeOK, NEW s \in Role
  PROVE  Seeds(s) \in [Role -> Run \cup {NoRun}]
<1>1. \A i \in Role : disk[i].run \in Run \cup {NoRun}
  BY DEF TypeOK, Report, Missing
<1> QED
  BY <1>1 DEF Seeds

\* A worker killed inside _write leaves an empty report of its run, and the other
\* files as they were.
LEMMA EmptyFiles ==
  ASSUME TypeOK, NEW r \in Run, KillInReport(r)
  PROVE  /\ pc[r] = "working" /\ Leave(r, "torn") /\ UNCHANGED <<ledger, summary>>
         /\ disk' \in [Role -> Report \cup {Missing}]
         /\ \A i \in Role : disk'[i] = disk[i] \/ disk'[i] = EmptyReport(r)
<1>1. PICK S \in (SUBSET InWrite(r)) \ {{}} :
        disk' = [i \in Role |-> IF i \in S THEN EmptyReport(r) ELSE disk[i]]
  BY DEF KillInReport
<1>2. pc[r] = "working"
  <2>1. InWrite(r) # {}
    BY <1>1
  <2> QED
    BY <2>1 DEF InWrite
<1>3. EmptyReport(r) \in Report
  BY DEF EmptyReport, Report
<1> QED
  BY <1>1, <1>2, <1>3 DEF TypeOK, KillInReport

\* TypeOK is inductive.
LEMMA TypeStep == TypeOK /\ [Next]_vars => TypeOK'
<1> SUFFICES ASSUME TypeOK, [Next]_vars PROVE TypeOK'
  OBVIOUS
<1> USE DEF diskVars, setupVars, loopVars
<1>1. ASSUME NEW r \in Run, NEW s \in Role, NEW g \in BOOLEAN, Begin(r, s, g)
      PROVE  TypeOK'
  <2>1. pc' \in [Run -> Phases] /\ gate' \in [Run -> BOOLEAN]
    <3>1. /\ gate' = [gate EXCEPT ![r] = g] \/ gate' = gate
          /\ \E p \in {"resuming", "refused"} : pc' = [pc EXCEPT ![r] = p]
      BY <1>1 DEF Begin
    <3>2. {"resuming", "refused"} \subseteq Phases
      BY DEF Phases
    <3>3. pc' \in [Run -> Phases]
      BY <3>1, <3>2 DEF TypeOK
    <3>4. gate' \in [Run -> BOOLEAN]
      <4>1. gate \in [Run -> BOOLEAN]
        BY DEF TypeOK
      <4> QED
        BY <3>1, <4>1
    <3> QED
      BY <3>3, <3>4
  <2>2. start' \in [Run -> Role] /\ snapshot' \in Run \cup {NoRun}
    <3>1. snapshot' = r /\ (start' = [start EXCEPT ![r] = s] \/ start' = start)
      BY <1>1 DEF Begin
    <3>2. start \in [Run -> Role]
      BY DEF TypeOK
    <3>3. start' \in [Run -> Role]
      BY <3>1, <3>2
    <3> QED
      BY <3>1, <3>3
  <2>3. UNCHANGED <<disk, ledger, summary, parent, loopVars, blank, outcome>>
    BY <1>1 DEF Begin
  <2> QED
    BY <2>1, <2>2, <2>3 DEF TypeOK
<1>2. ASSUME NEW r \in Run, StartFresh(r) PROVE TypeOK'
  <2>1. NoOutputs \in [Role -> Run \cup {NoRun}]
    BY DEF NoOutputs
  <2>2. EnterLoop(r, NoOutputs, << >>, NoRun, {})
    BY <1>2 DEF StartFresh
  <2> QED
    BY <2>1, <2>2, EnterLoopType
<1>3. ASSUME NEW r \in Run, StartSeeded(r) PROVE TypeOK'
  <2> DEFINE held == Seeds(start[r])
  <2>1. held \in [Role -> Run \cup {NoRun}]
    BY SeedsType DEF TypeOK
  <2>2. ledger.run \in Run \cup {NoRun}
    <3>1. ledger \in LedgerFile \/ ledger = NoLedger \/ ledger = TornLedger
      BY DEF TypeOK
    <3>2. CASE ledger \in LedgerFile
      BY <3>2 DEF LedgerFile
    <3> QED
      BY <3>1, <3>2 DEF NoLedger, TornLedger
  <2> HIDE DEF held
  <2>3. \E B \in SUBSET Role : EnterLoop(r, held, [i \in 1..(start[r] - 1) |-> i], ledger.run, B)
    BY <1>3 DEF StartSeeded, held
  <2> QED
    BY <2>1, <2>2, <2>3, EnterLoopType
<1>4. ASSUME NEW r \in Run, RefuseResume(r) PROVE TypeOK'
  <2>1. Leave(r, "refused") /\ UNCHANGED <<disk, ledger, summary>>
    BY <1>4 DEF RefuseResume
  <2> QED
    BY <2>1, LeaveType DEF TypeOK, Phases, Leave
<1>5. ASSUME NEW r \in Run, NEW i \in Role, NEW h \in BOOLEAN, RoleDone(r, i, h)
      PROVE  TypeOK'
  <2>1. NewReport(r, i, h) \in Report
    BY DEF TypeOK, NewReport, Report, Holding, Upstream, Held
  <2>2. disk' \in [Role -> Report \cup {Missing}]
    BY <1>5, <2>1 DEF TypeOK, RoleDone
  <2>3. results' \in [Run -> Seq([role: Role, high: BOOLEAN])]
    <3> DEFINE Rec == [role: Role, high: BOOLEAN]
    <3>1. results \in [Run -> Seq(Rec)] /\ [role |-> i, high |-> h] \in Rec
      BY DEF TypeOK
    <3> HIDE DEF Rec
    <3>2. Append(results[r], [role |-> i, high |-> h]) \in Seq(Rec)
      BY <3>1
    <3>3. results' \in [Run -> Seq(Rec)]
      BY <1>5, <3>1, <3>2 DEF RoleDone
    <3> QED
      BY <3>3 DEF Rec
  <2>4. todo' \in [Run -> SUBSET Role]
    BY <1>5 DEF TypeOK, RoleDone
  <2> QED
    BY <1>5, <2>2, <2>3, <2>4 DEF TypeOK, RoleDone
<1>6. ASSUME NEW r \in Run, NEW i \in Role, RoleFailed(r, i) PROVE TypeOK'
  BY <1>6 DEF TypeOK, RoleFailed
<1>7. ASSUME NEW r \in Run, JoinFailed(r) PROVE TypeOK'
  BY <1>7, ApplyResultsType DEF TypeOK, JoinFailed, Finish, Phases
<1>8. ASSUME NEW r \in Run, JoinGated(r) PROVE TypeOK'
  BY <1>8, ApplyResultsType DEF TypeOK, JoinGated, Finish, Phases
<1>9. ASSUME NEW r \in Run, JoinPassed(r) PROVE TypeOK'
  <2>1. PastBatch(r) \in Nat \ {0}
    <3>1. CASE ptr[r] \in Role
      BY <3>1, BatchInterval, RoleAssumption, SMTT(20) DEF PastBatch, Role
    <3>2. CASE ptr[r] \notin Role
      BY <3>2, FS_EmptySet, RoleAssumption DEF PastBatch, Batch, Role, TypeOK
    <3> QED
      BY <3>1, <3>2
  <2>2. Batch(PastBatch(r)) \subseteq Role
    BY <2>1, BatchType
  <2> QED
    BY <1>9, <2>1, <2>2, ApplyResultsType DEF TypeOK, JoinPassed, Finish, Phases
<1>10. ASSUME NEW r \in Run, WriteSummary(r) PROVE TypeOK'
  BY <1>10 DEF TypeOK, WriteSummary, SummaryFile, Status, Phases
<1>11. ASSUME NEW r \in Run, WriteState(r) PROVE TypeOK'
  <2>1. Leave(r, Status(r)) /\ Status(r) \in {"completed", "failed"}
    BY <1>11 DEF WriteState, Status
  <2>2. ledger' \in LedgerFile
    BY <1>11, <2>1 DEF TypeOK, WriteState, LedgerFile, Holding
  <2> QED
    BY <1>11, <2>1, <2>2, LeaveType DEF TypeOK, WriteState, Phases, Leave
<1>12. ASSUME NEW r \in Run, Kill(r) PROVE TypeOK'
  <2>1. Leave(r, "killed") /\ UNCHANGED disk
    BY <1>12 DEF Kill
  <2>2. /\ ledger' \in LedgerFile \cup {NoLedger, TornLedger}
        /\ summary' \in SummaryFile \cup {NoSummary}
    BY <1>12 DEF TypeOK, Kill
  <2> QED
    BY <2>1, <2>2, LeaveType DEF TypeOK, Phases, Leave
<1>13. ASSUME NEW r \in Run, KillInReport(r) PROVE TypeOK'
  BY <1>13, EmptyFiles, LeaveType DEF TypeOK, Phases, Leave
<1>14. CASE UNCHANGED vars
  BY <1>14 DEF TypeOK, vars
<1> QED
  BY <1>1, <1>2, <1>3, <1>4, <1>5, <1>6, <1>7, <1>8, <1>9, <1>10, <1>11, <1>12,
     <1>13, <1>14 DEF Next, Progress, RoleStep

\* The state keeps its types: files, invocations and what they hold in memory.
THEOREM TypeCorrect == Spec => []TypeOK
<1>1. Init => TypeOK
  BY RoleAssumption DEF Init, TypeOK, Phases, NoOutputs, Role, NoLedger, NoSummary
<1> QED
  BY <1>1, TypeStep, PTL DEF Spec

(***************************************************************************)
(* The loop of run_pipeline.                                               *)
(***************************************************************************)

\* A report is a report, whoever wrote it.
LEMMA ReportNotMissing ==
  ASSUME NEW r \in Run, NEW i \in Role, NEW h \in BOOLEAN
  PROVE  NewReport(r, i, h) # Missing
  BY RunAssumption DEF NewReport, Missing

\* Reports are written by workers, and emptied by those that die writing.
LEMMA DiskWrites ==
  ASSUME [Next]_vars
  PROVE  \/ disk' = disk
         \/ \E r \in Run, i \in Role, h \in BOOLEAN : RoleDone(r, i, h)
         \/ \E r \in Run : KillInReport(r)
<1>1. CASE UNCHANGED vars
  BY <1>1 DEF vars, diskVars
<1>2. CASE Next
  BY <1>2 DEF Next, Progress, RoleStep, Begin, StartFresh, StartSeeded,
       EnterLoop, RefuseResume, RoleFailed, JoinFailed, JoinGated,
       JoinPassed, WriteSummary, WriteState, Kill, diskVars
<1> QED
  BY <1>1, <1>2

\* Files are written, never removed.
LEMMA DiskGrows ==
  ASSUME TypeOK, [Next]_vars
  PROVE  \A i \in Role : disk[i] # Missing => disk'[i] # Missing
<1> USE DEF diskVars, setupVars, loopVars
<1>1. ASSUME NEW r \in Run, NEW i \in Role, NEW h \in BOOLEAN, RoleDone(r, i, h)
      PROVE  \A j \in Role : disk[j] # Missing => disk'[j] # Missing
  BY <1>1, ReportNotMissing DEF RoleDone, TypeOK
<1>2. ASSUME NEW r \in Run, KillInReport(r)
      PROVE  \A j \in Role : disk[j] # Missing => disk'[j] # Missing
  <2>1. EmptyReport(r) # Missing
    BY RunAssumption DEF EmptyReport, Missing
  <2> QED
    BY <1>2, <2>1, EmptyFiles
<1> QED
  BY <1>1, <1>2, DiskWrites

\* Results are results of roles.
LEMMA DoneRolesType ==
  ASSUME TypeOK, NEW r \in Run
  PROVE  DoneRoles(r) \subseteq Role
<1> DEFINE Rec == [role: Role, high: BOOLEAN]
<1>1. results[r] \in Seq(Rec)
  BY DEF TypeOK
<1>2. \A k \in DOMAIN results[r] : results[r][k] \in Rec
  <2> HIDE DEF Rec
  <2> QED
    BY <1>1
<1> QED
  BY <1>2 DEF DoneRoles

\* A run that an action leaves alone keeps its part of the invariant.
LEMMA LoopFrame ==
  ASSUME NEW q \in Run, TypeOK, [Next]_vars, LoopAt(q),
         UNCHANGED <<pc[q], ptr[q], todo[q], results[q], failed[q], outputs[q],
                     outcome[q]>>
  PROVE  LoopAt(q)'
<1>1. DoneRoles(q)' = DoneRoles(q) /\ Holding(q)' = Holding(q)
  BY DEF DoneRoles, Holding
<1>2. Holding(q) \cup DoneRoles(q) \subseteq Role
  BY DoneRolesType DEF Holding
<1>3. \A i \in Role : disk[i] # Missing => disk'[i] # Missing
  BY DiskGrows
<1> QED
  BY <1>1, <1>2, <1>3 DEF LoopAt, InLoop

\* Leaving run_pipeline drops what the run held.
LEMMA LoopLeave ==
  ASSUME NEW r \in Run, TypeOK, NEW how \in Phases, Leave(r, how),
         how \notin {"working", "persisting", "summarised"}
  PROVE  LoopAt(r)'
<1>1. /\ results'[r] = << >> /\ failed'[r] = {} /\ outputs'[r] = NoOutputs
      /\ pc'[r] = how
  BY DEF Leave, TypeOK
<1>2. DoneRoles(r)' = {} /\ Holding(r)' = {}
  BY <1>1 DEF DoneRoles, Holding, NoOutputs
<1> QED
  BY <1>1, <1>2 DEF LoopAt, InLoop

\* Applying a batch's results moves its roles from done to held.
LEMMA Applied ==
  ASSUME TypeOK, NEW r \in Run, ApplyResults(r)
  PROVE  /\ Holding(r)' = Holding(r) \cup DoneRoles(r)
         /\ DoneRoles(r)' = {}
         /\ \A q \in Run : q # r => UNCHANGED <<results[q], outputs[q]>>
<1>1. outputs'[r] = [i \in Role |-> IF i \in DoneRoles(r) THEN r ELSE outputs[r][i]]
  BY DEF ApplyResults, TypeOK
<1>2. results'[r] = << >>
  BY DEF ApplyResults, TypeOK
<1>3. Holding(r)' = Holding(r) \cup DoneRoles(r)
  BY <1>1, DoneRolesType, RunAssumption DEF Holding
<1>4. DoneRoles(r)' = {}
  BY <1>2 DEF DoneRoles
<1>5. \A q \in Run : q # r => UNCHANGED <<results[q], outputs[q]>>
  BY DEF ApplyResults, TypeOK
<1> QED
  BY <1>3, <1>4, <1>5

\* Leaving touches no other run.
LEMMA LeaveOthers ==
  ASSUME TypeOK, NEW r \in Run, NEW how, Leave(r, how), NEW q \in Run, q # r
  PROVE  UNCHANGED <<pc[q], ptr[q], todo[q], results[q], failed[q], outputs[q],
                     outcome[q]>>
  BY DEF Leave, TypeOK

\* When a failed batch is joined, everything before its first failed role is held.
LEMMA FirstFailed ==
  ASSUME TypeOK, NEW r \in Run, LoopAt(r), BatchOver(r), failed[r] # {}
  PROVE  \E s \in failed[r] : 1..(s - 1) \subseteq Holding(r) \cup DoneRoles(r)
<1>1. /\ ptr[r] \in Role /\ Holding(r) = 1..(ptr[r] - 1)
      /\ DoneRoles(r) \cup failed[r] = Batch(ptr[r])
  BY DEF LoopAt, BatchOver
<1>2. failed[r] \in SUBSET Nat
  BY DEF TypeOK, Role
<1>3. PICK s \in failed[r] : \A k \in failed[r] : s <= k
  BY <1>2, LeastElement
<1>4. PICK m \in (ptr[r] + 1)..(N + 1) : Batch(ptr[r]) = ptr[r]..(m - 1)
  BY <1>1, BatchInterval
<1>5. ASSUME NEW k \in 1..(s - 1) PROVE k \in Holding(r) \cup DoneRoles(r)
  <2>1. ptr[r] \in Nat /\ s \in Nat /\ k \in Nat /\ N \in Nat
    BY <1>1, <1>2, RoleAssumption DEF Role
  <2>2. k \notin failed[r]
    BY <1>3, <2>1
  <2>3. s \in Batch(ptr[r])
    BY <1>1, <1>3
  <2>4. CASE k < ptr[r]
    BY <1>1, <2>1, <2>4
  <2>5. CASE k >= ptr[r]
    <3>1. k \in Batch(ptr[r])
      BY <1>4, <2>1, <2>3, <2>5
    <3> QED
      BY <1>1, <2>2, <3>1
  <2> QED
    BY <2>1, <2>4, <2>5
<1> QED
  BY <1>3, <1>5

\* A batch whose roles all succeeded extends what is held up to the new pointer.
LEMMA BatchPassed ==
  ASSUME TypeOK, NEW r \in Run, LoopAt(r), BatchOver(r), failed[r] = {}
  PROVE  /\ PastBatch(r) \in 1..(N + 1)
         /\ Holding(r) \cup DoneRoles(r) = 1..(PastBatch(r) - 1)
<1>1. /\ ptr[r] \in Role /\ Holding(r) = 1..(ptr[r] - 1)
      /\ DoneRoles(r) = Batch(ptr[r])
  BY DEF LoopAt, BatchOver
<1>2. /\ Batch(ptr[r]) = ptr[r]..(PastBatch(r) - 1)
      /\ PastBatch(r) \in (ptr[r] + 1)..(N + 1)
  BY <1>1, BatchInterval DEF PastBatch
<1> QED
  BY <1>1, <1>2, RoleAssumption DEF Role

\* A finished role joins the batch's results, and a blocking report stays known.
LEMMA DoneGrows ==
  ASSUME TypeOK, NEW r \in Run, NEW i \in Role, NEW h \in BOOLEAN, RoleDone(r, i, h)
  PROVE  /\ DoneRoles(r)' = DoneRoles(r) \cup {i}
         /\ HasBlocker(r)' <=> (HasBlocker(r) \/ h)
<1> DEFINE Rec == [role: Role, high: BOOLEAN]
           x == [role |-> i, high |-> h]
<1>1. results[r] \in Seq(Rec) /\ x \in Rec
  BY DEF TypeOK
<1>2. results'[r] = Append(results[r], x)
  BY DEF RoleDone, TypeOK
<1>3. /\ Len(results[r]) \in Nat
      /\ DOMAIN results[r] = 1..Len(results[r])
      /\ DOMAIN results'[r] = 1..(Len(results[r]) + 1)
      /\ \A k \in 1..Len(results[r]) : results'[r][k] = results[r][k]
      /\ results'[r][Len(results[r]) + 1] = x
  <2> HIDE DEF Rec, x
  <2> QED
    BY <1>1, <1>2
<1>4. /\ DOMAIN results'[r] = DOMAIN results[r] \cup {Len(results[r]) + 1}
      /\ \A k \in DOMAIN results[r] : results'[r][k] = results[r][k]
  BY <1>3
<1>5. DoneRoles(r)' = DoneRoles(r) \cup {i}
  BY <1>3, <1>4 DEF DoneRoles
<1>6. HasBlocker(r)' <=> (HasBlocker(r) \/ h)
  BY <1>3, <1>4, SMTT(20) DEF HasBlocker
<1> QED
  BY <1>5, <1>6

\* The loop part of the invariant is preserved by every step.
LEMMA LoopStep ==
  ASSUME TypeOK, LoopInv, TypeOK', [Next]_vars
  PROVE  LoopInv'
<1> USE DEF diskVars, setupVars, loopVars
<1> SUFFICES ASSUME NEW q \in Run PROVE LoopAt(q)'
  BY DEF LoopInv
<1>0. LoopAt(q) /\ (\A i \in Role : disk[i] # Missing => disk'[i] # Missing)
  BY DiskGrows DEF LoopInv
<1>a. DoneRoles(q) \subseteq Role /\ Holding(q) \subseteq Role
  BY DoneRolesType DEF Holding
<1>1. ASSUME NEW r \in Run, NEW s \in Role, NEW g \in BOOLEAN, Begin(r, s, g)
      PROVE  LoopAt(q)'
  <2>1. UNCHANGED <<ptr[q], todo[q], results[q], failed[q], outputs[q], outcome[q]>>
    BY <1>1 DEF Begin
  <2>2. CASE q # r
    <3>1. UNCHANGED pc[q]
      BY <1>1, <2>2 DEF Begin, TypeOK
    <3> QED
      BY <2>1, <3>1, <1>0, LoopFrame
  <2>3. CASE q = r
    <3>1. pc[q] = "idle" /\ pc'[q] \in {"resuming", "refused"}
      BY <1>1, <2>3 DEF Begin, TypeOK
    <3>2. DoneRoles(q)' = DoneRoles(q) /\ Holding(q)' = Holding(q)
      BY <2>1 DEF DoneRoles, Holding
    <3> QED
      BY <2>1, <3>1, <3>2, <1>0 DEF LoopAt, InLoop
  <2> QED
    BY <2>2, <2>3
<1>2. ASSUME NEW r \in Run, RefuseResume(r) \/ WriteState(r) \/ Kill(r) \/ KillInReport(r)
      PROVE  LoopAt(q)'
  <2>1. PICK how \in {"refused", "completed", "failed", "killed", "torn"} : Leave(r, how)
    BY <1>2 DEF RefuseResume, WriteState, Kill, KillInReport, Status
  <2>2. CASE q # r
    BY <2>1, <2>2, <1>0, LeaveOthers, LoopFrame
  <2>3. CASE q = r
    BY <2>1, <2>3, LoopLeave DEF Phases
  <2> QED
    BY <2>2, <2>3
<1>3. ASSUME NEW r \in Run, WriteSummary(r) PROVE LoopAt(q)'
  <2>1. UNCHANGED <<ptr[q], todo[q], results[q], failed[q], outputs[q], outcome[q]>>
    BY <1>3 DEF WriteSummary
  <2>2. CASE q # r
    <3>1. UNCHANGED pc[q]
      BY <1>3, <2>2 DEF WriteSummary, TypeOK
    <3> QED
      BY <2>1, <3>1, <1>0, LoopFrame
  <2>3. CASE q = r
    <3>1. pc[q] = "persisting" /\ pc'[q] = "summarised"
      BY <1>3, <2>3 DEF WriteSummary, TypeOK
    <3>2. DoneRoles(q)' = DoneRoles(q) /\ Holding(q)' = Holding(q)
      BY <2>1 DEF DoneRoles, Holding
    <3> QED
      BY <2>1, <3>1, <3>2, <1>0, <1>a DEF LoopAt, InLoop
  <2> QED
    BY <2>2, <2>3
<1>4. ASSUME NEW r \in Run, NEW held \in [Role -> Run \cup {NoRun}], NEW exec,
             NEW p, NEW unread, EnterLoop(r, held, exec, p, unread), pc[r] = "resuming",
             start[r] \in Role,
             {i \in Role : held[i] # NoRun} = 1..(start[r] - 1),
             \A i \in 1..(start[r] - 1) : disk[i] # Missing
      PROVE  LoopAt(q)'
  <2>1. UNCHANGED <<results, failed, outcome, disk>>
    BY <1>4 DEF EnterLoop
  <2>2. CASE q # r
    <3>1. UNCHANGED <<pc[q], ptr[q], todo[q], outputs[q]>>
      BY <1>4, <2>2 DEF EnterLoop, TypeOK
    <3> QED
      BY <2>1, <3>1, <1>0, LoopFrame
  <2>3. CASE q = r
    <3>1. /\ pc'[q] = "working" /\ ptr'[q] = start[q]
          /\ todo'[q] = Batch(start[q]) /\ outputs'[q] = held
      BY <1>4, <2>3 DEF EnterLoop, TypeOK
    <3>2. DoneRoles(q)' = {} /\ failed'[q] = {}
      <4>1. DoneRoles(q) = {} /\ failed[q] = {}
        BY <1>4, <2>3, <1>0 DEF LoopAt, InLoop
      <4>2. DoneRoles(q)' = DoneRoles(q) /\ failed' = failed
        BY <2>1 DEF DoneRoles
      <4> QED
        BY <4>1, <4>2
    <3>3. Holding(q)' = 1..(start[q] - 1)
      BY <1>4, <2>3, <3>1 DEF Holding
    <3> QED
      BY <1>4, <2>1, <2>3, <3>1, <3>2, <3>3 DEF LoopAt, InLoop
  <2> QED
    BY <2>2, <2>3
<1>5. ASSUME NEW r \in Run, StartFresh(r) PROVE LoopAt(q)'
  <2>1. NoOutputs \in [Role -> Run \cup {NoRun}] /\ start[r] \in Role
    BY DEF NoOutputs, TypeOK
  <2>2. EnterLoop(r, NoOutputs, << >>, NoRun, {}) /\ pc[r] = "resuming" /\ start[r] = 1
    BY <1>5 DEF StartFresh
  <2>3. {i \in Role : NoOutputs[i] # NoRun} = {} /\ 1..(start[r] - 1) = {}
    BY <2>2 DEF NoOutputs
  <2> QED
    BY <2>1, <2>2, <2>3, <1>4
<1>6. ASSUME NEW r \in Run, StartSeeded(r) PROVE LoopAt(q)'
  <2> DEFINE held == Seeds(start[r])
  <2>1. /\ \E B \in SUBSET Role : EnterLoop(r, held, [i \in 1..(start[r] - 1) |-> i], ledger.run, B)
        /\ pc[r] = "resuming" /\ CanResume(start[r])
    BY <1>6 DEF StartSeeded
  <2>2. held \in [Role -> Run \cup {NoRun}] /\ start[r] \in Role
    BY SeedsType DEF TypeOK
  <2>3. \A i \in 1..(start[r] - 1) : disk[i] # Missing /\ i \in Role
    BY <2>1, <2>2, RoleAssumption DEF CanResume, Found, Role
  <2>4. \A i \in 1..(start[r] - 1) : disk[i].run \in Run
    BY <2>3 DEF TypeOK, Report
  <2>5. {i \in Role : held[i] # NoRun} = 1..(start[r] - 1)
    BY <2>2, <2>3, <2>4, RunAssumption, RoleAssumption DEF Role, Seeds
  <2> HIDE DEF held
  <2> QED
    BY <2>1, <2>2, <2>3, <2>5, <1>4
<1>7. ASSUME NEW r \in Run, NEW i \in Role, NEW h \in BOOLEAN, RoleDone(r, i, h)
      PROVE  LoopAt(q)'
  <2>1. UNCHANGED <<pc, ptr, failed, outputs, outcome>>
    BY <1>7 DEF RoleDone
  <2>2. CASE q # r
    <3>1. UNCHANGED <<todo[q], results[q]>>
      BY <1>7, <2>2 DEF RoleDone, TypeOK
    <3> QED
      BY <2>1, <3>1, <1>0, LoopFrame
  <2>3. CASE q = r
    <3>1. pc[q] = "working" /\ i \in todo[q] /\ todo'[q] = todo[q] \ {i}
      BY <1>7, <2>3 DEF RoleDone, Begun, TypeOK
    <3>2. DoneRoles(q)' = DoneRoles(q) \cup {i}
      BY <1>7, <2>3, DoneGrows
    <3>3. disk'[i] # Missing
      BY <1>7, ReportNotMissing DEF RoleDone, TypeOK
    <3>4. Holding(q)' = Holding(q)
      BY <2>1 DEF Holding
    <3> QED
      BY <2>1, <3>1, <3>2, <3>3, <3>4, <1>0, <1>a DEF LoopAt, InLoop
  <2> QED
    BY <2>2, <2>3
<1>8. ASSUME NEW r \in Run, NEW i \in Role, RoleFailed(r, i) PROVE LoopAt(q)'
  <2>1. UNCHANGED <<pc, ptr, results, outputs, outcome>>
    BY <1>8 DEF RoleFailed
  <2>2. CASE q # r
    <3>1. UNCHANGED <<todo[q], failed[q]>>
      BY <1>8, <2>2 DEF RoleFailed, TypeOK
    <3> QED
      BY <2>1, <3>1, <1>0, LoopFrame
  <2>3. CASE q = r
    <3>1. /\ pc[q] = "working" /\ i \in todo[q] /\ todo'[q] = todo[q] \ {i}
          /\ failed'[q] = failed[q] \cup {i}
      BY <1>8, <2>3 DEF RoleFailed, Begun, TypeOK
    <3>2. DoneRoles(q)' = DoneRoles(q) /\ Holding(q)' = Holding(q)
      BY <2>1 DEF DoneRoles, Holding
    <3> QED
      BY <2>1, <3>1, <3>2, <1>0, <1>a DEF LoopAt, InLoop
  <2> QED
    BY <2>2, <2>3
<1>9. ASSUME NEW r \in Run, JoinFailed(r) \/ JoinGated(r) PROVE LoopAt(q)'
  <2>1. /\ BatchOver(r) /\ ApplyResults(r)
        /\ Finish(r, "failed") \/ (Finish(r, "gated") /\ failed[r] = {})
        /\ UNCHANGED <<ptr, todo, failed>>
    <3>1. CASE JoinFailed(r)
      BY <3>1 DEF JoinFailed
    <3>2. CASE JoinGated(r)
      BY <3>2 DEF JoinGated
    <3> QED
      BY <1>9, <3>1, <3>2
  <2>2. CASE q # r
    <3>1. UNCHANGED <<pc[q], outcome[q]>>
      BY <2>1, <2>2 DEF Finish, TypeOK
    <3> QED
      BY <2>1, <2>2, <3>1, <1>0, Applied, LoopFrame
  <2>3. CASE q = r
    <3>1. pc'[q] = "persisting" /\ outcome'[q] \in {"failed", "gated"}
      BY <2>1, <2>3 DEF Finish, TypeOK
    <3>2. Holding(q)' = Holding(q) \cup DoneRoles(q) /\ DoneRoles(q)' = {}
      BY <2>1, <2>3, Applied
    <3>3. failed[q] # {} => \E s \in failed[q] : 1..(s - 1) \subseteq Holding(q)'
      BY <2>1, <2>3, <3>2, <1>0, FirstFailed
    <3> QED
      BY <2>1, <3>1, <3>2, <3>3, <1>0, <1>a DEF LoopAt, InLoop
  <2> QED
    BY <2>2, <2>3
<1>10. ASSUME NEW r \in Run, JoinPassed(r) PROVE LoopAt(q)'
  <2>1. /\ BatchOver(r) /\ ApplyResults(r) /\ failed[r] = {} /\ UNCHANGED failed
        /\ ptr' = [ptr EXCEPT ![r] = PastBatch(r)]
        /\ todo' = [todo EXCEPT ![r] = Batch(PastBatch(r))]
        /\ IF PastBatch(r) > N THEN Finish(r, "completed") ELSE UNCHANGED <<pc, outcome>>
    BY <1>10 DEF JoinPassed
  <2>2. CASE q # r
    <3>1. UNCHANGED <<pc[q], outcome[q], ptr[q], todo[q], failed[q]>>
      BY <2>1, <2>2 DEF Finish, TypeOK
    <3> QED
      BY <2>1, <2>2, <3>1, <1>0, Applied, LoopFrame
  <2>3. CASE q = r
    <3>1. Holding(q)' = Holding(q) \cup DoneRoles(q) /\ DoneRoles(q)' = {}
      BY <2>1, <2>3, Applied
    <3>2. PastBatch(q) \in 1..(N + 1) /\ Holding(q)' = 1..(PastBatch(q) - 1)
      BY <2>1, <2>3, <3>1, <1>0, BatchPassed
    <3>3. CASE PastBatch(q) > N
      <4>1. pc'[q] = "persisting" /\ outcome'[q] = "completed" /\ failed'[q] = {}
        BY <2>1, <2>3, <3>3 DEF Finish, TypeOK
      <4>2. Holding(q)' = Role
        BY <3>2, <3>3, RoleAssumption DEF Role
      <4> QED
        BY <4>1, <4>2, <3>1, <1>0, <1>a DEF LoopAt, InLoop
    <3>4. CASE ~(PastBatch(q) > N)
      <4>1. /\ pc'[q] = pc[q] /\ failed'[q] = {} /\ ptr'[q] = PastBatch(q)
            /\ todo'[q] = Batch(PastBatch(q))
        BY <2>1, <2>3, <3>4 DEF TypeOK
      <4>2. pc[q] = "working"
        BY <2>1, <2>3 DEF BatchOver
      <4>3. PastBatch(q) \in Role
        BY <3>2, <3>4, RoleAssumption DEF Role
      <4> QED
        BY <4>1, <4>2, <4>3, <3>1, <3>2, <1>0, <1>a DEF LoopAt, InLoop
    <3> QED
      BY <3>3, <3>4
  <2> QED
    BY <2>2, <2>3
<1>11. CASE UNCHANGED vars
  BY <1>11, <1>0, LoopFrame DEF vars
<1> QED
  BY <1>1, <1>2, <1>3, <1>5, <1>6, <1>7, <1>8, <1>9, <1>10, <1>11
     DEF Next, Progress, RoleStep
(***************************************************************************)
(* What the state file says.                                               *)
(***************************************************************************)

\* A state file a rerun can read is one a run wrote whole.
LEMMA LedgerType ==
  ASSUME TypeOK, HasLedger
  PROVE  ledger \in LedgerFile
  BY DEF TypeOK, HasLedger, NoLedger, TornLedger

\* A step that leaves the state file alone leaves what it says true.
LEMMA LedgerFrame ==
  ASSUME TypeOK, LedgerInv, [Next]_vars, ledger' = ledger
  PROVE  LedgerInv'
<1>1. SUFFICES ASSUME HasLedger PROVE LedgerInv'
  BY DEF LedgerInv, CompletedIsWhole, FirstFailedIsResumable, HasLedger
<1>2. \A i \in Role : disk[i] # Missing => disk'[i] # Missing
  BY DiskGrows
<1>3. ledger.artifacts \subseteq Role /\ ledger.failed \subseteq Role
  BY <1>1, LedgerType DEF LedgerFile
<1>4. \A i \in ledger.artifacts : disk'[i] # Missing
  BY <1>1, <1>2, <1>3 DEF LedgerInv
<1>5. CompletedIsWhole'
  BY <1>1, <1>2, <1>3 DEF LedgerInv, CompletedIsWhole, HasLedger
<1>6. AbsoluteDir => FirstFailedIsResumable'
  <2>1. SUFFICES ASSUME AbsoluteDir, ledger.failed # {}
                 PROVE  \E s \in ledger.failed : CanResume(s)'
    BY DEF FirstFailedIsResumable
  <2>2. PICK s \in ledger.failed : CanResume(s)
    BY <1>1, <2>1 DEF LedgerInv, FirstFailedIsResumable
  <2>3. CanResume(s)'
    BY <1>4, <2>2 DEF CanResume, Found, HasLedger
  <2> QED
    BY <2>3
<1> QED
  BY <1>4, <1>5, <1>6 DEF LedgerInv

\* The state file is only ever replaced by what a finished run holds.
LEMMA LedgerStep ==
  ASSUME TypeOK, LoopInv, LedgerInv, [Next]_vars
  PROVE  LedgerInv'
<1>1. ASSUME NEW r \in Run, WriteState(r) PROVE LedgerInv'
  <2>1. /\ pc[r] = "summarised" /\ disk' = disk
        /\ ledger'.run = r /\ ledger'.status = Status(r)
        /\ ledger'.artifacts = Holding(r) /\ ledger'.failed = failed[r]
    BY <1>1 DEF WriteState, Leave
  <2>2. /\ outcome[r] = "completed" => Holding(r) = Role /\ failed[r] = {}
        /\ failed[r] # {} => \E s \in failed[r] : 1..(s - 1) \subseteq Holding(r)
        /\ \A i \in Holding(r) : disk[i] # Missing
    BY <2>1 DEF LoopInv, LoopAt
  <2>3. HasLedger'
    BY <2>1, RunAssumption DEF HasLedger
  <2>4. CompletedIsWhole'
    BY <2>1, <2>2 DEF CompletedIsWhole, Status
  <2>5. AbsoluteDir => FirstFailedIsResumable'
    BY <2>1, <2>2, <2>3 DEF FirstFailedIsResumable, CanResume, Found
  <2> QED
    BY <2>1, <2>2, <2>4, <2>5 DEF LedgerInv
<1>2. ASSUME NEW r \in Run, Kill(r), ledger' # ledger PROVE LedgerInv'
  <2>1. ledger' = TornLedger
    BY <1>2 DEF Kill
  <2>2. ~HasLedger'
    BY <2>1 DEF HasLedger, TornLedger
  <2> QED
    BY <2>2 DEF LedgerInv, CompletedIsWhole, FirstFailedIsResumable
<1>3. ASSUME ~ \E r \in Run : WriteState(r) \/ (Kill(r) /\ ledger' # ledger)
      PROVE  ledger' = ledger
  <2>1. CASE UNCHANGED vars
    BY <2>1 DEF vars, diskVars
  <2>2. CASE Next
    BY <1>3, <2>2 DEF Next, Progress, RoleStep, Begin, StartFresh, StartSeeded,
         EnterLoop, RefuseResume, RoleDone, RoleFailed, JoinFailed, JoinGated,
         JoinPassed, WriteSummary, KillInReport, diskVars
  <2> QED
    BY <2>1, <2>2
<1> QED
  BY <1>1, <1>2, <1>3, LedgerFrame

(***************************************************************************)
(* Blocking findings.                                                      *)
(***************************************************************************)

\* A report whose file and whose run a step leaves alone.
LEMMA BlockerFrame ==
  ASSUME NEW i \in Role, BlockerAt(i), disk'[i] = disk[i], disk[i] # Missing,
         UNCHANGED <<pc[disk[i].run], gate[disk[i].run], results[disk[i].run],
                     outcome[disk[i].run]>>
  PROVE  BlockerAt(i)'
<1>1. disk'[i].run = disk[i].run
  OBVIOUS
<1>2. HasBlocker(disk[i].run)' <=> HasBlocker(disk[i].run)
  BY DEF HasBlocker
<1> QED
  BY <1>1, <1>2 DEF BlockerAt

\* A blocking report of a gated run keeps that run from completing.
LEMMA BlockerStep ==
  ASSUME TypeOK, BlockerInv, [Next]_vars
  PROVE  BlockerInv'
<1> USE DEF diskVars, setupVars, loopVars
<1> SUFFICES ASSUME NEW i \in Role, disk'[i] # Missing PROVE BlockerAt(i)'
  BY DEF BlockerInv, BlockerAt
<1>1. ASSUME NEW r \in Run, NEW j \in Role, NEW h \in BOOLEAN, RoleDone(r, j, h)
      PROVE  BlockerAt(i)'
  <2>1. /\ UNCHANGED <<pc, gate, outcome>> /\ pc[r] = "working"
        /\ \A p \in Run : p # r => results'[p] = results[p]
    BY <1>1 DEF RoleDone, TypeOK
  <2>2. HasBlocker(r)' <=> (HasBlocker(r) \/ h)
    BY <1>1, DoneGrows
  <2>3. CASE i = j
    <3>1. disk'[i].run = r /\ disk'[i].high = h
      BY <1>1, <2>3 DEF RoleDone, NewReport, TypeOK
    <3>2. HasBlocker(disk[i].run)' <=> HasBlocker(r)'
      BY <3>1 DEF HasBlocker
    <3> QED
      BY <2>1, <2>2, <3>1, <3>2 DEF BlockerAt
  <2>4. CASE i # j
    <3>1. disk'[i] = disk[i]
      BY <1>1, <2>4 DEF RoleDone, TypeOK
    <3>2. PICK q \in Run : q = disk[i].run
      BY <3>1 DEF TypeOK, Report
    <3>5. disk[i] # Missing /\ BlockerAt(i) /\ disk'[i].run = q
      BY <3>1, <3>2 DEF BlockerInv
    <3>3. CASE q # r
      BY <2>1, <3>1, <3>2, <3>3, <3>5, BlockerFrame
    <3>4. CASE q = r
      <4>1. HasBlocker(disk[i].run)' <=> HasBlocker(r)'
        BY <3>4, <3>5 DEF HasBlocker
      <4> QED
        BY <2>1, <2>2, <3>1, <3>2, <3>4, <3>5, <4>1 DEF BlockerAt
    <3> QED
      BY <3>3, <3>4
  <2> QED
    BY <2>3, <2>4
<1>2. ASSUME disk' = disk \/ \E r \in Run : KillInReport(r), disk'[i] = disk[i]
      PROVE  BlockerAt(i)'
  <2>0. disk[i] # Missing /\ BlockerAt(i) /\ disk'[i] = disk[i]
    BY <1>2 DEF BlockerInv
  <2>1. PICK q \in Run : q = disk[i].run
    BY <2>0 DEF TypeOK, Report
  <2>2. /\ pc[q] \notin {"idle", "resuming", "refused"}
        /\ disk[i].high /\ gate[q] =>
             \/ pc[q] = "working" /\ HasBlocker(q)
             \/ pc[q] \in {"persisting", "summarised"} /\ outcome[q] # "completed"
             \/ pc[q] \in {"failed", "killed", "torn"}
    BY <2>0, <2>1 DEF BlockerAt
  <2>3. ASSUME UNCHANGED <<pc[q], gate[q], results[q], outcome[q]>>
        PROVE  BlockerAt(i)'
    BY <2>0, <2>1, <2>3, BlockerFrame
  <2>4. ASSUME pc'[q] \notin {"idle", "resuming", "refused"}, gate'[q] = gate[q],
               disk[i].high /\ gate[q] =>
                 \/ pc'[q] \in {"persisting", "summarised"} /\ outcome'[q] # "completed"
                 \/ pc'[q] \in {"failed", "killed", "torn"}
        PROVE  BlockerAt(i)'
    BY <2>0, <2>1, <2>4 DEF BlockerAt
  <2>5. ASSUME NEW r \in Run, NEW s \in Role, NEW g \in BOOLEAN, Begin(r, s, g)
        PROVE  BlockerAt(i)'
    <3>1. q # r
      BY <2>2, <2>5 DEF Begin
    <3>2. UNCHANGED <<pc[q], gate[q], results[q], outcome[q]>>
      BY <2>1, <2>5, <3>1 DEF Begin, TypeOK
    <3> QED
      BY <2>3, <3>2
  <2>6. ASSUME NEW r \in Run, StartFresh(r) \/ StartSeeded(r) PROVE BlockerAt(i)'
    <3>1. q # r
      BY <2>2, <2>6 DEF StartFresh, StartSeeded
    <3>2. UNCHANGED <<pc[q], gate[q], results[q], outcome[q]>>
      BY <2>1, <2>6, <3>1 DEF StartFresh, StartSeeded, EnterLoop, TypeOK
    <3> QED
      BY <2>3, <3>2
  <2>7. ASSUME NEW r \in Run, RefuseResume(r) \/ WriteState(r) \/ Kill(r) \/ KillInReport(r)
        PROVE  BlockerAt(i)'
    <3>1. PICK how \in Phases : Leave(r, how)
      BY <2>7 DEF RefuseResume, WriteState, Kill, KillInReport, Status, Phases
    <3>2. CASE q # r
      <4>1. UNCHANGED <<pc[q], gate[q], results[q], outcome[q]>>
        BY <2>1, <3>1, <3>2 DEF Leave, TypeOK
      <4> QED
        BY <2>3, <4>1
    <3>3. CASE q = r
      <4>1. gate' = gate /\ outcome' = outcome
        BY <3>1 DEF Leave
      <4>2. CASE RefuseResume(r)
        BY <2>2, <3>3, <4>2 DEF RefuseResume
      <4>3. CASE WriteState(r)
        <5>1. pc[q] = "summarised" /\ pc'[q] = Status(q)
          BY <3>3, <4>3 DEF WriteState, Leave, TypeOK
        <5> QED
          BY <2>2, <2>4, <4>1, <5>1 DEF Status
      <4>4. CASE Kill(r)
        <5>1. pc'[q] = "killed"
          BY <3>3, <4>4 DEF Kill, Leave, TypeOK
        <5> QED
          BY <2>4, <4>1, <5>1
      <4>5. CASE KillInReport(r)
        <5>1. pc'[q] = "torn"
          BY <3>3, <4>5 DEF KillInReport, Leave, TypeOK
        <5> QED
          BY <2>4, <4>1, <5>1
      <4> QED
        BY <2>7, <4>2, <4>3, <4>4, <4>5
    <3> QED
      BY <3>2, <3>3
  <2>8. ASSUME NEW r \in Run, NEW j \in Role, RoleFailed(r, j) PROVE BlockerAt(i)'
    <3>1. UNCHANGED <<pc[q], gate[q], results[q], outcome[q]>>
      BY <2>8 DEF RoleFailed
    <3> QED
      BY <2>3, <3>1
  <2>9. ASSUME NEW r \in Run, JoinFailed(r) \/ JoinGated(r) \/ JoinPassed(r)
        PROVE  BlockerAt(i)'
    <3>1. ApplyResults(r) /\ gate' = gate /\ pc[r] = "working"
      BY <2>9 DEF JoinFailed, JoinGated, JoinPassed, BatchOver
    <3>2. CASE q # r
      <4>1. UNCHANGED <<pc[q], outcome[q]>>
        BY <2>1, <2>9, <3>2 DEF JoinFailed, JoinGated, JoinPassed, Finish, TypeOK
      <4>2. UNCHANGED results[q]
        BY <2>1, <3>1, <3>2, Applied
      <4> QED
        BY <2>3, <3>1, <4>1, <4>2
    <3>3. CASE q = r /\ (JoinFailed(r) \/ JoinGated(r))
      <4>1. pc'[q] = "persisting" /\ outcome'[q] \in {"failed", "gated"}
        BY <3>3 DEF JoinFailed, JoinGated, Finish, TypeOK
      <4> QED
        BY <2>4, <3>1, <4>1
    <3>4. CASE q = r /\ JoinPassed(r)
      <4>1. ~(disk[i].high /\ gate[q])
        BY <2>2, <3>1, <3>4 DEF JoinPassed
      <4>2. pc'[q] \in {"working", "persisting"}
        BY <3>1, <3>4 DEF JoinPassed, Finish, TypeOK
      <4> QED
        BY <2>4, <3>1, <4>1, <4>2
    <3> QED
      BY <2>9, <3>2, <3>3, <3>4
  <2>10. ASSUME NEW r \in Run, WriteSummary(r) PROVE BlockerAt(i)'
    <3>1. UNCHANGED <<gate, results, outcome>>
      BY <2>10 DEF WriteSummary
    <3>2. CASE q # r
      <4>1. UNCHANGED pc[q]
        BY <2>1, <2>10, <3>2 DEF WriteSummary, TypeOK
      <4> QED
        BY <2>3, <3>1, <4>1
    <3>3. CASE q = r
      <4>1. pc[q] = "persisting" /\ pc'[q] = "summarised"
        BY <2>10, <3>3 DEF WriteSummary, TypeOK
      <4> QED
        BY <2>2, <2>4, <3>1, <4>1
    <3> QED
      BY <3>2, <3>3
  <2>11. CASE UNCHANGED vars
    BY <2>3, <2>11 DEF vars
  <2>12. ASSUME NEW r \in Run, NEW j \in Role, NEW h \in BOOLEAN, RoleDone(r, j, h)
         PROVE  BlockerAt(i)'
    BY <2>12, <1>1
  <2> QED
    BY <2>5, <2>6, <2>7, <2>8, <2>9, <2>10, <2>11, <2>12
       DEF Next, Progress, RoleStep
<1>3. ASSUME NEW r \in Run, KillInReport(r), disk'[i] # disk[i] PROVE BlockerAt(i)'
  <2>1. disk'[i] = EmptyReport(r) /\ pc' = [pc EXCEPT ![r] = "torn"]
    BY <1>3, EmptyFiles DEF Leave
  <2> QED
    BY <2>1 DEF BlockerAt, EmptyReport, TypeOK
<1> QED
  BY <1>1, <1>2, <1>3, DiskWrites

(***************************************************************************)
(* One invocation at a time.                                               *)
(***************************************************************************)

\* What one invocation may do.
Moves(r) ==
  \/ \E s \in Role, g \in BOOLEAN : Begin(r, s, g)
  \/ Progress(r)
  \/ Kill(r) \/ KillInReport(r)

\* The memory of an invocation.
Memory(q) ==
  <<pc[q], start[q], parent[q], ptr[q], todo[q], results[q], failed[q],
    outputs[q], blank[q], outcome[q]>>

\* An invocation's step leaves the memory of the others alone.
LEMMA OthersStay ==
  ASSUME TypeOK, NEW r \in Run, Moves(r), NEW q \in Run, q # r
  PROVE  UNCHANGED Memory(q)
<1> USE DEF TypeOK, Memory, diskVars, setupVars, loopVars
<1>1. ASSUME NEW s \in Role, NEW g \in BOOLEAN, Begin(r, s, g)
      PROVE  UNCHANGED Memory(q)
  BY <1>1 DEF Begin
<1>2. ASSUME NEW how, Leave(r, how) PROVE UNCHANGED Memory(q)
  BY <1>2 DEF Leave
<1>3. ASSUME NEW held, NEW exec, NEW p, NEW unread, EnterLoop(r, held, exec, p, unread)
      PROVE  UNCHANGED Memory(q)
  BY <1>3 DEF EnterLoop
<1>4. ASSUME RoleStep(r) PROVE UNCHANGED Memory(q)
  BY <1>4 DEF RoleStep, RoleDone, RoleFailed
<1>5. ASSUME JoinFailed(r) \/ JoinGated(r) PROVE UNCHANGED Memory(q)
  BY <1>5 DEF JoinFailed, JoinGated, Finish, ApplyResults
<1>6. ASSUME JoinPassed(r) PROVE UNCHANGED Memory(q)
  BY <1>6 DEF JoinPassed, Finish, ApplyResults
<1>7. ASSUME WriteSummary(r) PROVE UNCHANGED Memory(q)
  BY <1>7 DEF WriteSummary
<1> QED
  BY <1>1, <1>2, <1>3, <1>4, <1>5, <1>6, <1>7
     DEF Moves, Progress, StartFresh, StartSeeded, RefuseResume, WriteState, Kill,
         KillInReport

\* A step is somebody's, or changes nothing.
LEMMA StepOfOne ==
  ASSUME [Next]_vars
  PROVE  (\E r \in Run : Moves(r)) \/ UNCHANGED vars
  BY DEF Next, Moves

\* Only an active invocation moves on.
LEMMA MoverActive ==
  ASSUME TypeOK, NEW r \in Run, Progress(r) \/ Kill(r) \/ KillInReport(r)
  PROVE  r \in Active
<1>1. CASE Progress(r)
  BY <1>1 DEF Progress, Active, StartFresh, StartSeeded, RefuseResume, RoleStep,
     RoleDone, RoleFailed, JoinFailed, JoinGated, JoinPassed, BatchOver,
     WriteSummary, WriteState
<1>2. CASE Kill(r)
  BY <1>2 DEF Kill, InLoop, Active
<1>3. CASE KillInReport(r)
  BY <1>3, EmptyFiles DEF Active
<1> QED
  BY <1>1, <1>2, <1>3

\* Without overlap, at most one invocation is active.
LEMMA AloneStep ==
  ASSUME ~Overlap, TypeOK, Alone, [Next]_vars
  PROVE  Alone'
<1>1. CASE UNCHANGED vars
  BY <1>1 DEF vars, Alone, Active
<1>2. ASSUME NEW r \in Run, Moves(r) PROVE Alone'
  <2>1. \A q \in Run : q # r => pc'[q] = pc[q]
    BY <1>2, OthersStay DEF Memory
  <2>2. Active = {} \/ r \in Active
    BY <1>2, MoverActive DEF Moves, Begin
  <2> QED
    BY <2>1, <2>2 DEF Alone, Active
<1> QED
  BY <1>1, <1>2, StepOfOne

(***************************************************************************)
(* Prompts.                                                                *)
(***************************************************************************)

\* A role of a batch sees what it would have seen on its own: the roles of the
\* batch before it are specialists, which no specialist's prompt includes.
LEMMA BatchUpstream ==
  ASSUME NEW p \in Role, NEW j \in Batch(p)
  PROVE  Upstream(j, 1..(p - 1)) = Upstream(j, 1..(j - 1))
<1>1. N \in Nat /\ p \in Nat /\ p >= 1 /\ p <= N
  BY RoleAssumption DEF Role
<1>2. CASE j = p
  BY <1>2
<1>3. CASE j # p
  <2>1. j \in p..N /\ \A m \in p..j : Kind[m] = "specialist"
    BY <1>1, <1>3 DEF Batch, Parallel
  <2>2. \A k \in 1..(j - 1) : k \in 1..(p - 1) \/ k \in p..j
    BY <1>1, <2>1
  <2>3. 1..(p - 1) \subseteq 1..(j - 1)
    BY <1>1, <2>1
  <2>4. /\ Held("architect", 1..(p - 1)) = Held("architect", 1..(j - 1))
        /\ Held("implementer", 1..(p - 1)) = Held("implementer", 1..(j - 1))
    BY <2>1, <2>2, <2>3 DEF Held
  <2>5. Kind[j] = "specialist"
    BY <1>1, <2>1
  <2>6. ASSUME NEW have
        PROVE  Upstream(j, have) =
                 IF Isolation = "scope_only" THEN {}
                 ELSE (IF Isolation = "framed" THEN Held("architect", have) ELSE {})
                      \cup Held("implementer", have)
    BY <2>5 DEF Upstream
  <2> QED
    BY <2>4, <2>6
<1> QED
  BY <1>2, <1>3

\* The roles named in a new report are the ones its prompt was built from.
LEMMA NewReportUpstream ==
  ASSUME NEW r \in Run, NEW i \in Role, NEW h \in BOOLEAN
  PROVE  {u[1] : u \in NewReport(r, i, h).from} = Upstream(i, Holding(r) \ blank[r])
<1> DEFINE U == Upstream(i, Holding(r) \ blank[r])
<1>1. NewReport(r, i, h).from = {<<j, outputs[r][j]>> : j \in U}
  BY DEF NewReport
<1> HIDE DEF U
<1>2. \A u \in NewReport(r, i, h).from : u[1] \in U
  BY <1>1
<1>3. \A j \in U : \E u \in NewReport(r, i, h).from : u[1] = j
  <2> SUFFICES ASSUME NEW j \in U
               PROVE  \E u \in NewReport(r, i, h).from : u[1] = j
    OBVIOUS
  <2>1. <<j, outputs[r][j]>> \in NewReport(r, i, h).from
    BY <1>1
  <2> QED
    BY <2>1
<1> QED
  BY <1>2, <1>3 DEF U

\* An empty text is left out of a prompt, and only it.
LEMMA UpstreamWithout ==
  ASSUME NEW i \in Role, NEW have, NEW out
  PROVE  Upstream(i, have \ out) = Upstream(i, have) \ out
<1>1. \A k : Held(k, have \ out) = Held(k, have) \ out
  BY DEF Held
<1>2. ASSUME NEW j
      PROVE  j \in Upstream(i, have \ out) <=> j \in Upstream(i, have) /\ j \notin out
  BY <1>1, RoleAssumption DEF Upstream, Kinds
<1> QED
  BY <1>2

(***************************************************************************)
(* Where nothing is read as empty.                                         *)
(***************************************************************************)

\* A run that died writing reports stays one.
LEMMA TornStays ==
  ASSUME TypeOK, [Next]_vars, NoneTorn'
  PROVE  NoneTorn
<1> SUFFICES ASSUME NEW q \in Run, pc[q] = "torn" PROVE pc'[q] = "torn"
  BY DEF NoneTorn
<1>1. CASE UNCHANGED vars
  BY <1>1 DEF vars
<1>2. ASSUME NEW r \in Run, Moves(r) PROVE pc'[q] = "torn"
  <2>1. r # q
    BY <1>2, MoverActive DEF Moves, Begin, Active
  <2> QED
    BY <1>2, <2>1, OthersStay DEF Memory
<1> QED
  BY <1>1, <1>2, StepOfOne

\* What a run read as empty is settled when it enters its loop.
LEMMA BlankKept ==
  ASSUME TypeOK, [Next]_vars, NEW q \in Run,
         pc[q] \notin {"idle", "resuming", "refused"}
  PROVE  UNCHANGED blank[q]
<1>1. CASE UNCHANGED vars
  BY <1>1 DEF vars
<1>2. ASSUME NEW r \in Run, Moves(r) PROVE UNCHANGED blank[q]
  <2>1. CASE r # q
    BY <1>2, <2>1, OthersStay DEF Memory
  <2>2. CASE r = q
    <3>1. ~StartFresh(r) /\ ~StartSeeded(r)
      BY <2>2 DEF StartFresh, StartSeeded
    <3> QED
      BY <1>2, <3>1 DEF Moves, Progress, RoleStep, Begin, RefuseResume, Leave,
         RoleDone, RoleFailed, JoinFailed, JoinGated, JoinPassed, WriteSummary,
         WriteState, Kill, KillInReport
  <2> QED
    BY <2>1, <2>2
<1> QED
  BY <1>1, <1>2, StepOfOne

\* Alone, and with no empty report on disk, a run reads none as empty.
LEMMA NothingBlank ==
  ASSUME TypeOK, Alone, \A i \in Role : disk[i] # Missing => ~disk[i].empty,
         NEW r \in Run, StartSeeded(r)
  PROVE  blank' = [blank EXCEPT ![r] = {}]
<1>1. PICK B \in SUBSET Role :
        /\ ReadEmpty(r, start[r], B)
        /\ EnterLoop(r, Seeds(start[r]), [i \in 1..(start[r] - 1) |-> i], ledger.run, B)
  BY DEF StartSeeded
<1>2. pc[r] = "resuming" /\ CanResume(start[r])
  BY DEF StartSeeded
<1>3. ASSUME NEW i \in B PROVE FALSE
  <2>1. i \in 1..(start[r] - 1)
    BY <1>1, <1>3 DEF ReadEmpty
  <2>2. disk[i] # Missing
    BY <1>2, <2>1 DEF CanResume, Found
  <2>3. PICK q \in Run \ {r} : i \in InWrite(q)
    BY <1>1, <2>2 DEF ReadEmpty
  <2>4. q \in Active /\ r \in Active
    BY <1>2, <2>3 DEF InWrite, Active
  <2> QED
    BY <2>3, <2>4 DEF Alone
<1>4. B = {}
  BY <1>3
<1> QED
  BY <1>1, <1>4 DEF EnterLoop

\* Nothing is read as empty until a run dies writing a report, or two runs overlap.
LEMMA BlankStep ==
  ASSUME TypeOK, BlankInv, [Next]_vars
  PROVE  BlankInv'
<1> SUFFICES ASSUME ~Overlap, NoneTorn'
             PROVE  /\ \A q \in Run : blank'[q] = {}
                    /\ \A i \in Role : disk'[i] # Missing => ~disk'[i].empty
  BY AloneStep DEF BlankInv
<1>1. /\ Alone /\ \A q \in Run : blank[q] = {}
      /\ \A i \in Role : disk[i] # Missing => ~disk[i].empty
  BY TornStays DEF BlankInv
<1>2. ASSUME NEW i \in Role, disk'[i] # Missing PROVE ~disk'[i].empty
  <2>1. ~ \E r \in Run : KillInReport(r)
    <3>1. ASSUME NEW r \in Run, KillInReport(r) PROVE pc'[r] = "torn"
      BY <3>1 DEF KillInReport, Leave, TypeOK
    <3> QED
      BY <3>1 DEF NoneTorn
  <2>2. CASE disk' = disk
    BY <1>1, <1>2, <2>2
  <2>3. ASSUME NEW r \in Run, NEW j \in Role, NEW h \in BOOLEAN, RoleDone(r, j, h)
        PROVE  ~disk'[i].empty
    <3>1. disk' = [disk EXCEPT ![j] = NewReport(r, j, h)]
      BY <2>3 DEF RoleDone
    <3>2. ~NewReport(r, j, h).empty
      BY DEF NewReport
    <3> QED
      BY <1>1, <1>2, <3>1, <3>2 DEF TypeOK
  <2> QED
    BY <2>1, <2>2, <2>3, DiskWrites
<1>3. \/ UNCHANGED blank
      \/ \E r \in Run : blank' = [blank EXCEPT ![r] = {}]
  <2>1. CASE \E r \in Run : StartSeeded(r)
    BY <1>1, <2>1, NothingBlank
  <2>2. CASE \E r \in Run : StartFresh(r)
    BY <2>2 DEF StartFresh, EnterLoop
  <2>3. CASE ~ \E r \in Run : StartFresh(r) \/ StartSeeded(r)
    BY <2>3 DEF Next, Progress, RoleStep, Begin, RefuseResume, Leave,
       RoleDone, RoleFailed, JoinFailed, JoinGated, JoinPassed, WriteSummary,
       WriteState, Kill, KillInReport, vars
  <2> QED
    BY <2>1, <2>2, <2>3
<1> QED
  BY <1>1, <1>2, <1>3 DEF TypeOK

\* Prompts stay complete, in a batch and after a resume.
LEMMA PromptStep ==
  ASSUME TypeOK, LoopInv, BlockerInv, PromptsAreComplete, BlankInv', [Next]_vars
  PROVE  PromptsAreComplete'
<1> SUFFICES ASSUME NEW i \in Role, disk'[i] # Missing, ~disk'[i].empty
             PROVE  /\ disk'[i].run \in Run
                    /\ {u[1] : u \in disk'[i].from}
                         = Upstream(i, 1..(i - 1)) \ blank'[disk'[i].run]
  BY DEF PromptsAreComplete, BlankInv, Upstream, Held
<1>1. CASE disk'[i] = disk[i]
  <2>1. PICK q \in Run : q = disk[i].run
    BY <1>1 DEF TypeOK, Report
  <2>2. UNCHANGED blank[q]
    BY <1>1, <2>1, BlankKept DEF BlockerInv, BlockerAt
  <2> QED
    BY <1>1, <2>1, <2>2 DEF PromptsAreComplete
<1>2. CASE disk'[i] # disk[i]
  <2>0. ASSUME NEW r \in Run, KillInReport(r) PROVE FALSE
    <3>1. disk'[i] = EmptyReport(r)
      BY <1>2, <2>0, EmptyFiles
    <3>2. EmptyReport(r).empty = TRUE
      BY DEF EmptyReport
    <3> QED
      BY <3>1, <3>2
  <2>1. PICK r \in Run, j \in Role, h \in BOOLEAN : RoleDone(r, j, h)
    BY <1>2, <2>0, DiskWrites
  <2>2. i = j /\ disk'[i] = NewReport(r, i, h) /\ blank' = blank
    BY <1>2, <2>1 DEF RoleDone, TypeOK
  <2>3. ptr[r] \in Role /\ Holding(r) = 1..(ptr[r] - 1) /\ i \in Batch(ptr[r])
    BY <2>1, <2>2 DEF RoleDone, Begun, LoopInv, LoopAt
  <2>4. disk'[i].run = r /\ blank'[r] = blank[r]
    BY <2>2 DEF NewReport
  <2>5. {u[1] : u \in disk'[i].from} = Upstream(i, Holding(r) \ blank[r])
    BY <2>2, NewReportUpstream
  <2>6. Upstream(i, Holding(r) \ blank[r]) = Upstream(i, Holding(r)) \ blank[r]
    BY UpstreamWithout
  <2>7. Upstream(i, Holding(r)) = Upstream(i, 1..(i - 1))
    BY <2>3, BatchUpstream
  <2> QED
    BY <2>4, <2>5, <2>6, <2>7
<1> QED
  BY <1>1, <1>2

(***************************************************************************)
(* The execution list.                                                     *)
(***************************************************************************)

\* Ascending lists a finite set of positions, each of them once, in order: the
\* rank of a position is an injection into 1..Cardinality(S), hence onto it.
LEMMA AscendingLists ==
  ASSUME NEW S \in SUBSET Nat, IsFiniteSet(S)
  PROVE  /\ DOMAIN Ascending(S) = 1..Cardinality(S)
         /\ Ascending(S) \in Seq(S)
         /\ {Ascending(S)[k] : k \in DOMAIN Ascending(S)} = S
         /\ \A k, m \in DOMAIN Ascending(S) :
              k < m => Ascending(S)[k] < Ascending(S)[m]
<1> DEFINE Below(i) == {j \in S : j <= i}
           n == Cardinality(S)
           rank == [i \in S |-> Cardinality(Below(i))]
<1>1. n \in Nat /\ IsFiniteSet(1..n) /\ Cardinality(1..n) = n
  <2>1. n \in Nat
    BY FS_CardinalityType
  <2> HIDE DEF n
  <2> QED
    BY <2>1, FS_Interval
<1>2. ASSUME NEW i \in S
      PROVE  /\ IsFiniteSet(Below(i)) /\ Cardinality(Below(i)) \in Nat
             /\ Cardinality(Below(i)) \in 1..n
  <2>1. Below(i) \in SUBSET S /\ i \in Below(i)
    OBVIOUS
  <2> HIDE DEF Below
  <2>2. IsFiniteSet(Below(i)) /\ Cardinality(Below(i)) <= n
    BY <2>1, FS_Subset
  <2>3. Cardinality(Below(i)) \in Nat /\ Cardinality(Below(i)) # 0
    BY <2>1, <2>2, FS_CardinalityType, FS_EmptySet
  <2> QED
    BY <1>1, <2>2, <2>3
<1>3. ASSUME NEW i \in S, NEW k \in S, i < k
      PROVE  Cardinality(Below(i)) < Cardinality(Below(k))
  <2>0. i \in Nat /\ k \in Nat /\ \A j \in S : j \in Nat
    OBVIOUS
  <2>1. Below(i) \cup {k} \in SUBSET Below(k) /\ k \notin Below(i)
    <3>1. \A j \in S : j <= i => j <= k
      BY <1>3, <2>0
    <3>2. k <= k /\ ~(k <= i)
      BY <1>3, <2>0
    <3> QED
      BY <3>1, <3>2
  <2>2. /\ IsFiniteSet(Below(i)) /\ Cardinality(Below(i)) \in Nat
        /\ IsFiniteSet(Below(k)) /\ Cardinality(Below(k)) \in Nat
    BY <1>2
  <2> HIDE DEF Below
  <2>3. Cardinality(Below(i) \cup {k}) = Cardinality(Below(i)) + 1
    BY <2>1, <2>2, FS_AddElement
  <2>4. Cardinality(Below(i) \cup {k}) <= Cardinality(Below(k))
    BY <2>1, <2>2, FS_Subset
  <2> QED
    BY <2>2, <2>3, <2>4
<1>4. rank \in [S -> 1..n]
  BY <1>2
<1>5. \A i, k \in S : i < k => rank[i] < rank[k]
  BY <1>3
<1>6. \A i \in S : rank[i] = Cardinality({j \in S : j <= i})
  OBVIOUS
<1> HIDE DEF Below, rank
<1>7. \A i, k \in S : rank[i] = rank[k] => i = k
  <2>1. \A i \in S : rank[i] \in Nat /\ i \in Nat
    BY <1>1, <1>4
  <2> QED
    BY <1>5, <2>1
<1>8. rank \in Injection(S, 1..n)
  BY <1>4, <1>7 DEF Injection, IsInjective
<1>9. rank \in Surjection(S, 1..n)
  <2> HIDE DEF n
  <2> QED
    BY <1>1, <1>8, FS_Injection DEF n
<1>10. \A k \in 1..n : \E i \in S : rank[i] = k
  BY <1>9 DEF Surjection
<1>11. DOMAIN Ascending(S) = 1..n
  BY DEF Ascending
<1>12. ASSUME NEW k \in 1..n
       PROVE  Ascending(S)[k] \in S /\ rank[Ascending(S)[k]] = k
  <2>1. \E i \in S : Cardinality({j \in S : j <= i}) = k
    BY <1>6, <1>10
  <2>2. Ascending(S)[k] = CHOOSE i \in S : Cardinality({j \in S : j <= i}) = k
    BY DEF Ascending
  <2> QED
    BY <1>6, <2>1, <2>2
<1>13. Ascending(S) \in [1..n -> S]
  <2>1. \A k \in 1..n : (CHOOSE i \in S : Cardinality({j \in S : j <= i}) = k) \in S
    BY <1>6, <1>10
  <2> QED
    BY <2>1 DEF Ascending
<1> HIDE DEF n
<1>14. Ascending(S) \in Seq(S)
  BY <1>1, <1>13
<1>15. \A i \in S : rank[i] \in 1..n /\ Ascending(S)[rank[i]] = i
  BY <1>4, <1>7, <1>12
<1>16. {Ascending(S)[k] : k \in 1..n} = S
  BY <1>12, <1>15
<1>17. ASSUME NEW k \in 1..n, NEW m \in 1..n, k < m
       PROVE  Ascending(S)[k] < Ascending(S)[m]
  <2>1. PICK i \in S, j \in S : i = Ascending(S)[k] /\ j = Ascending(S)[m]
    BY <1>12
  <2>2. rank[i] = k /\ rank[j] = m
    BY <1>12, <2>1
  <2>3. i \in Nat /\ j \in Nat
    OBVIOUS
  <2>4. i # j /\ ~(j < i)
    BY <1>1, <1>5, <1>17, <2>2
  <2> QED
    BY <2>1, <2>3, <2>4
<1> QED
  BY <1>11, <1>14, <1>16, <1>17 DEF n

\* A list of roles in role order, each once: what `execution` has to be.
InOrder(e) == \A k, m \in DOMAIN e : k < m => e[k] < e[m]
Listed(e) == {e[k] : k \in DOMAIN e}

\* Appending a list of later roles keeps a list in order.
LEMMA ConcatInOrder ==
  ASSUME NEW e \in Seq(Role), NEW f \in Seq(Role), InOrder(e), InOrder(f),
         \A i \in Listed(e), j \in Listed(f) : i < j
  PROVE  /\ e \o f \in Seq(Role)
         /\ InOrder(e \o f)
         /\ Listed(e \o f) = Listed(e) \cup Listed(f)
<1>1. /\ Len(e) \in Nat /\ Len(f) \in Nat
      /\ DOMAIN e = 1..Len(e) /\ DOMAIN f = 1..Len(f)
  OBVIOUS
<1>2. /\ e \o f \in Seq(Role)
      /\ Len(e \o f) = Len(e) + Len(f)
      /\ DOMAIN (e \o f) = 1..(Len(e) + Len(f))
      /\ \A k \in 1..(Len(e) + Len(f)) :
           (e \o f)[k] = IF k <= Len(e) THEN e[k] ELSE f[k - Len(e)]
  BY ConcatProperties
<1> DEFINE c == e \o f
<1>3. \A k \in DOMAIN e : k \in DOMAIN c /\ c[k] = e[k]
  BY <1>1, <1>2
<1>4. \A k \in DOMAIN f : k + Len(e) \in DOMAIN c /\ c[k + Len(e)] = f[k]
  BY <1>1, <1>2
<1>5. \A k \in DOMAIN c :
        \/ k \in DOMAIN e /\ c[k] = e[k]
        \/ k > Len(e) /\ k - Len(e) \in DOMAIN f /\ c[k] = f[k - Len(e)]
  BY <1>1, <1>2
<1>6. Listed(c) = Listed(e) \cup Listed(f)
  <2> HIDE DEF c
  <2> QED
    BY <1>3, <1>4, <1>5 DEF Listed
<1>7. ASSUME NEW k \in DOMAIN c, NEW m \in DOMAIN c, k < m PROVE c[k] < c[m]
  <2>1. k \in Nat /\ m \in Nat
    BY <1>1, <1>2
  <2> HIDE DEF c
  <2>2. CASE m \in DOMAIN e /\ c[m] = e[m]
    <3>1. k \in DOMAIN e /\ c[k] = e[k]
      BY <1>1, <1>3, <1>7, <2>1, <2>2
    <3> QED
      BY <1>7, <2>2, <3>1 DEF InOrder
  <2>3. CASE m > Len(e) /\ m - Len(e) \in DOMAIN f /\ c[m] = f[m - Len(e)]
    <3>1. c[m] \in Listed(f)
      BY <2>3 DEF Listed
    <3>2. CASE k \in DOMAIN e /\ c[k] = e[k]
      <4>1. c[k] \in Listed(e)
        BY <3>2 DEF Listed
      <4> QED
        BY <3>1, <4>1
    <3>3. CASE k > Len(e) /\ k - Len(e) \in DOMAIN f /\ c[k] = f[k - Len(e)]
      <4>1. k - Len(e) < m - Len(e)
        BY <1>1, <1>7, <2>1
      <4> QED
        BY <2>3, <3>3, <4>1 DEF InOrder
    <3> QED
      BY <1>5, <3>2, <3>3
  <2> QED
    BY <1>5, <2>2, <2>3
<1>8. InOrder(c)
  <2> HIDE DEF c
  <2> QED
    BY <1>7 DEF InOrder
<1> QED
  BY <1>2, <1>6, <1>8

\* A batch comes after the roles that are held.
LEMMA BatchAfter ==
  ASSUME NEW p \in Role, NEW i \in 1..(p - 1), NEW j \in Batch(p)
  PROVE  i < j
<1>1. PICK m \in (p + 1)..(N + 1) : Batch(p) = p..(m - 1)
  BY BatchInterval
<1>2. N \in Nat /\ p \in 1..N
  BY RoleAssumption DEF Role
<1>3. j \in p..(m - 1)
  BY <1>1
<1> QED
  BY <1>2, <1>3

\* Joining a batch extends the execution list by the roles that finished.
LEMMA JoinedInOrder ==
  ASSUME TypeOK, NEW r \in Run, LoopAt(r), BatchOver(r),
         NEW e \in Seq(Role), InOrder(e), Listed(e) = Holding(r)
  PROVE  /\ e \o InRoleOrder(results[r]) \in Seq(Role)
         /\ InOrder(e \o InRoleOrder(results[r]))
         /\ Listed(e \o InRoleOrder(results[r])) = Holding(r) \cup DoneRoles(r)
<1>1. /\ ptr[r] \in Role /\ Holding(r) = 1..(ptr[r] - 1)
      /\ DoneRoles(r) \subseteq Batch(ptr[r]) /\ DoneRoles(r) \subseteq Role
  BY DoneRolesType DEF LoopAt, BatchOver
<1>2. Role \subseteq Nat /\ IsFiniteSet(Role)
  BY FS_Interval, RoleAssumption DEF Role
<1>3. IsFiniteSet(DoneRoles(r)) /\ DoneRoles(r) \in SUBSET Nat
  BY <1>1, <1>2, FS_Subset
<1>4. InRoleOrder(results[r]) = Ascending(DoneRoles(r))
  BY DEF InRoleOrder, DoneRoles
<1>5. PICK f : f = Ascending(DoneRoles(r))
  OBVIOUS
<1>6. f \in Seq(DoneRoles(r)) /\ InOrder(f) /\ Listed(f) = DoneRoles(r)
  BY <1>3, <1>5, AscendingLists DEF InOrder, Listed
<1>7. f \in Seq(Role)
  BY <1>1, <1>6
<1>8. \A i \in Holding(r), j \in DoneRoles(r) : i < j
  BY <1>1, BatchAfter
<1> QED
  BY <1>4, <1>5, <1>6, <1>7, <1>8, ConcatInOrder

\* The execution list is in role order and names what is held.
LEMMA ExecutionStep ==
  ASSUME TypeOK, LoopInv, ExecutionType, ExecutionInRoleOrder, [Next]_vars
  PROVE  ExecutionType' /\ ExecutionInRoleOrder'
<1> USE DEF diskVars, setupVars, loopVars
<1>a. \A q \in Run : InOrder(execution[q]) /\ Listed(execution[q]) = Holding(q)
  BY DEF ExecutionInRoleOrder, InOrder, Listed
<1>b. ASSUME NEW r \in Run, NEW e \in Seq(Role), NEW held \in [Role -> Run \cup {NoRun}],
             execution' = [execution EXCEPT ![r] = e],
             outputs' = [outputs EXCEPT ![r] = held],
             InOrder(e), Listed(e) = {i \in Role : held[i] # NoRun}
      PROVE  ExecutionType' /\ ExecutionInRoleOrder'
  <2>1. ExecutionType'
    BY <1>b DEF ExecutionType
  <2>2. ASSUME NEW q \in Run
        PROVE  InOrder(execution'[q]) /\ Listed(execution'[q]) = Holding(q)'
    <3>1. CASE q = r
      <4>1. execution'[q] = e /\ outputs'[q] = held
        BY <1>b, <3>1 DEF ExecutionType, TypeOK
      <4> QED
        BY <1>b, <4>1 DEF Holding
    <3>2. CASE q # r
      <4>1. execution'[q] = execution[q] /\ outputs'[q] = outputs[q]
        BY <1>b, <3>2 DEF ExecutionType, TypeOK
      <4> QED
        BY <1>a, <4>1 DEF Holding
    <3> QED
      BY <3>1, <3>2
  <2> QED
    BY <2>1, <2>2 DEF ExecutionInRoleOrder, InOrder, Listed
<1>c. /\ << >> \in Seq(Role) /\ InOrder(<< >>) /\ Listed(<< >>) = {}
      /\ NoOutputs \in [Role -> Run \cup {NoRun}]
      /\ {i \in Role : NoOutputs[i] # NoRun} = {}
  BY DEF InOrder, Listed, NoOutputs
<1>1. ASSUME NEW r \in Run, NEW how, Leave(r, how)
      PROVE  ExecutionType' /\ ExecutionInRoleOrder'
  BY <1>1, <1>b, <1>c DEF Leave
<1>2. ASSUME NEW r \in Run, StartFresh(r) PROVE ExecutionType' /\ ExecutionInRoleOrder'
  BY <1>2, <1>b, <1>c DEF StartFresh, EnterLoop
<1>3. ASSUME NEW r \in Run, StartSeeded(r) PROVE ExecutionType' /\ ExecutionInRoleOrder'
  <2> DEFINE held == Seeds(start[r])
             e == [i \in 1..(start[r] - 1) |-> i]
  <2>1. /\ execution' = [execution EXCEPT ![r] = e]
        /\ outputs' = [outputs EXCEPT ![r] = held]
        /\ CanResume(start[r])
    BY <1>3 DEF StartSeeded, EnterLoop
  <2>2. held \in [Role -> Run \cup {NoRun}] /\ start[r] \in Role
    BY SeedsType DEF TypeOK
  <2>3. /\ 1..(start[r] - 1) \subseteq Role /\ start[r] - 1 \in Nat
        /\ \A i \in Role : i \in 1..(start[r] - 1) <=> i < start[r]
    BY <2>2, RoleAssumption DEF Role
  <2>4. \A i \in 1..(start[r] - 1) : disk[i].run \in Run
    BY <2>1, <2>3 DEF CanResume, Found, TypeOK, Report
  <2>5. {i \in Role : held[i] # NoRun} = 1..(start[r] - 1)
    BY <2>2, <2>3, <2>4, RunAssumption DEF Seeds
  <2>6. e \in Seq(Role) /\ InOrder(e) /\ Listed(e) = 1..(start[r] - 1)
    <3>1. e \in Seq(Role)
      <4>1. e \in [1..(start[r] - 1) -> Role]
        BY <2>3
      <4> QED
        BY <2>3, <4>1
    <3>2. InOrder(e)
      BY DEF InOrder
    <3>3. Listed(e) = 1..(start[r] - 1)
      BY DEF Listed
    <3> QED
      BY <3>1, <3>2, <3>3
  <2> HIDE DEF held, e
  <2> QED
    BY <2>1, <2>2, <2>5, <2>6, <1>b
<1>4. ASSUME NEW r \in Run, BatchOver(r), ApplyResults(r)
      PROVE  ExecutionType' /\ ExecutionInRoleOrder'
  <2>1. PICK e : e = execution[r] \o InRoleOrder(results[r])
    OBVIOUS
  <2>2. execution[r] \in Seq(Role) /\ LoopAt(r)
    BY DEF ExecutionType, LoopInv
  <2>3. e \in Seq(Role) /\ InOrder(e) /\ Listed(e) = Holding(r) \cup DoneRoles(r)
    BY <1>4, <1>a, <2>1, <2>2, JoinedInOrder
  <2> DEFINE held == [i \in Role |-> IF i \in DoneRoles(r) THEN r ELSE outputs[r][i]]
  <2>4. held \in [Role -> Run \cup {NoRun}]
    BY DEF TypeOK
  <2>5. {i \in Role : held[i] # NoRun} = Holding(r) \cup DoneRoles(r)
    BY DoneRolesType, RunAssumption DEF Holding
  <2>6. /\ execution' = [execution EXCEPT ![r] = e]
        /\ outputs' = [outputs EXCEPT ![r] = held]
    BY <1>4, <2>1 DEF ApplyResults
  <2> HIDE DEF held
  <2> QED
    BY <2>3, <2>4, <2>5, <2>6, <1>b
<1>5. ASSUME UNCHANGED <<execution, outputs>>
      PROVE  ExecutionType' /\ ExecutionInRoleOrder'
  BY <1>5 DEF ExecutionType, ExecutionInRoleOrder, Holding
<1>6. CASE UNCHANGED vars
  BY <1>5, <1>6 DEF vars
<1>7. ASSUME NEW r \in Run, RefuseResume(r) \/ WriteState(r) \/ Kill(r) \/ KillInReport(r)
      PROVE  \E how : Leave(r, how)
  BY <1>7 DEF RefuseResume, WriteState, Kill, KillInReport
<1>8. ASSUME NEW r \in Run, JoinFailed(r) \/ JoinGated(r) \/ JoinPassed(r)
      PROVE  BatchOver(r) /\ ApplyResults(r)
  BY <1>8 DEF JoinFailed, JoinGated, JoinPassed
<1>9. ASSUME NEW r \in Run,
             \/ \E s \in Role, g \in BOOLEAN : Begin(r, s, g)
             \/ RoleStep(r) \/ WriteSummary(r)
      PROVE  UNCHANGED <<execution, outputs>>
  BY <1>9 DEF Begin, RoleStep, RoleDone, RoleFailed, WriteSummary
<1> QED
  BY <1>1, <1>2, <1>3, <1>4, <1>5, <1>6, <1>7, <1>8, <1>9 DEF Next, Progress

(***************************************************************************)
(* One run moves at a time.                                                *)
(***************************************************************************)

\* A role stays in one place.
LEMMA ApartStep ==
  ASSUME TypeOK, LoopInv, \A r \in Run : ApartAt(r), [Next]_vars
  PROVE  \A r \in Run : ApartAt(r)'
<1> USE DEF diskVars, setupVars, loopVars
<1>1. SUFFICES ASSUME NEW q \in Run PROVE ApartAt(q)'
  OBVIOUS
<1>2. ASSUME UNCHANGED <<todo[q], results[q], failed[q], outputs[q]>>
      PROVE  ApartAt(q)'
  <2>1. DoneRoles(q)' = DoneRoles(q) /\ Holding(q)' = Holding(q)
    BY <1>2 DEF DoneRoles, Holding
  <2> QED
    BY <1>2, <2>1 DEF ApartAt
<1>3. CASE UNCHANGED vars
  BY <1>2, <1>3 DEF vars
<1>4. ASSUME NEW r \in Run, Moves(r), q # r PROVE ApartAt(q)'
  BY <1>2, <1>4, OthersStay DEF Memory
<1>5. CASE Moves(q)
  <2>0. ApartAt(q) /\ LoopAt(q)
    BY DEF LoopInv
  <2>1. ASSUME NEW how, Leave(q, how) PROVE ApartAt(q)'
    <3>1. todo'[q] = {} /\ failed'[q] = {}
      BY <2>1 DEF Leave, TypeOK
    <3> QED
      BY <3>1 DEF ApartAt
  <2>2. ASSUME pc[q] = "resuming", NEW held, NEW exec, NEW p, NEW unread, EnterLoop(q, held, exec, p, unread)
        PROVE  ApartAt(q)'
    <3>1. DoneRoles(q) = {} /\ failed[q] = {}
      BY <2>0, <2>2 DEF LoopAt, InLoop
    <3>2. DoneRoles(q)' = {} /\ failed'[q] = {}
      BY <2>2, <3>1 DEF EnterLoop, DoneRoles
    <3> QED
      BY <3>2 DEF ApartAt
  <2>3. ASSUME NEW i \in Role, NEW h \in BOOLEAN, RoleDone(q, i, h)
        PROVE  ApartAt(q)'
    <3>1. /\ i \in todo[q] /\ todo'[q] = todo[q] \ {i} /\ failed'[q] = failed[q]
          /\ outputs' = outputs
      BY <2>3 DEF RoleDone, Begun, TypeOK
    <3>2. DoneRoles(q)' = DoneRoles(q) \cup {i} /\ Holding(q)' = Holding(q)
      BY <2>3, <3>1, DoneGrows DEF Holding
    <3> QED
      BY <2>0, <3>1, <3>2 DEF ApartAt
  <2>4. ASSUME NEW i \in Role, RoleFailed(q, i) PROVE ApartAt(q)'
    <3>1. /\ i \in todo[q] /\ todo'[q] = todo[q] \ {i} /\ failed'[q] = failed[q] \cup {i}
          /\ outputs' = outputs /\ results' = results /\ pc[q] = "working"
      BY <2>4 DEF RoleFailed, Begun, TypeOK
    <3>2. DoneRoles(q)' = DoneRoles(q) /\ Holding(q)' = Holding(q)
      BY <3>1 DEF DoneRoles, Holding
    <3>3. i \notin Holding(q)
      <4>1. ptr[q] \in Role /\ Holding(q) = 1..(ptr[q] - 1) /\ i \in Batch(ptr[q])
        BY <2>0, <3>1 DEF LoopAt
      <4> QED
        BY <4>1, BatchAfter
    <3> QED
      BY <2>0, <3>1, <3>2, <3>3 DEF ApartAt
  <2>5. ASSUME JoinFailed(q) \/ JoinGated(q) \/ JoinPassed(q) PROVE ApartAt(q)'
    <3>1. ApplyResults(q) /\ failed' = failed
      BY <2>5 DEF JoinFailed, JoinGated, JoinPassed
    <3>2. Holding(q)' = Holding(q) \cup DoneRoles(q) /\ DoneRoles(q)' = {}
      BY <3>1, Applied
    <3>3. failed[q] \cap (Holding(q)' \cup DoneRoles(q)') = {}
      BY <2>0, <3>2 DEF ApartAt
    <3>4. todo'[q] \cap failed[q] = {}
      <4>1. CASE JoinFailed(q) \/ JoinGated(q)
        BY <2>0, <4>1 DEF JoinFailed, JoinGated, ApartAt
      <4>2. CASE JoinPassed(q)
        BY <4>2 DEF JoinPassed
      <4> QED
        BY <2>5, <4>1, <4>2
    <3> QED
      BY <3>1, <3>2, <3>3, <3>4 DEF ApartAt
  <2>6. ASSUME NEW s \in Role, NEW g \in BOOLEAN, Begin(q, s, g) \/ WriteSummary(q)
        PROVE  ApartAt(q)'
    BY <1>2, <2>6 DEF Begin, WriteSummary
  <2>7. ASSUME StartFresh(q) \/ StartSeeded(q)
        PROVE  pc[q] = "resuming" /\ \E held, exec, p, unread : EnterLoop(q, held, exec, p, unread)
    BY <2>7 DEF StartFresh, StartSeeded
  <2>8. ASSUME RefuseResume(q) \/ WriteState(q) \/ Kill(q) \/ KillInReport(q)
        PROVE  \E how : Leave(q, how)
    BY <2>8 DEF RefuseResume, WriteState, Kill, KillInReport
  <2>9. 1 \in Role /\ TRUE \in BOOLEAN
    BY RoleAssumption DEF Role
  <2> QED
    BY <1>5, <2>1, <2>2, <2>3, <2>4, <2>5, <2>6, <2>7, <2>8, <2>9
       DEF Moves, Progress, RoleStep
<1> QED
  BY <1>3, <1>4, <1>5, StepOfOne

(***************************************************************************)
(* The safety properties.                                                  *)
(***************************************************************************)

\* The invariant holds initially.
LEMMA InitIInv == Init => IInv
<1> SUFFICES ASSUME Init PROVE IInv
  OBVIOUS
<1>1. TypeOK
  BY RoleAssumption DEF Init, TypeOK, Phases, NoOutputs, Role, NoLedger, NoSummary
<1>2. \A i \in Role : disk[i] = Missing
  BY DEF Init
<1>3. LedgerInv
  BY DEF Init, LedgerInv, CompletedIsWhole, FirstFailedIsResumable, HasLedger, NoLedger
<1>4. ASSUME NEW r \in Run PROVE LoopAt(r) /\ ApartAt(r) /\ Holding(r) = {}
  <2>1. /\ pc[r] = "idle" /\ results[r] = << >> /\ failed[r] = {}
        /\ outputs[r] = NoOutputs /\ todo[r] = {}
    BY DEF Init
  <2>2. DoneRoles(r) = {} /\ Holding(r) = {}
    BY <2>1 DEF DoneRoles, Holding, NoOutputs
  <2> QED
    BY <2>1, <2>2 DEF LoopAt, ApartAt
<1>5. ExecutionType /\ ExecutionInRoleOrder
  <2>1. execution = [r \in Run |-> << >>]
    BY DEF Init
  <2> QED
    BY <1>4, <2>1 DEF ExecutionType, ExecutionInRoleOrder
<1> QED
  BY <1>1, <1>2, <1>3, <1>4, <1>5
     DEF IInv, LoopInv, BlockerInv, BlockerAt, BlankInv, Alone, Active, Init,
         PromptsAreComplete

\* Every step keeps the invariant.
LEMMA StepIInv == IInv /\ [Next]_vars => IInv'
  BY TypeStep, LoopStep, LedgerStep, BlockerStep, BlankStep, PromptStep,
     ExecutionStep,
     ApartStep DEF IInv

\* The inductive invariant.
THEOREM Inductive == Spec => []IInv
  BY InitIInv, StepIInv, PTL DEF Spec

\* A completed state file lists every configured role, each with its file.
THEOREM Whole == Spec => []CompletedIsWhole
  BY Inductive, PTL DEF IInv, LedgerInv

\* After a partial failure the first failed role can be rerun, in a directory
\* that is named by an absolute path.
THEOREM Resumable == ASSUME AbsoluteDir PROVE Spec => []FirstFailedIsResumable
<1>1. IInv => FirstFailedIsResumable
  BY DEF IInv, LedgerInv
<1> QED
  BY <1>1, Inductive, PTL

\* No run with fail_on_high completes having written a blocking report.
THEOREM Blockers == Spec => []BlockersStopTheirRun
<1>1. IInv => BlockersStopTheirRun
  BY DEF IInv, BlockerInv, BlockerAt, BlockersStopTheirRun
<1> QED
  BY <1>1, Inductive, PTL

\* Scheduling and resuming never change the upstream roles of a prompt.
THEOREM Prompts == Spec => []PromptsAreComplete
  BY Inductive, PTL DEF IInv

\* run_pipeline sorts by role order: the saved execution list is in it, however the
\* workers finished and whatever a resume seeded.
THEOREM InOrderAlways == Spec => []ExecutionInRoleOrder
  BY Inductive, PTL DEF IInv

\* _load_resume_state: what CompletedRunsResume asks for holds in every directory named
\* by an absolute path; the run that violates it needs a relative one.
THEOREM CompletedResumes == ASSUME AbsoluteDir PROVE Spec => []CompletedRunsResume
<1>1. IInv => CompletedRunsResume
  BY RoleAssumption
     DEF IInv, LedgerInv, CompletedIsWhole, CompletedRunsResume, CanResume, Found, Role
<1> QED
  BY <1>1, Inductive, PTL

(***************************************************************************)
(* A directory that one invocation uses at a time.                         *)
(***************************************************************************)

\* While one invocation moves, the others are in no loop.
LEMMA OthersIdle ==
  ASSUME ~Overlap, TypeOK, Alone, NEW r \in Run, Moves(r), NEW q \in Run, q # r
  PROVE  ~InLoop(q) /\ ~InLoop(q)' /\ pc'[q] = pc[q]
<1>1. pc'[q] = pc[q]
  BY OthersStay DEF Memory
<1>2. Active = {} \/ r \in Active
  BY MoverActive DEF Moves, Begin
<1>3. q \notin Active
  BY <1>2 DEF Alone
<1> QED
  BY <1>1, <1>3 DEF Active, InLoop

\* Entering the loop from a saved state: what is seeded.
LEMMA Seeded ==
  ASSUME TypeOK, NEW r \in Run, StartSeeded(r)
  PROVE  /\ start[r] \in Role /\ start[r] > 1
         /\ HasLedger /\ ledger \in LedgerFile
         /\ 1..(start[r] - 1) \subseteq ledger.artifacts
         /\ Holding(r)' = 1..(start[r] - 1)
         /\ \A i \in 1..(start[r] - 1) : outputs'[r][i] = disk[i].run
         /\ parent'[r] = ledger.run
         /\ UNCHANGED <<disk, ledger, summary, start, results, failed, outcome>>
         /\ pc'[r] = "working"
<1> DEFINE held == Seeds(start[r])
<1>1. /\ \E B \in SUBSET Role : EnterLoop(r, held, [i \in 1..(start[r] - 1) |-> i], ledger.run, B)
      /\ start[r] > 1 /\ CanResume(start[r])
  BY DEF StartSeeded
<1>2. held \in [Role -> Run \cup {NoRun}] /\ start[r] \in Role
  BY SeedsType DEF TypeOK
<1>3. /\ 1..(start[r] - 1) \subseteq Role
      /\ \A i \in Role : i \in 1..(start[r] - 1) <=> i < start[r]
  BY <1>2, RoleAssumption DEF Role
<1>4. \A i \in 1..(start[r] - 1) :
        i \in ledger.artifacts /\ disk[i].run \in Run /\ held[i] = disk[i].run
  BY <1>1, <1>3 DEF CanResume, Found, TypeOK, Report, Seeds
<1>5. {i \in Role : held[i] # NoRun} = 1..(start[r] - 1)
  BY <1>2, <1>3, <1>4, RunAssumption DEF Seeds
<1> HIDE DEF held
<1>6. outputs'[r] = held /\ parent'[r] = ledger.run /\ pc'[r] = "working"
  BY <1>1 DEF EnterLoop, TypeOK
<1>7. Holding(r)' = 1..(start[r] - 1)
  BY <1>5, <1>6 DEF Holding
<1>8. HasLedger /\ ledger \in LedgerFile
  BY <1>1, LedgerType DEF CanResume
<1>9. UNCHANGED <<disk, ledger, summary, start, results, failed, outcome>>
  BY <1>1 DEF EnterLoop, diskVars
<1> QED
  BY <1>1, <1>2, <1>4, <1>6, <1>7, <1>8, <1>9

\* Entering the loop with nothing.
LEMMA Fresh ==
  ASSUME TypeOK, NEW r \in Run, StartFresh(r)
  PROVE  /\ start[r] = 1 /\ parent'[r] = NoRun /\ Holding(r)' = {}
         /\ UNCHANGED <<disk, ledger, summary, start, results, failed, outcome>>
         /\ pc'[r] = "working"
<1>1. EnterLoop(r, NoOutputs, << >>, NoRun, {}) /\ start[r] = 1
  BY DEF StartFresh
<1>2. outputs'[r] = NoOutputs /\ parent'[r] = NoRun /\ pc'[r] = "working"
  BY <1>1 DEF EnterLoop, TypeOK
<1>3. Holding(r)' = {}
  BY <1>2 DEF Holding, NoOutputs
<1> QED
  BY <1>1, <1>2, <1>3 DEF EnterLoop, diskVars

\* In front of its loop a run has no results.
LEMMA NoResultsYet ==
  ASSUME LoopInv, NEW r \in Run, ~InLoop(r), results' = results
  PROVE  DoneRoles(r)' = {}
  BY ZenonT(30) DEF LoopInv, LoopAt, DoneRoles

\* Lineage and memory of the run that moves, and so of every run.
LEMMA LineageMemoryStep ==
  ASSUME ~Overlap, TypeOK, LoopInv, Alone, [Next]_vars,
         \A r \in Run : LineageAt(r) /\ MemoryAt(r)
  PROVE  \A r \in Run : LineageAt(r)' /\ MemoryAt(r)'
<1> USE DEF diskVars, setupVars, loopVars
<1>1. CASE UNCHANGED vars
  BY <1>1 DEF vars, LineageAt, MemoryAt, InLoop, HasLedger, Holding, DoneRoles
<1>2. ASSUME NEW q \in Run, Moves(q) PROVE \A r \in Run : LineageAt(r)' /\ MemoryAt(r)'
  <2>1. ASSUME NEW r \in Run, r # q PROVE LineageAt(r)' /\ MemoryAt(r)'
    BY <1>2, <2>1, OthersIdle DEF LineageAt, MemoryAt
  <2>2. SUFFICES LineageAt(q)' /\ MemoryAt(q)'
    BY <2>1
  <2>0. LineageAt(q) /\ MemoryAt(q) /\ LoopAt(q)
    BY DEF LoopInv
  <2>3. ASSUME ~InLoop(q)' PROVE LineageAt(q)' /\ MemoryAt(q)'
    BY <2>3 DEF LineageAt, MemoryAt
  <2>4. ASSUME NEW how \in {"refused", "completed", "failed", "killed", "torn"}, Leave(q, how)
        PROVE  ~InLoop(q)'
    BY <2>4 DEF Leave, InLoop, TypeOK
  <2>5. ASSUME NEW s \in Role, NEW g \in BOOLEAN, Begin(q, s, g) PROVE ~InLoop(q)'
    BY <2>5 DEF Begin, InLoop, TypeOK
  <2>6. CASE StartFresh(q)
    <3>1. ~InLoop(q)
      BY <2>6 DEF StartFresh, InLoop
    <3>2. DoneRoles(q)' = {}
      BY <2>6, <3>1, Fresh, NoResultsYet
    <3> QED
      BY <2>6, <3>2, Fresh DEF LineageAt, MemoryAt
  <2>7. CASE StartSeeded(q)
    <3>1. ~InLoop(q)
      BY <2>7 DEF StartSeeded, InLoop
    <3>2. DoneRoles(q)' = {}
      BY <2>7, <3>1, Seeded, NoResultsYet
    <3>3. LineageAt(q)'
      <4>1. start'[q] > 1 /\ start'[q] # 1
        BY <2>7, Seeded DEF Role
      <4> QED
        BY <2>7, <4>1, Seeded DEF LineageAt, HasLedger
    <3>4. MemoryAt(q)'
      BY <2>7, <3>2, Seeded DEF MemoryAt
    <3> QED
      BY <3>3, <3>4
  <2>8. ASSUME NEW i \in Role, NEW h \in BOOLEAN, RoleDone(q, i, h)
        PROVE  LineageAt(q)' /\ MemoryAt(q)'
    <3>1. /\ UNCHANGED <<ledger, pc, start, parent, outputs, ptr>>
          /\ i \in todo[q] /\ pc[q] = "working"
          /\ disk' = [disk EXCEPT ![i] = NewReport(q, i, h)]
      BY <2>8 DEF RoleDone, Begun
    <3>2. Holding(q)' = Holding(q) /\ DoneRoles(q)' = DoneRoles(q) \cup {i}
      BY <2>8, <3>1, DoneGrows DEF Holding
    <3>3. disk'[i].run = q /\ \A k \in Role : k # i => disk'[k] = disk[k]
      BY <3>1 DEF TypeOK, NewReport
    <3>4. i \notin Holding(q)
      <4>1. ptr[q] \in Role /\ Holding(q) = 1..(ptr[q] - 1) /\ i \in Batch(ptr[q])
        BY <2>0, <3>1 DEF LoopAt
      <4> QED
        BY <4>1, BatchAfter
    <3>5. LineageAt(q)'
      BY <2>0, <3>1, <3>2 DEF LineageAt, InLoop, HasLedger
    <3>6. MemoryAt(q)'
      <4>1. Holding(q) \cup DoneRoles(q) \subseteq Role
        BY DoneRolesType DEF Holding
      <4> QED
        BY <2>0, <3>1, <3>2, <3>3, <3>4, <4>1 DEF MemoryAt, InLoop
    <3> QED
      BY <3>5, <3>6
  <2>9. ASSUME UNCHANGED <<disk, ledger, start, parent, outputs, results>>, InLoop(q)
        PROVE  LineageAt(q)' /\ MemoryAt(q)'
    <3>1. DoneRoles(q)' = DoneRoles(q) /\ Holding(q)' = Holding(q)
      BY <2>9 DEF DoneRoles, Holding
    <3> QED
      BY <2>0, <2>9, <3>1 DEF LineageAt, MemoryAt, HasLedger
  <2>10. ASSUME NEW i \in Role, RoleFailed(q, i) \/ WriteSummary(q)
         PROVE  UNCHANGED <<disk, ledger, start, parent, outputs, results>> /\ InLoop(q)
    BY <2>10 DEF RoleFailed, WriteSummary, InLoop
  <2>11. ASSUME JoinFailed(q) \/ JoinGated(q) \/ JoinPassed(q)
         PROVE  LineageAt(q)' /\ MemoryAt(q)'
    <3>1. ApplyResults(q) /\ InLoop(q) /\ UNCHANGED <<disk, ledger, start, parent>>
      BY <2>11 DEF JoinFailed, JoinGated, JoinPassed, BatchOver, InLoop
    <3>2. Holding(q)' = Holding(q) \cup DoneRoles(q) /\ DoneRoles(q)' = {}
      BY <3>1, Applied
    <3>3. outputs'[q] = [i \in Role |-> IF i \in DoneRoles(q) THEN q ELSE outputs[q][i]]
      BY <3>1 DEF ApplyResults, TypeOK
    <3>4. LineageAt(q)'
      BY <2>0, <3>1, <3>2 DEF LineageAt, HasLedger
    <3>5. MemoryAt(q)'
      <4>1. Holding(q) \cup DoneRoles(q) \subseteq Role
        BY DoneRolesType DEF Holding
      <4> QED
        BY <2>0, <3>1, <3>2, <3>3, <4>1 DEF MemoryAt
    <3> QED
      BY <3>4, <3>5
  <2>12. ASSUME RefuseResume(q) \/ WriteState(q) \/ Kill(q) \/ KillInReport(q)
         PROVE  \E how \in {"refused", "completed", "failed", "killed", "torn"} : Leave(q, how)
    BY <2>12 DEF RefuseResume, WriteState, Kill, KillInReport, Status
  <2>13. 1 \in Role
    BY RoleAssumption DEF Role
  <2> QED
    BY <1>2, <2>3, <2>4, <2>5, <2>6, <2>7, <2>8, <2>9, <2>10, <2>11, <2>12, <2>13
       DEF Moves, Progress, RoleStep
<1> QED
  BY <1>1, <1>2, StepOfOne

\* A file that is replaced cannot unsettle a report whose prompt left it out.
LEMMA FitsFrame ==
  ASSUME NEW i \in Role, Fits(i), disk'[i] = disk[i],
         \A j \in Upstream(i, 1..(i - 1)) : disk'[j] = disk[j]
  PROVE  Fits(i)'
<1>1. Upstream(i, 1..(i - 1))' = Upstream(i, 1..(i - 1))
  BY DEF Upstream, Held
<1> QED
  BY <1>1 DEF Fits

\* A prompt includes only what there is.
LEMMA UpstreamType ==
  ASSUME NEW i, NEW have
  PROVE  Upstream(i, have) \subseteq have
  BY DEF Upstream, Held

\* A report fits when its role is done, and those held and done go on fitting:
\* the upstream roles of a batch all come before it.
LEMMA RoleDoneFits ==
  ASSUME TypeOK, NEW r \in Run, LoopAt(r), MemoryAt(r), blank[r] = {},
         \A k \in Holding(r) \cup DoneRoles(r) : Fits(k),
         NEW i \in Role, NEW h \in BOOLEAN, RoleDone(r, i, h)
  PROVE  \A k \in Holding(r)' \cup DoneRoles(r)' : Fits(k)'
<1>1. /\ UNCHANGED <<pc, outputs>> /\ i \in todo[r] /\ pc[r] = "working"
      /\ disk' = [disk EXCEPT ![i] = NewReport(r, i, h)]
  BY DEF RoleDone, Begun
<1>2. Holding(r)' = Holding(r) /\ DoneRoles(r)' = DoneRoles(r) \cup {i}
  BY <1>1, DoneGrows DEF Holding
<1>3. /\ ptr[r] \in Role /\ Holding(r) = 1..(ptr[r] - 1)
      /\ i \in Batch(ptr[r]) /\ DoneRoles(r) \subseteq Batch(ptr[r])
      /\ \A j \in Holding(r) : outputs[r][j] = disk[j].run
  BY <1>1 DEF LoopAt, MemoryAt, InLoop
<1>4. i \notin Holding(r)
  BY <1>3, BatchAfter
<1>5. disk'[i] = NewReport(r, i, h) /\ \A k \in Role : k # i => disk'[k] = disk[k]
  BY <1>1 DEF TypeOK
<1>6. Holding(r) \subseteq Role /\ DoneRoles(r) \subseteq Role
  BY DoneRolesType DEF Holding
<1>7. \A k \in Holding(r) \cup DoneRoles(r) \cup {i} :
        Upstream(k, 1..(k - 1)) \subseteq Holding(r)
  <2>1. ASSUME NEW k \in Holding(r) PROVE Upstream(k, 1..(k - 1)) \subseteq Holding(r)
    <3>1. 1..(k - 1) \subseteq 1..(ptr[r] - 1)
      BY <1>3, RoleAssumption DEF Role
    <3> QED
      BY <1>3, <3>1, UpstreamType
  <2>2. ASSUME NEW k \in Batch(ptr[r])
        PROVE  Upstream(k, 1..(k - 1)) \subseteq Holding(r)
    BY <1>3, BatchUpstream, UpstreamType
  <2> QED
    BY <1>3, <2>1, <2>2
<1>8. Fits(i)'
  <2>1. Upstream(i, Holding(r) \ blank[r]) = Upstream(i, 1..(i - 1))
    <3>1. Holding(r) \ blank[r] = Holding(r)
      OBVIOUS
    <3> QED
      BY <1>3, <3>1, BatchUpstream
  <2>2. disk'[i].from = {<<j, outputs[r][j]>> : j \in Upstream(i, 1..(i - 1))}
    BY <1>5, <2>1 DEF NewReport
  <2>3. \A j \in Upstream(i, 1..(i - 1)) : outputs[r][j] = disk'[j].run
    BY <1>3, <1>4, <1>5, <1>6, <1>7
  <2>4. Upstream(i, 1..(i - 1))' = Upstream(i, 1..(i - 1))
    BY DEF Upstream, Held
  <2>5. disk'[i] # Missing
    BY <1>5, ReportNotMissing
  <2>6. PICK U : U = Upstream(i, 1..(i - 1))
    OBVIOUS
  <2>7. disk'[i].from = {<<j, disk'[j].run>> : j \in U}
    BY <2>2, <2>3, <2>6
  <2> QED
    BY <2>4, <2>5, <2>6, <2>7 DEF Fits
<1>9. ASSUME NEW k \in Holding(r) \cup DoneRoles(r), k # i PROVE Fits(k)'
  <2>1. k \in Role /\ disk'[k] = disk[k] /\ Fits(k)
    BY <1>5, <1>6, <1>9
  <2>2. \A j \in Upstream(k, 1..(k - 1)) : disk'[j] = disk[j]
    BY <1>4, <1>5, <1>6, <1>7
  <2> QED
    BY <2>1, <2>2, FitsFrame
<1> QED
  BY <1>2, <1>8, <1>9

\* What a state file or a run's memory lists goes on fitting together.
LEMMA FitStep ==
  ASSUME ~Overlap, TypeOK, LoopInv, BlankInv, Alone, FitInv, [Next]_vars,
         \A r \in Run : LineageAt(r) /\ MemoryAt(r)
  PROVE  FitInv'
<1> USE DEF diskVars, setupVars, loopVars
<1>a. ASSUME disk' = disk, NEW i, Fits(i) PROVE Fits(i)'
  BY <1>a DEF Fits, Upstream, Held
<1>1. CASE UNCHANGED vars
  <2>1. UNCHANGED <<disk, ledger, pc, outputs, results>>
    BY <1>1 DEF vars
  <2>2. \A r \in Run : DoneRoles(r)' = DoneRoles(r) /\ Holding(r)' = Holding(r)
    BY <2>1 DEF DoneRoles, Holding
  <2> QED
    BY <1>a, <2>1, <2>2 DEF FitInv, NoneKilled, NoneTorn, InLoop, HasLedger
<1>2. ASSUME NEW q \in Run, Moves(q), NoneKilled'
      PROVE  FitInv'
  <2>0. LoopAt(q) /\ LineageAt(q) /\ MemoryAt(q)
    BY DEF LoopInv
  <2>1. \A r \in Run : r # q => ~InLoop(r) /\ ~InLoop(r)' /\ pc'[r] = pc[r]
    BY <1>2, OthersIdle
  <2>2. NoneKilled
    <3>1. pc[q] \notin {"killed", "torn"}
      BY <1>2, MoverActive DEF Moves, Begin, Active
    <3> QED
      BY <1>2, <2>1, <3>1 DEF NoneKilled, NoneTorn
  <2>3. InLoop(q) => \A i \in Holding(q) \cup DoneRoles(q) : Fits(i)
    BY <2>2 DEF FitInv
  <2>4. ~InLoop(q) /\ HasLedger => \A i \in ledger.artifacts : Fits(i)
    BY <2>1, <2>2 DEF FitInv
  <2>5. ASSUME InLoop(q)', \A i \in Holding(q)' \cup DoneRoles(q)' : Fits(i)'
        PROVE  FitInv'
    BY <2>1, <2>5 DEF FitInv
  <2>6. ASSUME ~InLoop(q)', HasLedger' => \A i \in ledger'.artifacts : Fits(i)'
        PROVE  FitInv'
    BY <2>1, <2>6 DEF FitInv
  <2>7. ASSUME NEW s \in Role, NEW g \in BOOLEAN, Begin(q, s, g) PROVE FitInv'
    <3>1. ~InLoop(q) /\ ~InLoop(q)' /\ UNCHANGED <<disk, ledger>>
      BY <2>7 DEF Begin, InLoop, TypeOK
    <3> QED
      BY <1>a, <2>4, <2>6, <3>1 DEF HasLedger
  <2>8. CASE StartFresh(q)
    <3>1. ~InLoop(q) /\ InLoop(q)'
      BY <2>8, Fresh DEF StartFresh, InLoop
    <3>2. DoneRoles(q)' = {}
      BY <2>8, <3>1, Fresh, NoResultsYet
    <3> QED
      BY <2>5, <2>8, <3>1, <3>2, Fresh
  <2>9. CASE StartSeeded(q)
    <3>1. ~InLoop(q) /\ InLoop(q)'
      BY <2>9, Seeded DEF StartSeeded, InLoop
    <3>2. DoneRoles(q)' = {}
      BY <2>9, <3>1, Seeded, NoResultsYet
    <3>3. \A i \in Holding(q)' : Fits(i)'
      BY <1>a, <2>4, <2>9, <3>1, Seeded
    <3> QED
      BY <2>5, <3>1, <3>2, <3>3
  <2>10. CASE RefuseResume(q)
    <3>1. ~InLoop(q) /\ ~InLoop(q)' /\ UNCHANGED <<disk, ledger>>
      BY <2>10 DEF RefuseResume, Leave, InLoop, TypeOK
    <3> QED
      BY <1>a, <2>4, <2>6, <3>1 DEF HasLedger
  <2>11. ASSUME NEW i \in Role, NEW h \in BOOLEAN, RoleDone(q, i, h) PROVE FitInv'
    <3>1. InLoop(q) /\ InLoop(q)'
      BY <2>11 DEF RoleDone, InLoop
    <3> QED
      BY <2>0, <2>2, <2>3, <2>5, <2>11, <3>1, RoleDoneFits DEF BlankInv, NoneKilled
  <2>12. ASSUME InLoop(q), InLoop(q)', disk' = disk,
                Holding(q)' \cup DoneRoles(q)' = Holding(q) \cup DoneRoles(q)
         PROVE  FitInv'
    BY <1>a, <2>3, <2>5, <2>12
  <2>13. ASSUME NEW i \in Role, RoleFailed(q, i) \/ WriteSummary(q) PROVE FitInv'
    <3>1. InLoop(q) /\ InLoop(q)' /\ UNCHANGED <<disk, results, outputs>>
      BY <2>13 DEF RoleFailed, WriteSummary, InLoop, TypeOK
    <3>2. Holding(q)' = Holding(q) /\ DoneRoles(q)' = DoneRoles(q)
      BY <3>1 DEF Holding, DoneRoles
    <3> QED
      BY <2>12, <3>1, <3>2
  <2>14. ASSUME JoinFailed(q) \/ JoinGated(q) \/ JoinPassed(q) PROVE FitInv'
    <3>1. ApplyResults(q) /\ disk' = disk /\ pc[q] = "working"
      BY <2>14 DEF JoinFailed, JoinGated, JoinPassed, BatchOver
    <3>2. InLoop(q) /\ InLoop(q)'
      <4>1. pc'[q] \in {"working", "persisting"}
        BY <2>14, <3>1 DEF JoinFailed, JoinGated, JoinPassed, Finish, TypeOK
      <4> QED
        BY <3>1, <4>1 DEF InLoop
    <3>3. Holding(q)' = Holding(q) \cup DoneRoles(q) /\ DoneRoles(q)' = {}
      BY <3>1, Applied
    <3> QED
      BY <2>12, <3>1, <3>2, <3>3
  <2>15. CASE WriteState(q)
    <3>1. /\ InLoop(q) /\ ~InLoop(q)' /\ disk' = disk
          /\ ledger'.artifacts = Holding(q)
      BY <2>15 DEF WriteState, Status, Leave, InLoop, TypeOK
    <3> QED
      BY <1>a, <2>3, <2>6, <3>1
  <2>16. CASE Kill(q) \/ KillInReport(q)
    BY <1>2, <2>16 DEF Kill, KillInReport, Leave, NoneKilled, NoneTorn, TypeOK
  <2>17. 1 \in Role
    BY RoleAssumption DEF Role
  <2> QED
    BY <1>2, <2>7, <2>8, <2>9, <2>10, <2>11, <2>13, <2>14, <2>15, <2>16, <2>17
       DEF Moves, Progress, RoleStep
<1>3. ASSUME ~NoneKilled' PROVE FitInv'
  BY <1>3 DEF FitInv
<1> QED
  BY <1>1, <1>2, <1>3, StepOfOne

\* The summary is written just ahead of the state file.
LEMMA SummaryStep ==
  ASSUME ~Overlap, TypeOK, Alone, SummaryInv, [Next]_vars
  PROVE  SummaryInv'
<1> USE DEF diskVars, setupVars, loopVars
<1>1. CASE UNCHANGED vars
  BY <1>1 DEF vars, SummaryInv, NoneKilled, NoneTorn, HasLedger, Status
<1>2. ASSUME NEW q \in Run, Moves(q), NoneKilled' PROVE SummaryInv'
  <2>1. \A r \in Run : r # q => ~InLoop(r) /\ ~InLoop(r)' /\ pc'[r] = pc[r]
    BY <1>2, OthersIdle
  <2>2. NoneKilled
    <3>1. pc[q] \notin {"killed", "torn"}
      BY <1>2, MoverActive DEF Moves, Begin, Active
    <3> QED
      BY <1>2, <2>1, <3>1 DEF NoneKilled, NoneTorn
  <2>3. \A r \in Run : r # q => pc[r] # "summarised" /\ pc'[r] # "summarised"
    BY <2>1 DEF InLoop
  <2>4. ASSUME pc[q] # "summarised", pc'[q] # "summarised", UNCHANGED <<summary, ledger>>
        PROVE  SummaryInv'
    BY <2>2, <2>3, <2>4 DEF SummaryInv, HasLedger
  <2>5. CASE WriteSummary(q)
    <3>1. /\ pc'[q] = "summarised" /\ summary' = [run |-> q, status |-> Status(q)]
          /\ outcome' = outcome
      BY <2>5 DEF WriteSummary, TypeOK
    <3>2. Status(q)' = Status(q)
      BY <3>1 DEF Status
    <3> QED
      BY <2>3, <3>1, <3>2 DEF SummaryInv
  <2>6. CASE WriteState(q)
    <3>1. /\ pc[q] = "summarised" /\ pc'[q] # "summarised" /\ summary' = summary
          /\ ledger'.run = q /\ ledger'.status = Status(q)
      BY <2>6 DEF WriteState, Leave, Status, TypeOK
    <3> QED
      BY <2>2, <2>3, <3>1 DEF SummaryInv
  <2>7. CASE Kill(q) \/ KillInReport(q)
    BY <1>2, <2>7 DEF Kill, KillInReport, Leave, NoneKilled, NoneTorn, TypeOK
  <2>8. ASSUME ~WriteSummary(q), ~WriteState(q), ~Kill(q), ~KillInReport(q)
        PROVE  pc[q] # "summarised" /\ pc'[q] # "summarised" /\ UNCHANGED <<summary, ledger>>
    <3>1. CASE \E s \in Role, g \in BOOLEAN : Begin(q, s, g)
      BY <3>1 DEF Begin, TypeOK
    <3>2. CASE StartFresh(q) \/ StartSeeded(q)
      BY <3>2, Fresh, Seeded DEF StartFresh, StartSeeded
    <3>3. CASE RefuseResume(q)
      BY <3>3 DEF RefuseResume, Leave, TypeOK
    <3>4. CASE RoleStep(q)
      BY <3>4 DEF RoleStep, RoleDone, RoleFailed
    <3>5. CASE JoinFailed(q) \/ JoinGated(q) \/ JoinPassed(q)
      BY <3>5 DEF JoinFailed, JoinGated, JoinPassed, BatchOver, Finish, TypeOK
    <3> QED
      BY <1>2, <2>8, <3>1, <3>2, <3>3, <3>4, <3>5 DEF Moves, Progress
  <2> QED
    BY <2>4, <2>5, <2>6, <2>7, <2>8
<1>3. ASSUME ~NoneKilled' PROVE SummaryInv'
  BY <1>3 DEF SummaryInv
<1> QED
  BY <1>1, <1>2, <1>3, StepOfOne

(***************************************************************************)
(* The directory keeps RunLedger's promises.                               *)
(***************************************************************************)

\* The phase of an invocation follows its pc.
LEMMA PhaseOf ==
  ASSUME NEW q \in Run
  PROVE  /\ pc[q] \in {"idle", "resuming", "refused"} => Phase[q] = "idle"
         /\ pc[q] \in {"working", "persisting", "summarised"} => Phase[q] = "active"
         /\ pc[q] \in {"completed", "failed"} => Phase[q] = "recorded"
         /\ pc[q] \in {"killed", "torn"} => Phase[q] = "lost"
  BY DEF Phase

LEMMA PhaseOfNext ==
  ASSUME NEW q \in Run
  PROVE  /\ pc'[q] \in {"idle", "resuming", "refused"} => Phase'[q] = "idle"
         /\ pc'[q] \in {"working", "persisting", "summarised"} => Phase'[q] = "active"
         /\ pc'[q] \in {"completed", "failed"} => Phase'[q] = "recorded"
         /\ pc'[q] \in {"killed", "torn"} => Phase'[q] = "lost"
  BY DEF Phase

\* Only the phase of the invocation that moves may change.
LEMMA PhaseOfOthers ==
  ASSUME TypeOK, NEW r \in Run, Moves(r)
  PROVE  Phase' = [Phase EXCEPT ![r] = Phase'[r]]
<1>1. \A q \in Run : q # r => pc'[q] = pc[q]
  BY OthersStay DEF Memory
<1>2. ASSUME NEW q \in Run, q # r PROVE Phase'[q] = Phase[q]
  BY <1>1, <1>2 DEF Phase
<1>3. DOMAIN Phase = Run /\ DOMAIN Phase' = Run
  BY DEF Phase
<1>4. Phase = [q \in Run |-> Phase[q]] /\ Phase' = [q \in Run |-> Phase'[q]]
  BY DEF Phase
<1> QED
  BY <1>2, <1>3, <1>4

\* What a finished run saves extends the record it found.
LEMMA WriteStateRecords ==
  ASSUME TypeOK, LoopInv, NEW r \in Run, LineageAt(r), ApartAt(r), WriteState(r)
  PROVE  Ledger!Record(r)
<1>1. /\ pc[r] = "summarised"
      /\ ledger' = [run |-> r, whole |-> TRUE, status |-> Status(r),
                    artifacts |-> Holding(r), failed |-> failed[r],
                    parent |-> parent[r], start |-> start[r]]
      /\ Leave(r, Status(r))
  BY DEF WriteState
<1>2. Status(r) \in {"completed", "failed"}
  BY DEF Status
<1>3. Phase[r] = "active" /\ Phase' = [Phase EXCEPT ![r] = "recorded"]
  <2>1. pc'[r] \in {"completed", "failed"}
    BY <1>1, <1>2 DEF Leave, TypeOK
  <2>2. Moves(r)
    BY DEF Moves, Progress
  <2> QED
    BY <1>1, <2>1, <2>2, PhaseOf, PhaseOfNext, PhaseOfOthers
<1>4. ledger' \in [run: {r}, whole: {TRUE}, status: {"completed", "failed"},
                   artifacts: SUBSET (1..N), failed: SUBSET (1..N),
                   parent: Run \cup {NoRun}, start: 1..N]
  <2>1. /\ Holding(r) \in SUBSET (1..N) /\ failed[r] \in SUBSET (1..N)
        /\ parent[r] \in Run \cup {NoRun} /\ start[r] \in 1..N
    BY DEF TypeOK, Holding, Role
  <2> QED
    BY <1>1, <1>2, <2>1
<1>5. Ledger!Extends(ledger')
  <2>1. /\ ledger'.start = start[r] /\ ledger'.parent = parent[r]
        /\ ledger'.artifacts = Holding(r)
    BY <1>1
  <2>2. IF start[r] = 1 THEN parent[r] = NoRun
        ELSE /\ HasLedger /\ parent[r] = ledger.run
             /\ 1..(start[r] - 1) \subseteq ledger.artifacts \cap Holding(r)
    BY <1>1 DEF LineageAt, InLoop
  <2> QED
    BY <2>1, <2>2 DEF Ledger!Extends, HasLedger
<1>6. ledger'.artifacts \cap ledger'.failed = {}
  BY <1>1 DEF ApartAt
<1>7. ledger'.status = "completed" => ledger'.artifacts = 1..N
  BY <1>1 DEF LoopInv, LoopAt, Status, Role
<1> QED
  BY <1>3, <1>4, <1>5, <1>6, <1>7 DEF Ledger!Record

\* Every step of the runner is a step of the ledger, or leaves it as it was.
LEMMA LedgerRefined ==
  ASSUME TypeOK, LoopInv, [Next]_vars,
         \A r \in Run : LineageAt(r) /\ ApartAt(r)
  PROVE  [Ledger!Next]_(Ledger!vars)
<1> USE DEF diskVars, setupVars, loopVars
<1>1. CASE UNCHANGED vars
  BY <1>1 DEF vars, Ledger!vars, Phase
<1>2. ASSUME NEW q \in Run, Moves(q) PROVE [Ledger!Next]_(Ledger!vars)
  <2>1. Phase' = [Phase EXCEPT ![q] = Phase'[q]] /\ Phase \in [Run -> {Phase[r] : r \in Run}]
    BY <1>2, PhaseOfOthers DEF Phase
  <2>2. ASSUME Phase'[q] = Phase[q], ledger' = ledger PROVE [Ledger!Next]_(Ledger!vars)
    <3>1. Phase' = Phase
      BY <2>1, <2>2
    <3> QED
      BY <2>2, <3>1 DEF Ledger!vars
  <2>3. ASSUME NEW s \in Role, NEW g \in BOOLEAN, Begin(q, s, g)
        PROVE  [Ledger!Next]_(Ledger!vars)
    <3>1. pc[q] = "idle" /\ pc'[q] \in {"resuming", "refused"} /\ ledger' = ledger
      BY <2>3 DEF Begin, TypeOK
    <3> QED
      BY <2>2, <3>1, PhaseOf, PhaseOfNext
  <2>4. CASE StartFresh(q) \/ StartSeeded(q)
    <3>1. pc[q] = "resuming" /\ pc'[q] = "working" /\ ledger' = ledger
      BY <2>4, Fresh, Seeded DEF StartFresh, StartSeeded
    <3>2. Phase[q] = "idle" /\ Phase'[q] = "active"
      BY <3>1, PhaseOf, PhaseOfNext
    <3>3. Ledger!Enter(q)
      BY <2>1, <3>1, <3>2 DEF Ledger!Enter
    <3> QED
      BY <3>3 DEF Ledger!Next
  <2>5. CASE RefuseResume(q)
    <3>1. pc[q] = "resuming" /\ pc'[q] = "refused" /\ ledger' = ledger
      BY <2>5 DEF RefuseResume, Leave, TypeOK
    <3> QED
      BY <2>2, <3>1, PhaseOf, PhaseOfNext
  <2>6. CASE RoleStep(q)
    <3>1. pc' = pc /\ ledger' = ledger
      BY <2>6 DEF RoleStep, RoleDone, RoleFailed
    <3> QED
      BY <2>2, <3>1 DEF Phase
  <2>7. CASE JoinFailed(q) \/ JoinGated(q) \/ JoinPassed(q) \/ WriteSummary(q)
    <3>1. /\ pc[q] \in {"working", "persisting"}
          /\ pc'[q] \in {"working", "persisting", "summarised"} /\ ledger' = ledger
      BY <2>7 DEF JoinFailed, JoinGated, JoinPassed, BatchOver, Finish, WriteSummary, TypeOK
    <3> QED
      BY <2>2, <3>1, PhaseOf, PhaseOfNext
  <2>8. CASE WriteState(q)
    BY <2>8, WriteStateRecords DEF Ledger!Next
  <2>9. CASE Kill(q) \/ KillInReport(q)
    <3>1. /\ InLoop(q) /\ pc'[q] \in {"killed", "torn"}
          /\ ledger' \in {ledger, TornLedger}
      <4>1. CASE Kill(q)
        BY <4>1 DEF Kill, Leave, TypeOK
      <4>2. CASE KillInReport(q)
        <5>1. pc[q] = "working" /\ Leave(q, "torn") /\ ledger' = ledger
          BY <4>2, EmptyFiles
        <5>2. pc'[q] = "torn"
          BY <5>1 DEF Leave, TypeOK
        <5> QED
          BY <5>1, <5>2 DEF InLoop
      <4> QED
        BY <2>9, <4>1, <4>2
    <3>2. Phase[q] = "active" /\ Phase'[q] = "lost"
      BY <3>1, PhaseOf, PhaseOfNext DEF InLoop
    <3>3. Ledger!Lose(q)
      BY <2>1, <3>1, <3>2 DEF Ledger!Lose, Ledger!Blank, TornLedger
    <3> QED
      BY <3>3 DEF Ledger!Next
  <2> QED
    BY <1>2, <2>3, <2>4, <2>5, <2>6, <2>7, <2>8, <2>9 DEF Moves, Progress
<1> QED
  BY <1>1, <1>2, StepOfOne

(***************************************************************************)
(* What a directory used by one invocation at a time keeps.                *)
(***************************************************************************)

\* run_pipeline, from _load_resume_state to _write_summary_and_state, in a directory used
\* by one invocation at a time: what it holds was made from what the files say.
THEOREM Solo == ASSUME ~Overlap PROVE Spec => [](IInv /\ SoloInv)
<1>1. Init => IInv /\ SoloInv
  <2>1. Init => SoloInv
    BY DEF Init, SoloInv, Alone, Active, LineageAt, MemoryAt, InLoop, FitInv,
       SummaryInv, HasLedger, NoLedger
  <2> QED
    BY <2>1, InitIInv
<1>2. IInv /\ SoloInv /\ [Next]_vars => (IInv /\ SoloInv)'
  <2>1. IInv /\ [Next]_vars => IInv'
    BY StepIInv
  <2>2. IInv /\ SoloInv /\ [Next]_vars => SoloInv'
    BY AloneStep, LineageMemoryStep, FitStep, SummaryStep DEF IInv, SoloInv
  <2> QED
    BY <2>1, <2>2
<1> QED
  BY <1>1, <1>2, PTL DEF Spec

\* Between runs, none of them killed, the reports that pipeline_state.json lists were made
\* from one another, although _execute_role leaves those of failed and refused runs on disk.
THEOREM Fitting == ASSUME ~Overlap PROVE Spec => []ReportsFitTogether
<1>1. SoloInv => ReportsFitTogether
  BY DEF SoloInv, FitInv, ReportsFitTogether, Active, InLoop
<1> QED
  BY <1>1, Solo, PTL

\* _write_summary_and_state: between runs, unless one was killed between its two writes,
\* the summary and the state file speak of the same run.
THEOREM Agreeing == ASSUME ~Overlap PROVE Spec => []SummaryAgrees
<1>1. SoloInv => SummaryAgrees
  BY DEF SoloInv, SummaryInv, SummaryAgrees, Active
<1> QED
  BY <1>1, Solo, PTL

\* A directory used by one invocation at a time implements RunLedger: its
\* records form a line, and none is overtaken or wrong.
THEOREM Refinement == ASSUME ~Overlap PROVE Spec => LedgerSpec
<1>1. Init => Ledger!Init
  BY DEF Init, Ledger!Init, Ledger!Blank, NoLedger, Phase
<1>2. IInv /\ SoloInv /\ [Next]_vars => [Ledger!Next]_(Ledger!vars)
  BY LedgerRefined DEF IInv, SoloInv
<1> QED
  BY <1>1, <1>2, Solo, PTL DEF Spec, LedgerSpec, Ledger!Spec
=============================================================================
