---------------------------- MODULE EsePipeline ----------------------------
(***************************************************************************)
(* The ESE pipeline runner, src/ese/pipeline.py: run_pipeline and what it  *)
(* keeps in one artifacts directory.  A run executes the configured roles  *)
(* in order, contiguous specialist roles as a thread-pool batch; it writes *)
(* one report file per role, may stop at the severity gate, and finally    *)
(* writes ese_summary.md and then pipeline_state.json, from which a later  *)
(* invocation (`ese rerun <role>`) resumes.                                *)
(*                                                                         *)
(* Roles are their positions 1..N in the role order, which is also the     *)
(* number in the artifact's file name, so a role has one file.  The body   *)
(* of a report is abstracted to who wrote it, whether it holds a HIGH or   *)
(* CRITICAL finding, and which upstream reports were in its prompt.  The   *)
(* model is of output.enforce_json=true, which the severity gate requires; *)
(* a rendered report is then never empty.  _write opens the file for       *)
(* writing, which empties it, and then writes the text: a run that dies in *)
(* between leaves an empty report, and so does one read at that moment by  *)
(* another run.  A report cut short but not empty is read like any other,  *)
(* and is not told apart from a whole one; nor are two runs that write one *)
(* file in the same instant, of which the later one's report remains.      *)
(***************************************************************************)
EXTENDS Integers, Sequences, FiniteSets

CONSTANTS
  Run,                  \* invocations of run_pipeline on this directory
  NoRun,                \* "no run": parent_run_id absent, output absent
  N,                    \* number of configured roles
  Kind,                 \* what each role is: architect, implementer, ...
  Isolation,            \* runtime.review_isolation
  ParallelSpecialists,  \* runtime.parallel_specialists
  MaxParallel,          \* runtime.max_parallel_roles
  Blocking,             \* roles whose reports may hold a HIGH finding: a bound
  AbsoluteDir,          \* artifacts_dir is given as an absolute path
  Overlap               \* TRUE: two invocations may share the directory

Role == 1..N

Kinds == {"architect", "implementer", "specialist", "custom"}

ASSUME RunAssumption == NoRun \notin Run
ASSUME RoleAssumption ==
  N \in Nat \ {0} /\ Kind \in [Role -> Kinds] /\ Blocking \subseteq Role
ASSUME ConfigAssumption ==
  /\ Isolation \in {"framed", "implementation_only", "scope_only",
                    "scope_and_implementation"}
  /\ ParallelSpecialists \in BOOLEAN
  /\ MaxParallel \in Nat \ {0}
  /\ AbsoluteDir \in BOOLEAN
  /\ Overlap \in BOOLEAN

VARIABLES
  disk,       \* report file of each role
  ledger,     \* pipeline_state.json
  summary,    \* ese_summary.md
  snapshot,   \* ese_config.snapshot.yaml: the run that wrote it last
  pc,         \* where each invocation is
  gate,       \* its gating.fail_on_high
  start,      \* its start_role, as an index
  ptr,        \* its index_pointer
  todo,       \* roles of its current batch that have not finished
  results,    \* its current batch's results, in completion order
  failed,     \* roles of its current batch that raised
  outputs,    \* role_outputs / role_artifacts: whose report it holds
  execution,  \* its execution list, as role positions
  parent,     \* parent_run_id
  blank,      \* the reports it resumed from whose text it read as empty
  outcome     \* how it ended: completed, failed or gated

diskVars == <<disk, ledger, summary, snapshot>>
setupVars == <<gate, start, parent>>
loopVars == <<ptr, todo, results, failed, outputs, execution>>
vars == <<diskVars, pc, setupVars, loopVars, blank, outcome>>

(***************************************************************************)
(* Files                                                                   *)
(***************************************************************************)
Missing == [run |-> NoRun]
Report ==
  [run: Run, high: BOOLEAN, from: SUBSET (Role \X Run), empty: BOOLEAN]

NoLedger == [run |-> NoRun, whole |-> TRUE]
TornLedger == [run |-> NoRun, whole |-> FALSE]
LedgerFile ==
  [run: Run, whole: {TRUE}, status: {"completed", "failed"},
   artifacts: SUBSET Role, failed: SUBSET Role,
   parent: Run \cup {NoRun}, start: Role]

HasLedger == ledger.run # NoRun

\* No ese_summary.md, or one cut short.
NoSummary == [run |-> NoRun]
SummaryFile == [run: Run, status: {"completed", "failed"}]

(***************************************************************************)
(* Prompt context and batches                                              *)
(***************************************************************************)

\* The positions a role kind occupies among those holding an output.
Held(kind, have) == {j \in have : Kind[j] = kind}

\* The upstream reports put in front of role i when `have` is the set of
\* roles the run holds an output of.
Upstream(i, have) ==
  LET arch == Held("architect", have)
      impl == Held("implementer", have)
      framed == IF Isolation = "framed" THEN arch ELSE {}
  IN  CASE Kind[i] = "architect" -> {}
        [] Kind[i] = "implementer" -> arch
        [] Kind[i] = "specialist" ->
             IF Isolation = "scope_only" THEN {} ELSE framed \cup impl
        [] OTHER ->
             IF Isolation = "scope_only" THEN {}
             ELSE framed \cup (have \ arch)

Parallel(i) == ParallelSpecialists /\ Kind[i] = "specialist"

\* Mutant: the scan takes one role more than the contiguous parallel ones.
BatchTakesOneMore(i) ==
  IF i > N THEN {}
  ELSE {i} \cup {k \in i..N : \A m \in i..(k - 1) : Parallel(m)}

\* The roles submitted together when the pointer is at i: the contiguous
\* parallelizable roles from i on, or i alone.
Batch(i) ==
  IF i > N THEN {}
  ELSE {i} \cup {k \in i..N : \A m \in i..k : Parallel(m)}

\* ThreadPoolExecutor(max_workers) starts the batch in submission order, so
\* at most MaxParallel of the unfinished roles have begun.
Begun(r, i) ==
  i \in todo[r] /\ Cardinality({j \in todo[r] : j < i}) < MaxParallel

(***************************************************************************)
(* Runs                                                                    *)
(***************************************************************************)
Active == {r \in Run : pc[r] \in {"resuming", "working", "persisting", "summarised"}}

InLoop(r) == pc[r] \in {"working", "persisting", "summarised"}

Holding(r) == {i \in Role : outputs[r][i] # NoRun}

\* The files run r has open for writing, or may have at any moment.
InWrite(r) == IF pc[r] = "working" THEN {i \in Role : Begun(r, i)} ELSE {}

NoOutputs == [i \in Role |-> NoRun]

Init ==
  /\ disk = [i \in Role |-> Missing]
  /\ ledger = NoLedger
  /\ summary = NoSummary
  /\ snapshot = NoRun
  /\ pc = [r \in Run |-> "idle"]
  /\ gate = [r \in Run |-> TRUE]
  /\ start = [r \in Run |-> 1]
  /\ ptr = [r \in Run |-> 1]
  /\ todo = [r \in Run |-> {}]
  /\ results = [r \in Run |-> << >>]
  /\ failed = [r \in Run |-> {}]
  /\ outputs = [r \in Run |-> NoOutputs]
  /\ execution = [r \in Run |-> << >>]
  /\ parent = [r \in Run |-> NoRun]
  /\ blank = [r \in Run |-> {}]
  /\ outcome = [r \in Run |-> "none"]

\* The invocation ends and its local variables with it.
Leave(r, how) ==
  /\ pc' = [pc EXCEPT ![r] = how]
  /\ start' = [start EXCEPT ![r] = 1]
  /\ parent' = [parent EXCEPT ![r] = NoRun]
  /\ ptr' = [ptr EXCEPT ![r] = 1]
  /\ todo' = [todo EXCEPT ![r] = {}]
  /\ results' = [results EXCEPT ![r] = << >>]
  /\ failed' = [failed EXCEPT ![r] = {}]
  /\ outputs' = [outputs EXCEPT ![r] = NoOutputs]
  /\ execution' = [execution EXCEPT ![r] = << >>]
  /\ UNCHANGED <<snapshot, gate, blank, outcome>>

\* run_pipeline up to _load_resume_state: the config snapshot is written
\* before the adapter is resolved, which may refuse the run.
Begin(r, s, g) ==
  /\ pc[r] = "idle"
  /\ Overlap \/ Active = {}
  /\ snapshot' = r
  /\ \/ /\ pc' = [pc EXCEPT ![r] = "resuming"]
        /\ start' = [start EXCEPT ![r] = s]
        /\ gate' = [gate EXCEPT ![r] = g]
     \/ /\ pc' = [pc EXCEPT ![r] = "refused"]
        /\ UNCHANGED <<start, gate>>
  /\ UNCHANGED <<disk, ledger, summary, parent, loopVars, blank, outcome>>

\* The path a state file saves for a report starts with artifacts_dir, and a
\* relative one is joined to artifacts_dir once more before it is opened.
Found(i) == AbsoluteDir /\ disk[i] # Missing

\* Mutant: a report on disk will do, whether or not the saved state lists it.
CanResumeFromFiles(s) ==
  HasLedger /\ \A i \in 1..(s - 1) : Found(i)

\* _load_resume_state: the saved state and the report of every role before
\* the start role must be there; nothing else of the saved state is looked at.
CanResume(s) ==
  /\ HasLedger
  /\ \A i \in 1..(s - 1) : i \in ledger.artifacts /\ Found(i)

EnterLoop(r, held, exec, p, unread) ==
  /\ pc' = [pc EXCEPT ![r] = "working"]
  /\ ptr' = [ptr EXCEPT ![r] = start[r]]
  /\ todo' = [todo EXCEPT ![r] = Batch(start[r])]
  /\ outputs' = [outputs EXCEPT ![r] = held]
  /\ execution' = [execution EXCEPT ![r] = exec]
  /\ parent' = [parent EXCEPT ![r] = p]
  /\ blank' = [blank EXCEPT ![r] = unread]
  /\ UNCHANGED <<diskVars, gate, start, results, failed, outcome>>

\* No start role, or the first one: nothing is seeded and there is no parent.
StartFresh(r) ==
  /\ pc[r] = "resuming"
  /\ start[r] = 1
  /\ EnterLoop(r, NoOutputs, << >>, NoRun, {})

\* Which of the reports seeded before role s are read as empty: those a killed
\* run left empty, and any another run is writing at that moment.
ReadEmpty(r, s, B) ==
  /\ B \subseteq 1..(s - 1)
  /\ \A i \in 1..(s - 1) : disk[i].empty => i \in B
  /\ \A i \in B : disk[i].empty \/ \E q \in Run \ {r} : i \in InWrite(q)

\* The outputs of the roles before s, each with the run that wrote its report.
Seeds(s) == [i \in Role |-> IF i < s THEN disk[i].run ELSE NoRun]

\* Mutants: one role too few is seeded; the parent is forgotten.
StartSeededShort(r) ==
  /\ pc[r] = "resuming"
  /\ start[r] > 1
  /\ CanResume(start[r])
  /\ EnterLoop(r, Seeds(start[r] - 1), [i \in 1..(start[r] - 2) |-> i], ledger.run, {})

StartSeededOrphan(r) ==
  /\ pc[r] = "resuming"
  /\ start[r] > 1
  /\ CanResume(start[r])
  /\ EnterLoop(r, Seeds(start[r]), [i \in 1..(start[r] - 1) |-> i], NoRun, {})

\* A later start role: outputs, models and execution entries of the roles
\* before it are seeded from the directory; that a report is there is all that
\* is asked of it.
StartSeeded(r) ==
  /\ pc[r] = "resuming"
  /\ start[r] > 1
  /\ CanResume(start[r])
  /\ \E B \in SUBSET Role :
       /\ ReadEmpty(r, start[r], B)
       /\ EnterLoop(r, Seeds(start[r]), [i \in 1..(start[r] - 1) |-> i], ledger.run, B)

\* Nothing to resume from, or a state file another run is writing, which does
\* not parse.
RefuseResume(r) ==
  /\ pc[r] = "resuming"
  /\ start[r] > 1
  /\ ~CanResume(start[r]) \/ \E q \in Run \ {r} : pc[q] = "summarised"
  /\ Leave(r, "refused")
  /\ UNCHANGED <<disk, ledger, summary>>

\* What _execute_role writes: a report whose prompt was built from the
\* outputs held when the batch was submitted, the empty ones left out.
NewReport(r, i, h) ==
  [run |-> r, high |-> h, empty |-> FALSE,
   from |-> {<<j, outputs[r][j]>> : j \in Upstream(i, Holding(r) \ blank[r])}]

\* What opening the file leaves of the report that was there.
EmptyReport(r) == [run |-> r, high |-> FALSE, from |-> {}, empty |-> TRUE]

\* A worker's adapter call returns a valid report and the file is written.
RoleDone(r, i, h) ==
  /\ pc[r] = "working"
  /\ Begun(r, i)
  /\ h => i \in Blocking
  /\ disk' = [disk EXCEPT ![i] = NewReport(r, i, h)]
  /\ todo' = [todo EXCEPT ![r] = @ \ {i}]
  /\ results' = [results EXCEPT ![r] = Append(@, [role |-> i, high |-> h])]
  /\ UNCHANGED <<ledger, summary, snapshot, pc, setupVars, ptr, failed,
                 outputs, execution, blank, outcome>>

\* The adapter call raises, or its output breaks the report contract.
RoleFailed(r, i) ==
  /\ pc[r] = "working"
  /\ Begun(r, i)
  /\ todo' = [todo EXCEPT ![r] = @ \ {i}]
  /\ failed' = [failed EXCEPT ![r] = @ \cup {i}]
  /\ UNCHANGED <<diskVars, pc, setupVars, ptr, results, outputs, execution,
                 blank, outcome>>

DoneRoles(r) == {results[r][k].role : k \in DOMAIN results[r]}

\* Mutant: only the result that came in last is looked at.
LastIsBlocker(r) ==
  results[r] # << >> /\ results[r][Len(results[r])].high

HasBlocker(r) == \E k \in DOMAIN results[r] : results[r][k].high

\* Mutant: results are taken as the workers finished.
InFinishOrder(s) == [k \in DOMAIN s |-> s[k].role]

\* The members of a finite set of positions, the smallest first.
Ascending(S) ==
  [k \in 1..Cardinality(S) |->
     CHOOSE i \in S : Cardinality({j \in S : j <= i}) = k]

\* batch_results.sort by position: a role has one result in a batch.
InRoleOrder(s) == Ascending({s[k].role : k \in DOMAIN s})

\* The batch is over: results are applied in role order, whatever the order
\* the workers finished in.
ApplyResults(r) ==
  /\ outputs' = [outputs EXCEPT ![r] =
                   [i \in Role |-> IF i \in DoneRoles(r) THEN r ELSE @[i]]]
  /\ execution' = [execution EXCEPT ![r] = @ \o InRoleOrder(results[r])]
  /\ results' = [results EXCEPT ![r] = << >>]

Finish(r, how) ==
  /\ pc' = [pc EXCEPT ![r] = "persisting"]
  /\ outcome' = [outcome EXCEPT ![r] = how]

\* Mutant: a batch is joined once it has a result.
BatchHasResult(r) == pc[r] = "working" /\ todo[r] = {} /\ results[r] # << >>

BatchOver(r) == pc[r] = "working" /\ todo[r] = {}

\* Mutant: the results of a failed batch are dropped.
JoinFailedDropping(r) ==
  /\ BatchOver(r)
  /\ failed[r] # {}
  /\ results' = [results EXCEPT ![r] = << >>]
  /\ Finish(r, "failed")
  /\ UNCHANGED <<diskVars, setupVars, ptr, todo, failed, outputs, execution, blank>>

\* Some role of the batch failed: the gate is not consulted.
JoinFailed(r) ==
  /\ BatchOver(r)
  /\ failed[r] # {}
  /\ ApplyResults(r)
  /\ Finish(r, "failed")
  /\ UNCHANGED <<diskVars, setupVars, ptr, todo, failed, blank>>

\* _maybe_gate_pipeline looks at the reports of this batch only.
JoinGated(r) ==
  /\ BatchOver(r)
  /\ failed[r] = {}
  /\ gate[r] /\ HasBlocker(r)
  /\ ApplyResults(r)
  /\ Finish(r, "gated")
  /\ UNCHANGED <<diskVars, setupVars, ptr, todo, failed, blank>>

PastBatch(r) == ptr[r] + Cardinality(Batch(ptr[r]))

JoinPassed(r) ==
  /\ BatchOver(r)
  /\ failed[r] = {}
  /\ ~(gate[r] /\ HasBlocker(r))
  /\ ApplyResults(r)
  /\ ptr' = [ptr EXCEPT ![r] = PastBatch(r)]
  /\ todo' = [todo EXCEPT ![r] = Batch(PastBatch(r))]
  /\ IF PastBatch(r) > N THEN Finish(r, "completed") ELSE UNCHANGED <<pc, outcome>>
  /\ UNCHANGED <<diskVars, setupVars, failed, blank>>

Status(r) == IF outcome[r] = "completed" THEN "completed" ELSE "failed"

\* Mutant: only a failed role makes the summary say failed.
WriteSummaryUngated(r) ==
  /\ pc[r] = "persisting"
  /\ summary' = [run |-> r,
                 status |-> IF failed[r] = {} THEN "completed" ELSE "failed"]
  /\ pc' = [pc EXCEPT ![r] = "summarised"]
  /\ UNCHANGED <<disk, ledger, snapshot, setupVars, loopVars, blank, outcome>>

\* _write_summary_and_state writes two files, one after the other.
WriteSummary(r) ==
  /\ pc[r] = "persisting"
  /\ summary' = [run |-> r, status |-> Status(r)]
  /\ pc' = [pc EXCEPT ![r] = "summarised"]
  /\ UNCHANGED <<disk, ledger, snapshot, setupVars, loopVars, blank, outcome>>

\* Mutant: the outcome of the loop is written for the status.
WriteStateOutcome(r) ==
  /\ pc[r] = "summarised"
  /\ ledger' = [run |-> r, whole |-> TRUE, status |-> outcome[r],
                artifacts |-> Holding(r), failed |-> failed[r],
                parent |-> parent[r], start |-> start[r]]
  /\ Leave(r, Status(r))
  /\ UNCHANGED <<disk, summary>>

WriteState(r) ==
  /\ pc[r] = "summarised"
  /\ ledger' = [run |-> r, whole |-> TRUE, status |-> Status(r),
                artifacts |-> Holding(r), failed |-> failed[r],
                parent |-> parent[r], start |-> start[r]]
  /\ Leave(r, Status(r))
  /\ UNCHANGED <<disk, summary>>

\* The process dies: an interrupt is not an Exception, so nothing is
\* persisted on the way out, and the file being written may be cut short.  One
\* that dies before its loop leaves what a refused one does.
Kill(r) ==
  /\ InLoop(r)
  /\ Leave(r, "killed")
  /\ \/ UNCHANGED <<ledger, summary>>
     \/ pc[r] = "persisting" /\ summary' = NoSummary /\ UNCHANGED ledger
     \/ pc[r] = "summarised" /\ ledger' = TornLedger /\ UNCHANGED summary
  /\ UNCHANGED disk

\* It dies while workers of the batch are in _write, whose files it leaves empty.
KillInReport(r) ==
  /\ \E S \in (SUBSET InWrite(r)) \ {{}} :
       disk' = [i \in Role |-> IF i \in S THEN EmptyReport(r) ELSE disk[i]]
  /\ Leave(r, "torn")
  /\ UNCHANGED <<ledger, summary>>

RoleStep(r) == \E i \in Role : RoleFailed(r, i) \/ \E h \in BOOLEAN : RoleDone(r, i, h)

Progress(r) ==
  \/ StartFresh(r) \/ StartSeeded(r) \/ RefuseResume(r)
  \/ RoleStep(r)
  \/ JoinFailed(r) \/ JoinGated(r) \/ JoinPassed(r)
  \/ WriteSummary(r) \/ WriteState(r)

Next ==
  \E r \in Run :
    \/ \E s \in Role, g \in BOOLEAN : Begin(r, s, g)
    \/ Progress(r)
    \/ Kill(r) \/ KillInReport(r)

Spec == Init /\ [][Next]_vars

\* Adapter calls return or time out, so an invocation that is not killed
\* keeps going; nothing obliges anyone to begin one.
FairSpec == Spec /\ \A r \in Run : WF_vars(Progress(r))

(***************************************************************************)
(* Properties                                                              *)
(***************************************************************************)
Phases == {"idle", "resuming", "refused", "working", "persisting",
           "summarised", "completed", "failed", "killed", "torn"}

\* Types of the state; what execution holds is said by ExecutionInRoleOrder.
TypeOK ==
  /\ disk \in [Role -> Report \cup {Missing}]
  /\ ledger \in LedgerFile \cup {NoLedger, TornLedger}
  /\ summary \in SummaryFile \cup {NoSummary}
  /\ snapshot \in Run \cup {NoRun}
  /\ pc \in [Run -> Phases]
  /\ gate \in [Run -> BOOLEAN]
  /\ start \in [Run -> Role]
  /\ ptr \in [Run -> Nat \ {0}]
  /\ todo \in [Run -> SUBSET Role]
  /\ results \in [Run -> Seq([role: Role, high: BOOLEAN])]
  /\ failed \in [Run -> SUBSET Role]
  /\ outputs \in [Run -> [Role -> Run \cup {NoRun}]]
  /\ parent \in [Run -> Run \cup {NoRun}]
  /\ blank \in [Run -> SUBSET Role]
  /\ outcome \in [Run -> {"none", "completed", "failed", "gated"}]

NoneTorn == \A r \in Run : pc[r] # "torn"

NoneKilled == NoneTorn /\ \A r \in Run : pc[r] # "killed"

\* A state file that says "completed" lists a report for every configured
\* role, executed or seeded, each with its file, and no failed role.
CompletedIsWhole ==
  HasLedger /\ ledger.status = "completed" =>
    /\ ledger.artifacts = Role
    /\ ledger.failed = {}
    /\ \A i \in Role : disk[i] # Missing

\* Partial failure support: whatever workers of a batch succeeded or failed,
\* and in whatever order, the saved state lets the first failed role be rerun
\* (in a directory named by an absolute path: see CompletedRunsResume).
FirstFailedIsResumable ==
  HasLedger /\ ledger.failed # {} => \E s \in ledger.failed : CanResume(s)

\* The execution list a run is about to persist names the roles whose output
\* it holds once each, in role order, although workers finish in any order.
ExecutionInRoleOrder ==
  \A r \in Run :
    LET e == execution[r]
    IN  /\ \A k, m \in DOMAIN e : k < m => e[k] < e[m]
        /\ {e[k] : k \in DOMAIN e} = Holding(r)

\* The gate of _maybe_gate_pipeline covers every report a run writes: a run
\* with fail_on_high never completes having written a HIGH or CRITICAL one,
\* in a serial step or anywhere in a batch.
BlockersStopTheirRun ==
  \A i \in Role :
    disk[i] # Missing /\ disk[i].high /\ gate[disk[i].run]
      => pc[disk[i].run] # "completed"

\* Review isolation does not depend on scheduling: a role that ran in a batch,
\* serially, or after a resume had in its prompt the upstream roles that its
\* place in the role order gives it, all of them but those whose report the run
\* read as empty when it resumed; and it read none as empty unless a run died
\* inside the write of a report, or another one was writing in the directory.
PromptsAreComplete ==
  \A i \in Role :
    disk[i] # Missing /\ ~disk[i].empty =>
      LET r == disk[i].run
      IN  /\ {p[1] : p \in disk[i].from} = Upstream(i, 1..(i - 1)) \ blank[r]
          /\ NoneTorn /\ ~Overlap => blank[r] = {}

\* A report produced from the very upstream reports that are on disk beside it.
Fits(i) ==
  /\ disk[i] # Missing
  /\ disk[i].from = {<<j, disk[j].run>> : j \in Upstream(i, 1..(i - 1))}

\* Between runs, and unless a run was killed, the reports a state file lists
\* fit together: each was produced from the very upstream reports that are on
\* disk beside it.  Reruns, refusals and failed batches leave stale report
\* files behind, and none of them may be taken for current.
ReportsFitTogether ==
  Active = {} /\ NoneKilled /\ HasLedger => \A i \in ledger.artifacts : Fits(i)

\* Between runs, and unless a run was killed, ese_summary.md and
\* pipeline_state.json speak of the same run and the same status.
SummaryAgrees ==
  Active = {} /\ NoneKilled /\ HasLedger =>
    summary = [run |-> ledger.run, status |-> ledger.status]

\* docs/CONFIG_CONTRACT.md on gating.fail_on_high: "When true (default),
\* pipeline execution stops on HIGH or CRITICAL findings".  Then a run under
\* fail_on_high never completes on a blocking report that a run under
\* fail_on_high wrote and that no gate has looked at: one that a gate stopped
\* at may have been waived, one that no gate saw cannot.
BlockersAreGated ==
  (Active = {} /\ NoneKilled /\ HasLedger
     /\ ledger.status = "completed" /\ gate[ledger.run]) =>
    \A i \in ledger.artifacts :
      disk[i].high /\ gate[disk[i].run] => outcome[disk[i].run] = "gated"

\* `ese rerun` is documented as "Rerun the pipeline from a specific role using
\* existing prior artifacts as upstream context": once a run has completed, any
\* role can be rerun, wherever the artifacts directory is.
CompletedRunsResume ==
  HasLedger /\ ledger.status = "completed" => \A s \in Role : CanResume(s)

\* A run that entered its loop ends by recording itself, or is killed.
RunsEnd ==
  \A r \in Run :
    pc[r] = "working" ~> pc[r] \in {"completed", "failed", "killed", "torn"}

(***************************************************************************)
(* The inductive invariant behind the safety properties above.             *)
(***************************************************************************)
\* What a run has in memory at each point of its loop.
LoopAt(r) ==
  /\ ~InLoop(r) => DoneRoles(r) = {} /\ failed[r] = {} /\ Holding(r) = {}
  /\ pc[r] = "working" =>
       /\ ptr[r] \in Role
       /\ Holding(r) = 1..(ptr[r] - 1)
       /\ todo[r] \cup DoneRoles(r) \cup failed[r] = Batch(ptr[r])
  /\ pc[r] \in {"persisting", "summarised"} =>
       /\ outcome[r] = "completed" => Holding(r) = Role /\ failed[r] = {}
       /\ failed[r] # {} => \E s \in failed[r] : 1..(s - 1) \subseteq Holding(r)
  /\ \A i \in Holding(r) \cup DoneRoles(r) : disk[i] # Missing

LoopInv == \A r \in Run : LoopAt(r)

\* What the state file says.
LedgerInv ==
  /\ CompletedIsWhole
  /\ AbsoluteDir => FirstFailedIsResumable
  /\ HasLedger => \A i \in ledger.artifacts : disk[i] # Missing

\* Who wrote a report, and where a blocking one has left its run.
BlockerAt(i) ==
  disk[i] # Missing =>
    LET r == disk[i].run
    IN  /\ pc[r] \notin {"idle", "resuming", "refused"}
        /\ disk[i].high /\ gate[r] =>
             \/ pc[r] = "working" /\ HasBlocker(r)
             \/ pc[r] \in {"persisting", "summarised"} /\ outcome[r] # "completed"
             \/ pc[r] \in {"failed", "killed", "torn"}

BlockerInv == \A i \in Role : BlockerAt(i)

\* A role is in one place: to do, done, failed or held.
ApartAt(r) ==
  /\ todo[r] \cap (DoneRoles(r) \cup failed[r]) = {}
  /\ failed[r] \cap (Holding(r) \cup DoneRoles(r)) = {}

Alone == \A q, r \in Active : q = r

\* Where nothing is read as empty: one run at a time, none of which died inside
\* the write of a report.
BlankInv ==
  ~Overlap =>
    /\ Alone
    /\ NoneTorn => /\ \A r \in Run : blank[r] = {}
                   /\ \A i \in Role : disk[i] # Missing => ~disk[i].empty

ExecutionType == execution \in [Run -> Seq(Role)]

IInv ==
  /\ TypeOK /\ LoopInv /\ LedgerInv /\ BlockerInv /\ BlankInv /\ PromptsAreComplete
  /\ ExecutionType /\ ExecutionInRoleOrder
  /\ \A r \in Run : ApartAt(r)

(***************************************************************************)
(* What also holds when no two invocations share the directory.            *)
(***************************************************************************)
\* What a run in its loop took over from the state file it will replace.
LineageAt(r) ==
  InLoop(r) =>
    IF start[r] = 1 THEN parent[r] = NoRun
    ELSE /\ HasLedger /\ parent[r] = ledger.run
         /\ 1..(start[r] - 1) \subseteq ledger.artifacts \cap Holding(r)

\* The reports a run holds are the ones on disk.
MemoryAt(r) ==
  InLoop(r) =>
    /\ \A i \in Holding(r) : outputs[r][i] = disk[i].run
    /\ \A i \in DoneRoles(r) : disk[i].run = r

\* Until a run is killed, what the state file lists fits together, and while a
\* run is in its loop, what it holds and its batch has done.
FitInv ==
  NoneKilled =>
    /\ \A r \in Run : InLoop(r) => \A i \in Holding(r) \cup DoneRoles(r) : Fits(i)
    /\ (\A r \in Run : ~InLoop(r)) /\ HasLedger => \A i \in ledger.artifacts : Fits(i)

\* Until a run is killed, the summary is ahead of the state file by the one run
\* that is between the two writes.
SummaryInv ==
  NoneKilled =>
    /\ \A r \in Run :
         pc[r] = "summarised" => summary = [run |-> r, status |-> Status(r)]
    /\ (\A r \in Run : pc[r] # "summarised") /\ HasLedger =>
         summary = [run |-> ledger.run, status |-> ledger.status]

SoloInv ==
  /\ Alone
  /\ \A r \in Run : LineageAt(r) /\ MemoryAt(r)
  /\ FitInv
  /\ SummaryInv

(***************************************************************************)
(* What the directory promises its readers: RunLedger.                     *)
(***************************************************************************)
Phase == [r \in Run |->
            CASE pc[r] \in {"idle", "resuming", "refused"} -> "idle"
              [] pc[r] \in {"working", "persisting", "summarised"} -> "active"
              [] pc[r] \in {"completed", "failed"} -> "recorded"
              [] OTHER -> "lost"]

Ledger == INSTANCE RunLedger WITH entry <- ledger, phase <- Phase

LedgerSpec == Ledger!Spec
=============================================================================
