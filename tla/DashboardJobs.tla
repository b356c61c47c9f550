---------------------------- MODULE DashboardJobs ----------------------------
(***************************************************************************)
(* DashboardJobStore of src/ese/dashboard.py: the jobs of a local          *)
(* dashboard.  A POST starts a job and its thread, the thread reports its  *)
(* status, and the page polls it; all three take the store's lock.  Every  *)
(* change of status is written to the job's file before the lock is        *)
(* released, and a dashboard that starts loads the files it finds.  What a *)
(* job does, a run of the pipeline, is EsePipeline's subject.              *)
(***************************************************************************)
EXTENDS Integers, TLC

CONSTANTS
  Job,         \* jobs (uuid4 prefixes: never issued twice)
  MaxRestarts  \* bound on restarts of the dashboard

ASSUME BoundAssumption == MaxRestarts \in Nat
ASSUME JobAssumption == "none" \notin Job

VARIABLES
  table,     \* _jobs: the status of each job
  file,      \* its file, cut short while it is written
  lock,      \* the job being persisted under _lock
  pc,        \* where the job's request or thread is
  restarts,
  seen,      \* history: the status a client was last told
  spoiled    \* history: jobs whose file could not be written at some time

store == <<table, file, lock>>
vars == <<store, pc, restarts, seen, spoiled>>

None == "none"
Torn == "torn"
Unknown == "unknown"
Ended == {"completed", "failed"}
Status == {"queued", "running"} \cup Ended
Free == lock \notin Job

Init ==
  /\ table = [j \in Job |-> None]
  /\ file = [j \in Job |-> None]
  /\ lock = None
  /\ pc = [j \in Job |-> "idle"]
  /\ restarts = 0
  /\ seen = [j \in Job |-> None]
  /\ spoiled = {}

\* A new status in the table, and _persist_job, whose write_text cuts the file
\* before it writes it.  When the write fails the exception leaves the request
\* or the thread, with the file as it was or cut, and the lock released.
Report(j, s, at) ==
  /\ Free
  /\ table' = [table EXCEPT ![j] = s]
  /\ \/ /\ lock' = j
        /\ file' = [file EXCEPT ![j] = Torn]
        /\ pc' = [pc EXCEPT ![j] = at]
        /\ UNCHANGED spoiled
     \/ /\ spoiled' = spoiled \cup {j}
        /\ pc' = [pc EXCEPT ![j] = "gone"]
        /\ file' \in {file, [file EXCEPT ![j] = Torn]}
        /\ UNCHANGED lock
  /\ UNCHANGED <<restarts, seen>>

Start(j) == pc[j] = "idle" /\ Report(j, "queued", "starting")

MarkRunning(j) == pc[j] = "queued" /\ Report(j, "running", "marking")

\* The job's function returned or raised.
End(j, s) == pc[j] = "working" /\ Report(j, s, "ending")

After(at) ==
  CASE at = "starting" -> "queued"
    [] at = "marking" -> "working"
    [] at = "ending" -> "gone"

\* Mutant: the lock is not released.
PersistedHoldingLock(j) ==
  /\ lock = j
  /\ pc[j] \in {"starting", "marking", "ending"}
  /\ file' = [file EXCEPT ![j] = table[j]]
  /\ pc' = [pc EXCEPT ![j] = After(@)]
  /\ UNCHANGED <<table, lock, restarts, seen, spoiled>>

\* The file is written: the thread is started, works, or is done.
Persisted(j) ==
  /\ lock = j
  /\ file' = [file EXCEPT ![j] = table[j]]
  /\ lock' = None
  /\ pc' = [pc EXCEPT ![j] = After(@)]
  /\ UNCHANGED <<table, restarts, seen, spoiled>>

\* What the page is answered: a job the table does not have is a 404.
Told(j) == IF table[j] = None THEN Unknown ELSE table[j]

\* Mutant: get does not take the lock.
PollUnlocked(j) ==
  /\ pc[j] # "idle"
  /\ seen' = [seen EXCEPT ![j] = Told(j)]
  /\ UNCHANGED <<store, pc, restarts, spoiled>>

\* GET /api/jobs/{id}, for an id that was issued.
Poll(j) ==
  /\ Free
  /\ pc[j] # "idle"
  /\ seen' = [seen EXCEPT ![j] = Told(j)]
  /\ UNCHANGED <<store, pc, restarts, spoiled>>

\* Mutants: a running job is queued again; a torn file is taken as it is.
LoadedRequeued(f) == IF f = Torn THEN None ELSE IF f = "running" THEN "queued" ELSE f
LoadedTorn(f) == f

\* _load_persisted_jobs: what is not JSON is skipped.
Loaded(f) == IF f = Torn THEN None ELSE f

\* The dashboard goes down, at any point and with its daemon threads, and is
\* started again.
Restart ==
  /\ restarts < MaxRestarts
  /\ restarts' = restarts + 1
  /\ table' = [j \in Job |-> Loaded(file[j])]
  /\ lock' = None
  /\ pc' = [j \in Job |-> IF pc[j] = "idle" THEN "idle" ELSE "gone"]
  /\ UNCHANGED <<file, seen, spoiled>>

Work(j) == MarkRunning(j) \/ (\E s \in Ended : End(j, s)) \/ Persisted(j)

Next ==
  \/ \E j \in Job : Start(j) \/ Work(j) \/ Poll(j)
  \/ Restart

\* Threads are scheduled, and a run's calls return or time out; nobody has to
\* start a job or to poll one.
Spec == Init /\ [][Next]_vars /\ \A j \in Job : WF_vars(Work(j))

(***************************************************************************)
(* Properties                                                              *)
(***************************************************************************)
TypeOK ==
  /\ table \in [Job -> Status \cup {None}]
  /\ file \in [Job -> Status \cup {None, Torn}]
  /\ lock \in Job \cup {None}
  /\ pc \in [Job -> {"idle", "starting", "queued", "marking", "working",
                     "ending", "gone"}]
  /\ restarts \in 0..MaxRestarts
  /\ seen \in [Job -> Status \cup {None, Unknown}]
  /\ spoiled \subseteq Job

Rank(s) ==
  CASE s \in {None, Unknown} -> 0 [] s = "queued" -> 1 [] s = "running" -> 2 [] OTHER -> 3

\* CHANGELOG.md: "so job status survives dashboard restarts": while the disk takes
\* the writes, a job that a client has seen ended keeps that result, on disk and
\* in whatever dashboard is started next.
EndedJobsAreKept ==
  \A j \in Job : seen[j] \in Ended /\ j \notin spoiled =>
    file[j] = seen[j] /\ table[j] = seen[j]

\* What the page is told across restarts, while the disk takes the writes: a job
\* never goes backwards and an unknown job stays unknown; only a job that is not
\* known to have ended, and whose file a dashboard cut by dying within the write,
\* becomes unknown.
NeverBackwards ==
  [][\A j \in Job : j \notin spoiled' /\ seen'[j] # seen[j] =>
       /\ seen[j] \notin Ended \cup {Unknown}
       /\ \/ Rank(seen[j]) < Rank(seen'[j])
          \/ seen'[j] = Unknown /\ file[j] = Torn]_vars

\* CHANGELOG.md: "Disk-backed dashboard job persistence so job status survives
\* dashboard restarts": a job whose status a client has been told, and whose file
\* could always be written, is known to every later dashboard.
StatusSurvivesRestarts ==
  [][\A j \in Job : j \notin spoiled' /\ seen[j] \in Status => seen'[j] \in Status]_vars

\* A request or a thread of a job under way finishes, or dies with the
\* dashboard: nobody keeps the lock, and nobody waits for it for ever.
JobsEnd == \A j \in Job : pc[j] # "idle" ~> pc[j] = "gone"

(***************************************************************************)
(* The inductive invariant.                                                *)
(***************************************************************************)

\* What table, file and lock say of a job at each point of its thread.
Consistent(j) ==
  /\ pc[j] = "idle" => table[j] = None /\ file[j] = None /\ seen[j] = None
  /\ pc[j] = "starting" => table[j] = "queued"
  /\ pc[j] = "queued" => table[j] = "queued"
  /\ pc[j] \in {"marking", "working"} => table[j] = "running"
  /\ pc[j] = "ending" => table[j] \in Ended
  /\ pc[j] \in {"starting", "marking", "ending"} <=> lock = j

\* Unless a write failed: the file is the table's status, or cut short.
Persistent(j) ==
  /\ lock # j => file[j] = table[j] \/ (file[j] = Torn /\ table[j] = None)
  /\ lock = j => file[j] = Torn
  /\ pc[j] # "idle" => file[j] # None
  /\ table[j] # None => seen[j] # Unknown /\ Rank(seen[j]) <= Rank(table[j])
  /\ seen[j] \in Ended => pc[j] = "gone" /\ table[j] = seen[j]

IInv ==
  /\ TypeOK
  /\ \A j \in Job : Consistent(j) /\ (j \notin spoiled => Persistent(j))
=============================================================================
