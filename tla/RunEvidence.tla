----------------------------- MODULE RunEvidence -----------------------------
(***************************************************************************)
(* What is decided about a run after it: src/ese/evidence_state.py,        *)
(* feedback.py, reports.py and the commands evidence, publish, feedback    *)
(* and rerun.  Every one reads files, works, and writes a whole file back  *)
(* without a lock, beside dashboards and other shells.                     *)
(***************************************************************************)
EXTENDS Integers, Sequences

CONSTANTS
  Dir,       \* run directories of one artifacts root
  Asked,     \* those the commands are given for
  Operator,  \* commands given; each is one process
  MaxRun     \* bound on runs of the pipeline

ASSUME EvidenceAssumption ==
  MaxRun \in Nat /\ Asked \subseteq Dir /\ "none" \notin Dir \cup Operator

VARIABLES
  record,     \* pipeline_state.json; one cut short keeps here what it had
  findings,   \* role artifacts: whose they are, and whether one blocks
  plan,       \* release_simulation.json: whose it is and what it says
  recent,     \* run directories, the newest state file first
  writer,     \* where a run of the pipeline in the directory is
  runs,       \* runs begun, which number them
  op,         \* what each operator does
  feedback,   \* .ese_feedback.json: the operators whose entries it has
  published,  \* history: directory and run an integration has published
  overlapped  \* history: files written while another had them in hand, or left cut

evidenceVars ==
  <<record, findings, plan, recent, writer, runs, op, feedback, published, overlapped>>

\* The run's status, degraded if completed in solo mode, and whether a finding
\* blocks.
Outcome == {<<"completed", FALSE>>, <<"completed", TRUE>>, <<"failed", FALSE>>,
            <<"degraded", FALSE>>}
RunStatus == {x[1] : x \in Outcome}
EvidenceState == {"draft", "ready", "approved", "blocked", "released"}
StoreName == "feedback"
NoRecord == [run |-> 0, whole |-> TRUE, status |-> "none", history |-> <<>>]
NoWork == [at |-> "idle", job |-> "none", dir |-> "none", run |-> 0, state |-> "none",
           prev |-> "none", copy |-> NoRecord, items |-> {}]

EvidenceInit ==
  /\ record = [d \in Dir |-> NoRecord]
  /\ findings = [d \in Dir |-> [run |-> 0, status |-> "none", blocked |-> FALSE, whole |-> TRUE]]
  /\ plan = [d \in Dir |-> [run |-> 0, ready |-> FALSE]]
  /\ recent = <<>>
  /\ writer = [d \in Dir |-> "idle"]
  /\ runs = 0
  /\ op = [o \in Operator |-> NoWork]
  /\ feedback = [items |-> {}, whole |-> TRUE]
  /\ published = {}
  /\ overlapped = {}

(***************************************************************************)
(* collect_run_report, whose comparison reads the newest other run too.    *)
(***************************************************************************)
Others(d) == SelectSeq(recent, LAMBDA e : e # d)
Legible(d) == record[d].run # 0 /\ record[d].whole /\ findings[d].whole
Reportable(d) == Legible(d) /\ (Others(d) # <<>> => Legible(Head(Others(d))))

\* derive_evidence_state, and a decision recorded over it.
Derived(status, blocked) ==
  IF status = "failed" \/ blocked THEN "blocked"
  ELSE IF status = "degraded" THEN "draft" ELSE "ready"

Evidence(d) ==
  LET h == record[d].history IN
  IF h = <<>> THEN Derived(record[d].status, findings[d].blocked) ELSE h[Len(h)].state

\* build_release_simulation: its text, and its flag.
Summary(d) ==
  IF record[d].status # "completed" \/ findings[d].blocked
     \/ Evidence(d) \in {"blocked", "draft"}
  THEN "hold" ELSE Evidence(d)

ReadyForRelease(d) ==
  /\ ~findings[d].blocked
  /\ record[d].status = "completed"
  /\ Evidence(d) \in {"ready", "approved", "released"}

(***************************************************************************)
(* Writing a file: cut short, then written.                                *)
(***************************************************************************)
InHand == {"shown", "sent", "loaded", "cut"}

\* Operator me (or a run of the pipeline) opens the state file of d to write.
CutRecord(d, me) ==
  /\ record' = [record EXCEPT ![d].whole = FALSE]
  /\ recent' = <<d>> \o Others(d)
  /\ overlapped' = overlapped \cup
       {e \in {d} : \E o \in Operator \ {me} : op[o].dir = e /\ op[o].at \in InHand}

(***************************************************************************)
(* A run of the pipeline in a directory, a rerun or a fresh one: its order *)
(* is EsePipeline's subject.                                               *)
(***************************************************************************)
RunAt(d, from, to) == writer[d] = from /\ writer' = [writer EXCEPT ![d] = to]

WriteRoles(d) ==
  /\ RunAt(d, "idle", "roles")
  /\ runs < MaxRun
  /\ runs' = runs + 1
  /\ \E x \in Outcome :
       findings' = [findings EXCEPT ![d] = [run |-> runs + 1, status |-> x[1],
                                            blocked |-> x[2], whole |-> FALSE]]
  /\ UNCHANGED <<record, plan, recent, op, feedback, published, overlapped>>

RolesDone(d) ==
  /\ RunAt(d, "roles", "state")
  /\ findings' = [findings EXCEPT ![d].whole = TRUE]
  /\ CutRecord(d, "none")
  /\ UNCHANGED <<plan, runs, op, feedback, published>>

\* _write_summary_and_state: the record is built from this run alone.
NewRecord(d) ==
  [run |-> findings[d].run, whole |-> TRUE, status |-> findings[d].status,
   history |-> <<>>]

WriteRecord(d) ==
  /\ RunAt(d, "state", "extras")
  /\ record' = [record EXCEPT ![d] = NewRecord(d)]
  /\ UNCHANGED <<findings, plan, recent, runs, op, feedback, published, overlapped>>

\* _write_release_simulation_artifact: only when the report can be read, which a
\* run in another directory may prevent, and only with a release role in the run;
\* otherwise a file of an earlier run stays.
WriteExtras(d) ==
  /\ RunAt(d, "extras", "idle")
  /\ \/ Reportable(d)
        /\ plan' = [plan EXCEPT ![d] = [run |-> record[d].run, ready |-> ReadyForRelease(d)]]
     \/ UNCHANGED plan
  /\ UNCHANGED <<record, findings, recent, runs, op, feedback, published, overlapped>>

KillRun(d) ==
  /\ writer[d] # "idle"
  /\ writer' = [writer EXCEPT ![d] = "idle"]
  /\ overlapped' = overlapped \cup {e \in {d} : writer[e] = "state"}
  /\ UNCHANGED <<record, findings, plan, recent, runs, op, feedback, published>>

(***************************************************************************)
(* The commands.                                                           *)
(***************************************************************************)
Goes(o, at) == op' = [op EXCEPT ![o].at = at]
Fails(o) == op' = [op EXCEPT ![o] = [NoWork EXCEPT !.at = "failed"]]
Ends(o) ==
  op' = [op EXCEPT ![o].at = "done", ![o].copy = NoRecord, ![o].items = {}, ![o].prev = "none"]

\* evidence --set-state and publish --mark-state read the report first.
ShowReport(o, d) ==
  /\ op[o].at = "idle"
  /\ Reportable(d)
  /\ \E w \in {<<"decide", "approved">>, <<"publish", "released">>} :
       op' = [op EXCEPT ![o] = [NoWork EXCEPT !.at = "shown", !.job = w[1], !.dir = d,
                !.run = record[d].run, !.state = w[2], !.prev = Evidence(d)]]
  /\ UNCHANGED <<record, findings, plan, recent, writer, runs, feedback, published, overlapped>>

\* Mutant: the state is marked before the integration has published.
PublishMarkedFirst(o) ==
  /\ op[o].at = "shown" /\ op[o].job = "publish"
  /\ Goes(o, "sent")
  /\ UNCHANGED <<record, findings, plan, recent, writer, runs, feedback, published, overlapped>>

\* publish_run_evidence: an integration publishes the report as it is now, or
\* skips it, or fails; only what was published is marked.
Publish(o) ==
  /\ op[o].at = "shown" /\ op[o].job = "publish"
  /\ \/ Reportable(op[o].dir)
        /\ published' = published \cup {<<op[o].dir, record[op[o].dir].run>>}
        /\ Goes(o, "sent")
     \/ Fails(o) /\ UNCHANGED published
  /\ UNCHANGED <<record, findings, plan, recent, writer, runs, feedback, overlapped>>

\* update_pipeline_evidence_state reads the file, which must be JSON.
LoadRecord(o) ==
  /\ op[o].at = IF op[o].job = "publish" THEN "sent" ELSE "shown"
  /\ IF record[op[o].dir].whole
     THEN op' = [op EXCEPT ![o].at = "loaded", ![o].copy = record[op[o].dir]]
     ELSE Fails(o)
  /\ UNCHANGED <<record, findings, plan, recent, writer, runs, feedback, published, overlapped>>

OpenRecord(o) ==
  /\ op[o].at = "loaded" /\ op[o].job # "feedback"
  /\ CutRecord(op[o].dir, o)
  /\ Goes(o, "cut")
  /\ UNCHANGED <<findings, plan, writer, runs, feedback, published>>

Entry(o) == [by |-> o, state |-> op[o].state, prev |-> op[o].prev, source |-> op[o].job]

Decided(o) == [op[o].copy EXCEPT !.history = Append(@, Entry(o))]

SaveDecision(o) ==
  /\ op[o].at = "cut" /\ op[o].job # "feedback"
  /\ record' = [record EXCEPT ![op[o].dir] = Decided(o)]
  /\ Ends(o)
  /\ UNCHANGED <<findings, plan, recent, writer, runs, feedback, published, overlapped>>

\* record_feedback: a store that is no JSON is taken for an empty one.
LoadFeedback(o) ==
  /\ op[o].at = "idle"
  /\ op' = [op EXCEPT ![o] = [NoWork EXCEPT !.at = "loaded", !.job = "feedback",
              !.items = IF feedback.whole THEN feedback.items ELSE {}]]
  /\ overlapped' = IF feedback.whole THEN overlapped ELSE overlapped \cup {StoreName}
  /\ UNCHANGED <<record, findings, plan, recent, writer, runs, feedback, published>>

OpenFeedback(o) ==
  /\ op[o].at = "loaded" /\ op[o].job = "feedback"
  /\ feedback' = [feedback EXCEPT !.whole = FALSE]
  /\ Goes(o, "cut")
  /\ overlapped' = overlapped \cup
       {s \in {StoreName} : \E p \in Operator \ {o} :
                              op[p].job = "feedback" /\ op[p].at \in InHand}
  /\ UNCHANGED <<record, findings, plan, recent, writer, runs, published>>

SaveFeedback(o) ==
  /\ op[o].at = "cut" /\ op[o].job = "feedback"
  /\ feedback' = [items |-> op[o].items \cup {o}, whole |-> TRUE]
  /\ Ends(o)
  /\ UNCHANGED <<record, findings, plan, recent, writer, runs, published, overlapped>>

KillCommand(o) ==
  /\ op[o].at \in InHand
  /\ Fails(o)
  /\ overlapped' = overlapped \cup
       (IF op[o].at # "cut" THEN {} ELSE IF op[o].job = "feedback" THEN {StoreName}
                                         ELSE {op[o].dir})
  /\ UNCHANGED <<record, findings, plan, recent, writer, runs, feedback, published>>

EvidenceNext ==
  \/ \E d \in Dir : \/ WriteRoles(d) \/ RolesDone(d) \/ WriteRecord(d) \/ WriteExtras(d)
                    \/ KillRun(d)
  \/ \E o \in Operator : \/ \E d \in Asked : ShowReport(o, d)
                         \/ Publish(o) \/ LoadRecord(o) \/ OpenRecord(o) \/ SaveDecision(o)
                         \/ LoadFeedback(o) \/ OpenFeedback(o) \/ SaveFeedback(o)
                         \/ KillCommand(o)

EvidenceSpec == EvidenceInit /\ [][EvidenceNext]_evidenceVars

(***************************************************************************)
(* Properties                                                              *)
(***************************************************************************)
Entries ==
  [by : Operator, state : EvidenceState, prev : EvidenceState, source : {"decide", "publish"}]

\* The variables keep their types; every entry of a history names two known states.
EvidenceTypeOK ==
  /\ \A d \in Dir :
       /\ record[d].run \in 0..MaxRun /\ record[d].whole \in BOOLEAN
       /\ record[d].status \in RunStatus \cup {"none"}
       /\ \A k \in DOMAIN record[d].history : record[d].history[k] \in Entries
  /\ findings \in [Dir -> [run : 0..MaxRun, status : RunStatus \cup {"none"},
                         blocked : BOOLEAN, whole : BOOLEAN]]
  /\ plan \in [Dir -> [run : 0..MaxRun, ready : BOOLEAN]]
  /\ writer \in [Dir -> {"idle", "roles", "state", "extras"}]
  /\ runs \in 0..MaxRun
  /\ \A o \in Operator : op[o].at \in InHand \cup {"idle", "done", "failed"}
  /\ feedback \in [items : SUBSET Operator, whole : BOOLEAN]

\* update_pipeline_evidence_state: a decision an operator was told is recorded stays
\* in the record of its run, unless two had the file in hand or one was killed in it.
DecisionKept ==
  \A o \in Operator :
    op[o].at = "done" /\ op[o].job # "feedback" /\ op[o].dir \notin overlapped
      /\ op[o].run = record[op[o].dir].run =>
        \E k \in DOMAIN record[op[o].dir].history : record[op[o].dir].history[k].by = o

\* The history of a record is about the run it records, and each decision names the
\* one before it: an approval does not outlive its run.
HistoryIsOfItsRun ==
  \A d \in Dir \ overlapped :
    LET h == record[d].history IN
    \A k \in DOMAIN h :
      /\ op[h[k].by].run = record[d].run
      /\ k > 1 => h[k].prev = h[k - 1].state

\* The cli's publish: evidence marked released by it was published, this run of it.
ReleasedWasPublished ==
  \A d \in Dir \ overlapped : \A k \in DOMAIN record[d].history :
    record[d].history[k].source = "publish" => <<d, record[d].run>> \in published

\* docs/RELEASE.md: a run is called ready, in the report and in the file written with
\* it, only when it completed with standard assurance and nothing blocks; text and
\* flag agree, whatever an operator has decided.
ReadyIsReady ==
  \A d \in Dir : Legible(d) =>
    /\ ReadyForRelease(d) <=> Summary(d) # "hold"
    /\ plan[d].ready /\ plan[d].run = record[d].run /\ findings[d].run = record[d].run =>
         record[d].status = "completed" /\ ~findings[d].blocked

\* record_feedback: an entry stays, unless two had the store in hand or one was
\* killed in it.
FeedbackKept ==
  StoreName \notin overlapped =>
    {o \in Operator : op[o].at = "done" /\ op[o].job = "feedback"} \subseteq feedback.items

\* What an operator who reads and keeps the evidence of a run relies on.
EvidenceHolds ==
  DecisionKept /\ HistoryIsOfItsRun /\ ReleasedWasPublished /\ ReadyIsReady /\ FeedbackKept
=============================================================================
