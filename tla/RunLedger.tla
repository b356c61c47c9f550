----------------------------- MODULE RunLedger -----------------------------
(***************************************************************************)
(* What pipeline_state.json promises a reader of an artifacts directory,   *)
(* and a later `ese rerun`: it is the record of one run; a run that        *)
(* resumed names as its parent the run recorded when it started, keeps all *)
(* the roles before its start role from that record, and is the next       *)
(* record after it - the lineage of a directory is a line.  A run that is  *)
(* killed leaves the record as it was, or cut short, never a wrong one.    *)
(***************************************************************************)
EXTENDS Integers

CONSTANTS Run, NoRun, N

VARIABLES
  entry,   \* the record: a run's, none, or one cut short
  phase    \* idle, active, recorded or lost, for each run

vars == <<entry, phase>>

Blank(b) == [run |-> NoRun, whole |-> b]

Init ==
  /\ entry = Blank(TRUE)
  /\ phase = [r \in Run |-> "idle"]

Enter(r) ==
  /\ phase[r] = "idle"
  /\ phase' = [phase EXCEPT ![r] = "active"]
  /\ UNCHANGED entry

\* A fresh run needs nothing; a resumed one extends the record it replaces.
Extends(e) ==
  IF e.start = 1 THEN e.parent = NoRun
  ELSE /\ entry.run # NoRun
       /\ e.parent = entry.run
       /\ 1..(e.start - 1) \subseteq entry.artifacts \cap e.artifacts

Record(r) ==
  /\ phase[r] = "active"
  /\ entry' \in [run: {r}, whole: {TRUE}, status: {"completed", "failed"},
                 artifacts: SUBSET (1..N), failed: SUBSET (1..N),
                 parent: Run \cup {NoRun}, start: 1..N]
  /\ Extends(entry')
  /\ entry'.artifacts \cap entry'.failed = {}
  /\ entry'.status = "completed" => entry'.artifacts = 1..N
  /\ phase' = [phase EXCEPT ![r] = "recorded"]

Lose(r) ==
  /\ phase[r] = "active"
  /\ phase' = [phase EXCEPT ![r] = "lost"]
  /\ entry' \in {entry, Blank(FALSE)}

Next == \E r \in Run : Enter(r) \/ Record(r) \/ Lose(r)

Spec == Init /\ [][Next]_vars
=============================================================================
