------------------------------- MODULE OneCall -------------------------------
(***************************************************************************)
(* What a role's call of its model promises the pipeline: a bounded number *)
(* of tries, a new one only after a passing failure, and one verdict.      *)
(***************************************************************************)
EXTENDS Integers

CONSTANTS
  Caller,     \* the roles of a batch
  MaxRetries  \* runtime.max_retries

VARIABLES
  tries,    \* requests sent
  last,     \* how the last one was answered
  verdict   \* what the pipeline is told

oneCallVars == <<tries, last, verdict>>

OneCallInit ==
  /\ tries = [c \in Caller |-> 0]
  /\ last = [c \in Caller |-> "none"]
  /\ verdict = [c \in Caller |-> "open"]

\* Something is missing that every try would need.
Refuse(c) ==
  /\ verdict[c] = "open"
  /\ tries[c] = 0
  /\ verdict' = [verdict EXCEPT ![c] = "failed"]
  /\ UNCHANGED <<tries, last>>

Attempt(c) ==
  /\ verdict[c] = "open"
  /\ tries[c] <= MaxRetries
  /\ tries' = [tries EXCEPT ![c] = @ + 1]
  /\ \E a \in {"good", "passing", "final"} :
       /\ last' = [last EXCEPT ![c] = a]
       /\ verdict' = [verdict EXCEPT ![c] =
            CASE a = "good" -> "answered"
              [] a = "final" -> "failed"
              [] a = "passing" -> IF tries[c] = MaxRetries THEN "failed" ELSE "open"]

\* An adapter of the user's own makes its tries unseen.
Own(c) ==
  /\ verdict[c] = "open"
  /\ tries[c] = 0
  /\ verdict' = [verdict EXCEPT ![c] = "answered"]
  /\ UNCHANGED <<tries, last>>

OneCallNext == \E c \in Caller : Refuse(c) \/ Attempt(c) \/ Own(c)

OneCallSpec == OneCallInit /\ [][OneCallNext]_oneCallVars
=============================================================================
