---------------------------- MODULE ReviewQueue ----------------------------
(***************************************************************************)
(* Manual reviews of the Telegram guard, for one tenant:                   *)
(* src/truepresence/adapters/telegram_bot.py.  A webhook that ends in      *)
(* alert_admin or a safety action opens a review, in the memory of the     *)
(* service instance that handled it and in Postgres; admins list, read,    *)
(* resolve and execute reviews through endpoints that all run on the       *)
(* module-level `service` instance.  Every store access falls back to that *)
(* instance's memory when the database raises, whatever the reason.        *)
(*                                                                         *)
(* The data column of telegram_pending_reviews is JSONB and the pool's     *)
(* cursors are RealDictCursor's, so a row's document arrives as a dict,    *)
(* which json.loads refuses with a TypeError.  Every read of a row that is *)
(* there therefore raises, and resolve_review raises before its UPDATE: a  *)
(* row says `pending` for as long as it is there, whatever is decided.     *)
(*                                                                         *)
(* An admin decision is carried out by a request of several awaits: two    *)
(* reads of the review, then up to Retries + 1 calls of the Bot API.       *)
(***************************************************************************)
EXTENDS Integers, FiniteSets, TLC

CONSTANTS
  Review,      \* review ids (uuid4: never issued twice)
  Client,      \* admin requests in flight
  Decision,    \* admin decisions in use: allow and some of ban, kick, ...
  Retries,     \* retries of _post_telegram_api
  OwnInstance, \* TRUE: the tenant's token webhook runs on another instance
  Outages,     \* TRUE: the database may be down
  MaxRestarts  \* bound on restarts of the process

ASSUME DecisionAssumption ==
  /\ "allow" \in Decision
  /\ Decision \subseteq {"allow", "ban", "kick", "warn", "delete"}
ASSUME BoundAssumption ==
  /\ Retries \in Nat /\ MaxRestarts \in Nat
  /\ OwnInstance \in BOOLEAN /\ Outages \in BOOLEAN

VARIABLES
  rows,      \* reviews with a row in telegram_pending_reviews
  up,        \* whether the database answers
  mem,       \* pending_reviews of each service instance
  restarts,
  pc,        \* an execute request: idle, checked or posting
  target,    \* the review it is about
  choice,    \* the decision it read
  attempt,   \* Bot API calls it has made
  issued,    \* history: reviews ever created, and whether a row was inserted
  decided,   \* history: decisions an admin was told were taken on each review
  effects    \* history: decisions Telegram has carried out for each review

stores == <<rows, up, mem, restarts>>
request == <<pc, target, choice, attempt>>
history == <<issued, decided, effects>>
vars == <<stores, request, history>>

None == "none"
Instance == {"main", "own"}

Pending == [status |-> "pending", decision |-> None]
Resolved(d) == [status |-> "resolved", decision |-> d]
Copy == {Pending} \cup {Resolved(d) : d \in Decision}
Absent == [status |-> None, decision |-> None]

Init ==
  /\ rows = {}
  /\ up = TRUE
  /\ mem = [i \in Instance |-> [v \in Review |-> Absent]]
  /\ restarts = 0
  /\ pc = [c \in Client |-> "idle"]
  /\ target = [c \in Client |-> None]
  /\ choice = [c \in Client |-> None]
  /\ attempt = [c \in Client |-> 0]
  /\ issued = [v \in Review |-> "no"]
  /\ decided = [v \in Review |-> {}]
  /\ effects = [v \in Review |-> {}]

(***************************************************************************)
(* Reading the stores, as the endpoints do on the main instance.           *)
(***************************************************************************)

\* Mutant: a row that is not there is a failed lookup, too.
GetReviewOrCopy(v) == mem["main"][v]

\* get_review: no row is an answer; a row that is there is a failed lookup.
GetReview(v) == IF up /\ v \notin rows THEN Absent ELSE mem["main"][v]

\* Mutant: the list reads its rows, and nothing else does.
ListedFromRows ==
  IF up THEN rows ELSE {v \in Review : mem["main"][v].status = "pending"}

\* get_pending_reviews: no row at all is an empty list, and any row fails the
\* lookup, which then lists the reviews in memory.
Listed ==
  IF up /\ rows = {} THEN {}
  ELSE {v \in Review : mem["main"][v].status = "pending"}

(***************************************************************************)
(* The webhook                                                             *)
(***************************************************************************)

\* add_pending_review: memory always, the row when the insert succeeds.
AddPendingReview(v, i) ==
  /\ issued[v] = "no"
  /\ i = "main" \/ OwnInstance
  /\ mem' = [mem EXCEPT ![i][v] = Pending]
  /\ rows' = IF up THEN rows \cup {v} ELSE rows
  /\ issued' = [issued EXCEPT ![v] = IF up THEN "stored" ELSE "held"]
  /\ UNCHANGED <<up, restarts, request, decided, effects>>

(***************************************************************************)
(* POST /reviews/{id}/resolve: whatever the review's status was.           *)
(***************************************************************************)
Acknowledge(v, d) ==
  /\ decided' = [decided EXCEPT ![v] = @ \cup {d}]
  /\ UNCHANGED <<up, restarts, request, issued, effects>>

\* The lookup raised: the copy of the main instance, if it has one.  A row
\* that is merely absent is a 404 instead, and changes nothing.
Resolve(v, d) ==
  /\ ~up \/ v \in rows
  /\ mem["main"][v] # Absent
  /\ mem' = [mem EXCEPT !["main"][v] = Resolved(d)]
  /\ Acknowledge(v, d)
  /\ UNCHANGED rows

(***************************************************************************)
(* POST /reviews/{id}/execute                                              *)
(***************************************************************************)

\* The route's own look at the review.
CheckReview(c, v) ==
  /\ pc[c] = "idle"
  /\ GetReview(v).status = "resolved"
  /\ pc' = [pc EXCEPT ![c] = "checked"]
  /\ target' = [target EXCEPT ![c] = v]
  /\ UNCHANGED <<stores, choice, attempt, history>>

Done(c) ==
  /\ pc' = [pc EXCEPT ![c] = "idle"]
  /\ target' = [target EXCEPT ![c] = None]
  /\ choice' = [choice EXCEPT ![c] = None]
  /\ attempt' = [attempt EXCEPT ![c] = 0]
  /\ UNCHANGED stores

\* Mutant: `allow` is not told from the other decisions.
ReadAnyForExecution(c) ==
  LET copy == mem["main"][target[c]]
  IN  /\ pc[c] = "checked"
      /\ \/ /\ ~(up /\ target[c] \in rows)
            /\ copy.status = "resolved"
            /\ pc' = [pc EXCEPT ![c] = "posting"]
            /\ choice' = [choice EXCEPT ![c] = copy.decision]
            /\ UNCHANGED <<stores, target, attempt>>
         \/ Done(c)
      /\ UNCHANGED history

\* execute_review_decision reads the review again, and unlike get_review takes
\* the memory copy for a row that is absent.  A row that is there raises outside
\* the try, a review may be gone or pending by now, `allow` needs no call,
\* references or the token may be missing.
ReadForExecution(c) ==
  LET copy == mem["main"][target[c]]
  IN  /\ pc[c] = "checked"
      /\ \/ /\ ~(up /\ target[c] \in rows)
            /\ copy.status = "resolved"
            /\ copy.decision # "allow"
            /\ pc' = [pc EXCEPT ![c] = "posting"]
            /\ choice' = [choice EXCEPT ![c] = copy.decision]
            /\ UNCHANGED <<stores, target, attempt>>
         \/ Done(c)
      /\ UNCHANGED history

\* One call of the Bot API; a timeout or a 5xx may hide that it was carried out.
Delivered(c) == effects' = [effects EXCEPT ![target[c]] = @ \cup {choice[c]}]

\* Mutant: one retry too many.
CanRetryOnceMore(c) == attempt[c] <= Retries

CanRetry(c) == attempt[c] < Retries

\* Mutant: a request out of retries starts over.
PostStartsOver(c) ==
  /\ pc[c] = "posting"
  /\ \/ /\ CanRetry(c)
        /\ attempt' = [attempt EXCEPT ![c] = @ + 1]
        /\ UNCHANGED <<stores, pc, target, choice>>
     \/ /\ pc' = [pc EXCEPT ![c] = "checked"]
        /\ attempt' = [attempt EXCEPT ![c] = 0]
        /\ UNCHANGED <<stores, target, choice>>
  /\ Delivered(c) \/ UNCHANGED effects
  /\ UNCHANGED <<issued, decided>>

PostTelegramApi(c) ==
  /\ pc[c] = "posting"
  /\ Delivered(c) \/ UNCHANGED effects
  /\ \/ /\ CanRetry(c)
        /\ attempt' = [attempt EXCEPT ![c] = @ + 1]
        /\ UNCHANGED <<stores, pc, target, choice>>
     \/ Done(c)
  /\ UNCHANGED <<issued, decided>>

(***************************************************************************)
(* The environment                                                         *)
(***************************************************************************)
DatabaseFlips ==
  /\ Outages
  /\ up' = ~up
  /\ UNCHANGED <<rows, mem, restarts, request, history>>

\* The process restarts: instances come back empty, requests are gone.
Restart ==
  /\ restarts < MaxRestarts
  /\ restarts' = restarts + 1
  /\ mem' = [i \in Instance |-> [v \in Review |-> Absent]]
  /\ pc' = [c \in Client |-> "idle"]
  /\ target' = [c \in Client |-> None]
  /\ choice' = [c \in Client |-> None]
  /\ attempt' = [c \in Client |-> 0]
  /\ UNCHANGED <<rows, up, history>>

Execution(c) == ReadForExecution(c) \/ PostTelegramApi(c)

Next ==
  \/ \E v \in Review, i \in Instance : AddPendingReview(v, i)
  \/ \E v \in Review, d \in Decision : Resolve(v, d)
  \/ \E c \in Client, v \in Review : CheckReview(c, v)
  \/ \E c \in Client : Execution(c)
  \/ DatabaseFlips
  \/ Restart

Spec == Init /\ [][Next]_vars

\* Database and Bot API calls time out, so a request goes on; nothing obliges
\* an admin to send one.
FairSpec == Spec /\ \A c \in Client : WF_vars(Execution(c))

(***************************************************************************)
(* Properties                                                              *)
(***************************************************************************)
TypeOK ==
  /\ rows \in SUBSET Review
  /\ up \in BOOLEAN
  /\ mem \in [Instance -> [Review -> Copy \cup {Absent}]]
  /\ restarts \in 0..MaxRestarts
  /\ pc \in [Client -> {"idle", "checked", "posting"}]
  /\ target \in [Client -> Review \cup {None}]
  /\ choice \in [Client -> Decision \cup {None}]
  /\ attempt \in [Client -> 0..Retries]
  /\ issued \in [Review -> {"no", "stored", "held"}]
  /\ decided \in [Review -> SUBSET Decision]
  /\ effects \in [Review -> SUBSET Decision]

\* GET /reviews and GET /reviews/{id} fall back to memory each on its own: the
\* one when any row is there, the other when this review's is.  A review whose
\* page says pending is listed, and one that is listed has such a page, unless
\* it was opened while the database was away, which is back: its page is a 404.
ListAgreesWithDetail ==
  \A v \in Review :
    /\ GetReview(v).status = "pending" => v \in Listed
    /\ v \in Listed /\ ~(up /\ issued[v] = "held") => GetReview(v).status = "pending"

\* Two admins may resolve, resolve again and execute one review at once, with
\* outages, restarts and retries in between: what Telegram carries out for a
\* review is always a decision some admin took on it, and never `allow`.
EffectsWereDecided ==
  \A v \in Review : effects[v] \subseteq decided[v] \ {"allow"}

\* docs/TRUEPRESENCE_STARTUP.md: "PostgreSQL for persistent auth, users, Telegram
\* sessions, and reviews."  While the database answers, a review whose row was
\* inserted and that nobody has decided is listed to the admins, whichever
\* webhook it came from and whatever restarted since.
StoredReviewsAreListed ==
  up => \A v \in Review : issued[v] = "stored" /\ decided[v] = {} => v \in Listed

\* An execute request always comes to an end, at the latest after the last retry.
RequestsEnd == \A c \in Client : pc[c] # "idle" ~> pc[c] = "idle"
(***************************************************************************)
(* The inductive invariant behind EffectsWereDecided.                      *)
(***************************************************************************)

\* Every copy of a review, and every request under way, carries a decision that
\* was taken on that review.
CopiesWereDecided ==
  \A v \in Review, i \in Instance : mem[i][v].decision \in decided[v] \cup {None}

ResolvedCarriesDecision ==
  \A v \in Review, i \in Instance :
    mem[i][v].status = "resolved" => mem[i][v].decision # None

RequestsCarryDecisions ==
  \A c \in Client :
    /\ pc[c] # "idle" => target[c] \in Review
    /\ pc[c] = "posting" => choice[c] \in decided[target[c]] \ {"allow"}

IInv ==
  /\ TypeOK /\ CopiesWereDecided /\ ResolvedCarriesDecision
  /\ RequestsCarryDecisions /\ EffectsWereDecided

\* A review is in a memory only after it was opened, and one opened while the
\* database answered keeps its row.
RowsInv ==
  \A v \in Review :
    /\ \A i \in Instance : mem[i][v] # Absent => issued[v] # "no"
    /\ issued[v] = "stored" <=> v \in rows
=============================================================================
