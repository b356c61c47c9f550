---------------------------- MODULE TelegramGuard ----------------------------
(***************************************************************************)
(* The Telegram webhook of one tenant: process_update and what it calls in *)
(* src/truepresence/adapters/telegram_bot.py, build_response of            *)
(* adapters/telegram.py and enforce of surfaces/telegram/adapter.py.       *)
(*                                                                         *)
(* Telegram posts an update until a post is answered with success, so one  *)
(* update may be delivered more than once, and again while an earlier      *)
(* delivery is still being handled.  Handling is a coroutine of the event  *)
(* loop: it runs to its first await in one step, and awaits only the token *)
(* lookup, each call of the Bot API, and the notification of admins.       *)
(***************************************************************************)
EXTENDS Integers, FiniteSets, TLC

CONSTANTS
  Update,      \* updates of the tenant's chats
  Delivery,    \* webhook posts
  Member,      \* members of the chats
  Traits,      \* traits of updates in use
  Modes,       \* enforcement modes in use
  Retries,     \* retries of _post_telegram_api
  MaxRestarts  \* bound on restarts of the process

None == "none"
SafetyAction == {"quarantine_message", "restrict_sender", "admin_review",
                 "mandatory_safety_escalation"}

\* What the adapter makes of an update: the detectors its text matched, the
\* recommendation of the safety policy, whether a community signal reaches
\* 0.65, and whether it is a message (or a change of membership).
Trait == [match: {None, "policy", "critical"}, safety: SafetyAction \cup {None},
          community: BOOLEAN, message: BOOLEAN]

\* Only messages have text and media.
ASSUME TraitAssumption ==
  /\ Traits \subseteq Trait
  /\ \A t \in Traits : t.message \/ (t.match = None /\ t.safety = None)
ASSUME ModeAssumption ==
  Modes \subseteq {"enforce", "observe", "challenge_only", "review_required"}
ASSUME BoundAssumption == Retries \in Nat /\ MaxRestarts \in Nat

\* Decisions of the engine, with the confidence bands build_response tells
\* apart: 0.5 to 0.6, to 0.8, and above.
EngineState == {"ALLOW", "OBSERVE", "ELEVATED_OBSERVE", "CHALLENGE",
                "STEP_UP_AUTH", "RESTRICT", "BLOCK", "EJECT"}
Verdict == [state: EngineState, confidence: {"low", "mid", "high"}]

\* The synthesizer ejects in tier 0 only, where critical matches go, with 0.99,
\* and blocks with 0.75 or more.
Verdicts(t) ==
  {v \in Verdict :
     /\ t.match = "critical" => v.state = "EJECT"
     /\ v.state = "EJECT" => v.confidence = "high"
     /\ v.state = "BLOCK" => v.confidence # "low"}

Punishment == {"ban", "kick"}
Executable == Punishment \cup {"challenge"}
Action == Executable \cup SafetyAction \cup {"allow", "alert_admin"}

VARIABLES
  about,      \* the update of each delivery
  trait,      \* what each update is
  sender,     \* the member each update is about
  mode,       \* TELEGRAM_ENFORCEMENT_MODE
  restarts,
  pc,         \* where each delivery is
  under,      \* the mode it was decided in
  action,     \* what it decided to do
  attempt,    \* Bot API calls it has made
  session,    \* telegram_user_sessions: the last event of each member
  memory,     \* user_sessions of the service
  effects,    \* history: what Telegram carried out for each delivery
  reviews     \* history: deliveries that opened a review

input == <<about, trait, sender>>
stores == <<session, memory>>
handling == <<pc, under, action, attempt>>
vars == <<input, mode, restarts, handling, stores, effects, reviews>>

Fresh == "fresh"  \* a session without a last event
Of(d) == trait[about[d]]
Who(d) == sender[about[d]]

(***************************************************************************)
(* The action of an update                                                 *)
(***************************************************************************)

\* build_response as enforce calls it: without a user id, so that its ban
\* cooldown is neither looked up nor recorded, and with reason codes that never
\* name a detector, so that no branch on a threat category is taken.
BuildResponse(v) ==
  CASE v.state = "EJECT" \/ (v.state = "BLOCK" /\ v.confidence = "high") -> "ban"
    [] v.state = "RESTRICT" \/ (v.state = "BLOCK" /\ v.confidence = "mid") -> "kick"
    [] v.state \in {"STEP_UP_AUTH", "CHALLENGE"} -> "challenge"
    [] OTHER -> "allow"

\* Mutant: a safety recommendation does not replace a punishment.
BySafetyUnlessPunished(t, a) ==
  IF t.safety # None /\ a \notin Punishment THEN t.safety ELSE a

BySafety(t, a) == IF t.safety # None THEN t.safety ELSE a

ByCommunity(t, a) == IF t.community /\ a = "allow" THEN "alert_admin" ELSE a

\* Mutant: a held-back action is given a name of its own.
ByModeMonitor(m, a) ==
  IF m = "enforce" \/ a \in SafetyAction THEN a ELSE "allow_with_monitoring"

\* Mutant: review mode holds bans back, but not kicks.
ByModeKicks(m, a) ==
  CASE a \in SafetyAction \/ m = "enforce" \/ a = "allow" -> a
    [] m = "observe" /\ a \notin SafetyAction -> "allow"
    [] m = "challenge_only" /\ a \in Punishment -> "challenge"
    [] m = "review_required" /\ a = "ban" -> "alert_admin"
    [] OTHER -> a

ByMode(m, a) ==
  CASE a \in SafetyAction \/ m = "enforce" \/ a = "allow" -> a
    [] m = "observe" /\ a \notin SafetyAction \cup {"allow"} -> "allow"
    [] m = "challenge_only" /\ a \in Punishment -> "challenge"
    [] m = "review_required" /\ a \in Punishment -> "alert_admin"
    [] OTHER -> a

\* Mutant: the mode is applied before the community signals.
ActionModeFirst(d, v) ==
  ByCommunity(Of(d), ByMode(mode, BySafety(Of(d), BuildResponse(v))))

ActionOf(d, v) ==
  ByMode(mode, ByCommunity(Of(d), BySafety(Of(d), BuildResponse(v))))

(***************************************************************************)
(* The session row                                                         *)
(***************************************************************************)

\* Reading inserts a missing row; a failed or undecodable read goes to memory.
ReadSession(m, ok) ==
  IF ok /\ session[m] = None THEN [session EXCEPT ![m] = Fresh] ELSE session

\* The UPDATE changes no row when there is none, and does not fail for it.
WriteSession(s, m, u, ok) ==
  IF ok /\ s[m] # None THEN [s EXCEPT ![m] = u] ELSE s

RememberSession(m, u, ok) == IF ok THEN memory ELSE [memory EXCEPT ![m] = u]

(***************************************************************************)
(* Handling a delivery                                                     *)
(***************************************************************************)
Init ==
  /\ about \in [Delivery -> Update]
  /\ trait \in [Update -> Traits]
  /\ sender \in [Update -> Member]
  /\ mode \in Modes
  /\ restarts = 0
  /\ pc = [d \in Delivery |-> "idle"]
  /\ under = [d \in Delivery |-> None]
  /\ action = [d \in Delivery |-> None]
  /\ attempt = [d \in Delivery |-> 0]
  /\ session = [m \in Member |-> None]
  /\ memory = [m \in Member |-> None]
  /\ effects = [d \in Delivery |-> {}]
  /\ reviews = {}

\* Telegram delivers what has not been answered with success.
Delivered(d) ==
  /\ pc[d] = "idle"
  /\ \A e \in Delivery : about[e] = about[d] => pc[e] # "acked"

OpensReview(a) == a = "alert_admin" \/ a \in SafetyAction

\* The end of process_update: the session, then _handle_manual_review, whose
\* notifications are awaited.
Conclude(d, a, s, ok) ==
  /\ session' = WriteSession(s, Who(d), about[d], ok)
  /\ memory' = RememberSession(Who(d), about[d], ok)
  /\ reviews' = IF OpensReview(a) THEN reviews \cup {d} ELSE reviews
  /\ pc' = [pc EXCEPT ![d] = IF OpensReview(a) THEN "notifying" ELSE "acked"]

\* parse_update raises, or the engine does once the session is read.
Refuse(d) ==
  /\ Delivered(d)
  /\ pc' = [pc EXCEPT ![d] = "error"]
  /\ session' \in {session, ReadSession(Who(d), TRUE)}
  /\ UNCHANGED <<input, mode, restarts, under, action, attempt, memory,
                 effects, reviews>>

\* To the first await: the token lookup of an executable action, or else the
\* notifications, or the answer.
Decide(d, v, ok) ==
  LET a == ActionOf(d, v)
      s == ReadSession(Who(d), ok)
  IN  /\ Delivered(d)
      /\ v \in Verdicts(Of(d))
      /\ under' = [under EXCEPT ![d] = mode]
      /\ action' = [action EXCEPT ![d] = a]
      /\ IF a \in Executable
         THEN /\ pc' = [pc EXCEPT ![d] = "token"]
              /\ session' = s
              /\ UNCHANGED <<memory, reviews>>
         ELSE \E again \in BOOLEAN : Conclude(d, a, s, again)
      /\ UNCHANGED <<input, mode, restarts, attempt, effects>>

\* No token, or an update without chat and sender: nothing is posted.
ResolveToken(d, found, ok) ==
  /\ pc[d] = "token"
  /\ IF found /\ Of(d).message
     THEN /\ pc' = [pc EXCEPT ![d] = "posting"]
          /\ UNCHANGED <<stores, reviews>>
     ELSE Conclude(d, action[d], session, ok)
  /\ UNCHANGED <<input, mode, restarts, under, action, attempt, effects>>

\* Mutant: every failure of the database is let through after the action.
PostAndRaise(d, answer, carried, ok) ==
  /\ pc[d] = "posting"
  /\ answer = "ok" => carried
  /\ answer = "rejected" => ~carried
  /\ effects' = IF carried THEN [effects EXCEPT ![d] = @ \cup {action[d]}] ELSE effects
  /\ IF ok THEN Conclude(d, action[d], session, ok)
     ELSE pc' = [pc EXCEPT ![d] = "error"] /\ UNCHANGED <<stores, reviews>>
  /\ UNCHANGED <<input, mode, restarts, under, action, attempt>>

\* Mutant: the count of attempts starts over when it is used up.
PostStartsOver(d, answer, carried, ok) ==
  /\ pc[d] = "posting"
  /\ answer = "ok" => carried
  /\ answer = "rejected" => ~carried
  /\ effects' = IF carried THEN [effects EXCEPT ![d] = @ \cup {action[d]}] ELSE effects
  /\ IF answer = "down"
     THEN /\ attempt' = [attempt EXCEPT ![d] = (@ + 1) % (Retries + 1)]
          /\ UNCHANGED <<pc, stores, reviews>>
     ELSE /\ Conclude(d, action[d], session, ok)
          /\ UNCHANGED attempt
  /\ UNCHANGED <<input, mode, restarts, under, action>>

\* One call of the Bot API, repeated after a 5xx or a timeout, either of which
\* may come after the call was carried out.
PostTelegramApi(d, answer, carried, ok) ==
  /\ pc[d] = "posting"
  /\ answer = "ok" => carried
  /\ answer = "rejected" => ~carried
  /\ effects' = IF carried THEN [effects EXCEPT ![d] = @ \cup {action[d]}] ELSE effects
  /\ IF answer = "down" /\ attempt[d] < Retries
     THEN /\ attempt' = [attempt EXCEPT ![d] = @ + 1]
          /\ UNCHANGED <<pc, stores, reviews>>
     ELSE /\ Conclude(d, action[d], session, ok)
          /\ UNCHANGED attempt
  /\ UNCHANGED <<input, mode, restarts, under, action>>

\* Failed notifications are logged and dropped.
Notified(d) ==
  /\ pc[d] = "notifying"
  /\ pc' = [pc EXCEPT ![d] = "acked"]
  /\ UNCHANGED <<input, mode, restarts, under, action, attempt, stores,
                 effects, reviews>>

\* Deliveries in hand are never answered, and Telegram delivers them again.
Restart ==
  /\ restarts < MaxRestarts
  /\ restarts' = restarts + 1
  /\ mode' \in Modes
  /\ pc' = [d \in Delivery |->
             IF pc[d] \in {"token", "posting", "notifying"} THEN "lost" ELSE pc[d]]
  /\ memory' = [m \in Member |-> None]
  /\ UNCHANGED <<input, under, action, attempt, session, effects, reviews>>

Handle(d) ==
  \E ok \in BOOLEAN :
    \/ \E found \in BOOLEAN : ResolveToken(d, found, ok)
    \/ \E answer \in {"ok", "rejected", "down"}, carried \in BOOLEAN :
         PostTelegramApi(d, answer, carried, ok)

Next ==
  \/ \E d \in Delivery :
       \/ \E v \in Verdict, ok \in BOOLEAN : Decide(d, v, ok)
       \/ Refuse(d) \/ Handle(d) \/ Notified(d)
  \/ Restart

\* The event loop resumes a coroutine whose call has answered or timed out.
Spec ==
  Init /\ [][Next]_vars /\ \A d \in Delivery : WF_vars(Handle(d) \/ Notified(d))

(***************************************************************************)
(* Properties                                                              *)
(***************************************************************************)
TypeOK ==
  /\ about \in [Delivery -> Update]
  /\ trait \in [Update -> Traits]
  /\ sender \in [Update -> Member]
  /\ mode \in Modes
  /\ restarts \in 0..MaxRestarts
  /\ pc \in [Delivery -> {"idle", "token", "posting", "notifying", "acked",
                         "error", "lost"}]
  /\ under \in [Delivery -> Modes \cup {None}]
  /\ action \in [Delivery -> Action \cup {None}]
  /\ attempt \in [Delivery -> 0..Retries]
  /\ session \in [Member -> Update \cup {None, Fresh}]
  /\ memory \in [Member -> Update \cup {None}]
  /\ effects \in [Delivery -> SUBSET Executable]
  /\ reviews \subseteq Delivery

\* docs/TRUEPRESENCE_TELEGRAM_COMMUNITY_SIGNALS.md: in observe mode "review or
\* punitive recommendations are suppressed": whatever the engine, the safety
\* policy and the community signals say, Telegram is asked for nothing and only
\* a safety escalation opens a review.
ObserveHoldsBack ==
  \A d \in Delivery : under[d] = "observe" =>
    /\ effects[d] = {}
    /\ d \in reviews => Of(d).safety # None

\* A member is banned or kicked without an admin in enforce mode only, also when
\* the mode changes while the call is being retried.
PunishedInEnforceOnly ==
  \A d \in Delivery : effects[d] \cap Punishment # {} => under[d] = "enforce"

\* docs/TRUEPRESENCE_TELEGRAM_SAFETY.md: "The default behavior avoids auto-ban.
\* Safety escalations create metadata-only review records": in every mode, and
\* for whatever decision of the engine.
SafetyIsReviewed ==
  \A d \in Delivery : Of(d).safety # None =>
    /\ effects[d] = {}
    /\ pc[d] = "acked" => d \in reviews

\* A delivery answered with an error comes again: it has had no effect yet.
FailedHadNoEffect ==
  \A d \in Delivery : pc[d] = "error" => effects[d] = {} /\ d \notin reviews

\* Every delivery is answered, unless the process goes down.
DeliveriesEnd ==
  \A d \in Delivery :
    pc[d] \in {"token", "posting", "notifying"} ~> pc[d] \in {"acked", "lost"}

\* build_response: "Policy Violations -> Ban if high confidence, else Kick/Warn".
PolicyMatchesActedOn ==
  \A d \in Delivery :
    under[d] = "enforce" /\ Of(d).match = "policy" => action[d] # "allow"

(***************************************************************************)
(* The inductive invariant: an action was permitted when it was decided,   *)
(* and what has happened since follows from the action.                    *)
(***************************************************************************)
Permitted(m, t, a) ==
  /\ t.safety # None => a = t.safety
  /\ a \in Executable => m # "observe"
  /\ a \in Punishment => m = "enforce"
  /\ OpensReview(a) /\ m = "observe" => t.safety # None

ActionsPermitted ==
  \A d \in Delivery :
    IF pc[d] \in {"idle", "error"} THEN action[d] = None /\ under[d] = None
    ELSE action[d] \in Action /\ Permitted(under[d], Of(d), action[d])

HistoryFollows ==
  \A d \in Delivery :
    /\ pc[d] \in {"token", "posting"} => action[d] \in Executable
    /\ effects[d] \subseteq {action[d]}
    /\ d \in reviews => OpensReview(action[d])
    /\ pc[d] = "acked" /\ OpensReview(action[d]) => d \in reviews
    /\ pc[d] = "notifying" => d \in reviews

IInv == TypeOK /\ ActionsPermitted /\ HistoryFollows
=============================================================================
