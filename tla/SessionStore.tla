----------------------------- MODULE SessionStore -----------------------------
(***************************************************************************)
(* A session in Redis: DistributedRuntime of runtime/distributed.py, and   *)
(* the requests that keep fields of a session there: /session/create and   *)
(* /v1/evaluate (api/server.py), the orchestrator and the Telegram bot.    *)
(* Requests run in threads and workers of their own.  A field is updated   *)
(* by loading the whole session and storing it again, and what Redis       *)
(* cannot do is logged and forgotten.                                      *)
(***************************************************************************)
EXTENDS Integers, Sequences

CONSTANTS
  Worker,
  Level,       \* assurance levels, A1 as 1, and so on
  MaxRequests, \* bound on requests
  MaxFaults    \* bound on how often Redis goes away

ASSUME SessionAssumption == MaxRequests \in Nat /\ MaxFaults \in Nat

VARIABLES
  stored,   \* the session in Redis: its value of each field
  redisUp,
  todo,     \* of each worker's request: the fields it has still to update
  loaded,   \* the session it has loaded to update a field, or Idle
  issued,   \* requests begun, which number the values they store
  created,  \* history: the level the session was created with
  used,     \* history: the levels its evaluations saw
  newest,   \* history: the last value stored of each field
  raced,    \* history: an update was stored over one it had not seen
  faults    \* history: how often Redis went away

sessionVars == <<stored, redisUp, todo, loaded, issued, created, used, newest, raced, faults>>

Nothing == -1
Idle == <<>>
A1 == 1
Field == {"session_meta", "last_evaluation", "enforcement_outcome"}
NoFields == [f \in Field |-> Nothing]

SessionInit ==
  /\ stored = NoFields
  /\ redisUp = TRUE
  /\ todo = [w \in Worker |-> <<>>]
  /\ loaded = [w \in Worker |-> Idle]
  /\ issued = 0
  /\ created = Nothing
  /\ used = {}
  /\ newest = NoFields
  /\ raced = FALSE
  /\ faults = 0

Request(w, fields) ==
  /\ issued < MaxRequests
  /\ todo[w] = <<>>
  /\ issued' = issued + 1
  /\ todo' = [todo EXCEPT ![w] = fields]
  /\ UNCHANGED <<stored, redisUp, loaded, newest, raced, faults>>

\* POST /session/create: the level goes into session_meta.
CreateSession(w) ==
  /\ created = Nothing
  /\ created' \in Level
  /\ Request(w, <<[field |-> "session_meta", value |-> created']>>)
  /\ used' = {}

\* load_session: an error is no session.
LoadSession == IF redisUp THEN stored ELSE NoFields

LevelSeen(meta) == IF meta = Nothing THEN A1 ELSE meta

\* POST /v1/evaluate: a session that is not there is made again, with A1; the
\* orchestrator adds its result.
EvaluateSession(w) ==
  LET meta == LoadSession["session_meta"]
      result == [field |-> "last_evaluation", value |-> issued']
  IN /\ used' = used \cup {LevelSeen(meta)}
     /\ Request(w, IF meta = Nothing
                   THEN <<[field |-> "session_meta", value |-> A1], result>> ELSE <<result>>)
     /\ UNCHANGED created

\* A Telegram update: the orchestrator's result, and the outcome of an action.
EvaluateTelegram(w) ==
  /\ Request(w, <<[field |-> "last_evaluation", value |-> issued'],
                  [field |-> "enforcement_outcome", value |-> issued']>>)
  /\ UNCHANGED <<created, used>>

\* update_session_field, as far as load_session ...
UpdateLoads(w) ==
  /\ todo[w] # <<>> /\ loaded[w] = Idle
  /\ loaded' = [loaded EXCEPT ![w] = LoadSession]
  /\ UNCHANGED <<stored, redisUp, todo, issued, created, used, newest, raced, faults>>

\* json.dumps has no way to write the created_at of a session_meta.
Serializable(session) == session["session_meta"] = Nothing

With(session, u) == [session EXCEPT ![u.field] = u.value]

\* ... and as store_session ends: an error is logged, and the request goes on.
UpdateStores(w) ==
  LET u == Head(todo[w])
      session == With(loaded[w], u)
  IN
  /\ todo[w] # <<>> /\ loaded[w] # Idle
  /\ IF redisUp /\ Serializable(session)
     THEN /\ stored' = session
          /\ newest' = [newest EXCEPT ![u.field] = u.value]
          /\ raced' = (raced \/ loaded[w] # stored)
     ELSE UNCHANGED <<stored, newest, raced>>
  /\ todo' = [todo EXCEPT ![w] = Tail(@)]
  /\ loaded' = [loaded EXCEPT ![w] = Idle]
  /\ UNCHANGED <<redisUp, issued, created, used, faults>>

\* An hour without an update.
SessionExpires ==
  /\ \A w \in Worker : todo[w] = <<>>
  /\ stored' = NoFields /\ newest' = NoFields /\ created' = Nothing /\ raced' = FALSE
  /\ UNCHANGED <<redisUp, todo, loaded, issued, used, faults>>

RedisMoves ==
  /\ IF redisUp THEN faults < MaxFaults /\ faults' = faults + 1 ELSE UNCHANGED faults
  /\ redisUp' = ~redisUp
  /\ UNCHANGED <<stored, todo, loaded, issued, created, used, newest, raced>>

SessionNext ==
  \/ \E w \in Worker : \/ CreateSession(w) \/ EvaluateSession(w) \/ EvaluateTelegram(w)
                       \/ UpdateLoads(w) \/ UpdateStores(w)
  \/ SessionExpires
  \/ RedisMoves

SessionSpec == SessionInit /\ [][SessionNext]_sessionVars

(***************************************************************************)
(* Properties                                                              *)
(***************************************************************************)
Value == Level \cup {A1, Nothing} \cup (1..MaxRequests)
SessionTypeOK ==
  /\ stored \in [Field -> Value] /\ newest \in [Field -> Value]
  /\ redisUp \in BOOLEAN /\ raced \in BOOLEAN
  /\ todo \in [Worker -> Seq([field : Field, value : Value])]
  /\ loaded \in [Worker -> [Field -> Value] \cup {Idle}]
  /\ issued \in 0..MaxRequests /\ faults \in 0..MaxFaults
  /\ created \in Level \cup {Nothing} /\ used \subseteq Level \cup {A1}

\* update_session_field: while Redis stays, and no two updates of the session
\* overlap, it holds the last value stored of every field.
FieldsKept == ~raced /\ faults = 0 => stored = newest
=============================================================================
