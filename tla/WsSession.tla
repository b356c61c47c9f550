------------------------------ MODULE WsSession ------------------------------
(***************************************************************************)
(* One session over websockets: api/ws_server.py and ChallengeValidator of *)
(* challenges/validator.py.  Its connections are coroutines of one worker  *)
(* or another; a coroutine gives way only where it sends.  The mode of the *)
(* session and the time of its last challenge are in Redis and in each     *)
(* worker's memory, its events and its open challenge in memory only. What *)
(* is in Redis expires; what is in a worker's memory does not.  (It needs  *)
(* auth.py to be imported: see UserCache.)                                 *)
(***************************************************************************)
EXTENDS Integers, Sequences

CONSTANTS
  Connection,
  WorkerOf,    \* the worker of each connection
  Cooldown,    \* CHALLENGE_COOLDOWN_SECONDS
  ModeLife,    \* how long Redis has a mode: ex=86400
  LastLife,    \* how long Redis has the time of the last challenge: ex=3600
  TooSoon, TooLate, \* an answer is timely strictly between them: 1 s, 30 s
  EventCap,    \* SESSION_EVENT_CAP
  MaxTime,     \* bound on the clock
  MaxMessages  \* bound on messages

VARIABLES
  clock,
  at,          \* where each connection's coroutine is
  mode,        \* its session_mode
  modeKept,    \* the mode in Redis, and in each worker's session_modes
  modeSince,   \* when the mode was set in Redis
  lastKept,    \* challenge_last_issued in Redis, and in each worker
  events,      \* how many events each worker keeps
  active,      \* active_challenges: when the open challenge was issued
  redisThere,
  messages,
  told,        \* history: the mode last set by any connection
  challenges,  \* history: when each worker issued a challenge
  valid,       \* history: the valid answers: worker, challenge, when
  redisLeft    \* history: Redis has been away

wsVars == <<clock, at, mode, modeKept, modeSince, lastKept, events, active, redisThere,
            messages, told, challenges, valid, redisLeft>>

ASSUME WsAssumption ==
  /\ Cooldown \in Nat \ {0} /\ EventCap \in Nat /\ TooSoon \in Int /\ TooLate \in Int
  /\ ModeLife \in Nat /\ LastLife \in Nat

WsWorker == {WorkerOf[c] : c \in Connection}
Redis == "redis"
Unset == -1
Mode == {"production", "test"}

WsInit ==
  /\ clock = Cooldown
  /\ at = [c \in Connection |-> "closed"]
  /\ mode = [c \in Connection |-> "production"]
  /\ modeKept = [x \in WsWorker \cup {Redis} |-> "unset"]
  /\ modeSince = 0
  /\ lastKept = [x \in WsWorker \cup {Redis} |-> Unset]
  /\ events = [w \in WsWorker |-> 0]
  /\ active = [w \in WsWorker |-> Unset]
  /\ redisThere = TRUE
  /\ messages = 0
  /\ told = "production"
  /\ challenges = [w \in WsWorker |-> <<>>]
  /\ valid = <<>>
  /\ redisLeft = FALSE

\* What was set in Redis at some time has not expired.
Lives(since, life) == clock - since < life

\* _get_session_mode: what Redis still has, or else the worker.
KeptMode(w) ==
  IF redisThere /\ modeKept[Redis] # "unset" /\ Lives(modeSince, ModeLife)
  THEN modeKept[Redis] ELSE modeKept[w]

\* _get_challenge_last, in the same way.
KeptLast(w) ==
  IF redisThere /\ lastKept[Redis] # Unset /\ Lives(lastKept[Redis], LastLife)
  THEN lastKept[Redis] ELSE lastKept[w]

\* Mutant: what is set stays in the worker.
KeepInWorker(kept, w, v) == [kept EXCEPT ![w] = v]

\* _set_session_mode, _set_challenge_last: the worker, and Redis when it is there.
Keep(kept, w, v) ==
  [x \in DOMAIN kept |-> IF x = w \/ (x = Redis /\ redisThere) THEN v ELSE kept[x]]

\* No coroutine of the worker is between reading the last challenge and setting it.
Yields(w) == \A c \in Connection : WorkerOf[c] = w => at[c] # "issuing"

\* The token is good; the mode is read, once for the connection.
Connect(c) ==
  LET kept == KeptMode(WorkerOf[c]) IN
  /\ at[c] = "closed" /\ Yields(WorkerOf[c])
  /\ at' = [at EXCEPT ![c] = "receiving"]
  /\ mode' = [mode EXCEPT ![c] = IF kept = "unset" THEN "production" ELSE kept]
  /\ UNCHANGED <<clock, modeKept, modeSince, lastKept, events, active, redisThere, messages,
                 told, challenges, valid, redisLeft>>

\* The mode is a variable of the handler, which ends.
Disconnect(c) ==
  /\ at[c] # "closed" /\ Yields(WorkerOf[c])
  /\ at' = [at EXCEPT ![c] = "closed"]
  /\ mode' = [mode EXCEPT ![c] = "production"]
  /\ UNCHANGED <<clock, modeKept, modeSince, lastKept, events, active, redisThere, messages,
                 told, challenges, valid, redisLeft>>

Receives(c) ==
  /\ at[c] = "receiving" /\ Yields(WorkerOf[c])
  /\ messages < MaxMessages /\ messages' = messages + 1

\* set_mode: this connection, and those that are opened from now on.
SetMode(c) ==
  /\ Receives(c)
  /\ \E m \in Mode :
       /\ mode' = [mode EXCEPT ![c] = m]
       /\ modeKept' = Keep(modeKept, WorkerOf[c], m)
       /\ modeSince' = IF redisThere THEN clock ELSE modeSince
       /\ told' = m
  /\ UNCHANGED <<clock, at, lastKept, events, active, redisThere, challenges, valid, redisLeft>>

Closed(w) == [active EXCEPT ![w] = Unset]

\* validate_response: there is a challenge, and the answer is timely and not empty.
Validate(w) ==
  LET ttr == clock - active[w] IN
  /\ active' = Closed(w)
  /\ \/ /\ active[w] # Unset /\ TooSoon < ttr /\ ttr < TooLate
        /\ valid' = Append(valid, [by |-> w, issued |-> active[w], at |-> clock])
     \/ UNCHANGED valid

CappedEvents(n) == IF n > EventCap THEN EventCap ELSE n

\* An event, or a challenge_response that becomes one, is kept and evaluated; when
\* the score is uncertain the challenge is thought of after the result is sent.
Evaluate(c) ==
  LET w == WorkerOf[c] IN
  /\ Receives(c)
  /\ Validate(w) \/ UNCHANGED <<active, valid>>
  /\ events' = [events EXCEPT ![w] = CappedEvents(@ + 1)]
  /\ \E next \in {"receiving", "uncertain"} : at' = [at EXCEPT ![c] = next]
  /\ UNCHANGED <<clock, mode, modeKept, modeSince, lastKept, redisThere, told, challenges,
                 redisLeft>>

\* The time of the last challenge is read ...
DecideChallenge(c) ==
  LET last == KeptLast(WorkerOf[c]) IN
  /\ at[c] = "uncertain" /\ Yields(WorkerOf[c])
  /\ at' = [at EXCEPT ![c] =
       IF last = Unset \/ clock - last >= Cooldown THEN "issuing" ELSE "receiving"]
  /\ UNCHANGED <<clock, mode, modeKept, modeSince, lastKept, events, active, redisThere, messages,
                 told, challenges, valid, redisLeft>>

\* ... and set, and the challenge replaces the one that is open in this worker.
Issue(c) ==
  LET w == WorkerOf[c] IN
  /\ at[c] = "issuing"
  /\ at' = [at EXCEPT ![c] = "receiving"]
  /\ lastKept' = Keep(lastKept, w, clock)
  /\ active' = [active EXCEPT ![w] = clock]
  /\ challenges' = [challenges EXCEPT ![w] = Append(@, clock)]
  /\ UNCHANGED <<clock, mode, modeKept, modeSince, events, redisThere, messages, told, valid,
                 redisLeft>>

\* The statements between two sends take no time.
TimePasses ==
  /\ clock < MaxTime
  /\ \A w \in WsWorker : Yields(w)
  /\ clock' = clock + 1
  /\ UNCHANGED <<at, mode, modeKept, modeSince, lastKept, events, active, redisThere, messages,
                 told, challenges, valid, redisLeft>>

\* Redis goes away, and may come back with what it had and has not expired.
RedisGoes ==
  /\ redisThere' = ~redisThere
  /\ redisLeft' = TRUE
  /\ UNCHANGED <<clock, at, mode, modeKept, modeSince, lastKept, events, active, messages,
                 told, challenges, valid>>

WsNext ==
  \/ \E c \in Connection : \/ Connect(c) \/ Disconnect(c) \/ SetMode(c) \/ Evaluate(c)
                           \/ DecideChallenge(c) \/ Issue(c)
  \/ TimePasses
  \/ RedisGoes

WsSpec == WsInit /\ [][WsNext]_wsVars

(***************************************************************************)
(* Properties                                                              *)
(***************************************************************************)
WsTypeOK ==
  /\ at \in [Connection -> {"closed", "receiving", "uncertain", "issuing"}]
  /\ mode \in [Connection -> Mode]
  /\ modeKept \in [WsWorker \cup {Redis} -> Mode \cup {"unset"}]
  /\ modeSince \in 0..clock
  /\ lastKept \in [WsWorker \cup {Redis} -> 0..clock \cup {Unset}]
  /\ events \in [WsWorker -> 0..EventCap]
  /\ active \in [WsWorker -> 0..clock \cup {Unset}]

\* "Minimum seconds between challenges": of one worker, whichever connections it
\* serves; and unless Redis has been away, for it comes back with an older time.
ChallengesAreSpaced ==
  ~redisLeft => \A w \in WsWorker : \A i \in 1..(Len(challenges[w]) - 1) :
    challenges[w][i + 1] - challenges[w][i] >= Cooldown

\* A valid answer came in time for a challenge of the same worker, and no other answer
\* was accepted for that challenge, from whichever connection.
AnsweredOnce ==
  ~redisLeft => \A i \in DOMAIN valid :
    /\ \E k \in DOMAIN challenges[valid[i].by] : challenges[valid[i].by][k] = valid[i].issued
    /\ valid[i].at - valid[i].issued \in (TooSoon + 1)..(TooLate - 1)
    /\ \A j \in DOMAIN valid :
         valid[i].by = valid[j].by /\ valid[i].issued = valid[j].issued => i = j

\* While Redis stays, a connection opened to any worker starts in the mode that the
\* session was last set to from any other, for a day; or in production, when it was
\* never set to any.
ModeIsShared ==
  [][\A c \in Connection :
       /\ at[c] = "closed" /\ at'[c] = "receiving" /\ ~redisLeft
       /\ modeKept[Redis] = "unset" \/ Lives(modeSince, ModeLife)
       => mode'[c] = told]_wsVars

\* What the connections of a session may rely on, whichever worker each is at.
ChallengesHold == []ChallengesAreSpaced /\ []AnsweredOnce /\ ModeIsShared
=============================================================================
