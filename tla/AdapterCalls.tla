----------------------------- MODULE AdapterCalls -----------------------------
(***************************************************************************)
(* The calls a batch of roles makes of its model: src/ese/adapters.py,     *)
(* local_runtime.py and the callers in pipeline.py.  The roles of a batch  *)
(* are threads that share the configuration, in which the local adapter    *)
(* keeps what it found ready; the Ollama server is outside.                *)
(***************************************************************************)
EXTENDS Integers

CONSTANTS
  Caller,     \* the roles of a batch
  MaxRetries, \* runtime.max_retries
  MaxDowns    \* bound on how often the server goes down

ASSUME CallAssumption == MaxRetries \in Nat /\ MaxDowns \in Nat

VARIABLES
  setup,    \* the adapter and what the configuration lacks, once it is resolved
  callPc,   \* where each role's call is
  attempt,  \* requests it has sent
  answer,   \* how the last of them was answered
  ready,    \* _ese_local_runtime_ready holds this configuration's key
  server,   \* the Ollama server
  downs,
  listed    \* history: a list of the server's that had every required model

callVars == <<setup, callPc, attempt, answer, ready, server, downs, listed>>

Unresolved == [adapter |-> "none", flaw |-> "none", models |-> FALSE]

\* flaw: found before the local runtime is looked at (model reference, a number),
\* or after it (max_output_tokens, base URL, key).
Setup ==
  [adapter : {"hosted", "local", "custom"}, flaw : {"none", "early", "late"},
   models : BOOLEAN]

Passing == {"limited", "unavailable", "unreachable"}
Final == {"noText", "badJson", "auth", "rejected", "oddDelay", "broken"}
Answer == Passing \cup Final \cup {"text"}
Over == {"answered", "failed"}
Checking == {"probing", "waiting", "listing"}

CallsInit ==
  /\ setup = Unresolved
  /\ callPc = [c \in Caller |-> "idle"]
  /\ attempt = [c \in Caller |-> 0]
  /\ answer = [c \in Caller |-> "none"]
  /\ ready = FALSE
  /\ server \in {"down", "up"}
  /\ downs = 0
  /\ listed = FALSE

\* _resolve_adapter: a reference that is no adapter, or whose healthcheck fails,
\* ends the run before a role is called.
ResolveAdapter ==
  /\ setup = Unresolved
  /\ setup' \in Setup
  /\ UNCHANGED <<callPc, attempt, answer, ready, server, downs, listed>>

At(c, at) == callPc' = [callPc EXCEPT ![c] = at]

\* What is left to look at before the request.
Checked(c) == At(c, IF setup.flaw = "late" THEN "failed" ELSE "sending")

\* The adapter's own checks, then ensure_local_runtime_ready for a local model.
Begin(c) ==
  /\ callPc[c] = "idle"
  /\ setup.adapter \in {"hosted", "local"}
  /\ \/ setup.flaw = "early" /\ At(c, "failed")
     \/ /\ setup.flaw # "early"
        /\ IF setup.adapter = "local" /\ ~ready THEN At(c, "probing") ELSE Checked(c)
  /\ UNCHANGED <<setup, attempt, answer, ready, server, downs, listed>>

\* An adapter of the user's own returns text, or something else, or raises.
CallCustom(c) ==
  /\ callPc[c] = "idle"
  /\ setup.adapter = "custom"
  /\ \E v \in Over : At(c, v)
  /\ UNCHANGED <<setup, attempt, answer, ready, server, downs, listed>>

\* Of two threads that create the set of what is ready, one keeps its own to
\* itself.
MarkReady(c) ==
  ready' \in IF \E d \in Caller \ {c} : callPc[d] # "idle" THEN {TRUE, ready} ELSE {TRUE}

\* The server answers: its models are listed, if any are required.
Running(c) ==
  IF setup.models THEN At(c, "listing") /\ UNCHANGED ready
                  ELSE Checked(c) /\ MarkReady(c)

\* ollama_running; when it is not, the server is started, if it is installed.
Probe(c) ==
  /\ callPc[c] = "probing"
  /\ \/ server = "up" /\ Running(c) /\ UNCHANGED server
     \/ server # "up" /\ At(c, "failed") /\ UNCHANGED <<ready, server>>
     \/ server # "up" /\ At(c, "waiting") /\ server' = "starting" /\ UNCHANGED ready
  /\ UNCHANGED <<setup, attempt, answer, downs, listed>>

\* wait_for_ollama: it probes until its own time is over.
WaitForOllama(c) ==
  /\ callPc[c] = "waiting"
  /\ \/ server = "up" /\ Running(c)
     \/ At(c, "failed") /\ UNCHANGED ready
  /\ UNCHANGED <<setup, attempt, answer, server, downs, listed>>

\* fetch_ollama_models: unreadable, a model missing, or all there.
ListModels(c) ==
  /\ callPc[c] = "listing"
  /\ \/ At(c, "failed") /\ UNCHANGED <<ready, listed>>
     \/ server = "up" /\ listed' = TRUE /\ MarkReady(c) /\ Checked(c)
  /\ UNCHANGED <<setup, attempt, answer, server, downs>>

\* Mutant: one more retry than max_retries.
ReplyOnceMore(c, a) ==
  IF a = "text" THEN "answered"
  ELSE IF a \in Passing /\ attempt[c] <= MaxRetries THEN "sleeping" ELSE "failed"

\* _execute_responses_request on the answer of a try: an odd Retry-After (negative,
\* or not a number) and a connection broken within the answer leave the loop by
\* an exception no clause of it catches; _invoke_adapter reports every one.
Reply(c, a) ==
  IF a = "text" THEN "answered"
  ELSE IF a \in Passing /\ attempt[c] < MaxRetries THEN "sleeping" ELSE "failed"

Try(c) ==
  /\ callPc[c] = "sending"
  /\ \E a \in Answer :
       /\ setup.adapter = "local" /\ server # "up" => a = "unreachable"
       /\ answer' = [answer EXCEPT ![c] = a]
       /\ At(c, Reply(c, a))
  /\ attempt' = [attempt EXCEPT ![c] = @ + 1]
  /\ UNCHANGED <<setup, ready, server, downs, listed>>

\* Retry-After, at most 30 s, or the backoff.
Wake(c) ==
  /\ callPc[c] = "sleeping"
  /\ At(c, "sending")
  /\ UNCHANGED <<setup, attempt, answer, ready, server, downs, listed>>

\* `ollama serve` comes up, or not; a server that runs may stop.
ServerMoves ==
  /\ \/ server = "starting" /\ server' \in {"up", "down"} /\ UNCHANGED downs
     \/ server = "up" /\ downs < MaxDowns /\ server' = "down" /\ downs' = downs + 1
  /\ UNCHANGED <<setup, callPc, attempt, answer, ready, listed>>

Step(c) ==
  Probe(c) \/ WaitForOllama(c) \/ ListModels(c) \/ Try(c) \/ Wake(c)

CallsNext ==
  \/ ResolveAdapter
  \/ \E c \in Caller : Begin(c) \/ CallCustom(c) \/ Step(c)
  \/ ServerMoves

\* Every wait of a call has a timeout: probe, list and request by urlopen's.
CallsFairness == \A c \in Caller : WF_callVars(Step(c))
CallsSpec == CallsInit /\ [][CallsNext]_callVars /\ CallsFairness

(***************************************************************************)
(* Properties                                                              *)
(***************************************************************************)
CallsTypeOK ==
  /\ setup \in Setup \cup {Unresolved}
  /\ callPc \in [Caller -> {"idle", "sending", "sleeping"} \cup Checking \cup Over]
  /\ attempt \in [Caller -> 0..(MaxRetries + 1)]
  /\ answer \in [Caller -> Answer \cup {"none"}]
  /\ ready \in BOOLEAN
  /\ server \in {"down", "starting", "up"}
  /\ downs \in 0..MaxDowns
  /\ listed \in BOOLEAN

\* adapters.py and README: a call makes at most max_retries further tries, each
\* after a passing failure (429, 408, 409, 5xx, transport), gives up early only
\* on a final one, and tells the pipeline one verdict.
Promise == INSTANCE OneCall WITH
  tries <- attempt,
  last <- [c \in Caller |->
    IF answer[c] = "none" THEN "none"
    ELSE IF answer[c] = "text" THEN "good"
    ELSE IF answer[c] \in Passing THEN "passing" ELSE "final"],
  verdict <- [c \in Caller |-> IF callPc[c] \in Over THEN callPc[c] ELSE "open"]

CallIsOneCall == Promise!OneCallSpec

\* ensure_local_runtime_ready: no role's request reaches a local server before the
\* models of every role were seen there, by this thread or by one it shares the
\* configuration with; what failed is not remembered as ready.
SentOnlyWhenListed ==
  \A c \in Caller :
    setup.adapter = "local" /\ setup.models /\ attempt[c] > 0 => listed

\* The inductive invariant behind the two: what is known of a call at each place, and
\* that nothing local goes on, or is remembered as ready, before the list was seen.
CallAt(c) ==
  /\ callPc[c] # "idle" => setup \in Setup
  /\ callPc[c] \in {"idle"} \cup Checking => attempt[c] = 0
  /\ callPc[c] \in {"sending", "sleeping"} => attempt[c] <= MaxRetries

ListedFirst ==
  /\ setup = Unresolved => ~ready
  /\ setup.adapter = "local" /\ setup.models =>
       /\ ready => listed
       /\ \A c \in Caller :
            callPc[c] \in {"sending", "sleeping"} \/ attempt[c] > 0 => listed

CallsInv == CallsTypeOK /\ (\A c \in Caller : CallAt(c)) /\ ListedFirst

\* A call that was begun ends, whatever server and provider do.
CallsEnd == \A c \in Caller : callPc[c] # "idle" ~> callPc[c] \in Over

\* What the pipeline relies on when it calls a role's model.
CallsKeepPromise == CallIsOneCall /\ []SentOnlyWhenListed /\ CallsEnd
=============================================================================
