-------------------------- MODULE MCPresenceServices --------------------------
(* The services of src/truepresence beside the bot's guard and its reviews,   *)
(* for TLC: a behaviour is one of theirs, and the others stay as they begin.  *)
EXTENDS MCDecisionEngine, TelegramWindows, SafetyPolicy, TenantUpdates, SessionStore,
        UserCache, WsSession, SdkEvidence, SdkScoring, IdentityGraph, TLC

VARIABLE part  \* whose behaviour it is

\* Two connections of one worker, and one of another.
MCWorkerOf == "a1" :> "A" @@ "a2" :> "A" @@ "b" :> "B"

\* Packets with each detector silent and at each of its severities, values on both
\* sides of its thresholds, and with what supports a human in part.
MCHumanTyping ==
  [paste |-> 0, focus |-> 150, render |-> 101, duration |-> 101, cpm |-> 319, stddev |-> 25,
   corrections |-> 1, rate |-> 1]
MCNoTyping == [feature \in DOMAIN MCHumanTyping |-> Unseen]
MCTyping ==
  {MCHumanTyping, MCNoTyping,
   [MCNoTyping EXCEPT !.paste = 0, !.focus = 50],
   [MCHumanTyping EXCEPT !.paste = 1, !.corrections = 0, !.stddev = 16],
   [MCHumanTyping EXCEPT !.duration = 100, !.render = 100, !.focus = 51, !.stddev = 9, !.cpm = 260],
   [MCHumanTyping EXCEPT !.focus = 50, !.render = 100, !.cpm = 700, !.stddev = 15, !.rate = 0],
   [MCHumanTyping EXCEPT !.stddev = 1, !.cpm = 699, !.corrections = Unseen],
   [MCNoTyping EXCEPT !.paste = 0, !.stddev = 8, !.cpm = 120, !.rate = 0]}
MCChallenge ==
  [latency : {Unseen}, expected : {Unseen}] \cup [latency : {350, 300}, expected : {400}]
    \cup [latency : {750, 549, 190}, expected : {1000}]
MCPointer == {[entropy |-> 35, hesitation |-> 80, scroll |-> 34]}
MCNoAgent ==
  [feature \in {"bursts", "interval", "spread", "idle", "deltas", "submit", "exploratory",
                "directness", "retries", "repairs"} |-> Unseen]
MCAgentic ==
  {MCNoAgent,
   [MCNoAgent EXCEPT !.bursts = 3, !.interval = 1200, !.spread = 450, !.retries = 2],
   [MCNoAgent EXCEPT !.bursts = 4, !.interval = 2200, !.spread = 180, !.idle = 2000, !.repairs = 3],
   [MCNoAgent EXCEPT !.bursts = 5, !.interval = 900, !.deltas = 1, !.submit = 251],
   [MCNoAgent EXCEPT !.deltas = 1, !.submit = 250, !.exploratory = 1, !.directness = 85],
   [MCNoAgent EXCEPT !.exploratory = 1, !.directness = 95, !.idle = 250, !.submit = 450],
   [MCNoAgent EXCEPT !.exploratory = 0, !.directness = 96, !.idle = 120, !.submit = 300,
                     !.deltas = 2]}

\* "a" is like "b" and "b" like "c", but "a" is not like "c".
MCAlike ==
  {<<"a", "a">>, <<"b", "b">>, <<"c", "c">>,
   <<"a", "b">>, <<"b", "a">>, <<"b", "c">>, <<"c", "b">>}

\* Of every feature of a media message values on both sides of each threshold.
MCKnown ==
  [latency |-> {Absent, 5001, 5000, 1500}, media |-> 2..4, burst |-> 1..2,
   peers |-> {1, 2, 4}, groups |-> {2, 3, 5}, young |-> BOOLEAN,
   provider |-> {Absent, 64, 65, 77, 80, 85}]
MCSure == {Absent, 90}

Engine == <<vars>>
Bots == <<windowsVars, safetyVars, tenantVars>>
Sessions == <<sessionVars, userVars, wsVars, graphVars>>
Sdk == <<sdkVars, scoringVars>>

\* A part that is not run begins in one of its initial states.
EngineInit ==
  IF part = "engine" THEN Init
  ELSE Init /\ signal = [e \in Eval |-> CHOOSE g \in Signals : TRUE]

\* (The environment's token comes to a row only by StoreBotToken.)
TenantsInit ==
  /\ TenantInit
  /\ tokenRows["tenant"].token # EnvToken
  /\ part # "tenants" => ~plaintextAllowed /\ tokenRows = [t \in TenantId |-> NoTokenRow]

AssessedInit ==
  IF part = "safety" THEN SafetyInit
  ELSE evidence = (CHOOSE f \in Facts : TRUE) /\ SafetyInit

ScoredInit ==
  IF part = "scoring" THEN ScoringInit
  ELSE session = (CHOOSE p \in Packets : TRUE) /\ ScoringInit

ServicesInit ==
  /\ part \in {"engine", "windows", "safety", "tenants", "sessions", "users", "ws", "graph",
                "sdk", "scoring"}
  /\ EngineInit
  /\ WindowsInit /\ AssessedInit /\ TenantsInit
  /\ SessionInit /\ UserInit /\ WsInit /\ GraphInit
  /\ SdkInit /\ ScoredInit

BotsNext ==
  \/ part = "windows" /\ WindowsNext /\ UNCHANGED <<safetyVars, tenantVars>>
  \/ part = "safety" /\ Assess /\ UNCHANGED <<windowsVars, tenantVars>>
  \/ part = "tenants" /\ TenantNext /\ UNCHANGED <<windowsVars, safetyVars>>

SessionsNext ==
  \/ part = "sessions" /\ SessionNext /\ UNCHANGED <<userVars, wsVars, graphVars>>
  \/ part = "users" /\ UserNext /\ UNCHANGED <<sessionVars, wsVars, graphVars>>
  \/ part = "ws" /\ WsNext /\ UNCHANGED <<sessionVars, userVars, graphVars>>
  \/ part = "graph" /\ GraphNext /\ UNCHANGED <<sessionVars, userVars, wsVars>>

SdkPartsNext ==
  \/ part = "sdk" /\ SdkNext /\ UNCHANGED scoringVars
  \/ part = "scoring" /\ Evaluated /\ UNCHANGED sdkVars

ServicesNext ==
  /\ UNCHANGED part
  /\ \/ part = "engine" /\ Next /\ UNCHANGED <<Bots, Sessions, Sdk>>
     \/ BotsNext /\ UNCHANGED <<Engine, Sessions, Sdk>>
     \/ SessionsNext /\ UNCHANGED <<Engine, Bots, Sdk>>
     \/ SdkPartsNext /\ UNCHANGED <<Engine, Bots, Sessions>>

ServicesSpec ==
  /\ ServicesInit
  /\ [][ServicesNext]_<<Engine, Bots, Sessions, Sdk, part>>
  /\ UserFairness

\* Every variable of every service keeps its type.
ServicesTypeOK ==
  /\ TypeOK
  /\ WindowsTypeOK /\ SafetyTypeOK /\ TenantTypeOK
  /\ SessionTypeOK /\ UserTypeOK /\ WsTypeOK /\ GraphTypeOK
  /\ SdkTypeOK /\ ScoringTypeOK

\* What a worker reads of a session or of a user from a copy is not older than what
\* was stored before, but where the code is overtaken, and the copy of a user who is
\* deactivated does not outlive him for ever.
CopiesHideNothing == []FieldsKept /\ []CopyIsOfTheRow /\ DeactivatedIsRefused
=============================================================================
