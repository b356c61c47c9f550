---------------------------- MODULE MCEseServices ----------------------------
(* The services around the pipeline of src/ese, for TLC: a behaviour is one  *)
(* of theirs, and the others stay as they begin.                             *)
EXTENDS DashboardJobs, AdapterCalls, RunEvidence, Extensions, EseConfig, TLC

CONSTANTS j1, j2, c1, c2, a, b

VARIABLE part  \* whose behaviour it is

MCJob == {j1, j2}
MCCaller == {c1, c2}
MCOperator == {a, b}

\* A provider with alternatives enough for every role, one with too few, and one
\* whose models are not known.
MCCommon ==
  "openai" :> <<"m1", "m2", "m3">> @@ "local" :> <<"l1", "l2">> @@ "custom_api" :> <<>>

\* The five roles that check one another.
MCTeam ==
  {{"architect", "implementer", "adversarial_reviewer", "security_auditor", "release_manager"}}

Jobs == <<vars>>
Calls == <<callVars>>
Evidences == <<evidenceVars>>
Groups == <<extensionVars>>
Configs == <<configVars>>

ServicesInit ==
  /\ part \in {"jobs", "calls", "evidence", "extensions", "config"}
  /\ Init /\ EvidenceInit
  /\ CallsInit /\ (part # "calls" => server = "up")
  /\ ExtensionsInit
  /\ ConfigInit /\ (part # "config" => strict)

ServicesNext ==
  /\ UNCHANGED part
  /\ \/ part = "jobs" /\ Next /\ UNCHANGED <<Calls, Evidences, Groups, Configs>>
     \/ part = "calls" /\ CallsNext /\ UNCHANGED <<Jobs, Evidences, Groups, Configs>>
     \/ part = "evidence" /\ EvidenceNext /\ UNCHANGED <<Jobs, Calls, Groups, Configs>>
     \/ part = "extensions" /\ ExtensionsNext /\ UNCHANGED <<Jobs, Calls, Evidences, Configs>>
     \/ part = "config" /\ ConfigNext /\ UNCHANGED <<Jobs, Calls, Evidences, Groups>>

ServicesSpec ==
  /\ ServicesInit
  /\ [][ServicesNext]_<<Jobs, Calls, Evidences, Groups, Configs, part>>
  /\ \A j \in Job : WF_vars(Work(j))
  /\ CallsFairness

\* Every variable of every service keeps its type.
ServicesTypeOK ==
  TypeOK /\ CallsTypeOK /\ EvidenceTypeOK /\ ExtensionsTypeOK /\ ConfigTypeOK
=============================================================================
