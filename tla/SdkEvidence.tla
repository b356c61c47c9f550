----------------------------- MODULE SdkEvidence -----------------------------
(***************************************************************************)
(* Evidence of browser interactions: evaluate_interaction and the evidence *)
(* routes of api/server.py, the privacy guard of sdk/privacy.py and the    *)
(* artifact stores of evidence/sdk_artifacts.py.  A worker evaluates a     *)
(* request, stores its artifact and answers; users read what is stored.    *)
(* The scores are SdkScoring's subject.                                    *)
(***************************************************************************)
EXTENDS Integers, Sequences, FiniteSets

CONSTANTS
  ApiWorker,
  Tenant,       \* the default among them
  ListLimit,    \* the limit of a list: 1 to 50
  MaxArtifacts  \* bound on evaluated requests

ASSUME SdkAssumption == ListLimit \in Nat /\ MaxArtifacts \in Nat

VARIABLES
  backend,   \* the store of default_sdk_evidence_store, or why there is none
  artifactTable,     \* sdk_evidence_artifacts
  inMemory,     \* the artifacts in each worker's memory
  dbUp,
  pending,   \* each worker's request: the artifact built, then stored, then answered
  built,     \* artifacts built, which numbers them and dates them
  answered,  \* history: artifacts whose id was answered
  shown      \* history: the last list or artifact a user got, and for whom

sdkVars == <<backend, artifactTable, inMemory, dbUp, pending, built, answered, shown>>

\* The one odd thing a payload may have in it, and where: a key, or a value with a
\* marker of raw content.
PayloadPlace ==
  {"request", "packet", "section", "risk provider", "metadata", "typing summary", "nested"}
PayloadThing == {"nothing", "unknown", "answer", "password", "marker"}

NoArtifact == [id |-> 0, tenant |-> "none", has |-> "nothing"]
Artifact == [id : 1..MaxArtifacts, tenant : Tenant, has : PayloadThing]
NoRequest == [at |-> "idle", artifact |-> NoArtifact]
NothingShown == [tenant |-> "all", artifacts |-> {}, missing |-> {}]

SdkInit ==
  /\ backend = "none" /\ artifactTable = {} /\ dbUp = TRUE
  /\ inMemory = [w \in ApiWorker |-> {}]
  /\ pending = [w \in ApiWorker |-> NoRequest]
  /\ built = 0 /\ answered = {}
  /\ shown = NothingShown

\* default_sdk_evidence_store: by the mode that is set, or by what else is; in
\* production without a database the service does not start.
StoreFor(mode, configured, environment) ==
  IF mode \in {"memory", "postgres"} THEN mode
  ELSE IF configured /\ environment \notin {"development", "test"} THEN "postgres"
  ELSE IF environment = "production" THEN "refused" ELSE "memory"

StartService ==
  /\ backend = "none"
  /\ \E mode \in {"memory", "postgres", "auto"}, configured \in BOOLEAN,
        environment \in {"production", "development", "test", "unset"} :
       backend' = StoreFor(mode, configured, environment)
  /\ UNCHANGED <<artifactTable, inMemory, dbUp, pending, built, answered, shown>>

\* ensure_privacy_safe_payload: an unknown key is refused where the keys are known,
\* a name of raw content (or a descriptor of a sensitive input) everywhere.
Rejected(place, thing) ==
  \/ thing \in {"answer", "password"}
  \/ thing = "unknown" /\ place # "nested"

\* evaluate_interaction, up to build_sdk_evidence_artifact: a refused payload is
\* answered 422.  The packet's tenant goes before the request's.
EvaluateInteraction(w) ==
  /\ backend \in {"memory", "postgres"}
  /\ pending[w].at = "idle" /\ built < MaxArtifacts
  /\ \E place \in PayloadPlace, thing \in PayloadThing, tenant \in Tenant :
       /\ ~Rejected(place, thing)
       /\ pending' = [pending EXCEPT ![w] =
            [at |-> "built", artifact |-> [id |-> built + 1, tenant |-> tenant, has |-> thing]]]
  /\ built' = built + 1
  /\ UNCHANGED <<backend, artifactTable, inMemory, dbUp, answered, shown>>

\* ensure_sdk_artifact_minimized knows fewer names, but looks at strings too.
Minimized(a) == a.has \notin {"password", "marker"}

\* put: what is not minimal, or no database, is answered 500 and leaves nothing.
Put(w) ==
  LET a == pending[w].artifact IN
  /\ pending[w].at = "built"
  /\ IF Minimized(a) /\ (backend = "postgres" => dbUp)
     THEN /\ IF backend = "postgres" THEN artifactTable' = artifactTable \cup {a} /\ UNCHANGED inMemory
             ELSE inMemory' = [inMemory EXCEPT ![w] = @ \cup {a}] /\ UNCHANGED artifactTable
          /\ pending' = [pending EXCEPT ![w].at = "stored"]
     ELSE pending' = [pending EXCEPT ![w] = NoRequest] /\ UNCHANGED <<artifactTable, inMemory>>
  /\ UNCHANGED <<backend, dbUp, built, answered, shown>>

AnswerEvaluation(w) ==
  /\ pending[w].at = "stored"
  /\ answered' = answered \cup {pending[w].artifact}
  /\ pending' = [pending EXCEPT ![w] = NoRequest]
  /\ UNCHANGED <<backend, artifactTable, inMemory, dbUp, built, shown>>

Stored(w) == IF backend = "postgres" THEN artifactTable ELSE inMemory[w]

\* A dashboard user: an administrator, or somebody of a tenant, or of none.
DashboardUser == [admin : BOOLEAN, tenant : Tenant \cup {"none"}]
NoTenant == "all"

\* _authorized_listing_tenant; "none" stands for 403.
ListingTenant(user, asked) ==
  IF user.admin THEN asked
  ELSE IF asked \in {NoTenant, user.tenant} THEN user.tenant ELSE "none"

NewestOf(S, n) == {a \in S : Cardinality({b \in S : b.id > a.id}) < n}

\* Mutant: the newest of all are taken before the tenant is looked at.
RecentFirst(S, tenant) == {a \in NewestOf(S, ListLimit) : tenant \in {NoTenant, a.tenant}}

\* list_recent
Recent(S, tenant) == NewestOf({a \in S : tenant \in {NoTenant, a.tenant}}, ListLimit)

\* GET evidence/cards, GET evidence/{id}: what is not there or not his is 404.
ListCards(w) ==
  \E user \in DashboardUser, asked \in Tenant \cup {NoTenant} :
    LET tenant == ListingTenant(user, asked) IN
    /\ backend = "postgres" => dbUp
    /\ tenant # "none"
    /\ shown' = [tenant |-> IF user.admin THEN NoTenant ELSE user.tenant,
                 artifacts |-> Recent(Stored(w), tenant),
                 missing |-> {a \in Stored(w) : tenant \in {NoTenant, a.tenant}} \ Recent(Stored(w), tenant)]
    /\ UNCHANGED <<backend, artifactTable, inMemory, dbUp, pending, built, answered>>

CanAccess(user, a) == user.admin \/ (user.tenant # "none" /\ a.tenant = user.tenant)

GetArtifact(w) ==
  \E user \in DashboardUser, a \in Stored(w) :
    /\ backend = "postgres" => dbUp
    /\ CanAccess(user, a)
    /\ shown' = [tenant |-> IF user.admin THEN NoTenant ELSE user.tenant,
                 artifacts |-> {a}, missing |-> {}]
    /\ UNCHANGED <<backend, artifactTable, inMemory, dbUp, pending, built, answered>>

\* A worker goes down with its memory and its request, and is started again.
RestartWorker(w) ==
  /\ inMemory' = [inMemory EXCEPT ![w] = {}]
  /\ pending' = [pending EXCEPT ![w] = NoRequest]
  /\ UNCHANGED <<backend, artifactTable, dbUp, built, answered, shown>>

DatabaseMoves ==
  /\ dbUp' = ~dbUp
  /\ UNCHANGED <<backend, artifactTable, inMemory, pending, built, answered, shown>>

SdkNext ==
  \/ StartService
  \/ \E w \in ApiWorker : \/ EvaluateInteraction(w) \/ Put(w) \/ AnswerEvaluation(w)
                          \/ ListCards(w) \/ GetArtifact(w) \/ RestartWorker(w)
  \/ DatabaseMoves

SdkSpec == SdkInit /\ [][SdkNext]_sdkVars

(***************************************************************************)
(* Properties                                                              *)
(***************************************************************************)

\* The variables keep their types, and a durable store leaves nothing in a worker's memory.
SdkTypeOK ==
  /\ backend \in {"none", "memory", "postgres", "refused"} /\ dbUp \in BOOLEAN
  /\ artifactTable \subseteq Artifact /\ answered \subseteq Artifact
  /\ built \in 0..MaxArtifacts
  /\ \A w \in ApiWorker :
       /\ inMemory[w] \subseteq Artifact
       /\ backend # "memory" => inMemory[w] = {}
       /\ pending[w].at \in {"idle", "built", "stored"}
       /\ pending[w].artifact \in Artifact \cup {NoArtifact}

\* TRUEPRESENCE_EVIDENCE_ARTIFACTS.md: "That ID now maps to a retrievable SDK evidence
\* artifact", wherever the artifacts are durable: in any worker, after any restart.
AnsweredIsKept == backend = "postgres" => answered \subseteq artifactTable

\* "records derived evaluation evidence and scoring outputs, not raw user content":
\* of what the guard or the store knows as raw nothing is kept anywhere.
NothingRawIsKept ==
  \A a \in artifactTable \cup UNION {inMemory[w] : w \in ApiWorker} :
    a.has \notin {"answer", "password", "marker"}

\* A user of a tenant sees artifacts of that tenant only, and of those the newest.
OwnNewestAreShown ==
  /\ shown.tenant # NoTenant => \A a \in shown.artifacts : a.tenant = shown.tenant
  /\ \A a \in shown.missing : Cardinality({b \in shown.artifacts : b.id > a.id}) = ListLimit

\* What a caller of the evidence API is answered is kept, bare of content, and his own.
ArtifactsHold == AnsweredIsKept /\ NothingRawIsKept /\ OwnNewestAreShown
=============================================================================
