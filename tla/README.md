# A verification project for TruePresence and ESE

The repository holds two products.  **TruePresence** (`truepresence/`) is a
FastAPI service that decides whether a session is driven by a present human,
guards Telegram groups, and keeps the evidence its browser SDK sends.  **ESE**
(`ese/`) is a command-line pipeline, with a local dashboard, that runs an
ensemble of model roles over a software change.  The modules here model the
parts whose correctness depends on interleavings, partial failures, restarts,
retries and long sequences of calls; TLC checks them on small instances and
TLAPS proves their main invariants for every value of the constants.

    tlc  -config EsePipeline.cfg MCEsePipeline.tla     one of the runs below
    tlapm EsePipeline_proofs.tla                       the proofs of a component

## 1. Inventory

| component | state it keeps | operations | what is hard |
|---|---|---|---|
| ESE pipeline runner, `ese/pipeline.py` | report files, `pipeline_state.json`, `ese_summary.md`, config snapshot; per run: pointer, batch, outputs, execution list | `run_pipeline`, its thread-pool batches, severity gate, resume, persist | workers finishing in any order, one failing, resuming from files of earlier runs, death between two writes, two runs in one directory |
| Dashboard, `ese/dashboard.py` | job table under a lock, one JSON file per job, run directories | start, runner thread, poll, load at start, rerun | restart with jobs under way, torn files, directories allocated by looking |
| Model adapters, `ese/adapters.py`, `local_runtime.py`, `provider_runtime.py` | attempt counter | request with retries, Retry-After, starting a local model server | which answers are retried, how long, for how many attempts |
| Evidence state, feedback, publishing: `ese/evidence_state.py`, `feedback.py`, `integrations.py` | JSON files | read, change, write | no lock, kills within a write, runs that replace the record |
| ESE configuration, doctor, wizard, tasks: `ese/config.py`, `doctor.py`, `framework_defaults.py`, `templates.py`, `init_wizard.py` | the configuration file, the snapshot of a run | generate, edit, validate, check, start | rules that interact; entry points that check differently |
| ESE extensions: packs, policy checks, exporters, views, integrations, bundles | none (discovered for each request) | discover, look up, use | what is broken, and two definitions of one key |
| ESE reports, views, exporters | none (read the files) | aggregation, comparison of runs | files of different runs side by side |
| ESE authoring tools, CLI | none | scaffolding, prompts, argument parsing | straight-line I/O |
| Telegram webhook guard, `adapters/telegram_bot.py`, `adapters/telegram.py`, `surfaces/telegram/` | tenant adapters, session rows, memory fallback, enforcement mode | `process_update`, `build_response`, safety and community recommendations, mode, `_execute_action` | updates delivered twice and concurrently, Bot API timeouts and retries, database outages, a mode change between |
| Telegram windows and detectors | deques per member and chat | count, prune, score | timestamps that are not in order |
| Telegram manual reviews, `adapters/telegram_bot.py` | rows of `telegram_pending_reviews`, memory copies per service instance | open, list, read, resolve, execute | two admins, two instances, outage or restart between two reads |
| Decision engine, `decision/`, `core/orchestrator_v3.py`, `core/roles/`, `ensemble/` | packets and artifacts in memory; the identity graph | `evaluate`: route, build evidence, vote, synthesize | rules that overwrite one another; a graph that moves between two reads |
| Identity graph, `memory/identity_graph.py` | features, edges | add a session, cluster risk | threads; edges that never go away |
| Safety policy, `safety/` | none | classify media metadata, recommend an action | precedence |
| REST and websocket API, `api/`, `challenges/validator.py` | active challenge, cooldown, mode, last 500 events per session | events, challenges, answers | several sockets and workers per session |
| Session store and user cache, `runtime/distributed.py`, `api/auth.py` | Redis, memory fallback | store, load, update a field, invalidate | lost updates, a store that comes and goes |
| SDK evidence, `evidence/`, `sdk/` | a table, or a list in each worker | evaluate, store, answer, list, get | two tenants, several workers, three steps |
| SDK scoring, `scoring/`, `detectors/` | none | detect, weigh, recommend | thresholds on two numbers at once |
| Adaptive weighting, red-team tools, OneDrive cleaner, UI, deployment | — | — | outside the served paths |

How they interact.  A webhook or a REST call reaches the decision engine, which
asks the identity graph and the roles; the Telegram guard turns the decision
into an action on the Bot API, and some actions into a review; admins act on
reviews through endpoints that use the module-level service instance, while a
tenant's token webhook may run on an instance of its own.  All Telegram code
runs on one event loop and interleaves at its awaits; REST routes run on
threads.  On the ESE side the CLI and the dashboard's job threads call
`run_pipeline`, which calls the adapters from a thread pool and meets earlier
and concurrent runs only through the files of the artifacts directory.

What makes each component correct is stated as the properties of section 3;
the hazards behind them, with their lines, are in `PROJECT.json`.

## 2. Plan

| order | module | what it is | state |
|---|---|---|---|
| 1 | `EsePipeline`, `RunLedger` | the runner; the abstract record of a directory it implements | done, proved |
| 2 | `ReviewQueue` | manual reviews | done, proved |
| 3 | `DecisionEngine` | one evaluation and its interleavings | done, proved |
| 4 | `TelegramGuard` | a webhook delivery | done, proved |
| 5 | `DashboardJobs` | the dashboard's job store: table, files, lock, threads, restarts | done, proved |
| 6 | `AdapterCalls`, `OneCall` | a batch's calls of its model; what one call promises, which it implements | done, proved |
| 7 | `RunEvidence` | decisions, publishing and feedback about runs that are replaced meanwhile | done, proved |
| 8 | `Extensions`, `EseConfig` | what is installed; how a configuration becomes a run | done, proved |
| 9 | `SessionStore`, `UserCache`, `WsSession`, `IdentityGraph` | what the workers of the service share | done, proved |
| 10 | `TenantUpdates`, `TelegramWindows`, `SafetyPolicy` | the bot beside its guard | done, proved |
| 11 | `SdkEvidence`, `SdkScoring` | the browser SDK's evidence | done, proved |
| 12 | `RunLedger`, one invocation at a time | the refinement and the invariant over all runs that ended | done, proved |
| 13 | `SdkScoring` | `ScoresHold` for any packets | proved |
| 14 | `MCEseServices`, `MCPresenceServices` | the composed specifications keep what each service keeps | proved |

The small modules of steps 5 to 11 and `DecisionEngine` do not share state with
one another.  Two MC modules run them side by side, each behaviour choosing its
component in the initial state (`part`), so that their states add up instead of
multiplying: `MCEseServices` and `MCPresenceServices`.  Every other service then
stays as it begins.  Their proofs are grouped likewise, each service with its own
specification: `EseServices_proofs`, `TelegramServices_proofs` and
`SessionServices_proofs`.  `MCEseServices_proofs` and `MCPresenceServices_proofs`
prove the one component that is left in each (`DashboardJobs`, `DecisionEngine`) and
carry all of it over to the specification the run checks.

## 3. What is modelled and checked

### EsePipeline (`ese/pipeline.py`)

State: `disk`, `ledger`, `summary`, `snapshot` are the four kinds of files;
`ptr`, `todo`, `results`, `failed`, `outputs`, `execution` are the locals of the
loop; `start`, `parent`, `gate` its parameters; `outcome` how it ended.  Roles
are their positions in the role order.  `Begin` is the code up to resume,
`StartFresh`, `StartSeeded` and `RefuseResume` are `_load_resume_state`,
`RoleDone` and `RoleFailed` a worker of the pool, `JoinFailed`, `JoinGated` and
`JoinPassed` the end of a batch, `WriteSummary` and `WriteState` the two writes
of `_write_summary_and_state`, `Kill` a process that dies anywhere in its loop,
perhaps inside one of those two writes.  A report is abstracted to its author,
whether it holds a HIGH or CRITICAL finding, and the upstream reports in its
prompt.  `_write` opens a file, which empties it, and then writes: `KillInReport`
is a process that dies between the two in some of its workers, `empty` marks what
that leaves, and `blank` the reports a run read as empty when it resumed, which
its prompts leave out.

* `EsePipeline` (pass): three invocations, one after the other, four roles of
  the built-in order (two serial, then a batch of two), any start role, gate on
  or off, any failures, kills anywhere.  Three are needed for a stale report:
  the first writes it, the second fails or is refused beside it, the third
  reads it; and for an empty one: the second dies writing it, the third resumes
  from it.  Two workers are enough for every relative order of two results.
  `Blocking` bounds which roles may report a HIGH finding: one serial role and
  one of the batch.
  It checks completeness of a completed state, resumability of a failed one,
  role order, the gate over whole batches, prompts, that listed reports were
  made from one another, that summary and state agree, and that the records
  implement `RunLedger` (`LedgerSpec`, a refinement: every record descends from
  the record it was started from).
* `EsePipelineOverlap` (pass): two overlapping invocations and a custom order
  that opens with a batch; `OverlapHolds` joins the five safety properties that
  still hold then with `RunsEnd`.  A run may then resume while another one has a
  report open: it reads it as empty, and of `PromptsAreComplete` only the part
  remains that nothing else is missing from a prompt.
  Fairness is weak fairness of each invocation's own steps: a worker's call
  returns or times out (`runtime.timeout_seconds`), and the rest is sequential
  code.  Nothing obliges anyone to begin a run.
* `EsePipelineGate` (violation): a batch with a failed role is not gated, and
  the rerun seeds its reports: a completed `fail_on_high` run may rest on a HIGH
  finding that no gate has seen.
* `EsePipelineRelative` (violation): with a relative artifacts directory (the
  default) no run can be rerun from a later role, because the saved path is
  joined to the directory a second time.

### ReviewQueue (`adapters/telegram_bot.py`)

State: `rows` are the reviews with a row in Postgres, `mem` the copies of each
service instance, `up` whether the database answers; an execute request goes
through `CheckReview` (the route), `ReadForExecution` (the second, differently
written lookup) and up to `Retries + 1` calls of `PostTelegramApi`, each of which
may have been carried out although it timed out.  `issued`, `decided` and
`effects` are history variables.

A row has no content in the model, because no read of one returns any.  The
column is JSONB and the pool hands out `RealDictCursor`s (`db.py:149`, `156`), so a
row's document arrives as a dict, and `json.loads(row["data"])` raises on it: a row
that is there makes every lookup fall back to the memory of the instance, and
`resolve_review` raises before its `UPDATE`.  (The repository's tests give the
service rows of text, which the deployed column never does.)

* `ReviewQueue` (pass): two reviews, two requests, two decisions, two instances,
  one retry, outages at any time, one restart.  The list and the page of a review
  fall back each on its own and agree, but for a review opened while the
  database was away; Telegram carries out only what some admin decided, never
  `allow`; every request ends.  Fairness: of the steps of a request under way,
  whose calls have timeouts.
* `ReviewQueueStored` (violation): a stored review is not listed after a
  restart, or when it came through another instance.

### DecisionEngine (`decision/`, `core/`, `ensemble/`)

`Route` is `evaluate` up to the tier, `BuildEvidence` the second look at the
graph, `Vote` the roles with `add_session`, `Decide` the synthesizer;
`OtherSessions` and `Restart` move the graph in between, abstracted to the band
of risk the synthesizer tells apart.  Each rule of the synthesizer is an
operator on the state so far, in the order of the code.  Probabilities are
percents, confidences tenths of a percent: the averages over four and five
reports are then integers, compared with integer thresholds.

* In the run `PresenceServices` (pass): one evaluation with each of the 32 sets of five facts
  and role evidence on both sides of every threshold.  `MoreFactsNeverLenient`
  compares the decision with the one for each larger set of facts.  It has one
  exception, found by TLC and named in the property: in a high-value flow with
  a probability of at most 25 % and roles less than 75 % sure, a constant
  latency turns BLOCK into CHALLENGE, because challenging it first keeps the
  high-value rule from raising the confidence that BLOCK asks for.
* `DecisionEngineCluster` (violation): the second reading of the graph replaces
  `high` by a number, and the rule for risky clusters never fires.

### TelegramGuard (`adapters/telegram_bot.py`, `adapters/telegram.py`)

`Decide` is one delivery to its first await: session row, engine, response,
safety, community, mode.  `ResolveToken`, `PostTelegramApi` and `Notified` are
the awaits after it, with the session write and the review of `Conclude` after
the last.  Deliveries of one update may overlap.  What the detectors made of
the update is its `trait`; the engine may answer anything the synthesizer can.
`build_response` is modelled as `enforce` calls it, without a user id and with
reason codes that name no detector: its ban cooldown and its branches on threat
categories are then not in play (the first is V1-P2-001 of
`docs/TRUEPRESENCE_V1_ISSUE_REGISTER.md`).

* `TelegramGuard` (pass): two deliveries of one or two updates of four kinds,
  all four modes, one retry, one restart that may change the mode.  In observe
  mode nothing is carried out and only safety escalations open a review; bans
  and kicks happen in enforce mode only, also when the mode changes during a
  retry; a safety escalation leads to a review and nothing else; a delivery
  answered with an error has had no effect yet; every delivery is answered
  unless the process goes down.  Fairness: of the steps after an await, whose
  calls have timeouts.  Two deliveries are what an overlap needs; more of them
  only repeat it, since deliveries share nothing but the session row.
* `TelegramGuardPolicy` (violation): what a policy detector matched never
  reaches `build_response`, so the message is allowed in enforce mode.

### DashboardJobs (`ese/dashboard.py`)

`table` is `_jobs`, `file` the job's JSON file, `lock` the job that is being
persisted while `_lock` is held.  `Report` is a change of status with the start
of its write (the file is cut), `Persisted` the end of the write and the release
of the lock; `Start`, `MarkRunning` and `End` are the three places that report.
A write may fail at either point, which ends the request or the thread and puts
the job into the history variable `spoiled`.  `Restart` kills the process
anywhere, also within a write, and loads what is on disk.

* In the run `EseServices` (pass): two jobs, two restarts, writes that fail or not.  A
  result a client was told of is on disk and stays what later dashboards say; a
  client polling across restarts never sees a job go backwards, and is told 404
  only of a job whose file was cut before it was seen to have ended; every request
  and thread ends.  Fairness: of the threads' steps, whose runs end (`RunsEnd`).
  The lock is not fair, but a finite number of jobs take it a finite number of
  times.  A job under way at a restart keeps its status for ever without a
  thread; nothing in the repository promises otherwise, and it is a hazard.

* `DashboardJobsSurvive` (violation): `CHANGELOG.md` says that job status survives
  restarts.  A dashboard that goes down within the in-place write of a file leaves a
  job that the next one has never heard of, although a client was told its status.

### AdapterCalls and OneCall (`ese/adapters.py`, `local_runtime.py`)

The roles of a batch are threads (`Caller`) that share a configuration.
`ResolveAdapter` picks the adapter, `Begin` and `CallCustom` start a call, `Step`
is the next thing its thread does: probe, start and wait for `ollama serve`, list
its models, send, sleep.  `ready` is the cache in the configuration, `server` the
Ollama server, which comes and goes.  `OneCall` says what the pipeline is
promised: at most `max_retries` further tries, each after a passing failure, and
one verdict.  `CallsKeepPromise` is the refinement (`Promise!OneCallSpec`), that
no request is sent before the models of all roles were seen, and that a call
that began ends (each wait has a timeout, so its steps are fair).

### RunEvidence (`ese/evidence_state.py`, `feedback.py`, `integrations.py`, `reports.py`)

`record`, `findings` and `plan` are the files of an artifacts directory as far as
a report reads them; a run replaces them in three writes, an operator's command
loads, works and saves, and a kill may cut the file it has open.  `overlapped`
(history) names the files two had in hand at once: there the code promises
nothing, and the properties except them.  `EvidenceHolds`: a decision that was
acknowledged stays in the record of its run; a history is about the run it is
kept with and each entry names the state before it; `released` entries of
`ese publish` were published; a run is called ready only when it completed and
nothing blocks it, in report and plan alike; feedback that was recorded stays.

### Extensions (the entry-point groups of `ese/`)

One request meets up to two installed definitions of a group, each fine, not
importable, refused, failing in use, or claiming a key that is taken.
`InstalledIsHonoured`: of two definitions of a key the first stands, no entry
point is lost unreported, and a configuration passes its policy checks only if
each installed check could be loaded, ran and did not object.

### EseConfig (`ese/config.py`, `doctor.py`, `templates.py`, `init_wizard.py`, ...)

A configuration is its provider, model, the models of its roles, constraints and
adapter.  `Wizard`, `Task` and `DashboardTask` generate one, `EditFile` changes
one thing by hand, `StartRun` starts from the file or from a run's snapshot.
`ConfigsHold`: a run goes to the adapter of its roles' provider; a run that the
doctor let through is of independent roles and its snapshot is let through
again; what simple setup or a task generates for a provider with two further
models passes the doctor.  Two things the code does that a reader of the
documents would not expect are in the model and not excluded by it: the
dashboard's task and pull request jobs run without the doctor
(`docs/CONFIG_CONTRACT.md:118` says "all execution entry points"), and for a
provider with only two common models simple setup writes a file the doctor
refuses.  Left out are a constraint's `require_roles` (`doctor.py:156-164`), which no
template writes, and the name of the variable that holds a provider's key
(`config.py:466`).

* `EseServices` (pass): the five modules above from `DashboardJobs` on, with two
  threads, callers or operators each, two retries, one outage of the local
  server, two runs of one directory, two installed definitions, one edit and two
  generated configurations or runs.  One more of any of them repeats what two
  already do to each other; a third retry or a third definition takes the same
  branches as the second.  Fairness: of the dashboard's threads and of the steps
  of a call.

### TelegramWindows (`adapters/telegram.py`, `detectors/telegram_community.py`)

`ParseUpdate` is `parse_update` with the windows it appends to and prunes, and
the detectors that read them; `NewAdapter` a change of configuration, which
loses them.  The history of updates is the reference.  `WindowsAreTrue`: counts
are exact when updates come in the order of their dates and never too low for
the newest; peers are distinct others who posted; a latency is of the first post
after the last join that came.  A redelivered update counts again: the code
keeps no update ids.

### SafetyPolicy (`safety/`)

`Escalation` is policy, confidence, score, label and action of one message;
`Assess` the next message, with one thing more known.  `EscalationFits`: whoever
was to be restricted or escalated is not let off, and label, action and
confidence fit.  Only the lower rungs are reversed in the code: a provider's risk
of 75 to 79 turns a quarantine into an admin review.

### TenantUpdates (`adapters/telegram_bot.py`, `utils/encryption.py`)

Two updates in hand, by tenant or by token, cross a stored token, a restart with
another key and an outage.  `TenantsAreApart`: an update that came by a bot's
token is acted on as that bot or not at all, unless the tables changed meanwhile;
a ciphertext is never sent as a token, unless plain tokens are allowed; and the
session row has the last update of its user, or one that waited for the Bot API.
The environment has one token for every tenant: `TELEGRAM_BOT_TOKEN_<TENANT>`, which
`TokenFor` of a tenant looks up first, is folded into it.

### SessionStore and UserCache (`runtime/distributed.py`, `api/auth.py`)

A session is one JSON document that each writer loads and stores again
(`UpdateLoads`, `UpdateStores`); `raced` and `faults` (history) say whether two
updates overlapped and whether Redis was away.  A user is a row and a copy that
lives for an hour.  `CopiesHideNothing`: without either the document has the last
value of every field; the copy is of the row as it is once a change is done,
except where a request had read the row before; and a user who is deactivated is
in the end refused.  Fairness: time passes, a request under way ends, and an
update that has changed the row goes on to the copy.

The level of `/session/create` never reaches an evaluation: `session_meta` holds a
datetime that `json.dumps` refuses, `store_session` answers False, and the route ignores
that (`server.py:271`).  This is proved (`NoLevelIsKept`) rather than run.

### WsSession (`api/ws_server.py`, `challenges/validator.py`)

Connections are coroutines of two workers that give way only where they send;
mode and last challenge are in Redis and in each worker, the open challenge in
the worker.  `ChallengesHold`: challenges of a worker are a cooldown apart, an
answer counts once and in time, and a new connection starts in the mode last set
anywhere, while Redis stays and for the day that it keeps a mode (`ModeLife`, `ex=86400`
in `ws_server.py:71`; the time of the last challenge it keeps for an hour, `LastLife`).
After that day a new connection has the mode its own worker remembers, or production.

### IdentityGraph (`memory/identity_graph.py`)

An addition is several steps another thread can see, and an iteration that meets
one raises (`GiveUp`).  `ClustersHold`: two sessions that are alike are connected
once both are in and neither was given up, and a cluster and its risk are the
same from each of its sessions.

### SdkEvidence and SdkScoring (`evidence/sdk_artifacts.py`, `sdk/privacy.py`, `scoring/`)

`ArtifactsHold`: an id that was answered is kept where the store is durable,
nothing the privacy guard knows as raw is kept, and a list shows a tenant the
newest of its own.

Each evaluation of `SdkScoring` scores a packet of its own; a feature of it may be
`Unseen`, as a field of the code's feature models may be None.  Every detector and
every support for a human keeps its own thresholds, severities and confidences.  Three
things are simpler than in the code: numbers are integers (likelihoods are parts of
10000, and products of them are rounded down; confidences and ratios are percents,
times milliseconds); the partition of signals that speak for a human is left out, since
no detector has that target; and so is the penalty of a contradiction, which needs more
support for a human than the .30 that `human_feature_support` is capped at.

`ScoresHold` compares one score with the next, of any other packet.  Who is asked for
less than another never has more against it: if every detector says at least as much of
one packet as of the other, and no more speaks for a human, the first is asked for at
least as much (`NeverLighter`).  The agentic likelihood moves only with what the agentic
detectors say and what speaks for a human.  One signal asks for no more than a soft
challenge.

* `PresenceServices` (pass): the nine modules above and `DecisionEngine`.  Two
  members and two chats with three updates over three seconds suffice for a late,
  a repeated and a pruned update; two updates in hand and one change to the
  tables for every crossing of one change with both readings; three connections
  at two workers and three messages for two challenges, of which one is answered,
  and a mode set elsewhere, which expires within the bound on the clock; three
  requests of two workers for two updates and a read in every order; three sessions
  under two evaluations for a cluster that is not a clique; two artifacts of two
  tenants for a list of one.  The packets that are scored have each detector silent
  and at each of its severities, with values on both sides of most thresholds, and
  any packet may come after any other.

A delivery, a run, a job or a request that ended stays ended, so the runs with such
state allow TLC's deadlock (`CHECK_DEADLOCK FALSE`) when all have ended.

Every property of a passing run has a mutant of the code, kept beside the
definition it replaces, that makes TLC find the property violated.

## 4. What is proved

Each theorem is about every value of the constants that the named `ASSUME`s of the
modules admit.  The pattern is the same throughout: an inductive invariant, one
lemma per action, one theorem per property.

* `EsePipeline_proofs`: for every role order, batch width, number of
  invocations, overlapping or not: `TypeOK`, `CompletedIsWhole`,
  `BlockersStopTheirRun`, `PromptsAreComplete`, `ExecutionInRoleOrder` and, for a
  directory named by an absolute path, `FirstFailedIsResumable` and
  `CompletedRunsResume` (which a relative path violates).  None is inductive
  alone: the state file is right because of what a run holds when it writes it
  (`LoopInv`: outputs are exactly the roles before the pointer, and the batch is
  split into unfinished, done and failed), and a completed run has no blocking
  report because of where each such report has left its run (`BlockerInv`).
  A prompt lacks only what its run read as empty, and `BlankInv` says when that is
  nothing: one run at a time, none of which died in the write of a report.

  For one invocation at a time (`~Overlap`), and kills anywhere:
  `ReportsFitTogether`, `SummaryAgrees`, and the refinement `Spec => LedgerSpec`,
  each step of the runner being a step of `RunLedger` or a stutter.  `IInv` says
  nothing of how the files of different runs agree, so these rest on `SoloInv`:
  only one run is active (`Alone`); what it was seeded with is what the recorded
  parent left (`LineageAt`); what it holds in memory is on disk and was made from
  what it holds (`MemoryAt`); between its two writes the summary is ahead of the
  state by that one run (`SummaryInv`).  Overlapping invocations do violate the
  three, and nothing in the code excludes that.
* `ReviewQueue_proofs`: `TypeOK` and `EffectsWereDecided`, by the invariant that
  every stored copy and every request under way carries a decision that was
  taken on that very review.  `ListAgreesWithDetail`, by `RowsInv`: the reviews
  with a row are those opened while the database answered, and a memory holds only
  reviews that were opened.
* `MCPresenceServices_proofs`
  - `DecisionEngine`: `TypeOK`, `StepUpHolds`, `MoreFactsNeverLenient` for
    every evidence the roles may report, by the invariant that a decision is
    the synthesizer's of the packet and tier it was made with.
  - The composition: `ServicesAreApart` (a behaviour of `ServicesSpec` is one of
    every service's specification, since a step is one service's and leaves the
    variables of the others alone), hence `ServicesTypeOK` and, as `ServicesHold`, the
    safety properties of the run `PresenceServices`.
* `TelegramGuard_proofs`: `TypeOK`, `ObserveHoldsBack`, `PunishedInEnforceOnly`,
  `SafetyIsReviewed`, `FailedHadNoEffect`, by the invariant that an action was
  permitted in the mode it was decided in and that effects and reviews follow
  from actions.
* `MCEseServices_proofs`
  - `DashboardJobs`: `TypeOK`, `EndedJobsAreKept` and the action property
    `NeverBackwards`, by the invariant that a job's table entry, file and thread
    agree whenever the lock is not held for it.
  - The composition, as above: `ServicesAreApart`, `ServicesTypeOK` and `ServicesHold`
    for the run `EseServices`.
* `EseServices_proofs`
  - `AdapterCalls`: the refinement `CallsSpec => CallIsOneCall` and
    `SentOnlyWhenListed`, for any number of callers and retries.  The invariant
    says what is known of a call at each place: it has sent nothing while it still
    checks, it sends at most `max_retries + 1` requests, and whatever is local and
    goes on, or is cached as ready, comes after a list of all models.
  - `RunEvidence`: `EvidenceHolds`.  `EvidenceInv` relates what each operator has
    loaded to the file it came from, as long as nobody else had that file in hand
    (`HeldInv`), with the numbering of runs and the plan; the properties alone say
    nothing of a command between its read and its write.
  - `Extensions`: `InstalledIsHonoured` for groups of any length; the invariant
    ties what was found and reported to the entry points examined so far.
  - `EseConfig`: `ConfigsHold`, for any providers, models and teams.  That simple
    setup passes the doctor is about the loop that makes models distinct, whose
    four assignments are unrolled (`Assign`, `Diverse`): each gives one role the
    first model that none of those it must differ from has, which makes every
    required pair independent when two further models exist.
* `TelegramServices_proofs`
  - `TenantUpdates`: `TenantsAreApart`, for any tokens, keys, updates and
    outages, by the invariant that the row of an update's tenant still has the token
    the update came by, or the update is marked as overtaken, until its bot is
    picked; and that an update that waits is one that will be recorded as acted on.
  - `TelegramWindows`: `WindowsAreTrue`, for any members, chats, spans, thresholds
    and dates.  A count over a pruned queue says nothing of the updates it lost, so
    the invariant gives for each window an order-preserving map from its entries to
    the updates it is about (`WindowOf`); whatever it misses lies more than a span
    before some update.  Counts then follow by comparing cardinalities.
    `WindowsTypeOK` rests on a smaller invariant of its own (`WindowsTyped`).
  - `SafetyPolicy`: `EscalationFits`, for any values of the features and of the
    provider's risk: reasons, the confidence of each, and so the score can only grow
    with one thing more against a sender.  TLC has values on both sides of each
    threshold, the theorem all others.  `SafetyTypeOK` follows from the same invariant.
* `SessionServices_proofs`
  - `SessionStore` and `UserCache`: `FieldsKept` and `CopyIsOfTheRow`, the two
    safety parts of `CopiesHideNothing`, for any workers and requests; and both types.
    `NoLevelIsKept` says what becomes of a session's assurance level: no
    behaviour ever stores a `session_meta`, and every evaluation takes the level A1.
  - `WsSession`: `ChallengesHold`, for any connections, workers and cooldown.  The
    invariant says that one coroutine of a worker issues at a time, that the
    challenges issued are in the order of their times and the open one among them
    is not yet answered, and that mode and copies agree while Redis stays and has not let
    the mode expire (`WsInv`; `WsTypeOK` needs less); for any lives of the two keys.
  - `IdentityGraph`: `ClustersHold`, for any sessions, evaluators and likeness.  A
    cluster is the least set that contains its session and is closed under
    connections; with connections that go both ways that is an equivalence, which
    needs no induction over paths.  Connections go both ways but for the one that
    an evaluator is between the two halves of, which is the invariant.  `GraphTypeOK`
    adds its bounds.
  - `SdkEvidence`: `ArtifactsHold`, for any workers, tenants and limit of a list, by
    the invariant that artifacts are numbered apart and that what a request has
    stored, and so may answer, is in the database; `SdkTypeOK` with it.
  - `SdkScoring`: `ScoresHold`, for any packets.  Each detector has a voice: the
    strength its signal has, 0 when it is silent.  A packet that has more against it is
    one whose every voice is at least as strong (`MoreAgainst`); a risk is a product of
    complements over the detectors in an order that
    is fixed, and so grows with each voice although every step is rounded down; counts
    of categories and the support for a human follow, and the ladder of actions grows
    with all of them.  The products are folds over a function: that their
    recursion has a solution, and that two of them compare as their arguments do, is
    shown by the least size of a set at which it would fail (`LeftExists`,
    `LeftInduction`).
    A single signal is one voice, whose strength is bounded by its detector.

Assumptions are the named `ASSUME`s of the modules.  Most give the constants
their types (`RoleAssumption`, `BoundAssumption`, `CallAssumption`, `SdkAssumption`,
`CacheAssumption`, `KnownAssumption`, `SessionAssumption`, `AddsAssumption`: latencies and counts are naturals, a risk and
a confidence are percents, as the pydantic fields enforce).  The others state what
the code's own constants are like: role kinds and settings are those the configuration
accepts; only messages have text and media; two members who post together do so within the
window that is kept (`WindowsAssumption`: 3 and 60 seconds in the code); the
cooldown of challenges is positive (`WsAssumption`); the features of a packet are naturals
or unobserved, and typing features that were observed include a count of pastes, since
the code takes None for none (`PacketAssumption`); the common models of a provider
are a list and a team is finite (`ConfigAssumption`); names that mean "nobody" or
"nowhere" are nobody's (`EvidenceAssumption`, `RunAssumption`).

Only model-checked:

* Liveness (`RunsEnd`, `RequestsEnd`, `DeliveriesEnd`, `JobsEnd`, `CallsEnd`,
  `DeactivatedIsRefused`) rests on fairness and ENABLED, which are beyond the prover.
  `OverlapHolds`, `CopiesHideNothing` and `CallsKeepPromise` join such a part with
  safety parts that are proved.
* That a violation run violates its property is what TLC's counterexample shows.

## 5. What is not modelled

Not modelled: rendering of reports, views and pages; prompts; scaffolding of
packs, starters and bundles; argument parsing; reading of diffs and
repositories (layout and straight-line I/O); the client SDKs, which call the
routes above; the user interface, deployment files, the schema's migrations,
offline experiments and the OneDrive cleaner, which share no state with the
components above.  Within the modelled components: the text of prompts and
reports, payloads of requests, how raw signals become role evidence, and the
distance of feature vectors are inputs.  `PROJECT.json` says of each component
what is left out.

## 6. What the code does that its documents do not say

Met while modelling, and kept in the models as the code has it:

* `cli.py` documents `--mark-state` as persisting before publishing; the state is
  marked after the publication succeeded.
* Exporters, integrations and bundles whose key has capitals are listed and can
  never be resolved.
* A torn `.ese_feedback.json` is taken as empty, and erased by the next entry.
* An artifact view whose `available` raises breaks every report; a policy check
  whose key an earlier one has is not run.
* A report of a run cannot be made while the newest sibling's state is written.
* `--write-config` saves a configuration the doctor then refuses; roles that are
  only named in a constraint count as roles of the ensemble; a cancelled dialog
  about roles, models or the adapter ends the wizard with an exception.
* An SDK session with nothing against it is observed, never allowed.
* An artifact with a string value passes the privacy guard and is then rejected
  by the minimisation, which answers 500.
* The id of a challenge that is sent is not the validator's; connections that are
  open keep their old mode.
* Edges and sessions of the identity graph are never removed.
* `TELEGRAM_BOT_TOKEN_<TENANT>` is never matched on the token route; a group that
  is registered while the database is away is in memory only.
* The dashboard's task and pull request jobs run without the doctor, which
  `docs/CONFIG_CONTRACT.md:118` has run "by all execution entry points".
* A rerun beside a report that an earlier run died writing leaves that report out of its
  prompts without a word: `_load_resume_state` asks only that the file is there
  (`pipeline.py:1093-1099`), and `_role_upstream_sections` drops an empty text.
* While the database answers, no decision on a review that has a row reaches it, and to
  execute such a review is answered 500; a restart loses what was decided in memory.  A
  review that was opened while the database was away is listed and its page is 404.
* The mode of a websocket session is lost a day after it was set.
* `api/auth.py` has lost the head of `require_super_admin` (before line 219), which its
  routes name in their `Depends`: importing the module raises NameError, so that the
  auth router is not loaded and whatever imports it, as `ws_server.py` does, is not
  either.  `UserCache` and `WsSession` model the code as if it were there.
* `/session/create` says that it stores the session and never does (`server.py:266-271`):
  every evaluation takes the assurance level A1, whatever was asked for.
