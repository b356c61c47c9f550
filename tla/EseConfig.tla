------------------------------ MODULE EseConfig ------------------------------
(***************************************************************************)
(* How a run's configuration is made, checked and started: config.py,      *)
(* doctor.py, templates.py, framework_defaults.py, provider_runtime.py,    *)
(* init_wizard.py and the entry points in cli.py and dashboard.py, all     *)
(* under src/ese.  The order of the roles, what they are told, the JSON    *)
(* contract and strict_config are left out; so are require_roles           *)
(* (doctor.py:156-164) and provider.api_key_env (config.py:466): a         *)
(* configuration has the roles it requires and names its key.              *)
(***************************************************************************)
EXTENDS Integers, FiniteSets, Sequences, Functions

CONSTANTS
  Common,    \* COMMON_MODELS_BY_PROVIDER: the known models of a provider, in order
  Team,      \* the sets of roles that templates, packs and users choose
  MaxEdits,  \* bound on edits by hand
  MaxRuns    \* bound on configurations generated and on runs started

ASSUME ConfigAssumption ==
  /\ \A p \in DOMAIN Common : Common[p] \in Seq(Range(Common[p]))
  /\ \A team \in Team : IsFiniteSet(team)
  /\ MaxEdits \in Nat /\ MaxRuns \in Nat

Provider == DOMAIN Common
Live == {"openai", "local", "custom_api"}  \* providers with an adapter of their own
Reference == "module:function"             \* an adapter of the user's
Own == "own"                               \* a model the user typed

Baseline ==
  {{"architect", "implementer"}, {"implementer", "adversarial_reviewer"},
   {"implementer", "security_auditor"}, {"adversarial_reviewer", "security_auditor"},
   {"implementer", "release_manager"}}

VARIABLES
  configFile,   \* the configuration file, and whether it is as simple setup made it
  run,    \* the configuration of the last run, its snapshot, and who started it
  strict, \* an installed policy check reports an error
  edits,
  made

configVars == <<configFile, run, strict, edits, made>>

NoFile == [by |-> "nobody"]
NoRun == [by |-> "nobody"]

ConfigInit ==
  /\ configFile = NoFile
  /\ run = NoRun
  /\ strict \in BOOLEAN
  /\ edits = 0
  /\ made = 0

(***************************************************************************)
(* validate_config and evaluate_doctor                                     *)
(***************************************************************************)
\* What a role that is only named in a pair resolves to: the provider's model.
Identity(c, r) ==
  IF r \in DOMAIN c.models THEN <<c.providers[r], c.models[r]>> ELSE <<c.provider, c.model>>

\* _validate_adapter_contract
AdapterContract(c) ==
  c.adapter \in Live =>
    /\ \A r \in DOMAIN c.providers : c.providers[r] = c.provider
    /\ IF c.adapter = "custom_api" THEN c.provider # "openai" /\ c.url
                                   ELSE c.provider = c.adapter

Named(c) == DOMAIN c.models \cup UNION (c.pairs \cup c.apart)

\* Solo runs are held to the roles and their contracts, ensembles to their models too.
Accepted(c) ==
  /\ ~strict
  /\ c.scope
  /\ Cardinality(Named(c) \ {"architect", "implementer"}) >= c.specialists
  /\ c.mode = "ensemble" =>
       /\ \A pair \in Baseline \cup c.pairs : pair \subseteq Named(c) =>
            Cardinality({Identity(c, r) : r \in pair}) = 2
       /\ \A pair \in c.apart : Cardinality({Identity(c, r)[1] : r \in pair}) = 2
       /\ Cardinality({Identity(c, r) : r \in Named(c)}) >= c.distinct

(***************************************************************************)
(* Generated configurations                                                *)
(***************************************************************************)
\* Mutant: the security auditor comes before the reviewer it has to differ from.
AssignmentsReordered ==
  <<<<"implementer", {"architect"}>>,
    <<"security_auditor", {"implementer"}>>,
    <<"adversarial_reviewer", {"implementer"}>>,
    <<"release_manager", {"implementer"}>>>>

\* Whom each role's model has to differ from, in the order they are assigned.
Assignments ==
  <<<<"implementer", {"architect"}>>,
    <<"adversarial_reviewer", {"implementer", "security_auditor"}>>,
    <<"security_auditor", {"implementer", "adversarial_reviewer"}>>,
    <<"release_manager", {"implementer"}>>>>

\* assign_distinct: the first alternative to the base model that nobody it must
\* differ from has, if there is any.
Assign(p, base, models, assignment) ==
  LET role == assignment[1]
      banned == {models[r] : r \in assignment[2] \cap DOMAIN models}
      free == {k \in DOMAIN Common[p] : Common[p][k] \notin banned \cup {base}}
      first == CHOOSE k \in free : \A l \in free : k <= l
  IN  IF role \in DOMAIN models /\ free # {} THEN [models EXCEPT ![role] = Common[p][first]]
                                             ELSE models

\* apply_simple_mode_model_diversity
Diverse(p, base, team) ==
  LET Assigned(models, k) == Assign(p, base, models, Assignments[k])
      same == [r \in team |-> base]
  IN  IF Len(Common[p]) < 2 THEN same
      ELSE Assigned(Assigned(Assigned(Assigned(same, 1), 2), 3), 4)

\* A provider, and a model of its own or the user's.
ModelChoices ==
  UNION {{<<p, base>> : base \in {Own} \cup Range(Common[p])} : p \in Provider}

\* The common parts of build_task_config and run_wizard.
Config(choice, mode, models, adapter, url) ==
  [mode |-> mode, provider |-> choice[1], model |-> choice[2], models |-> models,
   providers |-> [r \in DOMAIN models |-> choice[1]],
   pairs |-> IF mode = "ensemble" THEN {b \in Baseline : b \subseteq DOMAIN models} ELSE {},
   apart |-> {}, specialists |-> 0, distinct |-> 0, adapter |-> adapter,
   scope |-> TRUE, url |-> url]

\* resolve_execution_mode; key: the provider's key is in the environment.
ExecutionMode(how, p, key, url, reference) ==
  CASE how # "auto" -> how
    [] how = "auto" /\ p = "local" -> "live"
    [] how = "auto" /\ p = "custom_api" -> IF key /\ url THEN "live" ELSE "demo"
    [] how = "auto" /\ p \notin {"local", "custom_api"} ->
         IF reference \/ (p \in Live /\ key) THEN "live" ELSE "demo"

TaskAdapter(goes, p, reference) ==
  CASE goes = "demo" -> "dry-run"
    [] goes = "live" /\ reference -> Reference
    [] goes = "live" /\ ~reference -> IF p \in Live THEN p ELSE "none"

\* build_task_config: what requests come to; a live run without an adapter, or of a
\* gateway without its URL, raises.
TaskConfigs ==
  {c \in
    {Config(choice, "ensemble", Diverse(choice[1], choice[2], team),
            TaskAdapter(ExecutionMode(how, choice[1], key, url, reference), choice[1], reference),
            url /\ choice[1] = "custom_api") :
       choice \in ModelChoices, team \in Team, how \in {"auto", "demo", "live"},
       key \in BOOLEAN, url \in BOOLEAN, reference \in BOOLEAN} :
    c.adapter # "none" /\ AdapterContract(c)}

\* run_wizard in simple mode: only the models of an ensemble are made to differ.
SimpleModels(choice, mode, team) ==
  IF mode = "ensemble" THEN Diverse(choice[1], choice[2], team) ELSE [r \in team |-> choice[2]]

\* run_wizard in simple mode.
SetupConfigs ==
  {c \in
    UNION {{Config(choice, mode, SimpleModels(choice, mode, team),
                   adapter, adapter = "custom_api") :
              adapter \in {"dry-run"} \cup ({choice[1]} \cap Live)} :
           choice \in ModelChoices, team \in Team, mode \in {"ensemble", "solo"}} :
    AdapterContract(c)}

\* run_wizard in advanced mode, before models are chosen for single roles.
AdvancedConfigs ==
  {c \in
    UNION {{Config(choice, mode, [r \in team |-> choice[2]], adapter, adapter = "custom_api") :
              adapter \in {"dry-run", Reference} \cup ({choice[1]} \cap Live)} :
           choice \in ModelChoices, team \in Team, mode \in {"ensemble", "solo"}} :
    AdapterContract(c)}

(***************************************************************************)
(* Entry points                                                            *)
(***************************************************************************)
\* What is not valid is asked for again, or given up.
Wizard ==
  /\ made < MaxRuns
  /\ \/ \E c \in SetupConfigs : configFile' = [by |-> "setup", cfg |-> c]
     \/ \E c \in AdvancedConfigs : configFile' = [by |-> "hand", cfg |-> c]
  /\ made' = made + 1
  /\ UNCHANGED <<run, strict, edits>>

\* The user changes one thing in the file, or chooses a model for a role in advanced
\* mode.
EditFile ==
  /\ edits < MaxEdits
  /\ configFile # NoFile
  /\ LET c == configFile.cfg
     IN  \E d \in {[c EXCEPT !.scope = ~@], [c EXCEPT !.pairs = {}],
                   [c EXCEPT !.apart = {{"architect", "implementer"}}],
                   [c EXCEPT !.specialists = 2], [c EXCEPT !.distinct = 2],
                   [c EXCEPT !.adapter = "openai"], [c EXCEPT !.url = ~@]}
             \cup UNION {{[c EXCEPT !.models[r] = Own], [c EXCEPT !.providers[r] = "local"]} :
                         r \in DOMAIN c.models} :
           configFile' = [by |-> "hand", cfg |-> d]
  /\ edits' = edits + 1
  /\ UNCHANGED <<run, strict, made>>

Started(who, c) == run' = [by |-> who, cfg |-> c]

\* _load_effective_cfg and _load_effective_config, then the doctor: `ese start`,
\* `ese rerun` and the dashboard's jobs on a configuration file.
LoadConfig(c, scope) ==
  LET effective == [c EXCEPT !.scope = @ \/ scope]
  IN  /\ AdapterContract(c)
      /\ Accepted(effective)
      /\ Started("doctor", effective)

StartRun ==
  /\ made < MaxRuns
  /\ \E from \in {configFile, run}, scope \in BOOLEAN :
       from.by # "nobody" /\ LoadConfig(from.cfg, scope)
  /\ made' = made + 1
  /\ UNCHANGED <<configFile, strict, edits>>

\* Kept in the file if the user named one, before the doctor looks at it.
Saved(c) == configFile' \in {configFile, [by |-> "setup", cfg |-> c]}

\* `ese task` and `ese pr`
Task ==
  /\ made < MaxRuns
  /\ \E c \in TaskConfigs :
       /\ Saved(c)
       /\ IF Accepted(c) THEN Started("doctor", c) ELSE UNCHANGED run
  /\ made' = made + 1
  /\ UNCHANGED <<strict, edits>>

\* The dashboard's task and pull request jobs: no doctor.
DashboardTask ==
  /\ made < MaxRuns
  /\ \E c \in TaskConfigs : Saved(c) /\ Started("dashboard", c)
  /\ made' = made + 1
  /\ UNCHANGED <<strict, edits>>

ConfigNext == Wizard \/ EditFile \/ StartRun \/ Task \/ DashboardTask

ConfigSpec == ConfigInit /\ [][ConfigNext]_configVars

(***************************************************************************)
(* Properties                                                              *)
(***************************************************************************)
ConfigTypeOK ==
  /\ configFile.by \in {"nobody", "setup", "hand"}
  /\ run.by \in {"nobody", "doctor", "dashboard"}
  /\ \A s \in {configFile, run} : s.by # "nobody" =>
       /\ s.cfg.mode \in {"ensemble", "solo"}
       /\ DOMAIN s.cfg.models \in Team
       /\ DOMAIN s.cfg.providers = DOMAIN s.cfg.models
  /\ strict \in BOOLEAN
  /\ edits \in 0..MaxEdits
  /\ made \in 0..MaxRuns

\* Two roles that check one another do so with different models.
Independent(c) ==
  c.mode = "ensemble" =>
    \A pair \in Baseline : pair \subseteq DOMAIN c.models =>
      Cardinality({Identity(c, r) : r \in pair}) = 2

\* A run goes to the adapter of its roles' provider, whoever wrote its configuration.
RunsAreServed ==
  run # NoRun /\ run.cfg.adapter \in {"openai", "local"} =>
    \A r \in DOMAIN run.cfg.models : Identity(run.cfg, r)[1] = run.cfg.adapter

\* doctor.py: a run the doctor let through is of independent roles, and its
\* snapshot is let through again, so that the run can be rerun.
RunsCanBeRepeated ==
  run.by = "doctor" => Independent(run.cfg) /\ AdapterContract(run.cfg) /\ Accepted(run.cfg)

\* framework_defaults.py: what simple setup and a task generate for a provider with
\* two more models to choose from needs no change to pass the doctor.
GeneratedPasses ==
  /\ configFile.by = "setup" /\ ~strict
  /\ Cardinality(Range(Common[configFile.cfg.provider]) \ {configFile.cfg.model}) >= 2
  => Accepted(configFile.cfg)

\* What the configuration and its checks promise whoever starts a run.
ConfigsHold == RunsAreServed /\ RunsCanBeRepeated /\ GeneratedPasses
=============================================================================
