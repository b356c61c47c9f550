------------------------------ MODULE Extensions ------------------------------
(***************************************************************************)
(* Installed extensions of ESE, one entry point group for each surface:    *)
(* config packs, policy checks, report exporters, artifact views,          *)
(* integrations and application bundles.  Any of them may be broken, and   *)
(* two may claim one key.  A surface is discovered anew for each request,  *)
(* one entry point after the other; then it serves the request.            *)
(***************************************************************************)
EXTENDS Integers, Sequences

CONSTANTS MaxEntries  \* bound on entry points of a group

VARIABLES
  surface,    \* the entry point group asked for
  installed,  \* its entry points, in the order the metadata lists them
  examined,   \* how many have been loaded
  found,      \* key -> the entry point whose definition it names
  failures,   \* entry points reported as failed
  served      \* what came of the request

extensionVars == <<surface, installed, examined, found, failures, served>>

\* A key, one that differs from it in case, and one built in.
Key == {"key", "KEY", "sarif"}

\* Mutant: the case is kept.
LowerNot(k) == k

Lower(k) == IF k = "KEY" THEN "key" ELSE k
Builtin == 0

Surface == {"packs", "policies", "exporters", "views", "integrations", "bundles"}

\* load: its module or definition is at fault, or only its second pack is.
\* works: what its function does when it is called.
EntryPoint ==
  [load : {"fine", "faulty"}, keys : {<<k>> : k \in Key}, works : {"fine", "objects", "raises"}]
PackEntryPoint ==
  [load : {"fine", "faulty"}, keys : {<<k, l>> : k, l \in Key}, works : {"fine"}]

ExtensionsInit ==
  /\ surface = "none"
  /\ installed = <<>>
  /\ examined = 0
  /\ found = <<>>
  /\ failures = {}
  /\ served = "none"

\* What list_report_exporters adds the entry points' definitions to.
BuiltinReportExporters == [k \in {"sarif"} |-> Builtin]

\* A request for a surface, with these entry points installed.
Ask ==
  /\ surface = "none"
  /\ surface' \in Surface
  /\ \E n \in 0..MaxEntries :
       installed' \in [1..n -> IF surface' = "packs" THEN PackEntryPoint ELSE EntryPoint]
  /\ found' = IF surface' = "exporters" THEN BuiltinReportExporters ELSE <<>>
  /\ UNCHANGED <<examined, failures, served>>

SetDefault(f, k, e) == [x \in DOMAIN f \cup {k} |-> IF x \in DOMAIN f THEN f[x] ELSE e]

Failed(e) == {x \in {e} : installed[x].load = "faulty"}

\* One entry point of a surface is loaded and its definition normalised.
Load(s) ==
  /\ surface = s
  /\ examined < Len(installed)
  /\ examined' = examined + 1
  /\ failures' = failures \cup Failed(examined + 1)
  /\ UNCHANGED <<surface, installed, served>>

\* Config packs come in numbers, under keys in lower case; what a faulty provider
\* gave before its fault stays.
DiscoverConfigPacks ==
  LET e == examined + 1
      p == installed[e]
      first == SetDefault(found, Lower(p.keys[1]), e)
  IN /\ Load("packs")
     /\ IF p.load = "faulty" THEN found' \in {found, first}
        ELSE found' = SetDefault(first, Lower(p.keys[2]), e)

\* Every other definition comes alone and keeps its key as it is written.
DefinitionFound ==
  LET e == examined + 1 IN
  IF installed[e].load = "faulty" THEN UNCHANGED found
  ELSE found' = SetDefault(found, installed[e].keys[1], e)

DiscoverPolicyChecks == Load("policies") /\ DefinitionFound
DiscoverExternalReportExporters == Load("exporters") /\ DefinitionFound
DiscoverArtifactViews == Load("views") /\ DefinitionFound
DiscoverIntegrations == Load("integrations") /\ DefinitionFound
DiscoverApplicationBundles == Load("bundles") /\ DefinitionFound

Discovered == surface # "none" /\ examined = Len(installed) /\ served = "none"

\* What the function of a definition does when it is called: what is wanted, or
\* something that is no result (a policy check: it objects), or it raises.
Works(k) == IF found[k] = Builtin THEN "fine" ELSE installed[found[k]].works
Serve(s) == served' = s /\ UNCHANGED <<surface, installed, examined, found, failures>>

\* Mutant: a crash counts as no message.
PolicyErrorsOnly == \E k \in DOMAIN found : Works(k) = "objects"

\* evaluate_policy_checks: a check that cannot be loaded or that crashes is an
\* error as much as what a check objects to; doctor fails on an error.
PolicyErrors == failures # {} \/ \E k \in DOMAIN found : Works(k) # "fine"

EvaluatePolicyChecks ==
  /\ Discovered /\ surface = "policies"
  /\ Serve(IF PolicyErrors THEN "failed" ELSE "passed")

\* list_available_artifact_view_documents, within every report: a view may say it
\* is not available; one that raises takes the report with it.
ReportDocuments ==
  /\ Discovered /\ surface = "views"
  /\ Serve(IF \E k \in DOMAIN found : Works(k) = "raises" THEN "failed" ELSE "passed")

\* A definition of surface s is asked for by the key k, and called.
Resolve(s, k) ==
  /\ Discovered /\ surface = s
  /\ Serve(IF k \notin DOMAIN found THEN "unknown"
           ELSE IF Works(k) = "fine" THEN "passed" ELSE "failed")

\* A key is compared in lower case, a view's as it is written.
GetConfigPack(k) == Resolve("packs", Lower(k))
RenderReportExport(k) == Resolve("exporters", Lower(k))
RenderExternalArtifactView(k) == Resolve("views", k)
PublishRunEvidence(k) == Resolve("integrations", Lower(k))
ResolveApplicationBundle(k) == Resolve("bundles", Lower(k))

\* doctor --environment, in its part for this surface.
DoctorEnvironment == Discovered /\ Serve(IF failures = {} THEN "clean" ELSE "failed")

ExtensionsNext ==
  \/ Ask
  \/ DiscoverConfigPacks \/ DiscoverPolicyChecks \/ DiscoverExternalReportExporters
  \/ DiscoverArtifactViews \/ DiscoverIntegrations \/ DiscoverApplicationBundles
  \/ EvaluatePolicyChecks \/ ReportDocuments \/ DoctorEnvironment
  \/ \E k \in Key : \/ GetConfigPack(k) \/ RenderReportExport(k)
                    \/ RenderExternalArtifactView(k) \/ PublishRunEvidence(k)
                    \/ ResolveApplicationBundle(k)

ExtensionsSpec == ExtensionsInit /\ [][ExtensionsNext]_extensionVars

(***************************************************************************)
(* Properties                                                              *)
(***************************************************************************)
\* The variables keep their types, and packs are found under keys in lower case.
ExtensionsTypeOK ==
  /\ surface \in Surface \cup {"none"}
  /\ examined \in 0..Len(installed)
  /\ DOMAIN found \subseteq IF surface = "packs" THEN Key \ {"KEY"} ELSE Key
  /\ \A k \in DOMAIN found : found[k] \in 0..examined
  /\ failures \subseteq 1..examined
  /\ served \in {"none", "passed", "failed", "unknown", "clean"}

\* discover_*: of two definitions of a key the first stands, a built-in exporter
\* before all, whatever is installed after it; no entry point is lost unreported.
FirstDefinitionStands ==
  /\ surface = "exporters" => found["sarif"] = Builtin
  /\ \A e \in 1..examined :
       e \in failures \/ \A i \in DOMAIN installed[e].keys :
         LET k == installed[e].keys[i] IN
         \E x \in DOMAIN found : x \in {k, Lower(k)} /\ found[x] <= e

\* doctor: a configuration passes its policy checks only if each installed one could
\* be loaded, ran, and did not object, except where an earlier one has its key; and
\* the environment is clean only if nothing that is installed is broken.
PoliciesFailClosed ==
  /\ surface = "policies" /\ served = "passed" =>
       \A e \in 1..Len(installed) :
         /\ installed[e].load = "fine"
         /\ installed[e].works = "fine" \/ found[installed[e].keys[1]] < e
  /\ served = "clean" => \A e \in 1..Len(installed) : installed[e].load = "fine"

\* What is installed is used or reported, and cannot be installed away.
InstalledIsHonoured == FirstDefinitionStands /\ PoliciesFailClosed
=============================================================================
