# A verification of the SAM translator

The AWS Serverless Application Model is a macro: `transform` takes a template
with `AWS::Serverless::*` resources and returns one that CloudFormation can
deploy. This directory holds TLA+ models of the parts of that translation where
order, shared state, failure or retries decide whether the result is right, the
configurations with which TLC checks them on small instances, and proofs that
TLAPS checks for every value of the constants.

Contents: [inventory](#1-inventory) · [modules](#2-the-modules-and-the-code) ·
[runs](#3-what-tlc-checks) · [fairness](#4-fairness) ·
[proofs](#5-what-is-proved) · [disagreements](#6-disagreements-found) ·
[not modelled](#7-what-is-not-modelled) · [plan](#8-plan) ·
[how to run](#9-running-it)

Paths are relative to `src/samtranslator/` unless they begin with `src/`.

## 1. Inventory

### How a template is translated

`transform` (`translator/transform.py`) builds a `Translator`, whose
`translate` does, in this order:

1. `Parser.parse` refuses a template without resources and runs the *plugins'*
   `before_transform_template` hooks. The caller's plugins come first, then the
   required ones: `ServerlessAppPlugin` (unless passed in), default definition
   bodies, implicit REST API, implicit HTTP API, Globals, policy templates.
2. Embedded connectors are taken out of the resources they are written in and
   become resources of their own.
3. The loop replaces one SAM resource after the other by what it generates:
   functions, then state machines, then APIs, then other kinds, then
   connectors. A copy of the template receives the output. Errors of a resource
   are collected; the loop goes on.
4. The deployment preferences of all functions become CodeDeploy resources.
5. `after_transform_template` hooks run; the SAR plugin waits here.
6. Collected errors are raised together, or else references to resources whose
   logical id changed are rewritten and the template is returned.

There are no threads. What is hard is of five kinds:

- **an outside service** that throttles, refuses, expires or never finishes
  (SAR, in steps 1 and 5);
- **order**: a function edits the definition of an API that a later iteration
  generates; Globals are merged once and must reach what plugins added; a
  connector reads what others became;
- **state many resources write to one after the other**: the Conditions
  section, the definition of an API, a bucket or user pool of the template, the
  record sets of a hosted zone, the CodeDeploy application and role, a shared
  usage plan, a list that several resources hold as their DependsOn, an object
  inherited from Globals;
- **the stack the template is for**, which has been deployed before: ids decide
  what CloudFormation publishes, keeps and deletes;
- **conditions**: a generated resource exists under a condition made from those
  of several resources. A reference in the returned template must be to
  something that exists *whatever holds at deployment*, which no test of the
  translator evaluates.

### Components

| component | state it keeps | operations | hard behaviour | what makes it correct |
|---|---|---|---|---|
| SAR plugin, `plugins/application/serverless_app_plugin.py` | answers per (ApplicationId, SemanticVersion), templates in progress, seconds slept; all kept between translations | three hooks: request, per resource, wait | throttling, refusal, expiry, crash at any call; retries and polling share a budget; stale state of a translation that was given up | only ACTIVE templates in a success; no pair asked for twice; it always ends |
| Translator, `translator/translator.py`, `sdk/parser.py`, `plugins/__init__.py` | the two templates, changed ids, collected errors | plugins, embedded connectors, the loop, CodeDeploy, resolution | order of kinds; a failure half way; ids taken or changed | complete APIs, no SAM resource left, references follow ids, nothing replaced |
| Combined conditions, `model/intrinsics.py` | the list being folded, the new conditions | `make_combined_condition` | an `Fn::Or` takes 10 operands: names and number computed ahead | equivalent to "any of them"; the last one has the bare name |
| Deployment preferences, `model/preferences/` | preferences by function | `add`, generation of application, role, groups, aggregate condition | disabled or conditional preferences in any order, a function that fails after registering | a group finds application and role under any truth of the conditions |
| Implicit API plugin and Api events, `plugins/api/`, `model/eventsources/push.py`, `swagger/` | conditions and policies per API, path and method; definitions | collect, make conditional, remove or restore, integrate, merge | duplicates found through conditionals; four kinds of API | a function's route exists exactly with the function |
| Definitions of APIs, `swagger/`, `open_api/`, `model/api/`, `model/apigateway*.py` | one document, edited by every event and then by the API's generator | integrations, CORS, authorizers, keys, policies, models, move to OpenAPI 3 | an event's wishes wait in the document as marks; the version decides where things are, and they are moved in more than one step | a route asks of its callers what its event and the API say; what is named is defined |
| Functions, `model/sam_resources.py` | the Conditions section; objects shared through Globals | destinations, role, alias, events | values written back into properties; conditions from three sources | one queue per function, references found, role with its function |
| Events of functions and state machines, `model/eventsources/`, `model/stepfunctions/events.py` | buckets, user pools and HTTP APIs of the template, the function's role | one set of resources per event, edits in place | several functions edit one bucket; ids without the event or the source in them; one role for many mappings | what triggers may invoke; nothing dangles under any condition; roles allow what mappings need |
| Globals, `plugins/globals/` | the merged section, the map of what ignores it | merge | copies one level only | each resource as if written out |
| Usage plans, `model/api/api_generator.py` | one `SharedApiUsagePlan` for all APIs | NONE, PER_API, SHARED | every API regenerates the shared resources; last copy wins | the plan exists with an API it is for, lists all, keeps the most careful policies |
| Custom domains, `model/api/` | record set groups by hosted zone, Route53 maps shared through Globals | domain, base path mappings, records, for three kinds of API | the generator writes into maps and groups of other APIs | each API is reached through its domain, each record leads to it |
| WebSocket APIs, `model/api/websocket_api_generator.py` | none | routes, stage, authorizer | a loop that can raise at each route; ids made of route keys | each route invokes its function, with a permission |
| Connectors, `model/connector/`, `model/sam_resources.py` | the template being built | profiles, DependsOn rewriting, mappings found in the output | reads and edits others' output in place | order kept, mappings wait for policies, no circle made |
| Versions: Lambda versions, layers, deployments, state machine versions | none in the transform; the stack's resources from update to update | ids with hashes, retention policies, aliases | what is hashed against what CloudFormation compares; a failed update | the alias serves what is written; nothing in use is deleted |
| Intrinsics resolver, `intrinsics/` | none | traversal | nesting, partial resolution | what resolves is what CloudFormation would compute |
| Policies, `policy_template_processor/`, `utils/managed_policies…` | a map loaded once | lookup with fallback | a failing lazy load | the answer does not depend on the call |
| Feature toggle, metrics, parser and schemas, `bin/`, integration deployer | see section 7 | | | |

`PROJECT.json` lists every component with its status, and the 40 places where
this code is hard to test, each with the properties that would notice.

## 2. The modules and the code

Each component has one module with its state, actions and properties; `MC…`
gives it an instance for TLC; `…Proofs` holds its theorems, those about SarPlugin
being in TranslatorProofs, and those about CombinedCondition,
DeploymentPreferences and PublishedVersions in DeploymentProofs. Definitions carry
the names of the source where TLA+ allows, and `PROJECT.json`'s `map` says which
lines each one stands for.

**SarPlugin** — `ServerlessAppPlugin`. `applications`, `inProgress`
(`_in_progress_templates`), `totalWait` survive from one translation to the next
(`NextTemplate`), as the instance does. The first hook is `VisitSkip`,
`VisitRecord`, `VisitCall` (what is decided without, or with, a call) and the
outcomes of a call: `CreateTemplate`, `GetApplication`, `CallDenied`,
`CallThrottled` (sleep and retry until `CallGivenUp`), `CallCrashes`. The second
is `TransformResource`. The third is a loop over passes: `BeginPass`, one action
per answer to a poll (`PollActive`, `PollPreparing`, `PollRefused` with expired
and denied, `PollThrottled`, `PollCrashes`), `EndPass`, `TimeIsUp`. SAR is two
actions of its own, `SarActivates` and `SarExpires`, that interleave with all of
these. `PluginNext` is a step of the plugin's process, `RoundsNext` any step, of
that, of SAR or of the caller. A pair is a model value of one of four kinds
(ordinary, blank version, with an unresolved intrinsic, refused before any
call). The two flags the plugin is made with, `validateOnly` and
`waitForActive`, are variables that `Init` chooses and no action changes;
`FlagsAllowed` excludes what the constructor refuses.

**TemplateGate** — what the plugin promises: pairs are handed out, become ready,
and a good report needs everything handed out so far, by this translation or an
earlier one, to be ready.
`SarPlugin` implements it under `handed = {pairs with a URL}`,
`ready = {pairs seen ACTIVE}`, `waits = waitForActive`.

**Translator** — `translate`, steps 1 to 6 above, for resources that are an id
and a kind. `InstallPlugins` is `prepare_plugins`; `RunBeforeHook` applies
`HookEffect` of the next plugin (implicit API put under its id, and taken back
if it got no paths, definitions provided, Globals merged); `own` is what is
still the caller's after that. Any hook may raise. `AddEmbeddedConnectors` is
one action as the code does it in one go. `TranslateResource`, `TranslateFails`
and `TranslateCrashes` are an iteration's three ends, `NextInLoop` the order of
`_get_resources_to_iterate`. What a macro generates is a parameter of the
template record, so that the module is about the loop and not about macros; the
modules below are about macros.

**CombinedCondition** — `make_combined_condition`, one action per new `Fn::Or`.
Names are numbers, the bare name is 0.

**DeploymentPreferences** — `DeploymentPreferenceCollection` as the loop and
`_add_deployment_preferences` use it: `AddPreference`, in any order and with the
function's late failures, `AddApplication` (aggregate condition, application,
role), `AddGroups`.

**ApiEvents** — first the plugin: `AddApiToSwagger` (event processing, with the
recording of condition and policies per path and method), `RefuseEvent`,
`FinishPlugin` (API and path conditions, policies, removal or restoring). Then
the functions' translation: `AddSwaggerIntegration`, `MergeDefinitions`,
`PermitOnly` (definitions events leave alone), `RefuseDuplicate`, `Finish`. A
condition's meaning is the set of truth assignments under which it holds. An
integration is `whole`, or `mixed` where `MergeDefinitions` puts an `Fn::If`
beside other keys of a method (`Mixed`).

**FunctionDestinations** — `to_cloudformation` of a function from the Globals
merge to its role: `Begin`, per destination `SkipSlot`, `MakeQueue`,
`UseDestination` or `RejectSlot`, then `Return` with configuration, role and
function. A value inherited from Globals is a *cell* owned by `Globals` when the
merge does not copy it, so that a write shows for every function that has it.
`MakeAnd` is `make_and_condition`, which takes names; of the references it is
given (`sam_resources.py:617`) it makes something that is no condition
(`NoMeaning`).

**EventSources** — `to_cloudformation` of the events: of functions in
`push.py` (Schedule, Scheduler, EventBridge rules, SNS with and without queue,
S3, CloudWatch Logs, IoT, Alexa, Cognito, HttpApi) and `pull.py` (seven kinds of
mapping), of state machines in `stepfunctions/events.py`. `Begin` and `Finish` a
function or state machine; between them one action per way an event works:
`AddResources` (rule, schedule, filter with permission or role, queue and queue
policy), `Subscribe`, `Map`, `NotifyFromBucket`, `Trigger` and `AddRoute`, which
edit `buckets`, `pools` and `routes`, or `RefuseEvent`. `roles` is what the
execution role may do, `AddPolicy` the code's way to add to it. A resource is
its id, type, condition, the source a permission is for, and the ids it refers
to. Ids are tuples of the parts the code concatenates.

**Connectors** — `SamConnector.to_cloudformation` and `model/connector/`.
`template` is what the loop has made so far: every resource has its DependsOn
and the flag `shared`, true as long as it holds the one list that all resources
of a connector get, so that `ReplaceDependsOn` changes it for all of them.
`TranslateConnector` makes the policies and permissions of every destination,
adds to mappings and state machines, and replaces the connector's name in every
DependsOn; `RefuseConnector` has every refusal. The profiles are a table of what
they need of their two ends.

**ApiResources** — all APIs of a template, translated in any order. It extends
**SharedUsagePlan** (`_construct_usage_plan` and its helpers: `TranslateWithout`,
`TranslatePerApi`, `TranslateShared`, which collects, defines the condition and
replaces the three resources, `SharedRaises`, `TranslateFails`) and takes the
operators of **ApiDomains** (domain, mappings, access association and records,
for both editions of REST domains and for HTTP and WebSocket APIs) and
**WebSocketApi** (API, routes, integrations, permissions, stage, authorizer).
Each of its actions for a REST API is an action of SharedUsagePlan together with
what the API's domain makes, changes in `groups` (the record set groups by zone)
and writes into `maps` (the Route53 maps that Globals shares). `DomainsAgree`,
`PathsApart`, `ZonesAgree`, `DistributionsApart` and `RoutesApart` say what the
code takes for granted of the APIs of one template.

**ApiDefinition** — how one REST or HTTP API's definition comes to be: `AddEvent`
for one event after the other, then the generator's steps in its order (CORS,
authorizers with keys and policies, gateway responses, media types, models, the
move to OpenAPI 3 after several of them), each with its refusals. It extends
**OpenApiEditor** and **SwaggerEditor**, the editors as operators on a document
of paths, path items (two when conditional), methods and definitions, and
**Authorizers**, what an Auth section is refused for and becomes. **Maps** says
what adding to a map, or to one key of it, does.

**PublishedVersions** — `LogicalId` … `Stage` are the transform's: ids with
hashes, retention policies, the alias's and the stage's reference. The rest is
CloudFormation, external, with what comments in the code say of it: resources
are updated in the order of their references, any step may fail and the update
is undone (`FailUpdate`), what left the template is deleted at the end unless
retained (`FinishUpdate`). `made` is everything ever published, `held` what the
stack's versions stand for, `gone` what has been deleted.

How they fit: ApiEvents, FunctionDestinations and EventSources are what an
iteration of Translator's loop does for a function, ApiResources and
ApiDefinition what it does for an API, Connectors what it ends with;
DeploymentPreferences spans the loop and the step after it; CombinedCondition is
the operator that ApiEvents and DeploymentPreferences take at its meaning ("any
of them"), which is just what `CombinedMeansAny` proves; SarPlugin is the first
and the last hook around Translator; PublishedVersions comes after it, when the
template meets the stack. ApiEvents has the conditions of routes and leaves out
what they ask of callers, ApiDefinition has that and no conditions but those of
the author's document. SharedUsagePlan and FunctionDestinations build their
conditions without CombinedCondition, as the code does.

## 3. What TLC checks

| run | states | asks |
|---|---|---|
| `sar_plugin` | 513,588 | two translations with one plugin, made in any way, SAR misbehaving at any call |
| `translate` | 56,788 | whole translations of 54 templates, any resource, event or hook failing |
| `combined_condition` | 2,727 | all lists of 0 to 8 conditions |
| `deployment_preferences` | 13,428 | three functions with preferences of all kinds |
| `api_events` | 11,535 | two and three functions with events at five kinds of API |
| `function_destinations` | 62,846 | two functions with destinations and roles of all kinds |
| `event_sources` | 94,540 | two functions and a state machine with events of all kinds |
| `connectors` | 67,473 | two connectors in either order, with DependsOn on them |
| `api_resources` | 39,478 | usage plans, domains and WebSocket routes of several APIs in every order |
| `api_definition` | 110,640 | one API's definition, with authorizers, keys, policies, models, CORS |
| `published_versions` | 488,194 | a stack deployed three times, failing at any step |
| `edge_domains` | | one statement that the code breaks, section 6 |

**sar_plugin.** A success used only templates seen ACTIVE
(`OnlyActiveTemplates`), an answer is never replaced (`AnswersKept`), the plugin
implements TemplateGate (`ImplementsGate`), and each translation ends
(`Terminates`). The plugin waits, does not wait, or only validates, as `Init`
chooses. *Bounds:* two resources (so that they share a pair or do not), one pair
of each kind and two ordinary ones, budget 5 with sleep 2 (three sleeps reach it
from either loop, and the budget is not a multiple of the sleep), `MaxRounds` 2
(the second translation inherits caches, list and budget; a third could only
inherit the same).

**translate.** Nothing SAM is returned (`NoSamResourceLeft`), a returned API was
generated from a definition with all its integrations (`ApisComplete`),
references follow changed ids (`RefsFollowIds`), every resource of the template
the caller passed and everything generated are there, a resource under the id of
an implicit API without events included (`NothingOverwritten`), connectors come
when all else has been replaced (`ConnectorsSeeOutput`). *Bounds:* the templates
are the combinations of the choices that matter to the loop: function or state
machine, ids free or taken, API with or without its own definition, events or
not, a connector embedded, written out or both, each list of caller plugins
(with duplicates of a required one). One resource per kind but functions, of
which there are two, is enough: iterations meet in pairs. *Left out:*
`MCTakenByImplicitApi`, `MCTakenByCodeDeploy` and `MCSameGeneratedId`, see
section 6.

**combined_condition.** With `Fn::Or` of three operands, lists of up to 8
conditions need up to three rounds, with full and partial last groups.
`AcceptedDisjunction` says what CloudFormation and the callers need: operands
within the limit, the bare name on the last condition, and that one true exactly
when one of the list is. The proofs remove the bounds.

**deployment_preferences.** Under every truth of three conditions: a group finds
the application and role it refers to (`GroupsFindWhatTheyName`), an alias finds
the group its update policy names (`AliasesFindGroups`), no application without
a group (`NothingIdle`). Three functions, because the aggregate condition is
decided by how many different conditions there are: none, one, several.

**api_events.** For every truth of the conditions: each created function's route
is there, integrated with it, in an API that is there (`RoutesReachable`); no
path or implicit API exists without a function behind it, the implicit API has
the most careful policies of its functions, and the author's `ServerlessRestApi`
is put back when every event names its API (`ApisFollowFunctions`); an error has
a cause and a cause an error (`RefusedForCause`). *Bounds:* two functions with
up to two events each over two paths and four spellings of methods; three
functions for conditions of a path that combine; all policies for two; an event
over a method of the author's body. *Left out:* `MergesTwice`,
`MergesIntoNothing`, `MergesIntoOwn` (together `MergesBadly`), `NamesOwn` and
`SharesName`, which are predicates of ApiEvents and hypotheses of the theorems;
the theorems have no bounds.

**function_destinations.** Conditions that resources use are defined, as
something CloudFormation takes for one, and references are found whenever
followed (`ReferencesFound`), every function gets the queues its template and
Globals say, under the conditions they say (`QueuesAsWritten`), a role that is
made for a function exists only with that function (`RolesNeedFunctions`).
*Bounds:* two functions, the second plain, as what the first leaves behind shows
in any second one; all kinds of destination in the first function's own section
and in Globals, with and without `IgnoreGlobals`; functions with a condition and
queues under one, but not both at once. *Left out:* `SharesQueue`,
`RoleLosesCondition`, `NestsConditions`. The theorems have neither bounds nor,
but for these three, exceptions.

**event_sources.** Under both truths of a condition: what is created refers to
what is created (`NothingDangles`); an event's function or machine is triggered
and the source may trigger it, by a permission for just that source or a role
(`SourcesMayInvoke`); a bucket waits for the permission of each notification
(`BucketsWait`); a dead-letter queue that is asked for is there and may be sent
to (`DeadLettersArrive`); the execution role allows what all mappings of its
function need, and no two policies have one name (`RolesServeMappings`).
*Bounds:* up to two events of the first function, one of the second, two of the
machine: events meet in pairs, over ids, buckets, routes or the role. The
families (rules, topics, buckets, pools, paths, streams) share no state and are
taken one at a time. *Left out:* `PolicyNamesClash`, `TwoPools`,
`ConditionalTrigger`, `OwnPathTwice`, and root certificates of Kafka.

**connectors.** What the author wrote a resource depends on, it or what became
of it depends on, and nothing depends on what is not there (`OrderKept`); a
mapping, or the state machine that starts another, waits for the policies of the
connectors between its two ends and for no others (`WaitForPolicies`); no circle
arises that the author did not write (`NoNewCircle`). *Bounds:* two connectors,
in either order, of up to two destinations, among one resource of each type that
a profile treats differently, and ends outside the template; DependsOn from
resources and from a connector on connectors. *Left out:* what is not `Early`,
section 6, which only the theorem about `OrderKept` has as a hypothesis.

**api_resources.** Once all APIs are translated: plan, key and association exist
exactly when an API they are for does (`PlanWithApis`), list all APIs and keep
the most careful policies (`SharedByAll`); whatever holds at deployment, each
API is reached on each base path through a domain that exists
(`DomainsServeApis`), its zone has its domain's records, and they lead to that
domain (`RecordsReachDomains`); each WebSocket route invokes its function with a
permission for its key and stage, `$connect` alone is authorized, and the stage
waits for routes its settings may name (`RoutesServed`). *Bounds:* three REST
APIs for plans, in every order (the first makes the shared resources, the second
changes them, the third sees a state made of two); then two REST APIs, an HTTP
and a WebSocket API, two at a time sharing a domain name, a zone or neither.
Every template of the run satisfies `DomainsAgree`, `PathsApart`, `ZonesAgree`,
`DistributionsApart` and `RoutesApart`; section 6 says why. The theorems have
these as hypotheses, and no bounds.

**api_definition.** Every route asks of its callers exactly what its event or
else the API says: authorizer with scopes, key, credentials; preflight routes
what the API says of them; the author's methods keep what they ask
(`RoutesGuarded`). What methods name is defined, and where a document of its
version has it (`NamesDefined`). Policies cover every route there is, those CORS
added included (`PolicyCovers`). What the author wrote is there at the end
(`NothingLost`). *Bounds:* one event with everything it and the API can say of
authorizers and keys, two events for policies and models (an event's statement
must not cover another's route), the author's documents in both versions, HTTP
APIs. *Left out:* the list at the head of MCApiDefinition, section 6.

**published_versions.** After an update the alias leads to a version of what the
template says, the stage to a deployment of it (`ServedAsWritten`). At each step
of an update, and of its undoing, what aliases, stages and functions lead to is
there (`NothingInUseDeleted`). No version is deleted that no template gave up
(`OldVersionsKept`). No update publishes what it did not change
(`NothingPublishedTwice`). *Bounds:* sets of templates that differ in two to
four things (code, settings, other properties, hash, retention, layer,
definition, names, with and without `AutoPublishAliasAllProperties`; by value or
by parameter), between which the author moves freely; `MaxUpdates` 3, so that
something can be changed, changed back, and changed again, and an update can
follow one that failed.

Deadlock is not checked where a model ends with the translation, as a finished
one has no further step; `ApiDefinition` and `PublishedVersions` have a step for
being done, and there it is checked.

Each checked property has a mutant in `PROJECT.json`: a change to a modelled
definition, of the kind a slip in the code would make, under which TLC finds the
property violated with the same configuration.

## 4. Fairness

Only `SarPlugin` has a liveness property. `FairSpec` is
`PluginSpec /\ WF_allVars(PluginNext)`: the process that runs the transform is not
stopped for ever between two steps of the plugin; every call returns or raises,
which the client's timeouts see to. Nothing is assumed of SAR, which may
throttle every call, or never leave PREPARING, nor of the caller, who need not
translate a second template. `Terminates` then says that the retries and the
polling are bounded by the plugin itself. All other models are of one
translation whose every loop is over a finite list, so that liveness says
nothing of the code, and of stacks, whose authors need not update them.
`AnswersKept`, `ConnectorsSeeOutput` and `NothingPublishedTwice` are action
properties and need no fairness; nor does `ImplementsGate`, as TemplateGate has
none.

## 5. What is proved

All theorems are about the component's specification (`Spec`; `PluginSpec` of
SarPlugin, `CombineSpec` of CombinedCondition, `PreferencesSpec` of
DeploymentPreferences, `ResourcesSpec` of ApiResources), for every value of the
constants under the assumption named in the module. Each proof has the same
shape: an inductive invariant `IInv`, a conjunction of named parts, checked with
TLC first; `Init => IInv`; one step per action for `IInv /\ [Next]_vars =>
IInv'`, in it one step per part the action can disturb; and the properties from
`IInv`.

| module | theorem | property | argument |
|---|---|---|---|
| TranslatorProofs, of SarPlugin | `SuccessMeansActive` | `OnlyActiveTemplates` | below |
| | `SleepsWithinBudget` | (`WaitWithinBudget`) | a sleep needs the budget unspent |
| | `LookupsSucceed` | (`NoKeyError`) | a visited resource has an answer (`VisitedAnswered`) |
| | `AnswersAreKept` | `AnswersKept` | only absent answers are written |
| | `PluginImplementsGate` | `ImplementsGate` | every step maps to a step of the gate or a stutter |
| TranslatorProofs, of Translator | `NothingSamIsReturned` | `NoSamResourceLeft` | what is still SAM waits in the loop or has failed (`SamOutWaits`) |
| | `ReturnedApisAreComplete` | `ApisComplete` | below |
| | `GlobalsReachEverything` | (`GlobalsReachAll`) | `GlobalsMerged`: the merge comes after every hook that adds a resource, as no plugin is in the list twice (`PluginsDistinct`) |
| | `ReferencesAreFollowed` | `RefsFollowIds` | what is gone has moved, and where (`GoneHasMoved`, `RefsResolved`) |
| | `ConnectorsComeLast` | `ConnectorsSeeOutput` | the loop takes a resource of least rank |
| | `NothingIsOverwritten` | `NothingOverwritten` | what is out is whose it was generated by (`OutAsTranslated`), and the hooks kept the caller's (`CallersKept`); if `IdsApart`, unless `ImplicitTaken` |
| DeploymentProofs, of CombinedCondition | `AlwaysAcceptedDisjunction` | `AcceptedDisjunction` | the next three |
| | `EveryOrIsAccepted` | (`OrAccepted`) | `RoundsLeft`: the countdown computed from the length is exactly the number of rounds left |
| | `BareNameIsLast` | (`EndsInBareName`) | the same: the name 0 is reached with the last round |
| | `CombinedMeansAny` | (`MeansAny`) | the list keeps its meaning in every round |
| | `NamesAreTakenOnce` | (`NamesTakenOnce`) | names are those above the countdown |
| DeploymentProofs, of DeploymentPreferences | `GroupsAlwaysFind` | `GroupsFindWhatTheyName` | below |
| | `AliasesAlwaysFind` | `AliasesFindGroups` | `AllRegistered`, `GroupsAreResult` |
| | `NeverIdle` | `NothingIdle` | `AfterLoop` |
| | `AggregateAlwaysDefined` | (`AggregateIsDefined`) | `AfterLoop` |
| ApiResourcesProofs | `PlansFollowApis`, `PlansFollowAmongApis` | `PlanWithApis` | below |
| | `NoApiIsForgotten`, `NoApiIsForgottenAmongApis` | `SharedByAll` | below |
| | `DomainsServeApisHolds` | `DomainsServeApis` | below; if `DomainsAgree`, `PathsApart` |
| | `RecordsReachDomainsHolds` | `RecordsReachDomains` | below; if `ZonesAgree`, `DomainsAgree`, `DistributionsApart` |
| | `RoutesServedHolds` | `RoutesServed` | below; if `RoutesApart` of every WebSocket API |
| DeploymentProofs, of PublishedVersions | `ServedAsWrittenHolds` | `ServedAsWritten` | below; parts of it if `WrittenTells`, `LayersNamed` |
| | `NothingInUseDeletedHolds` | `NothingInUseDeleted` | below; if `VersionsNamed` |
| | `OldVersionsKeptHolds` | `OldVersionsKept` | what is replaced under its id is a layer of other content; if `LayersNamed` |
| | `NothingPublishedTwiceHolds` | `NothingPublishedTwice` | an id is new, or held and then made of the same |
| FunctionDestinationsProofs | `QueuesAsWrittenHolds` | `QueuesAsWritten` | below; unless `SharesQueue` or `NestsConditions` |
| | `RolesNeedFunctionsHolds` | `RolesNeedFunctions` | `RolesAre`; unless `RoleLosesCondition` |
| | `ReferencesFoundHolds` | `ReferencesFound` | below; unless any of the three |
| EventSourcesProofs | `NothingDanglesHolds` | `NothingDangles` | below; unless `ConditionalTrigger` |
| | `SourcesMayInvokeHolds` | `SourcesMayInvoke` | below; unless `TwoPools` or `OwnPathTwice` |
| | `BucketsWaitHolds` | `BucketsWait` | a notification is that of an event, which made its bucket wait (`BucketsTell`, `BucketsTold`) |
| | `DeadLettersArriveHolds` | `DeadLettersArrive` | what an event added is still there (`AddsThere`) |
| | `RolesServeMappingsHolds` | `RolesServeMappings` | `RolesTell`; unless `PolicyNamesClash` or `RootCertificate` |
| ConnectorsProofs | `OrderKeptHolds` | `OrderKept` | `PlainAre`, `MadeAre`; if `Early` |
| | `WaitForPoliciesHolds` | `WaitForPolicies` | below |
| | `NoNewCircleHolds` | `NoNewCircle` | below |
| ApiEventsProofs | `RefusedForCauseHolds` | `RefusedForCause` | nothing fails without a `Cause`, and no two events that were integrated `Clash` (`Integrated`) |
| | `RoutesReachableHolds` | `RoutesReachable` | below; unless `MergesBadly` or `SharesName` |
| | `ApisFollowFunctionsHolds` | `ApisFollowFunctions` | below; unless `SharesName` or `NamesOwn` |
| ApiDefinitionProofs | `NothingLostHolds` | `NothingLost` | below; unless `PartlyIntegrated`, `Misplaced`, `ReplacesComponents`, `LeavesModels` or `DefaultPathTwice` |
| | `PolicyCoversHolds` | `PolicyCovers` | below; unless `SlashedPolicy` |
| | `RoutesGuardedHolds` | `RoutesGuarded` | below; unless `OwnRoute`, `TwiceIntegrated`, `ReservedNames`, `UnheededDefault`, `DefaultPathTwice`, `KeyOfPreflight`, `PartialIam`, `NoneAndMore` or `WrittenKey` |
| | `NamesDefinedHolds` | `NamesDefined` | below; unless `OwnRoute`, `TwiceIntegrated`, `ReservedNames`, `UnheededDefault`, `DefaultPathTwice`, `Misplaced`, `ReplacesComponents`, `LeavesModels`, `LeavesDefinitions`, `UndefinedNames` or `UndefinedModels` |

Properties in parentheses are not in a configuration of their own: they were
checked there before they were proved, and the proofs now say more than a run.

**SarPlugin.** That a waiting success used only ACTIVE templates is not
inductive: a plugin may carry URLs, and a list in progress, from a translation
that was given up. `UrlsAccounted` strengthens it: the pair of every URL is
either listed in progress or has been seen ACTIVE. `AnswersSound` and
`OutcomesBacked` tie answers and outcomes to pairs, `VerdictBacked` says that a
good verdict in waiting mode came with an empty list. Lemma `FlagsKept` says
that no step changes how the plugin was made. `ConstantsAssumption`: the sleep
is positive, kinds of pairs are sets of pairs.

**Translator.** `ApisComplete` needs that all functions and state machines are
done when an API is reached (rank, `ApisAfterEvents`), that a done one wrote to
each definition its events edit or has made the whole translation fail
(`EventsInPaths`), and that no definition changes after its API
(`ApisAfterEvents` again). `TranslatorAssumption` types the templates and names
the required plugins. `NothingOverwritten` is about the template as the caller
passed it. `CallersKept` follows it through the hooks: a kind changes only under
the id of an implicit API, and what is not `own` any more is what such an API
replaced. It is proved of templates whose generated ids are apart (`IdsApart`)
and that have no resource of their own where an implicit API with events goes
(`ImplicitTaken`). The code looks at neither; each is a way of losing a
resource, in section 6, and in the model there is no other.

**CombinedCondition.** The code computes the number of new conditions,
`1 + (n - 2) div (m - 1)`, before it starts. `RoundsLeft` relates the number
left to the length left; the case analysis of that division is stated as lemmas
over the naturals. `CombineAssumption` needs `m >= 2`: with 1 the code would not
end. Induction over lists is not needed: the invariant is about one round.

**DeploymentPreferences.** Whether a conditional group finds the application
rests on what the application's condition is: absent when some enabled function
has none, one condition when all share it, the aggregate otherwise.
`GroupsFindWhatTheyName` is proved by these cases from `GroupsAreResult` and
`AfterLoop`; that two conditions or more make a set of cardinality at least two
uses finiteness of `Conditions` (`PreferencesAssumption`).

**SharedUsagePlan.** The invariant says that, while nothing has failed, what is
collected, defined and generated is what the *set* of APIs translated so far
asks for, in whatever order they came: the conditions and the APIs listed are
exactly theirs (`CollectedIsSeen`), the policies at least as careful
(`PoliciesAreSeen`), the last copies agree with both (`SharedIsSeen`,
`OwnAreSeen`). The optional settings are not in it: they do depend on the order,
see section 6. As the code may note an API twice, the lemma `NoteTwice`
shows that noting is idempotent. From that, with no API left, both properties
follow. `PlansFollowApis` and `NoApiIsForgotten` are about `SharedUsagePlan!Spec`.
The theorems with `Among` in their names are about `ResourcesSpec`: every step of
ApiResources is one of SharedUsagePlan, or leaves its variables alone but for
`failed` (`ResourcesIInv`).

**ApiResources.** The template under construction is a map in which each API's
resources replace those of the same id, so that what must be shown is that
nothing an API needs is replaced by something else. `ResourcesInv` says, while
nothing has failed, of the APIs that are done: what has the API's own name in its
id is as it was made (`OwnMade`); its domain's resource is that of some API of
that domain (`DomainsMade`); no WebSocket API with an error was let through
(`WebSocketsValid`). Of records it says more, if the APIs agree: a Route53 map
has the distribution it came with, or that of one EDGE domain (`MapsTold`); every
group the generators remember is in the template just as they remember it
(`GroupsTold`), and is not forgotten (`GroupsKept`); and each API's records are
in its group, leading where they should (`RecordsTold`). `GroupsTold` is what
the obvious invariant lacks: an API of a zone returns the remembered group with
its records added, and replaces the one in the template by it, so that the two
must be the same or records get lost. The hypotheses are about the
template alone and stay true or false (`Frame`): all APIs of a name have one
condition and endpoint (`DomainsAgree`), all of a zone one condition, no
WebSocket API with another one, and where groups are separate and names equal,
one map (`ZonesAgree`); two EDGE domains have two maps, or maps with a
distribution of their own (`DistributionsApart`). Without `PathsApart` and
`RoutesApart`, of two base paths, or routes, with one id only the last is made; that
there is a last one, `SelectLastInSeq` of the community modules, is `MaxIsIn`.
`ResourcesAssumption` has the template well-formed, and no API with the name of a
generated resource.

**PublishedVersions.** Between updates the stack is what its template says
(`StackIs`): it holds just the ids of the template, each made of what it was
hashed of, and alias, stage and function lead to them. During an update the same
is true of the resources that are through, in the order of their references
(`DoneInOrder`), and `before` remains such a stack, so that an update that fails
leaves one (`Updating`). An id may be a deployment's of an earlier update, as an
API that always deploys has the time in it: hence the time `k` in `StackIs`. That
nothing in use is deleted needs that nothing held is gone, now or before the
update (`NothingHeldGone`), and that two ids that hold one Lambda version were
made of the same properties (`VersionsShared`). What the ids tell is a matter of
the templates: `WrittenTells`, `LayersNamed` and `VersionsNamed` are hypotheses
of just the parts that need them. They say that what is written the same is the
same, that layers of one id have one content, and that one function has one
version id unless versions are retained; section 6 has the code that makes them
necessary. `StacksAssumption` says that the templates of a stack have the same
resources.

**FunctionDestinations.** A finished function was translated to `ResourcesFor`
it: a constant of the template, in which nothing is left of the order of the
functions and of the cells they fill in. This holds because a cell that is still
to be read is as the template has it (`CellsWait`), which is where two functions
that share one to fill in (`SharesQueue`) break it. Conditions only grow, and
each has the meaning its name says (`MeaningsIn`), whoever added it, which for
the conjunction of two is none (`NoMeaning`). From both, what is created under a
truth follows without looking at the steps: for queues and references where no
conjunction is made (`NestsConditions`), for roles always.
`DestinationsAssumption` says that the names that are made up are not the
author's, which the code does not check.

**EventSources.** Events of one function share its role, buckets, pools and the
routes of an API with those of others, and the ids of what they make have the
owner and the number of the event in them (`IdsTell`). The invariant says, of
every event that is through: what it added is still there (`AddsThere`); its
bucket has its notification and waits for its permission (`BucketsTold`), and
has no others than such (`BucketsTell`); its trigger is in its pool
(`PoolsTell`), its route in its API (`RoutesTell`), its statements in its role
(`RolesTell`). References stay within an owner's resources (`RefsThere`). The
hypotheses of the theorems are those of section 6; they are about single
functions, but for `OwnPathTwice`. The lemmas `MakeStep` and `SettleStep` carry
the invariant over an event, or an end, of any kind; `MapTells`, `NotifyTells`,
`TriggerTells`, `AddRouteTells` and `AddResourcesTells` apply them to one kind
each, and the `Own...` lemmas say what it adds.

**Connectors.** A connector edits what others made, and what it must not disturb
is in the same place: so the invariant says what the whole template is, given
the connectors that are through (`Translated`). A resource of the author depends
on what was written, with these followed to what they became (`Followed`), and
on the policies it waits for (`WaitsOf`): `PlainAre`. What a connector made
depends on nothing but what was written of it, and if the template is `Early` on
just that, followed (`MadeAre`). A connector that is Early and depends on others
has one resource, so that the list is its own, and comes before them, so that
they find it in the template; this is where `OrderKept` needs the hypothesis,
and the only place where any of the three does. Which mappings wait is told by
the template alone (`DependentsAre`), as no connector makes one. For
`NoNewCircle`, each edge of the result comes from a written edge between the
things its ends came from (`EdgesWritten`), so that a set of resources that need
one another comes from a set of written things that do. `Acyclic` is about sets,
each of which has an element that needs none of them, and not about paths: no
induction is needed. `ConnectorsAssumption` says that resources and connectors
are the keys of one finite map, and that a template's order has each connector
once.

**ApiEvents.** While no function has failed, everything the plugin has is told
by the events it has been through (`Collected`), and everything in the
definitions by those the translation has (`Integrated`); once one has, nothing
but that there is a `Cause` is needed, as no such template is returned. Of two
events with one key `apiConditions` keeps the last one's condition; that this
loses nothing the plugin cannot know, but it follows later: two such events of a
managed API `Clash`, and the template is refused. Between the two phases
`ApiFollows` and `PathsFollow` say that API and path exist under just those
truths in which a function recorded for them does, whichever way their condition
came about: none (`SomeUnconditional`), the one that all share (`OneCondition`),
or the disjunction under a generated name (`Disjunction`). Generated names may
meet: the name of a path's condition has letters in place of slashes and braces,
so that `/{id}` and `/OBidCB` have one condition, that of whichever comes last.
The proof asked for this hypothesis, `SharesName`, before a run showed it: it
takes three conditions to see. `PathNames` shows that names of different APIs do
not meet. With merged definitions `RoutesReachable` needs `MergesBadly` away:
then no event's integration is replaced, dropped or mixed, and an author's
method is overlaid only by functions without a condition. `Meanings` keeps the
author's conditions from being replaced, which `ApiEventsAssumption` grants by
having the generated names apart from them.

**ApiDefinition.** An editor of the document is described once, by what it leaves
alone. `Kept` says that everything that was in the document is in its successor,
integrations of routes included; `Edited` that it has the same routes besides;
there is one lemma per editor, and those of an event, or of a generator's step,
follow by putting them one after the other (`KeptTwice`, `EditedTwice`). The
exceptions to `Kept` are three: an event puts its integration on its own route
(`EventPut`), definitions and models move to where OpenAPI 3 has them (`Moves`),
and the default path of an HTTP API gets a slash (`UpdateDefaultPathMoves`). For
the first the invariant has that the events' routes are not the author's
integrated ones (`PathsInv`, for which no method of the author's may be
integrated in part, `PartlyIntegrated`); for the second, where definitions and
models are at each step (`DefinitionsInv`, `ModelsInv`): the moves replace what is
there, so that nothing of the author's may be there when they happen. Everything
else only grows (`GrownInv`, `ServedInv`). For `PolicyCovers`, `PolicyInv` says
that the API's statements cover every route from the step that adds them on, as
none comes later, and the events' their own from the event on.

What a route asks of its callers is worked out in two steps, and `RoutesInv` says
after each of them what every definition of every method has: until the API's
defaults are worked in, an event's route has that event's integration,
credentials and security (`EventSecurity`), a route of the author's what he
wrote, one that CORS added what CORS gives it, and each definition is told by
just one of the three (`RoutesTold`); afterwards the same, with the security run
through `Final`, which is what the passes over the methods make of one method's
security. That a pass over all paths, items, methods and definitions does to each
what it does to one is a lemma per pass, as are the few facts about filters and
appended sequences that the security of a method is made with. `MadeInv` carries
this to the made definition, where paths of an HTTP API have new names.
`EventGuarded` and `AuthorGuarded` compare `Final` of what was told with what is
`Asked`; the hypotheses of `RoutesGuardedHolds` are what those comparisons
needed, and each is a behaviour of the code in section 6.

Names have invariants of their own. `PromisedInv` says which definitions the
events so far, and from the Auth step on the API, have put in (`Promised`), and
where: those of a REST API wait in the place they are moved from. A route's
security names what is promised or the author's (`RouteNames`, from the routes
as told), and `PromisedDefined` finds what is promised at the place its version
has for it. `NamedInv` says the same of models and validators, editor by editor:
no method names one before it is there. As what a route's security names follows
from the routes as told, the theorem has the hypotheses of `RoutesInv`, though
nothing shows that `NamesDefined` would fail without them. Three are only its
own: `LeavesDefinitions` is section 6's; `UndefinedNames` and `UndefinedModels`
say that the author names something that neither he nor the API or its events
define. The former is a little wide: where the author names just AWS_IAM, and
another authorizer is the default, it is the default's pass that defines
AWS_IAM, if that comes first (`swagger.py:616-619`). Some templates of the run
are of this kind: `NamesDefined` holds of them there, and is not proved for
them.

The assumption `ApiDefinitionAssumption` types the templates: documents have
their parts, and an event without Auth asks for nothing.

**Only model-checked.**

- `Terminates`: liveness under fairness is outside what the prover handles, as
  is `ENABLED`.
- The mutants, and the counterexample of section 6.

No module declares a RECURSIVE operator. Where the code recurses or loops, the
model takes one action per round (SarPlugin, CombinedCondition), so that what
would be induction over data becomes an invariant.

## 6. Disagreements found

One run shows a statement of the repository that the code breaks:

- **Two EDGE domains with one Route53 map** (`edge_domains`). The generator
  writes the first domain's distribution into the Route53 map it was given
  (`model/api/api_generator.py:823`), and Globals gives the same map to several
  APIs: the record of the second domain leads to the first one's distribution.
  `internal/schema_source/sam-docs.json:104` says that the default of
  `DistributionDomainName` is to use the API Gateway distribution.

The passing runs leave out templates for which a property fails. Where a set has
a name it is written down in the MC module, and can be put in a configuration in
place of `MCTemplates`, or it is a predicate of the component's module, or of
its proofs, that the theorems of section 5 have as a hypothesis: they say that
there are no other templates for which the property fails.

| left out | fails | what happens |
|---|---|---|
| `MergesTwice`, as `TwiceTemplates` (MCApiEvents) | `RoutesReachable` | with `MergeDefinitions` the check for duplicates looks at a definition that was just created (`push.py:865`): the second event at a path and method takes the route from the first, without an error |
| `MergesIntoOwn`, as `OverAuthorTemplates` (MCApiEvents) | `RoutesReachable` | with `MergeDefinitions`, a function with a condition at a method the author's body has: what is merged is one key, `Fn::If` (`swagger.py:177-179`), put beside the author's (`push.py:1057`), so that the method is `{…the author's keys, "Fn::If": …}` and no conditional |
| `NamesOwn`, as `OwnTemplates` (MCApiEvents) | `ApisFollowFunctions` | an event names the author's own `ServerlessRestApi`: the plugin takes its paths for the implicit API's and returns that instead of the author's |
| `MergesIntoNothing`, as `EmptyTemplates` (MCApiEvents) | `RoutesReachable` | `MergeDefinitions` with a body that has no paths: what is merged goes into a map that is dropped |
| `SharesName`, as `NamesakeTemplates` (MCApiEvents) | `RoutesReachable`, `ApisFollowFunctions` | the condition of a path is named after it with `SLASH`, `OB` and `CB` for `/`, `{` and `}` (`implicit_api_plugin.py:446`): of two paths of an API with one such name, and conditions that combine, both get the condition of the last |
| `SharingTemplates` (MCFunctionDestinations) | `QueuesAsWritten` | a destination without ARN in Globals: the queue made for the first function is written into the object all functions inherit (`sam_resources.py:533`), and the second gets none |
| `NestsConditions`, as `NestingTemplates` (MCFunctionDestinations) | `ReferencesFound`, `QueuesAsWritten` | a function with a condition and a generated queue under another one: `_make_and_conditions` gives `make_and_condition` references (`sam_resources.py:617`), which makes references of what it is given (`intrinsics.py:45-60`), so that the queue's condition is an `Fn::And` of `{"Condition": {"Condition": …}}`, which CloudFormation does not take; the expected output has it, `tests/translator/output/function_with_event_dest_conditional.json:9-22` |
| `RoleLosesCondition` | `RolesNeedFunctions` | a `Role` that is an `Fn::If` with `NoValue`: its condition replaces the function's on the generated role |
| `ImplicitTaken`, as `MCTakenByImplicitApi` (MCTranslator) | `NothingOverwritten` | the author has a resource `ServerlessRestApi` or `ServerlessHttpApi`, of whatever type, and a function with an event for the implicit API: the plugin puts its API over the author's (`implicit_api_plugin.py:137-139`) and puts that back only if no path was added (`:461-467`) |
| `MCTakenByCodeDeploy` (MCTranslator) | `NothingOverwritten` | a resource of the author has the logical id of the CodeDeploy application and is replaced |
| `MCSameGeneratedId` (MCTranslator) | `NothingOverwritten` | two resources generate one id (function `A` with event `BC`, `AB` with `C`; two connectors) and the later one wins |
| `TwoPoolTemplates` (MCEventSources) | `SourcesMayInvoke` | the permission of a Cognito event is named after the function alone (`push.py:1269`): of two pools the last may invoke it |
| `ConditionalTrigger` | `NothingDangles` | a user pool's trigger stays when its function's condition is false (the TODO at `push.py:1285`) |
| `PolicyNamesClash` | `RolesServeMappings` | two mappings of one kind whose policies have one name and different documents: only a policy with the same document is looked for (`pull.py:582-597`), so IAM refuses the role |
| `RootCertificate` | `RolesServeMappings` | a self-managed Kafka source with a `SERVER_ROOT_CA_CERTIFICATE` secret: the role is granted the secret of the login a second time, and not the certificate's (`pull.py:716-718`) |
| `OwnPathTwice` | `SourcesMayInvoke` | two functions at one path of an HTTP API with a definition of its own: the first keeps the route |
| not `Early`, as `ChainedTemplates` (MCConnectors) | `OrderKept` | all resources of a connector hold one list as DependsOn (`connector.py:75`): one replaced name replaces it for all, and a connector translated later leaves its name in the DependsOn of the earlier one's resources |
| not `ZonesAgree`, not `DomainsAgree` | `RecordsReachDomains`, `DomainsServeApis` | APIs of one zone or domain name with different conditions: a record set group has the condition of the first API of its zone (`api_generator.py:614`), a domain that of the last |
| not `DistributionsApart` | `RecordsReachDomains` | the run `edge_domains` |
| not `PathsApart` | `DomainsServeApis` | base paths `a-b` and `ab` of one API get one id (`api_generator.py:574`), and only the second a mapping |
| not `RoutesApart` | `RoutesServed` | WebSocket route keys that capitalise alike get one id, and the later replaces the earlier; an `AuthType` in small letters counts as NONE |
| `KeyOfPreflight` | `RoutesGuarded` | an OPTIONS event with a key loses it where preflight needs none (`swagger.py:681-682`) |
| `PartialIam` | `RoutesGuarded` | `AWS_IAM` as the default gives no credentials to an event whose Auth names no authorizer, and credentials without an authorizer to an OPTIONS event (`swagger.py:159-160`) |
| `UnheededDefault` | `RoutesGuarded` | a default authorizer of a REST API without `Authorizers` is ignored (`api_generator.py:1067`) |
| `OwnRoute`, `TwiceIntegrated` | `RoutesGuarded` | an event for a route that the author wrote, or two HttpApi events for one route of his document: one with Auth adds a second requirement (`open_api.py:360`) |
| `ReservedNames` | `RoutesGuarded` | an authorizer called `NONE`, `AWS_IAM`, `api_key` or `api_key_false` is taken for what these mean in a security section |
| `NoneAndMore` | `RoutesGuarded` | a method of the author's with `NONE` beside an authorizer: where there is a default, its pass takes both away (`swagger.py:594-606`) |
| `WrittenKey` | `RoutesGuarded` | a method of the author's with a key where the API has keys: the pass puts the API's in place of his, or neither: where he wrote `api_key_false`, and for preflight requests that need none (`swagger.py:662-683`) |
| `ReplacesComponents` | `NothingLost`, `NamesDefined` | the author's `components.securitySchemes` and `schemas` are replaced when `Authorizers` or `Models` are given (`api_generator.py:1377`, `:1388`) |
| `Misplaced`, `LeavesModels` | `NothingLost`, `NamesDefined` | definitions or models at the place of the other version: an OpenAPI 3 document with `securityDefinitions` or `definitions` keeps them only where they are moved, and with `OpenApiVersion` 2, or at an HTTP API, they are not (`api_generator.py:1370-1392`) |
| `LeavesDefinitions` | `NamesDefined` | likewise of definitions that are made: with `OpenApiVersion` 2 and an OpenAPI 3 document they stay where they are put (`api_generator.py:1370-1382`) |
| `PartlyIntegrated` | `NothingLost` | an event takes a route the author has integrated in one branch of a conditional path only: the check wants all of them (`open_api.py:136-156`) |
| `DefaultPathTwice` | `NothingLost` | an HTTP API with both `$default` and `/$default`: the one is put in the place of the other (`http_api_generator.py:232-243`) |
| `SlashedPolicy` | `PolicyCovers` | a statement about a path keeps a slash at its end, which API Gateway removes (`swagger.py:1012-1032`) |
| parameters but in code and names (MCPublishedVersions) | `ServedAsWritten`, `OldVersionsKept` | only the code has its parameters resolved before it is hashed: a setting, a state machine's name or a definition that changes by a parameter publishes nothing (`sam-docs.json:791` says a changed Environment does), and a layer whose content does is replaced under its id, the old one deleted; so it is with the names that `AutoPublishAliasAllProperties` hashes |
| `AutoPublishAliasAllProperties` that comes or goes with a `Delete` policy | `NothingInUseDeleted` | Lambda answers the new id with the version it has, which is deleted with the old id |

Two of SarPlugin and SharedUsagePlan are outside what the models have: the 105 s
budget, set "below" CloudFormation's two minutes
(`serverless_app_plugin.py:48`), counts sleeps and not the time of the calls
(`:391`); and the settings of a shared usage plan, which the documentation
advises to write on one API, are lost unless that API is translated last
(`api_generator.py:1168`). The loss of those settings and of changes made by
parameter were confirmed by running the code.

Read in the code while modelling, and not in a run:

- *Translator*: `document_errors` is not cleared between two `translate` calls; a
  long generated name is cut with the builtin `input`
  (`sam_resources.py:666`); condition names made from paths keep characters a
  logical id may not have; a generated name may meet one of the template, as
  `definition_substitution_1` may.
- *APIs*: the shared usage plan's `Fn::Or` is not split at ten operands; `/p` and
  `/p/` have one OPTIONS method; the second branch of a conditional path has the
  allowed methods of the first (`swagger.py:313-326`); `Authorizer: NONE` without
  a default stays in the definition; headers of OPTIONS responses are wrapped in
  `schema` up to three times (`api_generator.py:1418-1432`); `MergeDefinitions`
  drops the event's security definitions and policy (`push.py:1026-1063`); the
  method `any` is not normalised in a merged definition.
- *Domains and WebSocket APIs*: the WebSocket generator's groups go to a
  parameter of another name, and its domain gets no attributes
  (`sam_resources.py:1978`); APIs that share a zone add the same record twice.
- *Events*: `_link_policy` looks for a name in a policy that may be an `Fn::If`
  (`pull.py:259-261`); where the author's body already sends `$default` to the
  function, no permission is made, an event's or not (`push.py:1419-1424`); two
  events with one
  `QueueLogicalId` and different conditions, or one `QueuePolicyLogicalId` and two
  topics, replace one another's queue or policy; the `Enabled` of an
  `SqsSubscription` is ignored (`push.py:664`).
- *Connectors*: two connectors in opposite directions between resources that wait
  for them make a circle; a mapping to a function's alias is not found.
- *Versions*: a layer's `Condition` is part of what is hashed, so that changing
  it replaces the layer.

## 7. What is not modelled

- *Contents*: policy documents' actions, triggers, tags, filters, inputs,
  headers, wording of errors. They are carried through without a decision the
  properties could tell apart.
- *Names* are model values or tuples of their parts; that the parts can meet
  after concatenation is stated (`MCSameGeneratedId`), not explored.
- *Intrinsics resolver, policies of execution roles*: planned, section 8.
- *Simple tables, applications, GraphQL APIs, capacity providers*: generated
  from one resource without state that others see.
- *Implicit HTTP API plugin*: the code it shares with the REST one is in
  ApiEvents, what its events do to a definition in ApiDefinition; its `$default`
  path and route settings are not. Tags that implicit API plugins collect.
- *Resource model and property types, JSON schemas, parser checks*: stateless
  conversions and tables.
- *Metrics, feature toggle*: no decision of the translation reads the former, the
  latter is one lookup in a configuration loaded once.
- *Scripts in `bin/`, the integration deployer*: do not take part in a
  translation.

## 8. Plan

Further models:

1. **GlobalsMerge** — the whole merge (maps, lists, OpenAPI, `IgnoreGlobals`)
   as a recursive function over trees of bounded depth, against a reference:
   local wins, lists concatenate, each resource as if written out.
2. **Intrinsics** — the resolver as recursive functions over bounded trees,
   against a reference evaluation; that resolving twice changes nothing.
3. **ManagedPolicies** — lookup with the lazy fallback.
4. Two templates translated by one Translator, as SarPlugin has it already, for
   `document_errors` and the plugins' state.

Further proofs:

1. ApiDefinition: `NamesDefined` where only the default's pass brings the definition of
   AWS_IAM that a method of the author's names, which `UndefinedNames` leaves out.
2. ApiEvents and Connectors: that `TypeOK` holds, which their properties did not
   need.

To keep the set of runs small, a new module takes one passing run, and a
statement the code breaks gets a run only when no other shows the like.

## 9. Running it

    tlc -config SarPlugin.cfg MCSarPlugin.tla      # any run: X.cfg with its MC module
    tlapm TranslatorProofs.tla                     # any proof module

No run takes more than about a minute, no proof module more than a few
minutes but ApiDefinitionProofs, which takes about ten.
A configuration is named like its module; `EdgeDomains` is one of
MCApiResources.
