----------------------------- MODULE Translator -----------------------------
(***************************************************************************)
(* Translator.translate: one SAM template becomes one CloudFormation       *)
(* template.  Plugins edit the template first; embedded connectors become  *)
(* resources; then every SAM resource is replaced by what it generates,    *)
(* functions before the APIs their events edit and connectors last; errors *)
(* are collected on the way and decide, at the end, what is returned.      *)
(*                                                                         *)
(* A resource is its logical id and its kind; what a resource of a kind    *)
(* generates is the set of logical ids its template record lists.          *)
(***************************************************************************)
EXTENDS Naturals, Sequences

CONSTANTS
  Ids,           \* logical ids
  NoId,          \* no logical id
  ImplicitApis,  \* ServerlessRestApi and ServerlessHttpApi, by the plugin that adds
                 \* the API when events are for it
  CodeDeployIds, \* what the deployment preferences of a function generate
  PluginNames,   \* names of plugins
  PluginLists,   \* the plugins a caller may pass: a set of sequences of names
  Templates      \* the templates considered: a set of records, see TemplateType

CfnKinds    == {"bucket", "cfn"}
EventKinds  == {"function", "statemachine"}
SamKinds    == EventKinds \cup {"api", "layer", "other", "connector"}
GlobalKinds == EventKinds \cup {"api", "layer", "other"}

ImplicitPlugins == {"implicitRest", "implicitHttp"}

TemplateType ==
  [plugins    : PluginLists,          \* passed to the Translator
   kind       : [Ids -> CfnKinds \cup SamKinds \cup {"absent"}],
   ownBody    : SUBSET Ids,           \* APIs whose own definition events leave alone
   events     : [Ids -> SUBSET Ids],  \* APIs the events of a resource are for
   extra      : [Ids -> SUBSET Ids],  \* generated besides the resource itself
   newId      : [Ids -> Ids],         \* logical id a layer version gets
   connectors : SUBSET (Ids \X Ids),  \* <<source, source id + connector name>>
   deploys    : SUBSET Ids,           \* functions with a deployment preference
   refs       : SUBSET (Ids \X Ids)]  \* <<from, to>>: Ref, GetAtt, Sub, DependsOn

ASSUME TranslatorAssumption ==
  /\ NoId \notin Ids
  /\ ImplicitApis \in [ImplicitPlugins -> Ids]
  /\ CodeDeployIds \in [Ids -> SUBSET Ids]
  /\ Templates \subseteq TemplateType
  /\ Ids \cap {"absent", "sam", "cfn", "codedeploy"} = {}
  /\ {"app", "definitionBody", "globals", "policyTemplates"} \cup ImplicitPlugins
       \subseteq PluginNames
  /\ PluginLists \subseteq Seq(PluginNames)

(* prepare_plugins: the caller's plugins first, then the required ones.    *)
RequiredPlugins ==
  <<"definitionBody", "implicitRest", "implicitHttp", "globals", "policyTemplates">>

InstalledPlugins(customer) ==
  customer
    \o (IF \E i \in 1..Len(customer) : customer[i] = "app" THEN <<>> ELSE <<"app">>)
    \o RequiredPlugins

Distinct(names) == \A i, j \in 1..Len(names) : names[i] = names[j] => i = j

VARIABLES
  tpl,      \* the template as the caller wrote it, and the plugins passed
  phase,    \* the part of translate that runs
  plugin,   \* index in Plugins of the next before-template hook
  kind,     \* sam_template["Resources"]: kind of each logical id
  own,      \* ids with the resource that the caller wrote, hooks' edits included
  managed,  \* APIs whose definition events write into (__MANAGE_SWAGGER,
            \* MergeDefinitions)
  merged,   \* resources the Globals section has been merged into
  paths,    \* event sources with an integration in the definition of each API
  todo,     \* SAM resources the loop has still to translate
  out,      \* template["Resources"]: who each logical id comes from
  apiPaths, \* the definition with which each API was generated
  changed,  \* changed_logical_ids
  failed,   \* SAM resources whose translation raised
  errors,   \* document_errors is not empty
  outRefs,  \* references of the returned template
  verdict

vars == <<tpl, phase, plugin, kind, own, managed, merged, paths, todo, out, apiPaths,
          changed, failed, errors, outRefs, verdict>>

Plugins == InstalledPlugins(tpl.plugins)

docVars  == <<kind, own, managed, merged, paths>>
loopVars == <<todo, out, apiPaths, changed, failed>>

Init ==
  /\ tpl \in Templates
  /\ phase = "install"
  /\ plugin = 1
  /\ kind = tpl.kind
  /\ own = {i \in Ids : tpl.kind[i] # "absent"}
  /\ managed = {}
  /\ merged = {}
  /\ paths = [a \in Ids |-> {}]
  /\ todo = {}
  /\ out = [i \in Ids |-> "absent"]
  /\ apiPaths = [a \in Ids |-> {}]
  /\ changed = [i \in Ids |-> NoId]
  /\ failed = {}
  /\ errors = FALSE
  /\ outRefs = {}
  /\ verdict = "pending"

Finish(v) == phase' = "done" /\ verdict' = v

-----------------------------------------------------------------------------
(* SamPlugins.register refuses a plugin whose name is taken.               *)
InstallPlugins ==
  /\ phase = "install"
  /\ IF Distinct(Plugins)
       THEN phase' = "before" /\ UNCHANGED verdict
       ELSE Finish("crashed")
  /\ UNCHANGED <<tpl, plugin, docVars, loopVars, errors, outRefs>>

(* Events are for the API: those of a resource that has the API's own id   *)
(* are not read, for the plugin puts its API there first.                  *)
Implied_Always(id, k) == TRUE
Implied(id, k) == \E f \in Ids \ {id} : k[f] \in EventKinds /\ id \in tpl.events[f]

(* What the before-template hooks do to the template.  An implicit API     *)
(* takes the place of what the template has under its id; the caller's own *)
(* is put back when no path was added, and only then.                      *)
HookEffect(p) ==
  CASE p = "definitionBody" ->
         /\ managed' = managed \cup {a \in Ids : kind[a] = "api" /\ a \notin tpl.ownBody}
         /\ UNCHANGED <<kind, own, merged, paths>>
    [] p \in ImplicitPlugins ->
         /\ IF Implied(ImplicitApis[p], kind)
              THEN /\ kind' = [kind EXCEPT ![ImplicitApis[p]] = "api"]
                   /\ own' = own \ {ImplicitApis[p]}
                   /\ managed' = managed \cup {ImplicitApis[p]}
              ELSE UNCHANGED <<kind, own, managed>>
         /\ UNCHANGED <<merged, paths>>
    [] p = "globals" ->
         /\ merged' = {i \in Ids : kind[i] \in GlobalKinds}
         /\ UNCHANGED <<kind, own, managed, paths>>
    [] OTHER -> UNCHANGED docVars

RunBeforeHook ==
  /\ phase = "before"
  /\ plugin <= Len(Plugins)
  /\ HookEffect(Plugins[plugin])
  /\ plugin' = plugin + 1
  /\ UNCHANGED <<tpl, phase, loopVars, errors, outRefs, verdict>>

(* A hook that raises ends the translation: nothing is collected here.     *)
BeforeHookRaises ==
  /\ phase = "before"
  /\ plugin <= Len(Plugins)
  /\ \E v \in {"invalid", "crashed"} : Finish(v)
  /\ UNCHANGED <<tpl, plugin, docVars, loopVars, errors, outRefs>>

-----------------------------------------------------------------------------
(* _get_embedded_connectors and the copy of the template: a connector whose*)
(* full id names a resource, or that is not of the right form, is an error;*)
(* the others are added, and the loop will visit the SAM resources.        *)
LoopResources_NoConnectors(k) == {i \in Ids : k[i] \in SamKinds \ {"connector"}}
LoopResources(k) == {i \in Ids : k[i] \in SamKinds}

AddEmbeddedConnectors ==
  /\ phase = "before"
  /\ plugin > Len(Plugins)
  /\ \E malformed \in SUBSET tpl.connectors :
       LET refused == {c \in tpl.connectors : kind[c[2]] # "absent"}
           added   == {c[2] : c \in tpl.connectors \ (refused \cup malformed)}
       IN  /\ kind' = [i \in Ids |-> IF i \in added THEN "connector" ELSE kind[i]]
           /\ errors' = (refused \cup malformed # {})
  /\ todo' = LoopResources(kind')
  /\ out' = [i \in Ids |-> CASE kind'[i] \in SamKinds -> "sam"
                             [] kind'[i] \in CfnKinds -> "cfn"
                             [] OTHER -> "absent"]
  /\ phase' = "loop"
  /\ UNCHANGED <<tpl, plugin, own, managed, merged, paths, apiPaths, changed, failed,
                 outRefs, verdict>>

-----------------------------------------------------------------------------
(* _get_resources_to_iterate: functions, state machines, APIs, the others, *)
(* connectors; within a kind, the order of the template, which may be any. *)
Rank_ApisFirst(k) ==
  CASE k = "function" -> 2 [] k = "statemachine" -> 3 [] k = "api" -> 1
    [] k = "connector" -> 5 [] OTHER -> 4
Rank_ConnectorsFirst(k) ==
  CASE k = "function" -> 2 [] k = "statemachine" -> 3 [] k = "api" -> 4
    [] k = "connector" -> 1 [] OTHER -> 5
Rank(k) ==
  CASE k = "function" -> 1 [] k = "statemachine" -> 2 [] k = "api" -> 3
    [] k = "connector" -> 5 [] OTHER -> 4

NextInLoop(r) ==
  /\ phase = "loop"
  /\ r \in todo
  /\ \A s \in todo : Rank(kind[r]) <= Rank(kind[s])
  /\ todo' = todo \ {r}

NewId_Forgotten(r) == r
NewId(r) == IF kind[r] = "layer" THEN tpl.newId[r] ELSE r

(* What to_cloudformation returns for r: the resource itself, under its    *)
(* new id if it has one, and what is generated with it.                    *)
Translated(r) ==
  tpl.extra[r] \cup (IF kind[r] = "connector" THEN {}
                     ELSE IF kind[r] = "layer" THEN {tpl.newId[r]} ELSE {r})

(* verify_unique_logical_id looks at the template before the transform; a  *)
(* resource may replace itself, or be returned edited (an event's bucket). *)
Unique(i, r) == kind[i] \in {"absent", "bucket"} \/ i = r

(* The APIs whose definition the events of r write into.                   *)
EditedApis(r) ==
  IF kind[r] \in EventKinds
    THEN {a \in tpl.events[r] : kind[a] = "api" /\ a \in managed} ELSE {}

AddPaths(r, apis) ==
  paths' = [a \in Ids |-> IF a \in apis THEN paths[a] \cup {r} ELSE paths[a]]

(* The SAM resource is deleted before what it generates is added.          *)
Replace_DeletesLast(r, new) ==
  [i \in Ids |-> IF i = r THEN "absent" ELSE IF i \in new THEN r ELSE out[i]]
Replace(r, new) ==
  [i \in Ids |-> IF i \in new THEN r ELSE IF i = r THEN "absent" ELSE out[i]]

TranslateResource(r) ==
  /\ NextInLoop(r)
  /\ AddPaths(r, EditedApis(r))
  /\ apiPaths' = IF kind[r] = "api" THEN [apiPaths EXCEPT ![r] = paths[r]] ELSE apiPaths
  /\ changed' = IF NewId(r) # r THEN [changed EXCEPT ![r] = NewId(r)] ELSE changed
  /\ LET good == {i \in Translated(r) : Unique(i, r)}
     IN  out' = Replace(r, good) /\ errors' = (errors \/ good # Translated(r))
  /\ UNCHANGED <<tpl, phase, plugin, kind, own, managed, merged, failed, outRefs, verdict>>

(* An invalid resource, or an invalid event of it: collected, and the      *)
(* resource stays; its first events may already have edited their APIs.    *)
TranslateFails(r) ==
  /\ NextInLoop(r)
  /\ \E apis \in SUBSET EditedApis(r) : AddPaths(r, apis)
  /\ failed' = failed \cup {r}
  /\ errors' = TRUE
  /\ UNCHANGED <<tpl, phase, plugin, kind, own, managed, merged, out, apiPaths, changed,
                 outRefs, verdict>>

TranslateCrashes(r) ==
  /\ NextInLoop(r)
  /\ Finish("crashed")
  /\ UNCHANGED <<tpl, plugin, docVars, out, apiPaths, changed, failed, errors,
                 outRefs>>

-----------------------------------------------------------------------------
(* After the loop: the CodeDeploy resources are added without any check of *)
(* their ids; an invalid deployment group is one more error.  A function   *)
(* that failed may have registered its preference before it did.           *)
Deploying == {f \in Ids : kind[f] = "function" /\ f \in tpl.deploys}

AddDeploymentPreferences ==
  /\ phase = "loop"
  /\ todo = {}
  /\ \E early \in SUBSET (Deploying \cap failed) :
       LET added == (Deploying \ failed) \cup early
           ids   == UNION {CodeDeployIds[f] : f \in added}
       IN  /\ out' = [i \in Ids |-> IF i \in ids THEN "codedeploy" ELSE out[i]]
           /\ errors' \in {errors, errors \/ added # {}}
  /\ phase' = "after"
  /\ UNCHANGED <<tpl, plugin, docVars, todo, apiPaths, changed, failed, outRefs,
                 verdict>>

(* The after-template hooks: the first one that raises ends them, and its  *)
(* error joins the others unless it is of a kind nobody expects.           *)
RunAfterHooks ==
  /\ phase = "after"
  /\ \/ errors' \in {errors, TRUE} /\ phase' = "resolve" /\ UNCHANGED verdict
     \/ Finish("crashed") /\ UNCHANGED errors
  /\ UNCHANGED <<tpl, plugin, docVars, loopVars, outRefs>>

(* ResolveDependsOn and resolve_sam_resource_id_refs follow the ids that   *)
(* changed; or the collected errors are raised.                            *)
Resolved(i) == IF changed[i] # NoId THEN changed[i] ELSE i

Conclude ==
  /\ phase = "resolve"
  /\ IF errors
       THEN Finish("invalid") /\ UNCHANGED outRefs
       ELSE /\ Finish("ok")
            /\ outRefs' = {<<Resolved(e[1]), Resolved(e[2])>> : e \in tpl.refs}
  /\ UNCHANGED <<tpl, plugin, docVars, loopVars, errors>>

Next ==
  \/ InstallPlugins \/ RunBeforeHook \/ BeforeHookRaises \/ AddEmbeddedConnectors
  \/ \E r \in Ids : TranslateResource(r) \/ TranslateFails(r) \/ TranslateCrashes(r)
  \/ AddDeploymentPreferences \/ RunAfterHooks \/ Conclude

Spec == Init /\ [][Next]_vars

-----------------------------------------------------------------------------
TypeOK ==
  /\ tpl \in Templates
  /\ phase \in {"install", "before", "loop", "after", "resolve", "done"}
  /\ plugin \in 1..(Len(Plugins) + 1)
  /\ kind \in [Ids -> CfnKinds \cup SamKinds \cup {"absent"}]
  /\ own \subseteq Ids
  /\ managed \subseteq Ids
  /\ merged \subseteq Ids
  /\ paths \in [Ids -> SUBSET Ids]
  /\ todo \subseteq {i \in Ids : kind[i] \in SamKinds}
  /\ out \in [Ids -> Ids \cup {"absent", "sam", "cfn", "codedeploy"}]
  /\ apiPaths \in [Ids -> SUBSET Ids]
  /\ changed \in [Ids -> Ids \cup {NoId}]
  /\ failed \subseteq Ids
  /\ errors \in BOOLEAN
  /\ verdict \in {"pending", "ok", "invalid", "crashed"}

(* A returned template holds no SAM resource, the connectors written inside*)
(* other resources and the implicit API included.                          *)
NoSamResourceLeft == verdict = "ok" => \A i \in Ids : out[i] # "sam"

(* The definition a returned API was generated from has the integration of *)
(* every function and state machine with an event for it.                  *)
ApisComplete ==
  verdict = "ok" =>
    \A f, a \in Ids : (kind[f] \in EventKinds /\ a \in EditedApis(f)) => f \in apiPaths[a]

(* Connectors are translated when the resources they connect have been     *)
(* replaced by what they generate, but for those in error.                 *)
ConnectorsSeeOutput ==
  [][\A c \in todo \ todo' : kind[c] = "connector" =>
       \A i \in Ids : out[i] = "sam" => kind[i] = "connector" \/ i \in failed]_vars

(* Whatever is translated has had Globals merged, the API that a plugin    *)
(* added to the template too.                                              *)
GlobalsReachAll ==
  phase = "loop" => \A i \in todo : kind[i] \in GlobalKinds => i \in merged

(* No reference of a returned template was left behind by a resource that  *)
(* is gone: what it names is there, a layer version under its new id too.  *)
(* (A connector never was a resource one can refer to.)                    *)
RefsFollowIds ==
  verdict = "ok" =>
    \A e \in outRefs : out[e[2]] = "absent" => kind[e[2]] \in {"absent", "connector"}

(* The generated ids do not meet: those of two SAM resources, but for the  *)
(* buckets that the events of both edit, those of CodeDeploy and of others,*)
(* and the full ids of two embedded connectors.  The code does not look.   *)
IdsApart ==
  LET Sam == {r \in Ids : kind[r] \in SamKinds}
      Deployed == UNION {CodeDeployIds[f] : f \in Deploying}
  IN  /\ \A r, s \in Sam : r # s => \A i \in Translated(r) \cap Translated(s) : kind[i] = "bucket"
      /\ \A i \in Deployed : kind[i] # "cfn" /\ \A r \in Sam : i \notin Translated(r)
      /\ \A c, d \in tpl.connectors : c[2] = d[2] => c = d

(* The caller has a resource of their own under the id of an implicit API  *)
(* that events are for.  The code does not look at this either.            *)
ImplicitTaken ==
  \E p \in ImplicitPlugins :
    tpl.kind[ImplicitApis[p]] # "absent" /\ Implied(ImplicitApis[p], tpl.kind)

(* DuplicateLogicalIdException: raised when a transformation adds a        *)
(* resource with a logical id which already exists.  So no resource takes  *)
(* the place of another: every resource of the template the caller passed  *)
(* goes through the hooks, those of CloudFormation are returned, and so is *)
(* everything that each SAM resource and embedded connector generated.     *)
NothingOverwritten ==
  verdict = "ok" =>
    /\ \A i \in Ids : tpl.kind[i] # "absent" => i \in own
    /\ \A i \in Ids : tpl.kind[i] = "cfn" => out[i] = "cfn"
    /\ \A r \in Ids : kind[r] \in SamKinds =>
         \A i \in Translated(r) : kind[i] = "bucket" \/ out[i] = r
    /\ \A c, d \in tpl.connectors : c[2] = d[2] => c = d
=============================================================================
