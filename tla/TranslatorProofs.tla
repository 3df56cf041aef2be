-------------------------- MODULE TranslatorProofs --------------------------
(***************************************************************************)
(* Theorems about Translator, for any logical ids, any templates and any   *)
(* plugins of the caller: types, and what a returned template has gone     *)
(* through.  Then about SarPlugin, the plugin of a Translator that depends *)
(* on a service, for any resources, pairs, budget and behaviour of the     *)
(* repository.  The two have no name in common.                            *)
(***************************************************************************)
EXTENDS Translator, SarPlugin, SequenceTheorems, TLAPS

(* The loop has begun and no exception has ended it.                       *)
Live == phase \in {"loop", "after", "resolve", "done"} /\ verdict \in {"pending", "ok"}

PluginsDistinct == phase = "before" => Distinct(Plugins)

GlobalsMerged ==
  \/ phase = "before" /\ \E k \in 1..(plugin - 1) : Plugins[k] = "globals"
  \/ Live
  => \A i \in Ids : kind[i] \in GlobalKinds => i \in merged

(* Where the parts of translate leave the control variables; an error      *)
(* found anywhere ends in the verdict "invalid".                           *)
Control ==
  /\ failed # {} => errors
  /\ phase \in {"install", "before"} => 
       failed = {} /\ todo = {} /\ changed = [i \in Ids |-> NoId]
  /\ phase = "install" => plugin = 1
  /\ phase \in {"after", "resolve"} => todo = {}
  /\ verdict = "ok" => ~errors /\ phase = "done" /\ todo = {}
  /\ verdict = "pending" <=> phase # "done"

SamOutWaits == Live => \A i \in Ids : out[i] = "sam" => i \in todo \cup failed

EventsInPaths ==
  Live /\ ~errors =>
    \A f, a \in Ids : (kind[f] \in EventKinds /\ f \notin todo /\ a \in EditedApis(f))
                       => f \in paths[a]

ApisAfterEvents ==
  Live /\ ~errors =>
    \A a \in Ids : (kind[a] = "api" /\ a \notin todo) =>
      /\ apiPaths[a] = paths[a]
      /\ \A f \in Ids : kind[f] \in EventKinds => f \notin todo

(* What disappears from the template has another id, and that id stays.    *)
GoneHasMoved ==
  Live /\ ~errors =>
    /\ \A i \in Ids : out[i] = "absent" =>
         kind[i] \in {"absent", "connector"} \/ changed[i] # NoId
    /\ \A i \in Ids : changed[i] # NoId =>
         kind[changed[i]] \in {"absent", "bucket"} /\ out[changed[i]] # "absent"

RefsResolved ==
  verdict = "ok" => outRefs = {<<Resolved(e[1]), Resolved(e[2])>> : e \in tpl.refs}

IInv ==
  /\ TypeOK
  /\ PluginsDistinct
  /\ GlobalsMerged
  /\ Control
  /\ SamOutWaits
  /\ EventsInPaths
  /\ ApisAfterEvents
  /\ GoneHasMoved
  /\ RefsResolved

-----------------------------------------------------------------------------
(* The required plugins close the list, so among plugins with distinct     *)
(* names the implicit API plugin runs before the one that merges Globals.  *)
LEMMA RequiredAtEnd ==
  ASSUME NEW customer \in Seq(PluginNames)
  PROVE  /\ InstalledPlugins(customer) \in Seq(PluginNames)
         /\ \E n \in Nat :
              /\ Len(InstalledPlugins(customer)) = n + 5
              /\ InstalledPlugins(customer)[n + 2] = "implicitRest"
              /\ InstalledPlugins(customer)[n + 3] = "implicitHttp"
              /\ InstalledPlugins(customer)[n + 4] = "globals"
<1> DEFINE app == IF \E i \in 1..Len(customer) : customer[i] = "app" THEN <<>> ELSE <<"app">>
           prefix == customer \o app
           req == RequiredPlugins
<1>1. app \in Seq(PluginNames)
  <2>1. <<"app">> \in Seq(PluginNames) /\ <<>> \in Seq(PluginNames)
    BY TranslatorAssumption
  <2> QED
    BY <2>1, Zenon
<1>2. prefix \in Seq(PluginNames)
  BY <1>1
<1>3. /\ req \in Seq(PluginNames) /\ Len(req) = 5
      /\ req[2] = "implicitRest" /\ req[3] = "implicitHttp" /\ req[4] = "globals"
  BY TranslatorAssumption DEF RequiredPlugins, ImplicitPlugins
<1>4. InstalledPlugins(customer) = prefix \o req
  BY DEF InstalledPlugins
<1>5. prefix \o req \in Seq(PluginNames)
  BY <1>2, <1>3
<1>6. /\ Len(prefix) \in Nat
      /\ Len(prefix \o req) = Len(prefix) + 5
      /\ (prefix \o req)[Len(prefix) + 2] = req[2]
      /\ (prefix \o req)[Len(prefix) + 3] = req[3]
      /\ (prefix \o req)[Len(prefix) + 4] = req[4]
  <2> HIDE DEF prefix, req
  <2>1. \A i \in 1..(Len(prefix) + Len(req)) :
          (prefix \o req)[i] = IF i <= Len(prefix) THEN prefix[i] ELSE req[i - Len(prefix)]
    BY <1>2, <1>3, ConcatProperties, Zenon
  <2>2. Len(prefix \o req) = Len(prefix) + Len(req)
    BY <1>2, <1>3, ConcatProperties, Zenon
  <2> QED
    BY <2>1, <2>2, <1>2, <1>3
<1> QED
  <2> HIDE DEF prefix, req
  <2> QED
    BY <1>3, <1>4, <1>5, <1>6

(* The implicit API plugins are called before the globals plugin.          *)
LEMMA PluginOrder ==
  ASSUME NEW customer \in Seq(PluginNames), Distinct(InstalledPlugins(customer)),
         NEW j \in 1..Len(InstalledPlugins(customer)),
         NEW k \in 1..Len(InstalledPlugins(customer)),
         InstalledPlugins(customer)[j] \in ImplicitPlugins,
         InstalledPlugins(customer)[k] = "globals"
  PROVE  j < k
<1>1. PICK n \in Nat : /\ Len(InstalledPlugins(customer)) = n + 5
                       /\ InstalledPlugins(customer)[n + 2] = "implicitRest"
                       /\ InstalledPlugins(customer)[n + 3] = "implicitHttp"
                       /\ InstalledPlugins(customer)[n + 4] = "globals"
  BY RequiredAtEnd
<1>2. j \in {n + 2, n + 3} /\ k = n + 4
  BY <1>1 DEF Distinct, ImplicitPlugins
<1> QED
  BY <1>2

(* The fields of a template, and the plugins installed for it.             *)
LEMMA TemplateFields ==
  ASSUME tpl \in Templates
  PROVE  /\ tpl.plugins \in Seq(PluginNames)
         /\ tpl.kind \in [Ids -> CfnKinds \cup SamKinds \cup {"absent"}]
         /\ tpl.events \in [Ids -> SUBSET Ids]
         /\ tpl.extra \in [Ids -> SUBSET Ids]
         /\ tpl.newId \in [Ids -> Ids]
         /\ tpl.connectors \subseteq Ids \X Ids
         /\ tpl.refs \subseteq Ids \X Ids
         /\ Plugins \in Seq(PluginNames)
         /\ Len(Plugins) \in Nat
<1>1. tpl \in TemplateType /\ PluginLists \subseteq Seq(PluginNames)
  BY TranslatorAssumption
<1>2. tpl.plugins \in Seq(PluginNames)
  BY <1>1 DEF TemplateType
<1>3. Plugins \in Seq(PluginNames)
  BY <1>2, RequiredAtEnd DEF Plugins
<1> QED
  BY <1>1, <1>2, <1>3 DEF TemplateType

-----------------------------------------------------------------------------
(* The invariant holds when translate is called.                           *)
LEMMA InitIInv == Init => IInv
<1> SUFFICES ASSUME Init PROVE IInv
  OBVIOUS
<1>1. tpl \in Templates
  BY DEF Init
<1>2. TypeOK
  <2>1. /\ tpl.kind \in [Ids -> CfnKinds \cup SamKinds \cup {"absent"}]
        /\ Len(Plugins) \in Nat
    BY <1>1, TemplateFields
  <2>2. kind \in [Ids -> CfnKinds \cup SamKinds \cup {"absent"}]
    BY <2>1 DEF Init
  <2>3. plugin \in 1..(Len(Plugins) + 1)
    BY <2>1 DEF Init
  <2>4. out \in [Ids -> Ids \cup {"absent", "sam", "cfn", "codedeploy"}]
    BY DEF Init
  <2> QED
    BY <1>1, <2>2, <2>3, <2>4 DEF Init, TypeOK
<1> QED
  BY <1>1, <1>2 DEF Init, IInv, PluginsDistinct, GlobalsMerged, Control,
     SamOutWaits, EventsInPaths, ApisAfterEvents, GoneHasMoved, RefsResolved, Live

(* What the loop's actions have in common.                                 *)
LEMMA LoopFacts ==
  ASSUME TypeOK, NEW r \in Ids, NextInLoop(r)
  PROVE  /\ phase = "loop" /\ r \in todo /\ todo' = todo \ {r}
         /\ kind[r] \in SamKinds
BY DEF TypeOK, NextInLoop

(* Every step of translate keeps the types.                                *)
LEMMA TypeStep == TypeOK /\ [Next]_vars => TypeOK'
<1> SUFFICES ASSUME TypeOK, [Next]_vars PROVE TypeOK'
  OBVIOUS
<1>1. tpl \in Templates
  BY DEF TypeOK
<1> DEFINE Fields == /\ tpl.kind \in [Ids -> CfnKinds \cup SamKinds \cup {"absent"}]
                     /\ tpl.events \in [Ids -> SUBSET Ids]
                     /\ tpl.extra \in [Ids -> SUBSET Ids]
                     /\ tpl.newId \in [Ids -> Ids]
                     /\ tpl.connectors \subseteq Ids \X Ids
                     /\ Len(Plugins) \in Nat
<1>2. Fields
  BY <1>1, TemplateFields
<1>3. tpl' = tpl => Plugins' = Plugins
  BY DEF Plugins
<1>4. Ids \cap {"absent", "sam", "cfn", "codedeploy"} = {} /\ ImplicitApis \in [ImplicitPlugins -> Ids]
      /\ CodeDeployIds \in [Ids -> SUBSET Ids]
  BY TranslatorAssumption
<1> HIDE DEF Fields
<1>5. CASE InstallPlugins
  BY <1>3, <1>5 DEF TypeOK, InstallPlugins, Finish, docVars, loopVars
<1>6. CASE RunBeforeHook
  <2>1. HookEffect(Plugins[plugin]) => 
          /\ kind' \in [Ids -> CfnKinds \cup SamKinds \cup {"absent"}]
          /\ \A i \in Ids : kind[i] \in SamKinds => kind'[i] \in SamKinds
          /\ own' \subseteq Ids /\ managed' \subseteq Ids /\ merged' \subseteq Ids
          /\ paths' = paths
    BY <1>4 DEF TypeOK, HookEffect, docVars, CfnKinds, SamKinds, EventKinds
  <2>2. plugin' \in 1..(Len(Plugins) + 1)
    BY <1>2, <1>6 DEF TypeOK, RunBeforeHook, Fields
  <2> QED
    BY <1>3, <1>6, <2>1, <2>2 DEF TypeOK, RunBeforeHook, loopVars
<1>7. CASE BeforeHookRaises
  BY <1>3, <1>7 DEF TypeOK, BeforeHookRaises, Finish, docVars, loopVars
<1>8. CASE AddEmbeddedConnectors
  <2>1. /\ kind' \in [Ids -> CfnKinds \cup SamKinds \cup {"absent"}]
        /\ errors' \in BOOLEAN
    BY <1>8 DEF TypeOK, AddEmbeddedConnectors, SamKinds
  <2>2. todo' \subseteq {i \in Ids : kind'[i] \in SamKinds}
    BY <1>8 DEF AddEmbeddedConnectors, LoopResources
  <2>3. out' \in [Ids -> Ids \cup {"absent", "sam", "cfn", "codedeploy"}]
    BY <1>8 DEF AddEmbeddedConnectors
  <2>4. phase' = "loop" /\ UNCHANGED <<tpl, plugin, own, managed, merged, paths, apiPaths,
                                      changed, failed, outRefs, verdict>>
    BY <1>8 DEF AddEmbeddedConnectors
  <2> QED
    BY <1>3, <2>1, <2>2, <2>3, <2>4 DEF TypeOK
<1>9. ASSUME NEW r \in Ids, TranslateResource(r) PROVE TypeOK'
  <2>1. todo' = todo \ {r}
    BY <1>9, LoopFacts DEF TranslateResource
  <2>2. paths' \in [Ids -> SUBSET Ids] /\ apiPaths' \in [Ids -> SUBSET Ids]
    BY <1>9 DEF TypeOK, TranslateResource, AddPaths
  <2>3. changed' \in [Ids -> Ids \cup {NoId}]
    BY <1>2, <1>9 DEF TypeOK, TranslateResource, NewId, Fields
  <2>4. out' \in [Ids -> Ids \cup {"absent", "sam", "cfn", "codedeploy"}]
    BY <1>9 DEF TypeOK, TranslateResource, Replace
  <2>5. errors' \in BOOLEAN
    BY <1>9 DEF TypeOK, TranslateResource
  <2> QED
    BY <1>3, <1>9, <2>1, <2>2, <2>3, <2>4, <2>5 DEF TypeOK, TranslateResource
<1>10. ASSUME NEW r \in Ids, TranslateFails(r) PROVE TypeOK'
  <2>1. todo' = todo \ {r}
    BY <1>10, LoopFacts DEF TranslateFails
  <2>2. paths' \in [Ids -> SUBSET Ids]
    BY <1>10 DEF TypeOK, TranslateFails, AddPaths
  <2> QED
    BY <1>3, <1>10, <2>1, <2>2 DEF TypeOK, TranslateFails
<1>11. ASSUME NEW r \in Ids, TranslateCrashes(r) PROVE TypeOK'
  <2>1. todo' = todo \ {r}
    BY <1>11, LoopFacts DEF TranslateCrashes
  <2> QED
    BY <1>3, <1>11, <2>1 DEF TypeOK, TranslateCrashes, Finish, docVars
<1>12. CASE AddDeploymentPreferences
  <2>1. out' \in [Ids -> Ids \cup {"absent", "sam", "cfn", "codedeploy"}]
    BY <1>12 DEF TypeOK, AddDeploymentPreferences
  <2>2. errors' \in BOOLEAN
    BY <1>12 DEF TypeOK, AddDeploymentPreferences
  <2> QED
    BY <1>3, <1>12, <2>1, <2>2 DEF TypeOK, AddDeploymentPreferences, docVars
<1>13. CASE RunAfterHooks
  BY <1>3, <1>13 DEF TypeOK, RunAfterHooks, Finish, docVars, loopVars
<1>14. CASE Conclude
  BY <1>3, <1>14 DEF TypeOK, Conclude, Finish, docVars, loopVars
<1>15. CASE UNCHANGED vars
  BY <1>3, <1>15 DEF TypeOK, vars
<1> QED
  BY <1>5, <1>6, <1>7, <1>8, <1>9, <1>10, <1>11, <1>12, <1>13, <1>14, <1>15 DEF Next

-----------------------------------------------------------------------------
(* The steps that end the translation, or come before the loop ...         *)
LEMMA StepsOutside ==
  ASSUME \/ InstallPlugins \/ RunBeforeHook \/ BeforeHookRaises
         \/ \E r \in Ids : TranslateCrashes(r),
         TypeOK, Control
  PROVE  ~Live' /\ verdict' # "ok"
BY DEF InstallPlugins, RunBeforeHook, BeforeHookRaises, TranslateCrashes, NextInLoop,
   Finish, Live, TypeOK, Control

(* ... and those that leave the template as it is.                         *)
LEMMA QuietSteps ==
  ASSUME RunAfterHooks \/ Conclude \/ UNCHANGED vars, TypeOK, Control
  PROVE  /\ UNCHANGED <<tpl, kind, own, managed, merged, paths, todo, out, apiPaths,
                       changed, failed>>
         /\ Live' => Live
         /\ ~errors' => ~errors
<1>1. UNCHANGED <<tpl, kind, own, managed, merged, paths, todo, out, apiPaths, changed,
                  failed>>
  BY DEF RunAfterHooks, Conclude, vars, docVars, loopVars
<1>2. Live' => Live
  BY DEF RunAfterHooks, Conclude, vars, Finish, Live, TypeOK, Control
<1>3. errors' = errors \/ errors'
  BY DEF RunAfterHooks, Conclude, vars
<1> QED
  BY <1>1, <1>2, <1>3

(* The hooks run only with plugins of different names.                     *)
LEMMA PluginsStep == IInv /\ [Next]_vars => PluginsDistinct'
<1> SUFFICES ASSUME IInv, [Next]_vars, phase' = "before" PROVE Distinct(Plugins)'
  BY DEF PluginsDistinct
<1>1. \/ InstallPlugins /\ Distinct(Plugins)
      \/ RunBeforeHook \/ UNCHANGED vars
  BY DEF Next, InstallPlugins, BeforeHookRaises, AddEmbeddedConnectors,
     TranslateResource, TranslateFails, TranslateCrashes, NextInLoop, Finish,
     AddDeploymentPreferences, RunAfterHooks, Conclude
<1>2. tpl' = tpl
  BY <1>1 DEF InstallPlugins, RunBeforeHook, vars
<1>3. Plugins' = Plugins
  BY <1>2 DEF Plugins
<1>4. Distinct(Plugins)
  BY <1>1 DEF IInv, PluginsDistinct, RunBeforeHook, vars
<1> QED
  BY <1>3, <1>4 DEF Distinct

(* Control variables, and errors that are never forgotten.                 *)
LEMMA ErrorsStep == IInv /\ [Next]_vars => Control'
<1> SUFFICES ASSUME IInv, [Next]_vars PROVE Control'
  OBVIOUS
<1> USE DEF Control
<1>1. TypeOK /\ Control
  BY DEF IInv
<1>2. CASE InstallPlugins \/ RunBeforeHook \/ BeforeHookRaises
  BY <1>1, <1>2 DEF TypeOK, InstallPlugins, RunBeforeHook, BeforeHookRaises, Finish,
     loopVars
<1>3. CASE AddEmbeddedConnectors
  BY <1>1, <1>3 DEF AddEmbeddedConnectors
<1>4. ASSUME NEW r \in Ids, TranslateResource(r) PROVE Control'
  BY <1>1, <1>4 DEF TypeOK, TranslateResource, NextInLoop
<1>5. ASSUME NEW r \in Ids, TranslateFails(r) PROVE Control'
  BY <1>1, <1>5 DEF TypeOK, TranslateFails, NextInLoop
<1>6. ASSUME NEW r \in Ids, TranslateCrashes(r) PROVE Control'
  BY <1>1, <1>6 DEF TypeOK, TranslateCrashes, NextInLoop, Finish
<1>7. CASE AddDeploymentPreferences
  BY <1>1, <1>7 DEF TypeOK, AddDeploymentPreferences
<1>8. CASE RunAfterHooks
  BY <1>1, <1>8 DEF TypeOK, RunAfterHooks, Finish, loopVars
<1>9. CASE Conclude
  BY <1>1, <1>9 DEF TypeOK, Conclude, Finish, loopVars
<1>10. CASE UNCHANGED vars
  BY <1>1, <1>10 DEF vars
<1> QED
  BY <1>2, <1>3, <1>4, <1>5, <1>6, <1>7, <1>8, <1>9, <1>10 DEF Next

(* Globals: nothing adds a SAM resource of a global kind after the merge.  *)
LEMMA GlobalsStep == IInv /\ [Next]_vars => GlobalsMerged'
<1> SUFFICES ASSUME IInv, [Next]_vars PROVE GlobalsMerged'
  OBVIOUS
<1>1. TypeOK /\ Control /\ GlobalsMerged /\ PluginsDistinct
  BY DEF IInv
<1>2. PICK customer \in Seq(PluginNames) : Plugins = InstalledPlugins(customer)
  BY <1>1, TemplateFields DEF TypeOK, Plugins
<1>3. CASE InstallPlugins
  <2>1. plugin' = plugin /\ plugin = 1
    BY <1>1, <1>3 DEF InstallPlugins, Control
  <2> QED
    BY <1>3, <2>1, StepsOutside, <1>1 DEF GlobalsMerged
<1>4. CASE RunBeforeHook
  <2>1. /\ phase = "before" /\ phase' = "before" /\ plugin' = plugin + 1
        /\ plugin \in 1..Len(Plugins) /\ tpl' = tpl
        /\ HookEffect(Plugins[plugin])
    BY <1>1, <1>4 DEF RunBeforeHook, TypeOK
  <2>2. Plugins' = Plugins /\ Len(Plugins) \in Nat /\ Distinct(Plugins)
    BY <1>1, <2>1, TemplateFields DEF Plugins, PluginsDistinct, TypeOK
  <2> SUFFICES ASSUME NEW k \in 1..plugin, Plugins[k] = "globals"
               PROVE  \A i \in Ids : kind'[i] \in GlobalKinds => i \in merged'
    BY <2>1, <2>2, <1>4, StepsOutside, <1>1 DEF GlobalsMerged
  <2>3. CASE Plugins[plugin] = "globals"
    BY <2>1, <2>3 DEF HookEffect
  <2>4. CASE Plugins[plugin] # "globals"
    <3>1. k \in 1..(plugin - 1)
      BY <2>1, <2>2, <2>4
    <3>2. Plugins[plugin] \notin ImplicitPlugins
      BY <1>2, <2>1, <2>2, <3>1, PluginOrder
    <3>3. kind' = kind /\ merged' = merged
      BY <2>1, <2>4, <3>2 DEF HookEffect, docVars
    <3> QED
      BY <1>1, <2>1, <3>1, <3>3 DEF GlobalsMerged
  <2> QED
    BY <2>3, <2>4
<1>5. CASE BeforeHookRaises
  <2>1. phase' = "done"
    BY <1>5 DEF BeforeHookRaises, Finish
  <2> QED
    BY <1>1, <1>5, <2>1, StepsOutside DEF GlobalsMerged
<1>6. CASE AddEmbeddedConnectors
  <2>1. PICK n \in Nat : Len(Plugins) = n + 5 /\ Plugins[n + 4] = "globals"
    BY <1>2, RequiredAtEnd
  <2>2. phase = "before" /\ n + 4 \in 1..(plugin - 1)
    BY <1>1, <1>6, <2>1 DEF AddEmbeddedConnectors, TypeOK
  <2>3. \A i \in Ids : kind[i] \in GlobalKinds => i \in merged
    BY <1>1, <2>1, <2>2 DEF GlobalsMerged
  <2>4. merged' = merged /\ \A i \in Ids : kind'[i] \in {kind[i], "connector"}
    BY <1>6 DEF AddEmbeddedConnectors
  <2> QED
    BY <2>3, <2>4 DEF GlobalsMerged, GlobalKinds, EventKinds
<1>7. ASSUME NEW r \in Ids, TranslateResource(r) \/ TranslateFails(r)
      PROVE  GlobalsMerged'
  <2>1. UNCHANGED <<kind, merged, phase, verdict>> /\ phase = "loop"
    BY <1>7 DEF TranslateResource, TranslateFails, NextInLoop
  <2> QED
    BY <1>1, <2>1 DEF GlobalsMerged, Live
<1>8. CASE \E r \in Ids : TranslateCrashes(r)
  <2>1. phase' = "done"
    BY <1>8 DEF TranslateCrashes, Finish
  <2> QED
    BY <1>1, <1>8, <2>1, StepsOutside DEF GlobalsMerged
<1>9. CASE AddDeploymentPreferences
  <2>1. UNCHANGED <<kind, merged, verdict>> /\ phase = "loop" /\ phase' = "after"
    BY <1>9 DEF AddDeploymentPreferences, docVars
  <2> QED
    BY <1>1, <2>1 DEF GlobalsMerged, Live
<1>10. CASE RunAfterHooks \/ Conclude
  <2>1. phase' # "before"
    BY <1>10 DEF RunAfterHooks, Conclude, Finish
  <2> QED
    BY <1>1, <1>10, <2>1, QuietSteps DEF GlobalsMerged
<1>11. CASE UNCHANGED vars
  <2>1. Plugins' = Plugins
    BY <1>11 DEF vars, Plugins
  <2> QED
    BY <1>1, <1>11, <2>1 DEF GlobalsMerged, Live, vars
<1> QED
  BY <1>3, <1>4, <1>5, <1>6, <1>7, <1>8, <1>9, <1>10, <1>11 DEF Next

(* What is still a SAM resource of the output waits in the loop or failed. *)
LEMMA SamOutStep == IInv /\ [Next]_vars => SamOutWaits'
<1> SUFFICES ASSUME IInv, [Next]_vars PROVE SamOutWaits'
  OBVIOUS
<1>1. TypeOK /\ Control /\ SamOutWaits
  BY DEF IInv
<1>2. CASE InstallPlugins \/ RunBeforeHook \/ BeforeHookRaises
           \/ \E r \in Ids : TranslateCrashes(r)
  BY <1>1, <1>2, StepsOutside DEF SamOutWaits
<1>3. CASE RunAfterHooks \/ Conclude \/ UNCHANGED vars
  BY <1>1, <1>3, QuietSteps DEF SamOutWaits
<1>4. CASE AddEmbeddedConnectors
  <2>1. todo' = {i \in Ids : kind'[i] \in SamKinds}
    BY <1>4 DEF AddEmbeddedConnectors, LoopResources
  <2>2. \A i \in Ids : out'[i] = "sam" => kind'[i] \in SamKinds
    BY <1>4 DEF AddEmbeddedConnectors
  <2> QED
    BY <2>1, <2>2 DEF SamOutWaits
<1>5. ASSUME NEW r \in Ids, TranslateResource(r) PROVE SamOutWaits'
  <2>1. Live /\ todo' = todo \ {r} /\ failed' = failed
    BY <1>1, <1>5, LoopFacts DEF TranslateResource, Live, Control
  <2>2. "sam" \notin Ids
    BY TranslatorAssumption
  <2>3. \A i \in Ids : out'[i] = "sam" => out[i] = "sam" /\ i # r
    BY <1>5, <2>2 DEF TranslateResource, Replace
  <2> QED
    BY <1>1, <2>1, <2>3 DEF SamOutWaits
<1>6. ASSUME NEW r \in Ids, TranslateFails(r) PROVE SamOutWaits'
  <2>1. Live /\ todo' = todo \ {r} /\ failed' = failed \cup {r} /\ out' = out
    BY <1>1, <1>6, LoopFacts DEF TranslateFails, Live, Control
  <2> QED
    BY <1>1, <2>1 DEF SamOutWaits
<1>7. CASE AddDeploymentPreferences
  <2>1. Live /\ UNCHANGED <<todo, failed>>
    BY <1>1, <1>7 DEF AddDeploymentPreferences, Live, Control
  <2>2. \A i \in Ids : out'[i] = "sam" => out[i] = "sam"
    BY <1>7 DEF AddDeploymentPreferences
  <2> QED
    BY <1>1, <2>1, <2>2 DEF SamOutWaits
<1> QED
  BY <1>2, <1>3, <1>4, <1>5, <1>6, <1>7 DEF Next

(* An event of a function or state machine that translated is in the API.  *)
LEMMA EventsStep == IInv /\ [Next]_vars => EventsInPaths'
<1> SUFFICES ASSUME IInv, [Next]_vars PROVE EventsInPaths'
  OBVIOUS
<1>1. TypeOK /\ Control /\ EventsInPaths
  BY DEF IInv
<1>2. CASE InstallPlugins \/ RunBeforeHook \/ BeforeHookRaises
           \/ \E r \in Ids : TranslateCrashes(r)
  BY <1>1, <1>2, StepsOutside DEF EventsInPaths
<1>3. UNCHANGED <<tpl, kind, managed>> =>
        \A f \in Ids : EditedApis(f)' = EditedApis(f)
  BY DEF EditedApis
<1>4. CASE RunAfterHooks \/ Conclude \/ UNCHANGED vars
  BY <1>1, <1>3, <1>4, QuietSteps DEF EventsInPaths
<1>5. CASE AddEmbeddedConnectors
  <2>1. todo' = {i \in Ids : kind'[i] \in SamKinds}
    BY <1>5 DEF AddEmbeddedConnectors, LoopResources
  <2> QED
    BY <2>1 DEF EventsInPaths, SamKinds
<1>6. ASSUME NEW r \in Ids, TranslateResource(r) PROVE EventsInPaths'
  <2>1. /\ Live /\ todo' = todo \ {r} /\ UNCHANGED <<tpl, kind, managed>>
        /\ ~errors' => ~errors
        /\ AddPaths(r, EditedApis(r))
    BY <1>1, <1>6, LoopFacts DEF TranslateResource, Live, Control
  <2>2. \A f, a \in Ids : f \in paths[a] \/ (f = r /\ a \in EditedApis(r))
                            => f \in paths'[a]
    BY <1>1, <2>1 DEF AddPaths, TypeOK
  <2>3. \A f \in Ids : EditedApis(f)' = EditedApis(f)
    BY <1>3, <2>1
  <2> SUFFICES ASSUME Live, ~errors, NEW f \in Ids, NEW a \in Ids,
                      kind[f] \in EventKinds, f \notin todo', a \in EditedApis(f)
               PROVE  f \in paths'[a]
    BY <2>1, <2>3 DEF EventsInPaths
  <2>4. f = r \/ f \in paths[a]
    BY <1>1, <2>1 DEF EventsInPaths
  <2>5. f = r => a \in EditedApis(r)
    OBVIOUS
  <2> QED
    BY <2>2, <2>4, <2>5, Zenon
<1>7. ASSUME NEW r \in Ids, TranslateFails(r) PROVE EventsInPaths'
  <2>1. errors'
    BY <1>7 DEF TranslateFails
  <2> QED
    BY <2>1 DEF EventsInPaths
<1>8. CASE AddDeploymentPreferences
  <2>1. Live /\ UNCHANGED <<tpl, kind, managed, todo, paths>>
    BY <1>1, <1>8 DEF AddDeploymentPreferences, Live, Control, docVars
  <2>2. ~errors' => ~errors
    BY <1>8 DEF AddDeploymentPreferences
  <2>3. \A f \in Ids : EditedApis(f)' = EditedApis(f)
    BY <1>3, <2>1
  <2> QED
    BY <1>1, <2>1, <2>2, <2>3 DEF EventsInPaths
<1> QED
  BY <1>2, <1>4, <1>5, <1>6, <1>7, <1>8 DEF Next

(* An API is translated when no function and no state machine is left.     *)
LEMMA ApisStep == IInv /\ [Next]_vars => ApisAfterEvents'
<1> SUFFICES ASSUME IInv, [Next]_vars PROVE ApisAfterEvents'
  OBVIOUS
<1>1. TypeOK /\ Control /\ ApisAfterEvents
  BY DEF IInv
<1>2. CASE InstallPlugins \/ RunBeforeHook \/ BeforeHookRaises
           \/ \E r \in Ids : TranslateCrashes(r)
  BY <1>1, <1>2, StepsOutside DEF ApisAfterEvents
<1>3. CASE RunAfterHooks \/ Conclude \/ UNCHANGED vars
  BY <1>1, <1>3, QuietSteps DEF ApisAfterEvents
<1>4. CASE AddEmbeddedConnectors
  <2>1. todo' = {i \in Ids : kind'[i] \in SamKinds}
    BY <1>4 DEF AddEmbeddedConnectors, LoopResources
  <2> QED
    BY <2>1 DEF ApisAfterEvents, SamKinds
<1>5. ASSUME NEW r \in Ids, TranslateResource(r), Live', ~errors',
             NEW a \in Ids, kind'[a] = "api", a \notin todo'
      PROVE  /\ apiPaths'[a] = paths'[a]
             /\ \A f \in Ids : kind'[f] \in EventKinds => f \notin todo'
  <2>1. /\ Live /\ r \in todo /\ todo' = todo \ {r} /\ kind' = kind /\ ~errors
        /\ AddPaths(r, EditedApis(r))
    BY <1>1, <1>5, LoopFacts DEF TranslateResource, Live, Control
  <2>2. CASE a = r
    <3>1. \A s \in todo : Rank(kind[r]) <= Rank(kind[s])
      BY <1>5 DEF TranslateResource, NextInLoop
    <3>2. \A f \in Ids : kind[f] \in EventKinds => f \notin todo
      BY <1>5, <2>1, <2>2, <3>1 DEF Rank, EventKinds
    <3>3. paths' = paths
      BY <1>1, <1>5, <2>1, <2>2 DEF AddPaths, EditedApis, EventKinds, TypeOK
    <3>4. apiPaths'[a] = paths[a]
      BY <1>1, <1>5, <2>1, <2>2 DEF TranslateResource, TypeOK
    <3> QED
      BY <2>1, <3>2, <3>3, <3>4
  <2>3. CASE a # r
    <3>1. a \notin todo /\ kind[a] = "api"
      BY <1>5, <2>1, <2>3
    <3>2. apiPaths[a] = paths[a] /\ \A f \in Ids : kind[f] \in EventKinds => f \notin todo
      BY <1>1, <2>1, <3>1 DEF ApisAfterEvents
    <3>3. kind[r] \notin EventKinds
      BY <2>1, <3>2
    <3>4. paths' = paths
      BY <1>1, <2>1, <3>3 DEF AddPaths, EditedApis, TypeOK
    <3>5. apiPaths'[a] = apiPaths[a]
      BY <1>1, <1>5, <2>3 DEF TranslateResource, TypeOK
    <3> QED
      BY <2>1, <3>2, <3>4, <3>5
  <2> QED
    BY <2>2, <2>3
<1>6. ASSUME NEW r \in Ids, TranslateFails(r) PROVE ApisAfterEvents'
  BY <1>6 DEF TranslateFails, ApisAfterEvents
<1>7. CASE AddDeploymentPreferences
  <2>1. Live /\ UNCHANGED <<kind, todo, paths, apiPaths>>
    BY <1>1, <1>7 DEF AddDeploymentPreferences, Live, Control, docVars
  <2>2. ~errors' => ~errors
    BY <1>7 DEF AddDeploymentPreferences
  <2> QED
    BY <1>1, <2>1, <2>2 DEF ApisAfterEvents
<1>8. (\E r \in Ids : TranslateResource(r)) => ApisAfterEvents'
  BY <1>5 DEF ApisAfterEvents
<1> QED
  BY <1>2, <1>3, <1>4, <1>6, <1>7, <1>8 DEF Next

(* What a resource is replaced by stays, and so does where it went.        *)
LEMMA GoneStep == IInv /\ [Next]_vars => GoneHasMoved'
<1> SUFFICES ASSUME IInv, [Next]_vars PROVE GoneHasMoved'
  OBVIOUS
<1>1. TypeOK /\ Control /\ GoneHasMoved
  BY DEF IInv
<1> DEFINE Here == \A i \in Ids : out[i] = "absent" =>
                     kind[i] \in {"absent", "connector"} \/ changed[i] # NoId
           There == \A i \in Ids : changed[i] # NoId =>
                      kind[changed[i]] \in {"absent", "bucket"} /\ out[changed[i]] # "absent"
<1>2. Ids \cap {"absent", "sam", "cfn", "codedeploy"} = {} /\ NoId \notin Ids
  BY TranslatorAssumption
<1>3. CASE InstallPlugins \/ RunBeforeHook \/ BeforeHookRaises
           \/ \E r \in Ids : TranslateCrashes(r)
  BY <1>1, <1>3, StepsOutside DEF GoneHasMoved
<1>4. CASE RunAfterHooks \/ Conclude \/ UNCHANGED vars
  BY <1>1, <1>4, QuietSteps DEF GoneHasMoved
<1>5. CASE AddEmbeddedConnectors
  <2>1. changed' = [i \in Ids |-> NoId]
    BY <1>1, <1>5 DEF AddEmbeddedConnectors, Control
  <2>2. kind' \in [Ids -> CfnKinds \cup SamKinds \cup {"absent"}]
    BY <1>1, TypeStep DEF TypeOK
  <2>3. \A i \in Ids : out'[i] = "absent" => kind'[i] = "absent"
    BY <1>5, <2>2 DEF AddEmbeddedConnectors
  <2> QED
    BY <2>1, <2>3 DEF GoneHasMoved
<1>6. ASSUME NEW r \in Ids, TranslateResource(r), Live', ~errors'
      PROVE  Here' /\ There'
  <2>1. Live /\ kind' = kind /\ ~errors /\ kind[r] \in SamKinds
    BY <1>1, <1>6, LoopFacts DEF TranslateResource, Live, Control
  <2>2. Here /\ There
    BY <1>1, <2>1 DEF GoneHasMoved
  <2>3. \A i \in Translated(r) : Unique(i, r)
    BY <1>6 DEF TranslateResource
  <2>4. /\ \A i \in Ids : i \in Translated(r) => out'[i] = r
        /\ \A i \in Ids : i \notin Translated(r) /\ i # r => out'[i] = out[i]
        /\ \A i \in Ids : i \notin Translated(r) /\ i = r => out'[i] = "absent"
    BY <1>6, <2>3 DEF TranslateResource, Replace
  <2>5. r # "absent" /\ r # NoId
    BY <1>2
  <2>6. tpl.newId \in [Ids -> Ids]
    BY <1>1, TemplateFields DEF TypeOK
  <2>7. /\ NewId(r) \in Ids
        /\ NewId(r) # r => kind[r] = "layer" /\ NewId(r) \in Translated(r)
        /\ r \notin Translated(r) => kind[r] = "connector" \/ NewId(r) # r
    BY <2>6 DEF NewId, Translated
  <2>8. /\ NewId(r) # r => changed'[r] = NewId(r)
        /\ \A i \in Ids : i # r \/ NewId(r) = r => changed'[i] = changed[i]
    BY <1>1, <1>6, <2>7 DEF TranslateResource, TypeOK
  <2>9. Here'
    <3> SUFFICES ASSUME NEW i \in Ids, out'[i] = "absent"
                 PROVE  kind[i] \in {"absent", "connector"} \/ changed'[i] # NoId
      BY <2>1
    <3>1. CASE i = r
      BY <1>2, <2>4, <2>5, <2>7, <2>8, <3>1
    <3>2. CASE i # r
      BY <2>2, <2>4, <2>5, <2>8, <3>2
    <3> QED
      BY <3>1, <3>2
  <2>10. There'
    <3> SUFFICES ASSUME NEW i \in Ids, changed'[i] # NoId
                 PROVE  /\ kind[changed'[i]] \in {"absent", "bucket"}
                        /\ out'[changed'[i]] # "absent"
      BY <2>1
    <3>1. CASE i = r /\ NewId(r) # r
      BY <2>3, <2>4, <2>5, <2>7, <2>8, <3>1 DEF Unique
    <3>2. CASE i # r \/ NewId(r) = r
      <4>1. changed'[i] = changed[i] /\ changed[i] \in Ids
        BY <1>1, <2>8, <3>2 DEF TypeOK
      <4>2. kind[changed[i]] \in {"absent", "bucket"} /\ out[changed[i]] # "absent"
        BY <2>2, <4>1
      <4>3. changed[i] # r
        BY <2>1, <4>2 DEF SamKinds, EventKinds
      <4> QED
        BY <2>4, <2>5, <4>1, <4>2, <4>3
    <3> QED
      BY <3>1, <3>2
  <2> QED
    BY <2>9, <2>10
<1>7. ASSUME NEW r \in Ids, TranslateFails(r) PROVE GoneHasMoved'
  <2>1. errors'
    BY <1>7 DEF TranslateFails
  <2> QED
    BY <2>1 DEF GoneHasMoved
<1>8. CASE AddDeploymentPreferences
  <2>1. Live /\ UNCHANGED <<kind, changed>>
    BY <1>1, <1>8 DEF AddDeploymentPreferences, Live, Control, docVars
  <2>2. ~errors' => ~errors
    BY <1>8 DEF AddDeploymentPreferences
  <2>3. \A i \in Ids : out'[i] = "absent" => out[i] = "absent"
    BY <1>8 DEF AddDeploymentPreferences
  <2>4. \A i \in Ids : changed[i] # NoId => changed[i] \in Ids
    BY <1>1 DEF TypeOK
  <2> QED
    BY <1>1, <2>1, <2>2, <2>3, <2>4 DEF GoneHasMoved
<1>9. (\E r \in Ids : TranslateResource(r)) => GoneHasMoved'
  BY <1>6 DEF GoneHasMoved
<1> QED
  BY <1>3, <1>4, <1>5, <1>7, <1>8, <1>9 DEF Next

(* The references of the returned template are the template's, resolved.   *)
LEMMA RefsStep == IInv /\ [Next]_vars => RefsResolved'
<1> SUFFICES ASSUME IInv, [Next]_vars, verdict' = "ok"
             PROVE  outRefs' = {<<Resolved(e[1])', Resolved(e[2])'>> : e \in tpl'.refs}
  BY DEF RefsResolved
<1>1. Control /\ RefsResolved
  BY DEF IInv
<1>2. (Conclude /\ ~errors) \/ UNCHANGED vars
  BY <1>1 DEF Next, InstallPlugins, RunBeforeHook, BeforeHookRaises,
     AddEmbeddedConnectors, TranslateResource, TranslateFails, TranslateCrashes,
     NextInLoop, Finish, AddDeploymentPreferences, RunAfterHooks, Conclude, Control
<1>3. UNCHANGED <<tpl, changed>>
  BY <1>2 DEF Conclude, loopVars, vars
<1>4. outRefs' = {<<Resolved(e[1]), Resolved(e[2])>> : e \in tpl.refs}
  BY <1>1, <1>2 DEF Conclude, RefsResolved, vars
<1> QED
  BY <1>3, <1>4 DEF Resolved

(* The invariant of a translation, from which the rest follows.           *)
THEOREM SpecIInv == Spec => []IInv
<1>1. Init => IInv
  BY InitIInv
<1>2. IInv /\ [Next]_vars => IInv'
  <2> SUFFICES ASSUME IInv, [Next]_vars PROVE IInv'
    OBVIOUS
  <2>1. TypeOK'
    BY TypeStep DEF IInv
  <2> QED
    BY <2>1, PluginsStep, GlobalsStep, ErrorsStep, SamOutStep, EventsStep, ApisStep,
       GoneStep, RefsStep DEF IInv
<1> QED
  BY <1>1, <1>2, PTL DEF Spec

-----------------------------------------------------------------------------
(* Types, for any templates.                                               *)
THEOREM Typed == Spec => []TypeOK
<1>1. IInv => TypeOK
  BY DEF IInv
<1> QED
  BY <1>1, SpecIInv, PTL

(* A returned template holds no SAM resource.                              *)
THEOREM NothingSamIsReturned == Spec => []NoSamResourceLeft
<1>1. IInv => NoSamResourceLeft
  <2> SUFFICES ASSUME IInv, verdict = "ok" PROVE \A i \in Ids : out[i] # "sam"
    BY DEF NoSamResourceLeft
  <2>1. Control /\ SamOutWaits
    BY DEF IInv
  <2>2. Live /\ todo = {} /\ failed = {}
    BY <2>1 DEF Control, Live
  <2> QED
    BY <2>1, <2>2 DEF SamOutWaits
<1> QED
  BY <1>1, SpecIInv, PTL

(* The definition of a returned API has all its events.                    *)
THEOREM ReturnedApisAreComplete == Spec => []ApisComplete
<1>1. IInv => ApisComplete
  <2> SUFFICES ASSUME IInv, verdict = "ok", NEW f \in Ids, NEW a \in Ids,
                      kind[f] \in EventKinds, a \in EditedApis(f)
               PROVE  f \in apiPaths[a]
    BY DEF ApisComplete
  <2>1. Control /\ EventsInPaths /\ ApisAfterEvents
    BY DEF IInv
  <2>2. Live /\ todo = {} /\ ~errors
    BY <2>1 DEF Control, Live
  <2>3. f \in paths[a]
    BY <2>1, <2>2 DEF EventsInPaths
  <2>4. kind[a] = "api"
    BY DEF EditedApis
  <2> QED
    BY <2>1, <2>2, <2>3, <2>4 DEF ApisAfterEvents
<1> QED
  BY <1>1, SpecIInv, PTL

(* Globals reach all that is translated, plugins' resources included.      *)
THEOREM GlobalsReachEverything == Spec => []GlobalsReachAll
<1>1. IInv => GlobalsReachAll
  <2> SUFFICES ASSUME IInv, phase = "loop"
               PROVE  \A i \in todo : kind[i] \in GlobalKinds => i \in merged
    BY DEF GlobalsReachAll
  <2>1. TypeOK /\ Control /\ GlobalsMerged
    BY DEF IInv
  <2>2. Live /\ todo \subseteq Ids
    BY <2>1 DEF Control, Live, TypeOK
  <2> QED
    BY <2>1, <2>2 DEF GlobalsMerged
<1> QED
  BY <1>1, SpecIInv, PTL

(* References of a returned template follow the ids that changed.          *)
THEOREM ReferencesAreFollowed == Spec => []RefsFollowIds
<1>1. IInv => RefsFollowIds
  <2> SUFFICES ASSUME IInv, verdict = "ok", NEW e \in outRefs, out[e[2]] = "absent"
               PROVE  kind[e[2]] \in {"absent", "connector"}
    BY DEF RefsFollowIds
  <2>1. TypeOK /\ Control /\ GoneHasMoved /\ RefsResolved
    BY DEF IInv
  <2>2. Live /\ ~errors
    BY <2>1 DEF Control, Live
  <2>3. PICK d \in tpl.refs : e = <<Resolved(d[1]), Resolved(d[2])>>
    BY <2>1 DEF RefsResolved
  <2>4. d[2] \in Ids
    BY <2>1, TemplateFields DEF TypeOK
  <2>5. e[2] = Resolved(d[2])
    BY <2>3
  <2>6. changed[d[2]] = NoId /\ e[2] = d[2]
    BY <2>1, <2>2, <2>4, <2>5 DEF GoneHasMoved, Resolved
  <2> QED
    BY <2>1, <2>2, <2>4, <2>6 DEF GoneHasMoved
<1> QED
  BY <1>1, SpecIInv, PTL

-----------------------------------------------------------------------------
(* Where the generated ids do not meet, what the template had stays, and   *)
(* what was generated of a resource stays: its ids were those of nothing   *)
(* else when they were checked, and no later resource generates them.      *)
OutAsTranslated ==
  IdsApart /\ Live =>
    /\ \A i \in Ids : kind[i] = "cfn" => out[i] = "cfn"
    /\ ~errors => \A r \in Ids \ todo : kind[r] \in SamKinds =>
         \A i \in Translated(r) : Unique(i, r) /\ (kind[i] = "bucket" \/ out[i] = r)

(* What an id is generated of follows from the template alone.             *)
LEMMA SameIds ==
  ASSUME UNCHANGED <<tpl, kind>>
  PROVE  /\ \A r : Translated(r)' = Translated(r)
         /\ \A i, r : Unique(i, r)' = Unique(i, r)
         /\ IdsApart' = IdsApart
<1>1. \A r : Translated(r)' = Translated(r)
  BY DEF Translated
<1>2. \A i, r : Unique(i, r)' = Unique(i, r)
  BY DEF Unique
<1> QED
  BY <1>1, <1>2 DEF IdsApart, Deploying, Translated

(* A resource is translated to resources with known ids.                   *)
LEMMA TranslatedIds ==
  ASSUME tpl \in Templates, NEW r \in Ids
  PROVE  Translated(r) \subseteq Ids
  BY TemplateFields DEF Translated

(* Every step of translate leaves the output as it was translated.         *)
LEMMA OutStep == IInv /\ OutAsTranslated /\ [Next]_vars => OutAsTranslated'
<1> SUFFICES ASSUME IInv, OutAsTranslated, [Next]_vars PROVE OutAsTranslated'
  OBVIOUS
<1>1. TypeOK /\ Control
  BY DEF IInv
<1>2. CASE InstallPlugins \/ RunBeforeHook \/ BeforeHookRaises
           \/ \E r \in Ids : TranslateCrashes(r)
  BY <1>1, <1>2, StepsOutside DEF OutAsTranslated
<1>3. CASE RunAfterHooks \/ Conclude \/ UNCHANGED vars
  <2>1. UNCHANGED <<tpl, kind, todo, out>> /\ (Live' => Live) /\ (~errors' => ~errors)
    BY <1>1, <1>3, QuietSteps
  <2>2. /\ \A r : Translated(r)' = Translated(r)
        /\ \A i, r : Unique(i, r)' = Unique(i, r)
        /\ IdsApart' = IdsApart
    BY <2>1, SameIds
  <2> QED
    BY <2>1, <2>2 DEF OutAsTranslated
<1>4. CASE AddEmbeddedConnectors
  <2>1. /\ todo' = {i \in Ids : kind'[i] \in SamKinds}
        /\ \A i \in Ids : kind'[i] = "cfn" => out'[i] = "cfn"
    BY <1>4 DEF AddEmbeddedConnectors, LoopResources, CfnKinds, SamKinds, EventKinds
  <2> QED
    BY <2>1 DEF OutAsTranslated
<1>5. ASSUME NEW r \in Ids, TranslateResource(r) PROVE OutAsTranslated'
  <2>1. /\ Live /\ r \in todo /\ todo' = todo \ {r} /\ kind[r] \in SamKinds
        /\ UNCHANGED <<tpl, kind>> /\ (~errors' => ~errors)
    BY <1>1, <1>5, LoopFacts DEF TranslateResource, Live, Control
  <2>2. PICK good : /\ good = {i \in Translated(r) : Unique(i, r)}
                    /\ out' = Replace(r, good) /\ errors' = (errors \/ good # Translated(r))
    BY <1>5 DEF TranslateResource
  <2>3. \A i \in Ids : out'[i] = IF i \in good THEN r ELSE IF i = r THEN "absent" ELSE out[i]
    BY <2>2 DEF Replace
  <2> SUFFICES ASSUME IdsApart
               PROVE  /\ \A i \in Ids : kind[i] = "cfn" => out'[i] = "cfn"
                      /\ ~errors' => \A s \in Ids \ todo' : kind[s] \in SamKinds =>
                           \A i \in Translated(s) : Unique(i, s) /\ (kind[i] = "bucket" \/ out'[i] = s)
    <3>1. /\ \A s : Translated(s)' = Translated(s)
          /\ \A i, s : Unique(i, s)' = Unique(i, s)
          /\ IdsApart' = IdsApart
      BY <2>1, SameIds
    <3> QED
      BY <2>1, <3>1 DEF OutAsTranslated
  <2>4. ASSUME NEW i \in Ids, kind[i] = "cfn" PROVE out'[i] = "cfn"
    <3>1. i # r /\ i \notin good
      BY <2>1, <2>2, <2>4 DEF Unique, SamKinds, EventKinds
    <3> QED
      BY <2>1, <2>3, <2>4, <3>1 DEF OutAsTranslated
  <2>5. ASSUME ~errors', NEW s \in Ids \ todo', kind[s] \in SamKinds, NEW i \in Translated(s)
        PROVE  Unique(i, s) /\ (kind[i] = "bucket" \/ out'[i] = s)
    <3>1. i \in Ids /\ good = Translated(r) /\ ~errors
      BY <1>1, <2>2, <2>5, TranslatedIds DEF TypeOK
    <3>2. CASE s = r
      BY <2>2, <2>3, <3>1, <3>2
    <3>3. CASE s # r
      <4>1. Unique(i, s) /\ (kind[i] = "bucket" \/ out[i] = s)
        BY <2>1, <2>5, <3>1, <3>3 DEF OutAsTranslated
      <4>2. i # r
        BY <2>1, <3>3, <4>1 DEF Unique, SamKinds, EventKinds
      <4>3. i \in good => kind[i] = "bucket"
        BY <2>1, <2>5, <3>1, <3>3 DEF IdsApart
      <4> QED
        BY <2>3, <3>1, <4>1, <4>2, <4>3
    <3> QED
      BY <3>2, <3>3
  <2> QED
    BY <2>4, <2>5
<1>6. ASSUME NEW r \in Ids, TranslateFails(r) PROVE OutAsTranslated'
  <2>1. Live /\ errors' /\ UNCHANGED <<tpl, kind, out>>
    BY <1>1, <1>6, LoopFacts DEF TranslateFails, Live, Control
  <2>2. IdsApart' = IdsApart
    BY <2>1, SameIds
  <2> QED
    BY <2>1, <2>2 DEF OutAsTranslated
<1>7. CASE AddDeploymentPreferences
  <2>1. Live /\ UNCHANGED <<tpl, kind, todo>> /\ (~errors' => ~errors)
    BY <1>1, <1>7 DEF AddDeploymentPreferences, Live, Control, docVars
  <2>2. PICK ids \in SUBSET UNION {CodeDeployIds[f] : f \in Deploying} :
          out' = [i \in Ids |-> IF i \in ids THEN "codedeploy" ELSE out[i]]
    <3>1. PICK early \in SUBSET (Deploying \cap failed) :
            out' = [i \in Ids |-> IF i \in UNION {CodeDeployIds[f] : f \in (Deploying \ failed) \cup early}
                                 THEN "codedeploy" ELSE out[i]]
      BY <1>7 DEF AddDeploymentPreferences
    <3>2. UNION {CodeDeployIds[f] : f \in (Deploying \ failed) \cup early}
            \in SUBSET UNION {CodeDeployIds[f] : f \in Deploying}
      OBVIOUS
    <3> QED
      BY <3>1, <3>2
  <2>3. IdsApart => \A i \in ids :
          kind[i] # "cfn" /\ \A r \in Ids : kind[r] \in SamKinds => i \notin Translated(r)
    BY <2>2 DEF IdsApart
  <2>4. \A r \in Ids : Translated(r) \subseteq Ids
    BY <1>1, TranslatedIds DEF TypeOK
  <2>5. \A i \in Ids : i \notin ids => out'[i] = out[i]
    BY <2>2
  <2>6. /\ \A r : Translated(r)' = Translated(r)
        /\ \A i, r : Unique(i, r)' = Unique(i, r)
        /\ IdsApart' = IdsApart
    BY <2>1, SameIds
  <2> QED
    BY <2>1, <2>3, <2>4, <2>5, <2>6 DEF OutAsTranslated
<1> QED
  BY <1>2, <1>3, <1>4, <1>5, <1>6, <1>7 DEF Next

(* What the caller wrote is still what the template has, but where events  *)
(* make an implicit API in its place; and no hook adds a source of events. *)
CallersKept ==
  /\ \A i \in Ids : kind[i] \in EventKinds => tpl.kind[i] = kind[i]
  /\ ~ImplicitTaken =>
       \A i \in Ids : tpl.kind[i] # "absent" => i \in own /\ kind[i] = tpl.kind[i]

(* Every step of translate keeps what the caller wrote.                    *)
LEMMA CallersStep == IInv /\ CallersKept /\ [Next]_vars => CallersKept'
<1> SUFFICES ASSUME IInv, CallersKept, [Next]_vars PROVE CallersKept'
  OBVIOUS
<1>1. TypeOK /\ ImplicitApis \in [ImplicitPlugins -> Ids]
  BY TranslatorAssumption DEF IInv
<1>2. tpl' = tpl => ImplicitTaken' = ImplicitTaken
  BY DEF ImplicitTaken, Implied
<1>3. CASE UNCHANGED <<tpl, kind, own>>
  BY <1>2, <1>3 DEF CallersKept
<1>4. CASE RunBeforeHook
  <2>1. HookEffect(Plugins[plugin]) /\ tpl' = tpl
    BY <1>4 DEF RunBeforeHook
  <2>2. CASE UNCHANGED <<kind, own>>
    BY <1>3, <2>1, <2>2
  <2>3. CASE ~UNCHANGED <<kind, own>>
    <3>1. PICK p \in ImplicitPlugins :
            /\ Implied(ImplicitApis[p], kind)
            /\ kind' = [kind EXCEPT ![ImplicitApis[p]] = "api"]
            /\ own' = own \ {ImplicitApis[p]}
      BY <2>1, <2>3 DEF HookEffect, docVars, ImplicitPlugins
    <3>2. Implied(ImplicitApis[p], tpl.kind)
      BY <3>1 DEF Implied, CallersKept
    <3>3. ~ImplicitTaken => tpl.kind[ImplicitApis[p]] = "absent"
      BY <3>2 DEF ImplicitTaken
    <3>4. \A i \in Ids : i # ImplicitApis[p] => kind'[i] = kind[i] /\ (i \in own => i \in own')
      BY <1>1, <3>1 DEF TypeOK
    <3>5. kind'[ImplicitApis[p]] = "api"
      BY <1>1, <3>1 DEF TypeOK
    <3> QED
      BY <1>2, <2>1, <3>3, <3>4, <3>5 DEF CallersKept, EventKinds
  <2> QED
    BY <2>2, <2>3
<1>5. CASE AddEmbeddedConnectors
  <2>1. /\ tpl' = tpl /\ own' = own
        /\ \A i \in Ids : kind'[i] = kind[i] \/ (kind[i] = "absent" /\ kind'[i] = "connector")
    BY <1>5 DEF AddEmbeddedConnectors
  <2> QED
    BY <1>2, <2>1 DEF CallersKept, EventKinds
<1> QED
  BY <1>3, <1>4, <1>5 DEF Next, InstallPlugins, BeforeHookRaises, TranslateResource,
     TranslateFails, TranslateCrashes, AddDeploymentPreferences, RunAfterHooks, Conclude,
     docVars, vars

(* Nothing takes the place of another resource in a returned template, for *)
(* any template whose generated ids do not meet and in which the caller has*)
(* no resource where an implicit API goes, in any order of the loop.       *)
THEOREM NothingIsOverwritten == Spec => [](IdsApart /\ ~ImplicitTaken => NothingOverwritten)
<1>1. Init => OutAsTranslated /\ CallersKept
  BY DEF Init, OutAsTranslated, Live, CallersKept
<1>2. IInv /\ OutAsTranslated /\ CallersKept => (IdsApart /\ ~ImplicitTaken => NothingOverwritten)
  <2> SUFFICES ASSUME IInv, OutAsTranslated, CallersKept, IdsApart, ~ImplicitTaken, verdict = "ok"
               PROVE  /\ \A i \in Ids : tpl.kind[i] # "absent" => i \in own
                      /\ \A i \in Ids : tpl.kind[i] = "cfn" => out[i] = "cfn"
                      /\ \A r \in Ids : kind[r] \in SamKinds =>
                           \A i \in Translated(r) : kind[i] = "bucket" \/ out[i] = r
                      /\ \A c, d \in tpl.connectors : c[2] = d[2] => c = d
    BY DEF NothingOverwritten
  <2>1. Live /\ todo = {} /\ ~errors
    BY DEF IInv, Control, Live
  <2> QED
    BY <2>1 DEF OutAsTranslated, IdsApart, CallersKept
<1>3. Spec => [](OutAsTranslated /\ CallersKept)
  BY <1>1, OutStep, CallersStep, SpecIInv, PTL DEF Spec
<1> QED
  BY <1>2, <1>3, SpecIInv, PTL

(* Connectors are translated after everything else.                        *)
THEOREM ConnectorsComeLast == Spec => ConnectorsSeeOutput
<1> DEFINE Step == \A c \in todo \ todo' : kind[c] = "connector" =>
                     \A i \in Ids : out[i] = "sam" => kind[i] = "connector" \/ i \in failed
<1>1. IInv /\ [Next]_vars => Step
  <2> SUFFICES ASSUME IInv, [Next]_vars, NEW c \in todo, c \notin todo',
                      kind[c] = "connector", NEW i \in Ids, out[i] = "sam", i \notin failed
               PROVE  kind[i] = "connector"
    OBVIOUS
  <2>1. TypeOK /\ Control /\ SamOutWaits
    BY DEF IInv
  <2>2. PICK r \in Ids : NextInLoop(r)
    <3>1. ~(\E r \in Ids : NextInLoop(r)) => todo' = todo \/ AddEmbeddedConnectors
      BY DEF Next, InstallPlugins, RunBeforeHook, BeforeHookRaises, TranslateResource,
         TranslateFails, TranslateCrashes, AddDeploymentPreferences, RunAfterHooks,
         Conclude, loopVars, vars
    <3>2. AddEmbeddedConnectors => todo = {}
      BY <2>1 DEF AddEmbeddedConnectors, Control
    <3> QED
      BY <3>1, <3>2
  <2>3. c = r /\ Live
    BY <2>1, <2>2, LoopFacts DEF Live, Control
  <2>4. i \in todo
    BY <2>1, <2>3 DEF SamOutWaits
  <2>5. Rank("connector") <= Rank(kind[i])
    BY <2>2, <2>3, <2>4 DEF NextInLoop
  <2> QED
    BY <2>5 DEF Rank
<1>2. Spec => [][Step]_vars
  BY <1>1, SpecIInv, PTL DEF Spec
<1> QED
  BY <1>2 DEF ConnectorsSeeOutput

-----------------------------------------------------------------------------
(* SarPlugin.                                                              *)

Listed(k) == \E i \in 1..Len(inProgress) : inProgress[i] = k

(* Every URL handed out is that of a template seen ACTIVE or still listed, *)
(* and only such templates are listed.                                     *)
UrlsAccounted ==
  /\ \A k \in Keys : applications[k] = "url" => k \in seenActive \/ Listed(k)
  /\ \A i \in 1..Len(inProgress) : applications[inProgress[i]] = "url"

(* The first hook leaves no pair behind it without an answer, but for the  *)
(* one it is asking for.                                                   *)
VisitedAnswered ==
  /\ hook = "request" =>
       \A a \in Apps : (a \notin unvisited /\ CanProcess(a) /\ a # current) =>
                          applications[loc[a]] # "absent"
  /\ hook \in {"resource", "wait", "poll"} =>
       \A a \in Apps : CanProcess(a) => applications[loc[a]] # "absent"
  /\ hook # "request" => current = NoApp
  /\ current # NoApp =>
       /\ CanProcess(current) /\ loc[current] \notin Unresolvable
       /\ applications[loc[current]] = "absent"

OutcomesBacked ==
  /\ \A a \in Apps : outcome[a] = "url" =>
                       loc[a] \in Keys /\ applications[loc[a]] = "url"
  /\ hook = "request" => \A a \in Apps : outcome[a] = "pending"
  /\ hook = "resource" => \A a \in Apps : outcome[a] = "pending" => a \in unvisited
  /\ hook \in {"wait", "poll"} => \A a \in Apps : outcome[a] # "pending"
  /\ reported = "ok" => \A a \in Apps : outcome[a] \in {"plain", "url", "KeyError"}

(* Which modes and which pairs each kind of answer belongs to.             *)
AnswersSound ==
  \A k \in Keys :
    /\ applications[k] = "unresolved" => k \in Unresolvable
    /\ k \in Unresolvable => applications[k] \in {"absent", "unresolved"}
    /\ applications[k] \in {"available", "unverified"} => validateOnly

VerdictBacked ==
  /\ reported # "pending" <=> hook = "done"
  /\ hook \in {"wait", "poll"} => waitForActive
  /\ hook = "poll" => totalWait < Timeout
  /\ (reported = "ok" /\ waitForActive) => inProgress = <<>>

PluginIInv == /\ PluginTypeOK
        /\ WaitWithinBudget
        /\ NoKeyError
        /\ UrlsAccounted
        /\ AnswersSound
        /\ VisitedAnswered
        /\ OutcomesBacked
        /\ VerdictBacked

(* The invariant holds before the first request.                           *)
LEMMA PluginInitIInv == PluginInit => PluginIInv
BY ConstantsAssumption
   DEF PluginInit, PluginIInv, PluginTypeOK, WaitWithinBudget, NoKeyError, UrlsAccounted, Listed,
       AnswersSound, VisitedAnswered, OutcomesBacked, VerdictBacked, CanProcess

(* The steps that ask for a template keep the invariant.                   *)
LEMMA RequestIInv == PluginIInv /\ RequestNext => PluginIInv'
<1> SUFFICES ASSUME PluginIInv, RequestNext PROVE PluginIInv'
  OBVIOUS
<1> USE ConstantsAssumption DEF PluginIInv, FlagsAllowed, flags, Shapes
<1>1. CASE RequestsDone
  BY <1>1 DEF RequestsDone, PluginTypeOK, WaitWithinBudget, NoKeyError, UrlsAccounted,
     Listed, AnswersSound, VisitedAnswered, OutcomesBacked, VerdictBacked,
     CanProcess, templateVars, pluginVars, sarVars
<1>2. CASE CallGivenUp
  BY <1>2 DEF CallGivenUp, Answered, PluginTypeOK, WaitWithinBudget, NoKeyError,
     UrlsAccounted, Listed, AnswersSound, VisitedAnswered, OutcomesBacked,
     VerdictBacked, CanProcess, templateVars, pluginVars, sarVars
<1>3. ASSUME NEW a \in Apps, VisitSkip(a) PROVE PluginIInv'
  BY <1>3 DEF VisitSkip, Visit, PluginTypeOK, WaitWithinBudget, NoKeyError,
     UrlsAccounted, Listed, AnswersSound, VisitedAnswered, OutcomesBacked,
     VerdictBacked, CanProcess, templateVars, pluginVars, sarVars
<1>4. ASSUME NEW a \in Apps, VisitRecord(a) PROVE PluginIInv'
  BY <1>4 DEF VisitRecord, Visit, PluginTypeOK, WaitWithinBudget, NoKeyError,
     UrlsAccounted, Listed, AnswersSound, VisitedAnswered, OutcomesBacked,
     VerdictBacked, CanProcess, templateVars, sarVars
<1>5. ASSUME NEW a \in Apps, VisitCall(a) PROVE PluginIInv'
  BY <1>5 DEF VisitCall, Visit, PluginTypeOK, WaitWithinBudget, NoKeyError,
     UrlsAccounted, Listed, AnswersSound, VisitedAnswered, OutcomesBacked,
     VerdictBacked, CanProcess, templateVars, pluginVars, sarVars
<1>6. ASSUME NEW s \in {"PREPARING", "ACTIVE"},
             CreateTemplate(s)
      PROVE PluginIInv'
  <2> DEFINE k == loc[current]
  <2>1. /\ current \in Apps /\ k \in Keys /\ hook = "request"
        /\ applications[k] = "absent" /\ k \notin Unresolvable
    BY <1>6 DEF CreateTemplate, Attempt, VisitedAnswered, CanProcess, PluginTypeOK
  <2>2. /\ applications' = [applications EXCEPT ![k] = "url"]
        /\ current' = NoApp
        /\ UNCHANGED <<flags, loc, outcome, unvisited, reported, hook, round, totalWait,
                       idx>>
    BY <1>6 DEF CreateTemplate, Answered, templateVars
  <2>3. \/ seenActive' = seenActive \cup {k} /\ inProgress' = inProgress
        \/ seenActive' = seenActive /\ inProgress' = Append(inProgress, k)
    BY <1>6 DEF CreateTemplate
  <2>4. PluginTypeOK'
    <3>1. sar' = [sar EXCEPT ![k] = s]
      BY <1>6 DEF CreateTemplate
    <3>2. inProgress \in Seq(Keys) /\ seenActive \subseteq Keys
      BY DEF PluginTypeOK
    <3>3. inProgress' \in Seq(Keys) /\ seenActive' \subseteq Keys
      <4>1. Append(inProgress, k) \in Seq(Keys)
        BY <2>1, <3>2
      <4> QED
        BY <2>1, <2>3, <3>2, <4>1
    <3> QED
      BY <2>1, <2>2, <3>1, <3>3 DEF PluginTypeOK
  <2>5. UrlsAccounted'
    <3>1. CASE seenActive' = seenActive \cup {k} /\ inProgress' = inProgress
      BY <3>1, <2>1, <2>2 DEF UrlsAccounted, Listed, PluginTypeOK
    <3>2. CASE seenActive' = seenActive /\ inProgress' = Append(inProgress, k)
      <4>1. inProgress \in Seq(Keys)
        BY DEF PluginTypeOK
      <4>2. /\ Len(inProgress') = Len(inProgress) + 1
            /\ \A i \in 1..Len(inProgress) : inProgress'[i] = inProgress[i]
            /\ inProgress'[Len(inProgress) + 1] = k
        BY <4>1, <3>2
      <4>3. \A j \in Keys : j # k => applications'[j] = applications[j]
        BY <2>1, <2>2 DEF PluginTypeOK
      <4>4. applications'[k] = "url"
        BY <2>1, <2>2 DEF PluginTypeOK
      <4>5. \A i \in 1..Len(inProgress') : applications'[inProgress'[i]] = "url"
        <5> TAKE i \in 1..Len(inProgress')
        <5>1. i \in 1..Len(inProgress) \/ i = Len(inProgress) + 1
          BY <4>1, <4>2
        <5>2. CASE i \in 1..Len(inProgress)
          BY <5>2, <4>1, <4>2, <4>3, <4>4 DEF UrlsAccounted
        <5> QED
          BY <5>1, <5>2, <4>2, <4>4
      <4>6. ASSUME NEW j \in Keys, applications'[j] = "url"
            PROVE  j \in seenActive' \/ \E i \in 1..Len(inProgress') : inProgress'[i] = j
        <5>1. CASE j = k
          BY <5>1, <4>1, <4>2
        <5>2. CASE j # k
          <6>1. j \in seenActive \/ \E i \in 1..Len(inProgress) : inProgress[i] = j
            BY <5>2, <4>3, <4>6 DEF UrlsAccounted, Listed
          <6>2. 1..Len(inProgress) \subseteq 1..Len(inProgress')
            BY <4>1, <4>2
          <6> QED
            BY <6>1, <6>2, <3>2, <4>2
        <5> QED
          BY <5>1, <5>2
      <4> QED
        BY <4>5, <4>6 DEF UrlsAccounted, Listed
    <3> QED
      BY <3>1, <3>2, <2>3
  <2>6. AnswersSound'
    BY <2>1, <2>2 DEF AnswersSound, PluginTypeOK
  <2>7. (VisitedAnswered /\ OutcomesBacked)'
    BY <2>1, <2>2 DEF VisitedAnswered, OutcomesBacked, CanProcess, PluginTypeOK
  <2>8. (VerdictBacked /\ WaitWithinBudget /\ NoKeyError)'
    BY <2>1, <2>2 DEF VerdictBacked, WaitWithinBudget, NoKeyError, PluginTypeOK
  <2> QED
    BY <2>4, <2>5, <2>6, <2>7, <2>8
<1>7. ASSUME NEW s \in {"available", "unverified"},
             GetApplication(s)
      PROVE PluginIInv'
  BY <1>7 DEF GetApplication, Attempt, Answered, PluginTypeOK, WaitWithinBudget,
     NoKeyError, UrlsAccounted, Listed, AnswersSound, VisitedAnswered,
     OutcomesBacked, VerdictBacked, CanProcess, templateVars, sarVars
<1>8. ASSUME CallDenied PROVE PluginIInv'
  BY <1>8 DEF CallDenied, Attempt, Answered, PluginTypeOK, WaitWithinBudget,
     NoKeyError, UrlsAccounted, Listed, AnswersSound, VisitedAnswered,
     OutcomesBacked, VerdictBacked, CanProcess, templateVars, sarVars
<1>9. ASSUME CallThrottled PROVE PluginIInv'
  BY <1>9 DEF CallThrottled, Attempt, PluginTypeOK, WaitWithinBudget,
     NoKeyError, UrlsAccounted, Listed, AnswersSound, VisitedAnswered,
     OutcomesBacked, VerdictBacked, CanProcess, templateVars, sarVars
<1>10. ASSUME CallCrashes PROVE PluginIInv'
  BY <1>10 DEF CallCrashes, Attempt, Report, PluginTypeOK, WaitWithinBudget,
     NoKeyError, UrlsAccounted, Listed, AnswersSound, VisitedAnswered,
     OutcomesBacked, VerdictBacked, CanProcess, templateVars, pluginVars, sarVars
<1> QED
  BY <1>1, <1>2, <1>3, <1>4, <1>5, <1>6, <1>7, <1>8, <1>9, <1>10 DEF RequestNext

(* So do the steps that visit the resources.                               *)
LEMMA ResourceIInv == PluginIInv /\ ResourceNext => PluginIInv'
<1> SUFFICES ASSUME PluginIInv, ResourceNext PROVE PluginIInv'
  OBVIOUS
<1> USE ConstantsAssumption DEF PluginIInv, FlagsAllowed, flags, Shapes
<1>1. CASE ResourcesDone
  BY <1>1 DEF ResourcesDone, Report, Verdict, PluginTypeOK, WaitWithinBudget,
     NoKeyError, UrlsAccounted, Listed, AnswersSound, VisitedAnswered,
     OutcomesBacked, VerdictBacked, CanProcess, templateVars, pluginVars, sarVars
<1>2. ASSUME NEW a \in Apps, TransformResource(a) PROVE PluginIInv'
  <2>1. /\ hook = "resource" /\ a \in unvisited /\ unvisited' = unvisited \ {a}
        /\ outcome' = [outcome EXCEPT ![a] = ResourceOutcome(a)]
        /\ UNCHANGED <<flags, loc, applications, inProgress, totalWait, sar, seenActive,
                       reported, hook, round, current, idx>>
    BY <1>2 DEF TransformResource, pluginVars, sarVars
  <2>2. /\ ResourceOutcome(a) \in {"plain", "url", "error"}
        /\ ResourceOutcome(a) = "url" =>
             loc[a] \in Keys /\ applications[loc[a]] = "url"
    <3>1. CASE ~CanProcess(a)
      BY <3>1, <2>1 DEF ResourceOutcome, CanProcess, PluginTypeOK
    <3>2. CASE loc[a] \in Unresolvable \cup Blank
      BY <3>2 DEF ResourceOutcome, PluginTypeOK
    <3>3. CASE CanProcess(a) /\ loc[a] \notin Unresolvable \cup Blank
      <4>1. loc[a] \in Keys /\ applications[loc[a]] # "absent"
        BY <3>3, <2>1 DEF CanProcess, PluginTypeOK, VisitedAnswered
      <4>2. applications[loc[a]] \in {"error", "url", "available", "unverified"}
        BY <4>1, <3>3 DEF PluginTypeOK, AnswersSound
      <4> QED
        BY <4>1, <4>2, <3>3 DEF ResourceOutcome, AnswersSound
    <3> QED
      BY <3>1, <3>2, <3>3
  <2> QED
    BY <2>1, <2>2 DEF PluginTypeOK, WaitWithinBudget, NoKeyError, UrlsAccounted, Listed,
       AnswersSound, VisitedAnswered, OutcomesBacked, VerdictBacked, CanProcess
<1> QED
  BY <1>1, <1>2 DEF ResourceNext

(* Taking one entry off the list leaves all the others on it.              *)
LEMMA WithoutKeeps ==
  ASSUME NEW S, NEW s \in Seq(S), NEW i \in 1..Len(s)
  PROVE  /\ Without(s, i) \in Seq(S)
         /\ \A j \in 1..Len(s) : s[j] # s[i] =>
              \E n \in 1..Len(Without(s, i)) : Without(s, i)[n] = s[j]
         /\ \A n \in 1..Len(Without(s, i)) :
              \E j \in 1..Len(s) : Without(s, i)[n] = s[j]
<1> DEFINE b == SubSeq(s, 1, i - 1)
           e == SubSeq(s, i + 1, Len(s))
<1>1. /\ b \in Seq(S) /\ Len(b) = i - 1
      /\ \A j \in 1..(i - 1) : b[j] = s[j]
  OBVIOUS
<1>2. /\ e \in Seq(S) /\ Len(e) = Len(s) - i
      /\ \A j \in 1..(Len(s) - i) : e[j] = s[i + j]
  OBVIOUS
<1> HIDE DEF b, e
<1>3. /\ b \o e \in Seq(S) /\ Len(b \o e) = Len(s) - 1
      /\ \A j \in 1..(i - 1) : (b \o e)[j] = s[j]
      /\ \A j \in 1..(Len(s) - i) : (b \o e)[i - 1 + j] = s[i + j]
  <2>1. Len(s) \in Nat /\ i \in Nat /\ i >= 1 /\ i <= Len(s)
    OBVIOUS
  <2>2. Len(b) = i - 1 /\ Len(e) = Len(s) - i
    BY <1>1, <1>2
  <2>3. /\ b \o e \in Seq(S)
        /\ Len(b \o e) = Len(b) + Len(e)
        /\ \A n \in 1..(Len(b) + Len(e)) :
             (b \o e)[n] = IF n <= Len(b) THEN b[n] ELSE e[n - Len(b)]
    BY <1>1, <1>2, ConcatProperties, Zenon
  <2>4. ASSUME NEW j \in 1..(i - 1) PROVE (b \o e)[j] = s[j]
    <3>1. j \in 1..(Len(b) + Len(e)) /\ j <= Len(b)
      BY <2>1, <2>2
    <3> QED
      BY <3>1, <2>3, <1>1
  <2>5. ASSUME NEW j \in 1..(Len(s) - i) PROVE (b \o e)[i - 1 + j] = s[i + j]
    <3> DEFINE n == i - 1 + j
    <3>1. n \in 1..(Len(b) + Len(e)) /\ ~(n <= Len(b)) /\ n - Len(b) = j
      BY <2>1, <2>2
    <3>2. (b \o e)[n] = e[j]
      BY <3>1, <2>3
    <3> QED
      BY <3>2, <1>2
  <2>6. Len(b) + Len(e) = Len(s) - 1
    BY <2>1, <2>2
  <2> QED
    BY <2>3, <2>4, <2>5, <2>6
<1>4. ASSUME NEW j \in 1..Len(s), s[j] # s[i]
      PROVE  \E n \in 1..Len(b \o e) : (b \o e)[n] = s[j]
  <2>1. CASE j < i
    BY <2>1, <1>3
  <2>2. CASE j > i
    <3> DEFINE n == j - i
    <3>1. n \in 1..(Len(s) - i) /\ i + n = j /\ (i - 1 + n) \in 1..(Len(s) - 1)
      BY <2>2
    <3>2. (b \o e)[i - 1 + n] = s[i + n]
      BY <3>1, <1>3
    <3> QED
      BY <3>1, <3>2, <1>3
  <2> QED
    BY <2>1, <2>2, <1>4
<1>5. ASSUME NEW n \in 1..Len(b \o e)
      PROVE  \E j \in 1..Len(s) : (b \o e)[n] = s[j]
  <2>1. CASE n < i
    <3>1. n \in 1..(i - 1) /\ n \in 1..Len(s)
      BY <2>1, <1>3
    <3> QED
      BY <3>1, <1>3
  <2>2. CASE n >= i
    <3> DEFINE m == n - i + 1
    <3>1. m \in 1..(Len(s) - i) /\ i - 1 + m = n /\ i + m \in 1..Len(s)
      BY <2>2, <1>3
    <3>2. (b \o e)[i - 1 + m] = s[i + m]
      BY <3>1, <1>3
    <3> QED
      BY <3>1, <3>2
  <2> QED
    BY <2>1, <2>2, <1>3
<1> QED
  BY <1>3, <1>4, <1>5 DEF Without, b, e

(* So do those that wait for the templates.                                *)
LEMMA WaitIInv == PluginIInv /\ WaitNext => PluginIInv'
<1> SUFFICES ASSUME PluginIInv, WaitNext PROVE PluginIInv'
  OBVIOUS
<1> USE ConstantsAssumption DEF PluginIInv, FlagsAllowed, flags, Shapes
<1>1. CASE BeginPass
  BY <1>1 DEF BeginPass, PluginTypeOK, WaitWithinBudget, NoKeyError, UrlsAccounted,
     Listed, AnswersSound, VisitedAnswered, OutcomesBacked, VerdictBacked,
     CanProcess, templateVars, pluginVars, sarVars
<1>2. CASE TimeIsUp
  BY <1>2 DEF TimeIsUp, Report, Verdict, PluginTypeOK, WaitWithinBudget, NoKeyError,
     UrlsAccounted, Listed, AnswersSound, VisitedAnswered, OutcomesBacked,
     VerdictBacked, CanProcess, templateVars, pluginVars, sarVars
<1>3. CASE EndPass
  BY <1>3 DEF EndPass, SleepBeforeNextPass, Report, Verdict, PluginTypeOK,
     WaitWithinBudget, NoKeyError, UrlsAccounted, Listed, AnswersSound,
     VisitedAnswered, OutcomesBacked, VerdictBacked, CanProcess, templateVars,
     sarVars
<1>4. ASSUME PollActive PROVE PluginIInv'
  <2>1. /\ hook = "poll" /\ idx \in 1..Len(inProgress)
        /\ inProgress[idx] \in Keys
        /\ seenActive' = seenActive \cup {inProgress[idx]}
        /\ inProgress' = Without(inProgress, idx)
        /\ UNCHANGED <<flags, loc, outcome, unvisited, reported, hook, round, current,
                       applications, idx, totalWait, sar>>
    BY <1>4 DEF PollActive, Poll, templateVars, PluginTypeOK
  <2>2. inProgress \in Seq(Keys)
    BY DEF PluginTypeOK
  <2>3. /\ inProgress' \in Seq(Keys)
        /\ \A j \in 1..Len(inProgress) : inProgress[j] # inProgress[idx] =>
             \E n \in 1..Len(inProgress') : inProgress'[n] = inProgress[j]
        /\ \A n \in 1..Len(inProgress') :
             \E j \in 1..Len(inProgress) : inProgress'[n] = inProgress[j]
    <3> DEFINE rest == Without(inProgress, idx)
    <3>1. /\ rest \in Seq(Keys)
          /\ \A j \in 1..Len(inProgress) : inProgress[j] # inProgress[idx] =>
               \E n \in 1..Len(rest) : rest[n] = inProgress[j]
          /\ \A n \in 1..Len(rest) :
               \E j \in 1..Len(inProgress) : rest[n] = inProgress[j]
      BY <2>1, <2>2, WithoutKeeps, Zenon
    <3> QED
      BY <2>1, <3>1, Zenon
  <2>4. UrlsAccounted'
    <3>1. ASSUME NEW k \in Keys, applications[k] = "url", k # inProgress[idx],
                 k \notin seenActive
          PROVE  \E n \in 1..Len(inProgress') : inProgress'[n] = k
      <4>1. PICK j \in 1..Len(inProgress) : inProgress[j] = k
        BY <3>1 DEF UrlsAccounted, Listed
      <4> QED
        BY <4>1, <3>1, <2>3, Zenon
    <3>2. ASSUME NEW n \in 1..Len(inProgress')
          PROVE  applications[inProgress'[n]] = "url"
      BY <2>3 DEF UrlsAccounted
    <3> QED
      BY <2>1, <3>1, <3>2 DEF UrlsAccounted, Listed
  <2>5. PluginTypeOK'
    BY <2>1, <2>3 DEF PluginTypeOK
  <2> QED
    BY <2>1, <2>4, <2>5 DEF WaitWithinBudget, NoKeyError, AnswersSound,
       VisitedAnswered, OutcomesBacked, VerdictBacked, CanProcess
<1>5. ASSUME PollPreparing PROVE PluginIInv'
  BY <1>5 DEF PollPreparing, Poll, PluginTypeOK, WaitWithinBudget, NoKeyError,
     UrlsAccounted, Listed, AnswersSound, VisitedAnswered, OutcomesBacked,
     VerdictBacked, CanProcess, templateVars, pluginVars, sarVars
<1>6. ASSUME PollRefused \/ PollCrashes PROVE PluginIInv'
  BY <1>6 DEF PollRefused, PollCrashes, Poll, Report, PluginTypeOK, WaitWithinBudget,
     NoKeyError, UrlsAccounted, Listed, AnswersSound, VisitedAnswered,
     OutcomesBacked, VerdictBacked, CanProcess, templateVars, pluginVars, sarVars
<1>7. ASSUME PollThrottled PROVE PluginIInv'
  BY <1>7 DEF PollThrottled, SleepBeforeNextPass, Poll, PluginTypeOK, WaitWithinBudget,
     NoKeyError, UrlsAccounted, Listed, AnswersSound, VisitedAnswered,
     OutcomesBacked, VerdictBacked, CanProcess, templateVars, sarVars
<1> QED
  BY <1>1, <1>2, <1>3, <1>4, <1>5, <1>6, <1>7 DEF WaitNext

(* So do the next template and the service.                                *)
LEMMA OutsideIInv == PluginIInv /\ (NextTemplate \/ SarNext \/ UNCHANGED allVars) => PluginIInv'
<1> SUFFICES ASSUME PluginIInv, NextTemplate \/ SarNext \/ UNCHANGED allVars PROVE PluginIInv'
  OBVIOUS
<1> USE ConstantsAssumption DEF PluginIInv, FlagsAllowed, flags, Shapes
<1>1. CASE NextTemplate
  BY <1>1 DEF NextTemplate, PluginTypeOK, WaitWithinBudget, NoKeyError, UrlsAccounted,
     Listed, AnswersSound, VisitedAnswered, OutcomesBacked, VerdictBacked,
     CanProcess, pluginVars, sarVars
<1>2. ASSUME NEW k \in Keys, SarActivates(k) \/ SarExpires(k) PROVE PluginIInv'
  <2>1. /\ sar' \in [Keys -> {"none", "PREPARING", "ACTIVE", "EXPIRED"}]
        /\ UNCHANGED <<flags, loc, unvisited, outcome, reported, hook, round, current,
                       applications, inProgress, idx, totalWait, seenActive>>
    BY <1>2 DEF SarActivates, SarExpires, PluginTypeOK, templateVars, pluginVars
  <2> QED
    BY <2>1 DEF PluginTypeOK, WaitWithinBudget, NoKeyError, UrlsAccounted, Listed,
       AnswersSound, VisitedAnswered, OutcomesBacked, VerdictBacked, CanProcess
<1>3. CASE UNCHANGED allVars
  BY <1>3 DEF allVars, PluginTypeOK, WaitWithinBudget, NoKeyError, UrlsAccounted,
     Listed, AnswersSound, VisitedAnswered, OutcomesBacked, VerdictBacked,
     CanProcess
<1> QED
  BY <1>1, <1>2, <1>3 DEF SarNext

(* Every step keeps the invariant.                                         *)
LEMMA PluginNextIInv == PluginIInv /\ [RoundsNext]_allVars => PluginIInv'
BY RequestIInv, ResourceIInv, WaitIInv, OutsideIInv DEF RoundsNext, PluginNext

(* The inductive invariant holds throughout.                               *)
THEOREM PluginSpecIInv == PluginSpec => []PluginIInv
BY PluginInitIInv, PluginNextIInv, PTL DEF PluginSpec

(* An answer, once there, is never replaced.                               *)
THEOREM AnswersAreKept == PluginSpec => AnswersKept
<1>1. PluginIInv /\ [RoundsNext]_allVars =>
        [\A k \in Keys : applications[k] # "absent" => applications'[k] = applications[k]]_allVars
  <2> SUFFICES ASSUME PluginIInv, RoundsNext, NEW k \in Keys, applications[k] # "absent"
               PROVE  applications'[k] = applications[k]
    BY DEF allVars
  <2> USE DEF PluginIInv, PluginTypeOK
  <2>1. CASE RequestNext
    BY <2>1 DEF RequestNext, RequestsDone, CallGivenUp, VisitSkip, VisitRecord,
       VisitCall, Visit, CreateTemplate, GetApplication, CallDenied, CallThrottled,
       CallCrashes, Attempt, Answered, AnswersSound, VisitedAnswered, CanProcess,
       pluginVars
  <2>2. CASE ResourceNext
    BY <2>2 DEF ResourceNext, ResourcesDone, TransformResource, pluginVars
  <2>3. CASE WaitNext
    BY <2>3 DEF WaitNext, BeginPass, TimeIsUp, EndPass, PollActive, PollPreparing,
       PollRefused, PollThrottled, PollCrashes, pluginVars
  <2>4. CASE NextTemplate
    BY <2>4 DEF NextTemplate, pluginVars
  <2>5. CASE SarNext
    BY <2>5 DEF SarNext, SarActivates, SarExpires, pluginVars
  <2> QED
    BY <2>1, <2>2, <2>3, <2>4, <2>5 DEF RoundsNext, PluginNext
<1> QED
  BY <1>1, PluginSpecIInv, PTL DEF PluginSpec, AnswersKept

(* A waiting translation that succeeds used only templates SAR reported    *)
(* ACTIVE, however many translations the plugin has served.                *)
THEOREM SuccessMeansActive == PluginSpec => []OnlyActiveTemplates
<1>1. PluginIInv => OnlyActiveTemplates
  BY DEF PluginIInv, OnlyActiveTemplates, OutcomesBacked, UrlsAccounted, Listed,
     VerdictBacked, PluginTypeOK
<1> QED
  BY <1>1, PluginSpecIInv, PTL

(* The sleeps of one plugin instance stay within the budget plus one sleep.*)
THEOREM SleepsWithinBudget == PluginSpec => []WaitWithinBudget
<1>1. PluginIInv => WaitWithinBudget
  BY DEF PluginIInv
<1> QED
  BY <1>1, PluginSpecIInv, PTL

(* No resource is looked up before its pair was recorded.                  *)
THEOREM LookupsSucceed == PluginSpec => []NoKeyError
<1>1. PluginIInv => NoKeyError
  BY DEF PluginIInv
<1> QED
  BY <1>1, PluginSpecIInv, PTL

(* How the plugin was made does not change.                                *)
LEMMA FlagsKept == [RoundsNext]_allVars => waitForActive' = waitForActive
<1> SUFFICES ASSUME [RoundsNext]_allVars PROVE waitForActive' = waitForActive
  OBVIOUS
<1> USE DEF flags
<1>1. CASE UNCHANGED allVars
  BY <1>1 DEF allVars
<1>2. CASE RequestNext
  BY <1>2 DEF RequestNext, RequestsDone, CallGivenUp, VisitSkip, VisitRecord,
     VisitCall, CreateTemplate, GetApplication, CallDenied, CallThrottled,
     CallCrashes
<1>3. CASE ResourceNext
  BY <1>3 DEF ResourceNext, ResourcesDone, TransformResource
<1>4. CASE WaitNext
  BY <1>4 DEF WaitNext, BeginPass, TimeIsUp, EndPass, PollActive, PollPreparing,
     PollRefused, PollThrottled, PollCrashes
<1>5. CASE NextTemplate \/ SarNext
  BY <1>5 DEF NextTemplate, SarNext, SarActivates, SarExpires
<1> QED
  BY <1>1, <1>2, <1>3, <1>4, <1>5 DEF RoundsNext, PluginNext

(* The plugin implements the gate: a translation is never reported good    *)
(* while a URL was handed out for a template not seen ready.               *)
THEOREM PluginImplementsGate == PluginSpec => ImplementsGate
<1> USE ConstantsAssumption DEF Shapes
<1>1. PluginInit => Gate!Init
  BY DEF PluginInit, Gate!Init
<1>2. PluginIInv /\ [RoundsNext]_allVars => [Gate!Next]_Gate!vars
  <2> SUFFICES ASSUME PluginIInv, [RoundsNext]_allVars PROVE [Gate!Next]_Gate!vars
    OBVIOUS
  <2> USE DEF PluginIInv, Gate!Next, Gate!vars
  <2>0. waitForActive' = waitForActive
    BY FlagsKept
  <2>1. CASE UNCHANGED allVars
    BY <2>1 DEF allVars
  <2>2. CASE SarNext
    BY <2>0, <2>2 DEF SarNext, SarActivates, SarExpires, pluginVars
  <2>3. CASE NextTemplate
    BY <2>0, <2>3 DEF NextTemplate, pluginVars, sarVars, Gate!Again, VerdictBacked
  <2>4. CASE ResourceNext
    <3>2. UNCHANGED <<applications, seenActive>>
      BY <2>4 DEF ResourceNext, ResourcesDone, TransformResource, pluginVars, sarVars
    <3>3. \/ UNCHANGED reported
          \/ ~waitForActive /\ reported = "pending" /\ reported' \in {"ok", "failed"}
      BY <2>4 DEF ResourceNext, ResourcesDone, TransformResource, Report, Verdict,
         VerdictBacked, PluginTypeOK
    <3> QED
      BY <2>0, <3>2, <3>3 DEF Gate!ReportGood, Gate!ReportBad
  <2>5. CASE WaitNext
    <3>1. CASE PollActive
      <4>1. /\ inProgress[idx] \in Keys
            /\ seenActive' = seenActive \cup {inProgress[idx]}
            /\ UNCHANGED <<applications, reported>> /\ hook = "poll"
        BY <3>1 DEF PollActive, Poll, PluginTypeOK
      <4>2. applications[inProgress[idx]] = "url" /\ reported = "pending"
        BY <3>1, <4>1 DEF PollActive, Poll, UrlsAccounted, VerdictBacked, PluginTypeOK
      <4> QED
        BY <2>0, <4>1, <4>2 DEF Gate!BecomeReady
    <3>2. CASE ~PollActive
      <4>1. UNCHANGED <<applications, seenActive>>
        BY <2>5, <3>2 DEF WaitNext, BeginPass, TimeIsUp, EndPass, PollPreparing,
           PollRefused, PollThrottled, PollCrashes, pluginVars, sarVars
      <4>2. \/ UNCHANGED reported
            \/ reported = "pending" /\ reported' \in {"failed", "crashed"}
            \/ reported = "pending" /\ reported' = "ok" /\ inProgress = <<>>
        BY <2>5, <3>2 DEF WaitNext, BeginPass, TimeIsUp, EndPass, PollPreparing,
           PollRefused, PollThrottled, PollCrashes, Poll, Report, Verdict,
           SleepBeforeNextPass, VerdictBacked, PluginTypeOK
      <4>3. inProgress = <<>> =>
              {k \in Keys : applications[k] = "url"} \subseteq seenActive
        BY DEF UrlsAccounted, Listed
      <4> QED
        BY <2>0, <4>1, <4>2, <4>3 DEF Gate!ReportGood, Gate!ReportBad
    <3> QED
      BY <3>1, <3>2
  <2>6. CASE RequestNext
    <3>1. CASE \E t \in {"PREPARING", "ACTIVE"} : CreateTemplate(t)
      <4> DEFINE k == loc[current]
      <4>1. k \in Keys /\ reported = "pending" /\ reported' = reported
        BY <3>1 DEF CreateTemplate, Attempt, VisitedAnswered, CanProcess, PluginTypeOK,
           VerdictBacked
      <4>2. applications' = [applications EXCEPT ![k] = "url"]
        BY <3>1 DEF CreateTemplate, Answered
      <4>3. seenActive' \in {seenActive, seenActive \cup {k}}
        BY <3>1 DEF CreateTemplate
      <4>4. {j \in Keys : applications'[j] = "url"}
              = {j \in Keys : applications[j] = "url"} \cup {k}
        BY <4>1, <4>2 DEF PluginTypeOK
      <4> QED
        BY <2>0, <4>1, <4>3, <4>4 DEF Gate!HandOut
    <3>2. CASE ~\E t \in {"PREPARING", "ACTIVE"} : CreateTemplate(t)
      <4>1. \A k \in Keys : (applications'[k] = "url") <=> (applications[k] = "url")
        BY <2>6, <3>2 DEF RequestNext, RequestsDone, CallGivenUp, VisitSkip,
           VisitRecord, VisitCall, Visit, GetApplication, CallDenied, CallThrottled,
           CallCrashes, Attempt, Answered, VisitedAnswered, CanProcess, PluginTypeOK,
           AnswersSound, pluginVars
      <4>2. seenActive' = seenActive
        BY <2>6, <3>2 DEF RequestNext, RequestsDone, CallGivenUp, VisitSkip,
           VisitRecord, VisitCall, GetApplication, CallDenied, CallThrottled,
           CallCrashes, sarVars
      <4>3. \/ UNCHANGED reported
            \/ reported = "pending" /\ reported' = "crashed"
        BY <2>6, <3>2 DEF RequestNext, RequestsDone, CallGivenUp, VisitSkip,
           VisitRecord, VisitCall, GetApplication, CallDenied, CallThrottled,
           CallCrashes, Attempt, Report, VerdictBacked
      <4> QED
        BY <2>0, <4>1, <4>2, <4>3 DEF Gate!ReportBad
    <3> QED
      BY <3>1, <3>2
  <2> QED
    BY <2>1, <2>2, <2>3, <2>4, <2>5, <2>6 DEF RoundsNext, PluginNext
<1> QED
  BY <1>1, <1>2, PluginSpecIInv, PTL DEF PluginSpec, Gate!Spec, ImplementsGate
=============================================================================
