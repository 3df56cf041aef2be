--------------------------- MODULE ApiEventsProofs ---------------------------
(***************************************************************************)
(* Proofs about ApiEvents.  As long as no function has failed, what the    *)
(* plugin has collected is what the events it has been through say, and    *)
(* what the translation has integrated is one integration for each event   *)
(* it has been through; a function fails only for a cause.                 *)
(***************************************************************************)
EXTENDS ApiEvents, FiniteSetTheorems, SequenceTheorems, TLAPS

Handled == EventsOf(given) \ todo
Key(pair) == <<EventOf(pair).api, EventOf(pair).path, EventOf(pair).method>>
Whole(pair) == EventOf(pair).path # NoPath /\ EventOf(pair).api # MissingApi
PoliciesOf(pair) == [deletion |-> FunctionOf(pair).deletion, update |-> FunctionOf(pair).update]
Cause ==
  \/ \E a, b \in EventsOf(given) : Clash(a, b)
  \/ \E pair \in EventsOf(given) : EventOf(pair).path = NoPath \/ EventOf(pair).api = MissingApi

(* What the plugin has, having been through these events.  Of two events   *)
(* with one key the condition is that of one of them.                      *)
Collected(pairs) ==
  /\ \A pair \in pairs : Whole(pair) /\ Key(pair) \in DOMAIN apiConditions
  /\ \A k \in DOMAIN apiConditions : \E pair \in pairs :
       Key(pair) = k /\ apiConditions[k] = FunctionOf(pair).condition
  /\ \A pair \in pairs : EventOf(pair).api = ImplicitApi => PoliciesOf(pair) \in policies
  /\ \A policy \in policies : \E pair \in pairs :
       EventOf(pair).api = ImplicitApi /\ policy = PoliciesOf(pair)
  /\ \A pair \in pairs : IsManaged(EventOf(pair).api) => <<EventOf(pair).api, EventOf(pair).path>> \in paths
  /\ \A p \in paths : \E pair \in pairs :
       p = <<EventOf(pair).api, EventOf(pair).path>> /\ IsManaged(EventOf(pair).api)

(* One of the functions that are recorded under these keys is created.     *)
Behind(keys, truth) == \E k \in keys : apiConditions[k] = NoCondition \/ truth[apiConditions[k]]

(* What the plugin made of it follows the functions.                       *)
HasPath == \E p \in paths : p[1] = ImplicitApi
ApiFollows ==
  IF HasPath
  THEN /\ implicit.kind = "generated"
       /\ \A truth \in Truths : Holds(implicit.condition, truth) <=> Behind(KeysOfApi, truth)
       /\ implicit.deletion = DeletionPolicy /\ implicit.update = UpdateReplacePolicy
  ELSE implicit.kind = IF given.own THEN "own" ELSE "absent"
PathsFollow ==
  ~SharesName(given) =>
    \A p \in paths, truth \in Truths : PathKept(p, truth) <=> Behind(KeysOfPath(p), truth)
Meanings == \A c \in Conditions : c \in DOMAIN conditions /\ conditions[c] = {truth \in Truths : truth[c]}

(* What the translation has integrated, having been through these events.  *)
Served(pair) ==
  /\ IsManaged(EventOf(pair).api) => LambdaIntegration(pair) \in integrations
  /\ EventOf(pair).api = MergedApi /\ given.body # {} /\ ~MergesTwice(given) /\ ~MergesIntoOwn(given) =>
       Integration(pair, Lower(EventOf(pair).method)) \in integrations
MergedFrom(i, pair) ==
  LET integration == Integration(pair, Lower(EventOf(pair).method))
  IN  EventOf(pair).api = MergedApi /\ \E form : i = [integration EXCEPT !.form = form]
IntegrationsAre(pairs) ==
  \A i \in integrations : \E pair \in pairs :
    (IsManaged(EventOf(pair).api) /\ i = LambdaIntegration(pair)) \/ MergedFrom(i, pair)
Integrated(pairs) ==
  /\ \A pair \in pairs : Served(pair)
  /\ IntegrationsAre(pairs)
  /\ \A a, b \in pairs : ~Clash(a, b)

Progress ==
  /\ given \in Templates /\ todo \subseteq EventsOf(given)
  /\ phase \in {"collect", "integrate", "done", "rejected"}
  /\ failed # {} => Cause
  /\ phase = "rejected" => failed # {}
  /\ phase = "done" => failed = {} /\ todo = {}
Collecting == Collected(Handled) /\ integrations = {} /\ DOMAIN conditions = Conditions
Integrating == Collected(EventsOf(given)) /\ ApiFollows /\ PathsFollow /\ Integrated(Handled)

IInv ==
  /\ Progress
  /\ failed = {} => Meanings /\ IF phase = "collect" THEN Collecting ELSE Integrating

-----------------------------------------------------------------------------
(* The parts of a template.                                                *)
LEMMA EventParts ==
  ASSUME given \in Templates, NEW pair \in EventsOf(given)
  PROVE  /\ pair[1] \in DOMAIN given.functions
         /\ EventOf(pair).api \in Apis
         /\ EventOf(pair).path \in Paths \cup {NoPath}
         /\ EventOf(pair).method \in Methods
         /\ FunctionOf(pair).condition \in Conditions \cup {NoCondition}
         /\ FunctionOf(pair).deletion \in DeletionPolicies
         /\ FunctionOf(pair).update \in UpdatePolicies
         /\ EventOf(pair) \in EventsIn(given)
         /\ ~EventOf(pair).named => EventOf(pair).api = ImplicitApi
<1>1. PICK f \in DOMAIN given.functions : \E e \in DOMAIN given.functions[f].events : pair = <<f, e>>
  BY DEF EventsOf
<1>2. PICK e \in DOMAIN given.functions[f].events : pair = <<f, e>>
  BY <1>1
<1>3. given.functions \in Seq(Function)
  BY ApiEventsAssumption DEF Template
<1>4. given.functions[f] \in Function
  BY <1>3
<1>5. given.functions[f].events \in Seq(Event)
  BY <1>4 DEF Function
<1>6. given.functions[f].events[e] \in Event
  BY <1>5
<1>7. ~given.functions[f].events[e].named => given.functions[f].events[e].api = ImplicitApi
  BY ApiEventsAssumption
<1>8. EventOf(pair) = given.functions[f].events[e] /\ FunctionOf(pair) = given.functions[f] /\ pair[1] = f
  BY <1>2 DEF EventOf, FunctionOf
<1>9. EventOf(pair) \in EventsIn(given)
  BY DEF EventsIn, EventIn, EventOf, FunctionOf
<1>10. /\ given.functions[f].condition \in Conditions \cup {NoCondition}
       /\ given.functions[f].deletion \in DeletionPolicies /\ given.functions[f].update \in UpdatePolicies
  BY <1>4 DEF Function
<1> QED
  BY <1>6, <1>7, <1>8, <1>9, <1>10 DEF Event

LEMMA ApisApart ==
  /\ ImplicitApi \notin {ManagedApi, UnmanagedApi, MergedApi, MissingApi}
  /\ ManagedApi \notin {UnmanagedApi, MergedApi, MissingApi}
  /\ UnmanagedApi \notin {MergedApi, MissingApi} /\ MergedApi # MissingApi
  BY ApiEventsAssumption

(* A path's name for its condition tells the API, and what it tells of the *)
(* path does not depend on that.                                           *)
LEMMA PathNames ==
  ASSUME NEW p \in Paths, NEW q \in Paths, NEW a, NEW b, PathConditionName(a, p) = PathConditionName(b, q)
  PROVE  a = b /\ PathConditionName(ImplicitApi, p) = PathConditionName(ImplicitApi, q)
<1> DEFINE f == [i \in DOMAIN p |-> Replaced(p[i])]
           g == [i \in DOMAIN q |-> Replaced(q[i])]
           S == {f[i] : i \in DOMAIN f} \cup {g[i] : i \in DOMAIN g} \cup {a, b}
<1>1. p \in Seq(STRING) /\ q \in Seq(STRING)
  BY ApiEventsAssumption
<1>2. f \in Seq(S) /\ g \in Seq(S) /\ Len(f) = Len(p) /\ Len(g) = Len(q)
  BY <1>1
<1>3. <<a>> \in Seq(S) /\ <<b>> \in Seq(S)
  OBVIOUS
<1>4. <<a>> \o f = <<b>> \o g
  BY DEF PathConditionName
<1> HIDE DEF f, g, S
<1>5. (<<a>> \o f)[1] = a /\ (<<b>> \o g)[1] = b
  BY <1>2, <1>3
<1>6. Len(<<a>> \o f) = Len(f) + 1 /\ Len(<<b>> \o g) = Len(g) + 1
  BY <1>2, <1>3
<1>7. Len(f) = Len(g)
  BY <1>2, <1>4, <1>6
<1>8. ASSUME NEW i \in 1..Len(f) PROVE f[i] = g[i]
  <2>1. (<<a>> \o f)[i + 1] = f[i]
    BY <1>2, <1>3
  <2>2. (<<b>> \o g)[i + 1] = g[i]
    BY <1>2, <1>3, <1>7
  <2> QED
    BY <2>1, <2>2, <1>4
<1>9. f = g
  BY <1>2, <1>7, <1>8, SeqEqual
<1> QED
  BY <1>4, <1>5, <1>9 DEF PathConditionName, f, g

-----------------------------------------------------------------------------
(* The plugin and the translation go from event to event.                  *)

LEMMA InitIInv == Init => IInv
<1> SUFFICES ASSUME Init PROVE IInv
  OBVIOUS
<1>1. Handled = {} /\ apiConditions = << >> /\ policies = {} /\ paths = {}
  BY DEF Init, Handled
<1>2. DOMAIN apiConditions = {}
  BY <1>1
<1>3. Collected(Handled)
  BY <1>1, <1>2 DEF Collected
<1>4. Progress
  BY DEF Init, Progress
<1>5. Meanings /\ DOMAIN conditions = Conditions
  BY DEF Init, Meanings
<1> QED
  BY <1>3, <1>4, <1>5 DEF Init, IInv, Collecting

(* What does not change with the template.                                 *)
LEMMA SameTemplate ==
  ASSUME given' = given
  PROVE  /\ \A p : EventOf(p)' = EventOf(p)
         /\ \A p : FunctionOf(p)' = FunctionOf(p)
         /\ \A p : Key(p)' = Key(p)
         /\ \A p : PoliciesOf(p)' = PoliciesOf(p)
         /\ \A p : Whole(p)' = Whole(p)
         /\ \A p, q : Clash(p, q)' = Clash(p, q)
         /\ \A p, m : Integration(p, m)' = Integration(p, m)
         /\ \A p : LambdaIntegration(p)' = LambdaIntegration(p)
         /\ \A i, p : MergedFrom(i, p)' = MergedFrom(i, p)
         /\ MergesTwice(given)' = MergesTwice(given) /\ MergesIntoOwn(given)' = MergesIntoOwn(given)
         /\ Cause' = Cause
<1>1. \A p : FunctionOf(p)' = FunctionOf(p)
  BY DEF FunctionOf
<1>2. \A p : EventOf(p)' = EventOf(p)
  BY <1>1 DEF EventOf
<1>3. \A p, q : Clash(p, q)' = Clash(p, q)
  BY <1>2 DEF Clash
<1>4. \A p, m : Integration(p, m)' = Integration(p, m)
  BY <1>1, <1>2 DEF Integration
<1>5. Cause' = Cause
  BY <1>2, <1>3 DEF Cause
<1>6. \A i, p : MergedFrom(i, p)' = MergedFrom(i, p)
  BY <1>2, <1>4 DEF MergedFrom
<1>7. MergesTwice(given)' = MergesTwice(given) /\ MergesIntoOwn(given)' = MergesIntoOwn(given)
  BY DEF MergesTwice, MergesIntoOwn
<1> QED
  BY <1>1, <1>2, <1>3, <1>4, <1>5, <1>6, <1>7 DEF Key, PoliciesOf, Whole, LambdaIntegration

LEMMA CollectStep ==
  ASSUME IInv, NEW pair \in todo, AddApiToSwagger(pair)
  PROVE  IInv'
<1>1. /\ phase = "collect" /\ phase' = phase /\ given' = given /\ failed' = failed
      /\ todo' = todo \ {pair} /\ integrations' = integrations /\ conditions' = conditions
      /\ EventOf(pair).path # NoPath /\ EventOf(pair).api # MissingApi
      /\ Record(EventOf(pair), FunctionOf(pair))
      /\ paths' = IF IsManaged(EventOf(pair).api)
                    THEN paths \cup {<<EventOf(pair).api, EventOf(pair).path>>} ELSE paths
  BY DEF AddApiToSwagger, NextCollected
<1>2. todo \subseteq EventsOf(given) /\ given \in Templates
  BY DEF IInv, Progress
<1>3. Handled' = Handled \cup {pair}
  BY <1>1, <1>2 DEF Handled
<1>4. Progress'
  BY <1>1, <1>2, SameTemplate DEF IInv, Progress
<1>5. failed = {} => Meanings'
  BY <1>1 DEF IInv, Meanings
<1>6. ASSUME failed = {} PROVE Collected(Handled)'
  <2>1. Collected(Handled)
    BY <1>1, <1>6 DEF IInv, Collecting
  <2> DEFINE k == Key(pair)
             c == FunctionOf(pair).condition
  <2>2. apiConditions' = Put(apiConditions, k, c)
    BY <1>1 DEF Record, Key
  <2>3. DOMAIN apiConditions' = DOMAIN apiConditions \cup {k}
    BY <2>2 DEF Put
  <2>4. apiConditions'[k] = c /\ \A j \in DOMAIN apiConditions : j # k => apiConditions'[j] = apiConditions[j]
    BY <2>2 DEF Put
  <2>5. \A p \in Handled' : Whole(p)' /\ Key(p)' \in DOMAIN apiConditions'
    BY <1>1, <1>3, <2>1, <2>3, SameTemplate DEF Collected, Whole
  <2>6. ASSUME NEW j \in DOMAIN apiConditions'
        PROVE  \E p \in Handled' : Key(p)' = j /\ apiConditions'[j] = FunctionOf(p)'.condition
    <3>1. CASE j = k
      BY <3>1, <1>1, <1>3, <2>4, SameTemplate
    <3>2. CASE j # k
      <4>1. j \in DOMAIN apiConditions /\ apiConditions'[j] = apiConditions[j]
        BY <3>2, <2>3, <2>4
      <4>2. PICK p \in Handled : Key(p) = j /\ apiConditions[j] = FunctionOf(p).condition
        BY <4>1, <2>1 DEF Collected
      <4> QED
        BY <4>1, <4>2, <1>1, <1>3, SameTemplate
    <3> QED
      BY <3>1, <3>2
  <2>7. policies' = IF EventOf(pair).api = ImplicitApi THEN policies \cup {PoliciesOf(pair)} ELSE policies
    BY <1>1 DEF Record, PoliciesOf
  <2>8. /\ \A p \in Handled' : EventOf(p)'.api = ImplicitApi => PoliciesOf(p)' \in policies'
        /\ \A policy \in policies' : \E p \in Handled' : EventOf(p)'.api = ImplicitApi /\ policy = PoliciesOf(p)'
    BY <1>1, <1>3, <2>1, <2>7, SameTemplate DEF Collected
  <2>9. \A p \in Handled' : IsManaged(EventOf(p)'.api) => <<EventOf(p)'.api, EventOf(p)'.path>> \in paths'
    BY <1>1, <1>3, <2>1, SameTemplate DEF Collected
  <2>10. \A x \in paths' : \E p \in Handled' :
           x = <<EventOf(p)'.api, EventOf(p)'.path>> /\ IsManaged(EventOf(p)'.api)
    BY <1>1, <1>3, <2>1, SameTemplate DEF Collected
  <2> QED
    BY <2>5, <2>6, <2>8, <2>9, <2>10, <1>1, SameTemplate DEF Collected, IsManaged
<1> QED
  BY <1>1, <1>4, <1>5, <1>6 DEF IInv, Collecting

LEMMA RefuseEventStep ==
  ASSUME IInv, NEW pair \in todo, RefuseEvent(pair)
  PROVE  IInv'
<1>1. /\ phase = "collect" /\ phase' = phase /\ given' = given /\ failed' # {}
      /\ todo' \subseteq todo
      /\ EventOf(pair).path = NoPath \/ EventOf(pair).api = MissingApi
  BY DEF RefuseEvent, NextCollected, OthersLeft
<1>2. Cause
  BY <1>1 DEF IInv, Progress, Cause
<1>3. Progress'
  BY <1>1, <1>2, SameTemplate DEF IInv, Progress
<1> QED
  BY <1>1, <1>3 DEF IInv

(* Collected, and what the plugin made of it, stay when nothing of it is   *)
(* touched.                                                                *)
LEMMA PluginStays ==
  ASSUME given' = given, apiConditions' = apiConditions, policies' = policies, paths' = paths,
         pathCondition' = pathCondition, implicit' = implicit, conditions' = conditions
  PROVE  /\ Collected(EventsOf(given))' <=> Collected(EventsOf(given))
         /\ ApiFollows' <=> ApiFollows
         /\ PathsFollow' <=> PathsFollow
         /\ Meanings' <=> Meanings
<1>1. Collected(EventsOf(given))' <=> Collected(EventsOf(given))
  BY SameTemplate DEF Collected
<1>2. /\ \A keys, truth : Behind(keys, truth)' = Behind(keys, truth)
      /\ KeysOfApi' = KeysOfApi /\ \A p : KeysOfPath(p)' = KeysOfPath(p)
      /\ \A c, truth : Holds(c, truth)' = Holds(c, truth)
  BY DEF Behind, KeysOfApi, KeysOfPath, Holds
<1>3. \A p, truth : PathKept(p, truth)' = PathKept(p, truth)
  BY <1>2 DEF PathKept
<1>4. HasPath' = HasPath /\ DeletionPolicy' = DeletionPolicy /\ UpdateReplacePolicy' = UpdateReplacePolicy
  BY DEF HasPath, DeletionPolicy, UpdateReplacePolicy
<1>5. ApiFollows' <=> ApiFollows
  BY <1>2, <1>4 DEF ApiFollows
<1>6. PathsFollow' <=> PathsFollow
  BY <1>2, <1>3 DEF PathsFollow
<1>7. Meanings' <=> Meanings
  BY DEF Meanings
<1> QED
  BY <1>1, <1>5, <1>6, <1>7

(* In the second phase the plugin's results stay as they are.              *)
PluginDone ==
  UNCHANGED <<given, apiConditions, policies, paths, pathCondition, implicit, conditions>>

LEMMA ServedOne ==
  ASSUME IInv, NEW pair \in todo, phase = "integrate", failed = {}, PluginDone, todo' = todo \ {pair},
         failed' = failed,
         \A p \in Handled : Served(p) => Served(p)',
         Served(pair)',
         \A p \in Handled : ~Clash(p, pair) /\ ~Clash(pair, p),
         IntegrationsAre(Handled)'
  PROVE  Integrating'
<1>1. Integrating /\ pair \in EventsOf(given)
  BY DEF IInv, Progress
<1>2. Handled' = Handled \cup {pair}
  BY <1>1 DEF Handled, PluginDone
<1>3. Collected(EventsOf(given))' /\ ApiFollows' /\ PathsFollow'
  BY <1>1, PluginStays DEF PluginDone, Integrating
<1>4. \A p \in Handled' : Served(p)'
  BY <1>1, <1>2 DEF Integrating, Integrated
<1>5. \A a, b \in Handled' : ~Clash(a, b)
  BY <1>1, <1>2 DEF Integrating, Integrated, Clash
<1>6. \A a, b \in Handled' : ~Clash(a, b)'
  BY <1>5, SameTemplate DEF PluginDone
<1> QED
  BY <1>3, <1>4, <1>6 DEF Integrating, Integrated

LEMMA AddIntegrationStep ==
  ASSUME IInv, NEW pair \in todo, AddSwaggerIntegration(pair)
  PROVE  IInv'
<1>1. /\ phase = "integrate" /\ phase' = phase /\ PluginDone /\ todo' = todo \ {pair} /\ failed' = failed
      /\ IsManaged(EventOf(pair).api) /\ ~HasIntegration(EventOf(pair))
      /\ integrations' = integrations \cup {LambdaIntegration(pair)}
  BY DEF AddSwaggerIntegration, NextIntegrated, PluginDone
<1>2. given' = given /\ todo \subseteq EventsOf(given)
  BY <1>1 DEF PluginDone, IInv, Progress
<1>3. Progress'
  BY <1>1, <1>2, SameTemplate DEF IInv, Progress
<1>4. failed = {} => Meanings'
  BY <1>1, PluginStays DEF IInv, PluginDone
<1>5. ASSUME failed = {} PROVE Integrating'
  <2>1. Integrating
    BY <1>1, <1>5 DEF IInv
  <2>2. Handled' = Handled \cup {pair}
    BY <1>1, <1>2 DEF Handled
  <2>3. \A p : Served(p) => Served(p)'
    BY <1>1, <1>2, SameTemplate DEF Served
  <2>4. Served(pair)'
    BY <1>1, <1>2, SameTemplate, ApisApart DEF Served, IsManaged
  <2>5. IntegrationsAre(Handled)
    BY <2>1 DEF Integrating, Integrated
  <2>6. IntegrationsAre(Handled)'
    BY <1>1, <1>2, <2>2, <2>5, SameTemplate DEF IntegrationsAre, IsManaged
  <2>7. ASSUME NEW p \in Handled PROVE ~Clash(p, pair) /\ ~Clash(pair, p)
    <3>1. SUFFICES ASSUME \/ Clash(p, pair) \/ Clash(pair, p) PROVE FALSE
      OBVIOUS
    <3>2. /\ EventOf(p).api = EventOf(pair).api /\ IsManaged(EventOf(p).api)
          /\ EventOf(p).path = EventOf(pair).path
          /\ NormalizeMethodName(EventOf(p).method) = NormalizeMethodName(EventOf(pair).method)
      BY <3>1 DEF Clash
    <3>3. LambdaIntegration(p) \in integrations
      BY <3>2, <2>1 DEF Integrating, Integrated, Served
    <3>4. At(LambdaIntegration(p), EventOf(pair).api, EventOf(pair).path, NormalizeMethodName(EventOf(pair).method))
      BY <3>2 DEF At, LambdaIntegration, Integration
    <3> QED
      BY <3>3, <3>4, <1>1 DEF HasIntegration
  <2> QED
    BY <1>1, <1>5, <2>3, <2>4, <2>6, <2>7, ServedOne
<1> QED
  BY <1>1, <1>3, <1>4, <1>5 DEF IInv

LEMMA RefuseDuplicateStep ==
  ASSUME IInv, NEW pair \in todo, RefuseDuplicate(pair)
  PROVE  IInv'
<1>1. /\ phase = "integrate" /\ phase' = phase /\ PluginDone /\ todo' \subseteq todo /\ failed' # {}
      /\ IsManaged(EventOf(pair).api) /\ HasIntegration(EventOf(pair))
  BY DEF RefuseDuplicate, NextIntegrated, PluginDone, OthersLeft
<1>2. given' = given /\ todo \subseteq EventsOf(given)
  BY <1>1 DEF PluginDone, IInv, Progress
<1>3. Cause
  <2>1. CASE failed # {}
    BY <2>1 DEF IInv, Progress
  <2>2. CASE failed = {}
    <3>1. IntegrationsAre(Handled)
      BY <1>1, <2>2 DEF IInv, Integrating, Integrated
    <3>2. PICK i \in integrations :
            At(i, EventOf(pair).api, EventOf(pair).path, NormalizeMethodName(EventOf(pair).method))
      BY <1>1 DEF HasIntegration
    <3>3. PICK p \in Handled :
            (IsManaged(EventOf(p).api) /\ i = LambdaIntegration(p)) \/ MergedFrom(i, p)
      BY <3>1 DEF IntegrationsAre
    <3>4. i.api = EventOf(p).api /\ i.path = EventOf(p).path
      BY <3>3 DEF LambdaIntegration, Integration, MergedFrom
    <3>5. i.api # MergedApi
      BY <3>2, <1>1, ApisApart DEF At, IsManaged
    <3>6. IsManaged(EventOf(p).api) /\ i = LambdaIntegration(p)
      BY <3>3, <3>4, <3>5 DEF MergedFrom
    <3>7. i.method = NormalizeMethodName(EventOf(p).method)
      BY <3>6 DEF LambdaIntegration, Integration
    <3>8. Clash(p, pair)
      BY <3>2, <3>4, <3>6, <3>7 DEF Clash, At, Handled
    <3> QED
      BY <3>8, <1>2 DEF Cause, Handled
  <2> QED
    BY <2>1, <2>2
<1>4. Progress'
  BY <1>1, <1>2, <1>3, SameTemplate DEF IInv, Progress
<1> QED
  BY <1>1, <1>4 DEF IInv

LEMMA MergeStep ==
  ASSUME IInv, NEW pair \in todo, MergeDefinitions(pair)
  PROVE  IInv'
<1> DEFINE key == Lower(EventOf(pair).method)
           here(i) == At(i, MergedApi, EventOf(pair).path, key)
           merged == [Integration(pair, key) EXCEPT !.form = IF Mixed(pair, key) THEN "mixed" ELSE "whole"]
<1>1. /\ phase = "integrate" /\ phase' = phase /\ PluginDone /\ todo' = todo \ {pair} /\ failed' = failed
      /\ EventOf(pair).api = MergedApi
      /\ integrations' = IF given.body = {} THEN integrations
                         ELSE {i \in integrations : ~here(i)} \cup {merged}
  BY DEF MergeDefinitions, NextIntegrated, PluginDone
<1>2. given' = given /\ todo \subseteq EventsOf(given)
  BY <1>1 DEF PluginDone, IInv, Progress
<1>3. Progress'
  BY <1>1, <1>2, SameTemplate DEF IInv, Progress
<1>4. failed = {} => Meanings'
  BY <1>1, PluginStays DEF IInv, PluginDone
<1>5. ASSUME failed = {} PROVE Integrating'
  <2>1. Integrating
    BY <1>1, <1>5 DEF IInv
  <2>2. Handled' = Handled \cup {pair}
    BY <1>1, <1>2 DEF Handled
  <2>3. ASSUME NEW p \in Handled, Served(p) PROVE Served(p)'
    <3>1. ASSUME IsManaged(EventOf(p).api) PROVE LambdaIntegration(p) \in integrations'
      <4>1. LambdaIntegration(p) \in integrations /\ LambdaIntegration(p).api # MergedApi
        BY <2>3, <3>1, ApisApart DEF Served, LambdaIntegration, Integration, IsManaged
      <4> QED
        BY <4>1, <1>1 DEF At
    <3>2. ASSUME EventOf(p).api = MergedApi, given.body # {}, ~MergesTwice(given), ~MergesIntoOwn(given)
          PROVE  Integration(p, Lower(EventOf(p).method)) \in integrations'
      <4>1. Integration(p, Lower(EventOf(p).method)) \in integrations
        BY <2>3, <3>2 DEF Served
      <4>2. p \in EventsOf(given) /\ pair \in EventsOf(given) /\ p # pair
        BY <1>2 DEF Handled
      <4>3. \A q : EventIn(given, q) = EventOf(q)
        BY DEF EventIn, EventOf, FunctionOf
      <4>4. ~(EventOf(p).path = EventOf(pair).path /\ Lower(EventOf(p).method) = key)
        BY <3>2, <1>1, <4>2, <4>3 DEF MergesTwice
      <4>5. ~here(Integration(p, Lower(EventOf(p).method)))
        BY <4>4 DEF At, Integration
      <4> QED
        BY <4>1, <4>5, <1>1, <3>2
    <3> QED
      BY <3>1, <3>2, <1>1, <1>2, SameTemplate DEF Served, IsManaged
  <2>5. IntegrationsAre(Handled)
    BY <2>1 DEF Integrating, Integrated
  <2>4. Served(pair)'
    <3>1. ASSUME ~MergesTwice(given), ~MergesIntoOwn(given), given.body # {}
          PROVE  Integration(pair, key) \in integrations'
      <4>1. \A q : EventIn(given, q) = EventOf(q) /\ given.functions[q[1]] = FunctionOf(q)
        BY DEF EventIn, EventOf, FunctionOf
      <4>2. pair \in EventsOf(given)
        BY <1>2
      <4>3. FunctionOf(pair).condition = NoCondition \/ <<EventOf(pair).path, key>> \notin given.body
        BY <1>1, <3>1, <4>1, <4>2 DEF MergesIntoOwn
      <4>4. ASSUME NEW i \in integrations, here(i) PROVE FALSE
        <5>1. PICK p \in Handled :
                (IsManaged(EventOf(p).api) /\ i = LambdaIntegration(p)) \/ MergedFrom(i, p)
          BY <2>5 DEF IntegrationsAre
        <5>2. i.api = EventOf(p).api /\ i.path = EventOf(p).path /\ i.api = MergedApi /\ i.path = EventOf(pair).path
          BY <5>1, <4>4 DEF LambdaIntegration, Integration, MergedFrom, At
        <5>3. EventOf(p).api = MergedApi /\ MergedFrom(i, p)
          BY <5>1, <5>2, ApisApart DEF IsManaged
        <5>4. Lower(EventOf(p).method) = key
          BY <5>3, <4>4 DEF MergedFrom, Integration, At
        <5>5. p \in EventsOf(given) /\ p # pair
          BY <1>2 DEF Handled
        <5> QED
          BY <3>1, <4>1, <4>2, <1>1, <5>2, <5>3, <5>4, <5>5 DEF MergesTwice
      <4>5. ~Mixed(pair, key)
        BY <4>3, <4>4 DEF Mixed
      <4>6. merged = Integration(pair, key)
        BY <4>5 DEF Integration
      <4> QED
        BY <4>6, <3>1, <1>1
    <3> QED
      BY <3>1, <1>1, <1>2, SameTemplate, ApisApart DEF Served, IsManaged
  <2>6. ASSUME NEW i \in integrations'
        PROVE  \E p \in Handled' : (IsManaged(EventOf(p).api) /\ i = LambdaIntegration(p)) \/ MergedFrom(i, p)
    <3>1. i \in integrations \/ i = merged
      BY <1>1
    <3>2. MergedFrom(merged, pair)
      BY <1>1 DEF MergedFrom
    <3> QED
      BY <3>1, <3>2, <2>2, <2>5 DEF IntegrationsAre
  <2>7. IntegrationsAre(Handled)'
    BY <2>6, <1>2, SameTemplate DEF IntegrationsAre, IsManaged
  <2>8. ASSUME NEW p \in Handled PROVE ~Clash(p, pair) /\ ~Clash(pair, p)
    BY <1>1, ApisApart DEF Clash, IsManaged
  <2> QED
    BY <1>1, <1>5, <2>3, <2>4, <2>7, <2>8, ServedOne
<1> QED
  BY <1>1, <1>3, <1>4, <1>5 DEF IInv

LEMMA PermitStep ==
  ASSUME IInv, NEW pair \in todo, PermitOnly(pair)
  PROVE  IInv'
<1>1. /\ phase = "integrate" /\ phase' = phase /\ PluginDone /\ todo' = todo \ {pair} /\ failed' = failed
      /\ EventOf(pair).api = UnmanagedApi /\ integrations' = integrations
  BY DEF PermitOnly, NextIntegrated, PluginDone
<1>2. given' = given /\ todo \subseteq EventsOf(given)
  BY <1>1 DEF PluginDone, IInv, Progress
<1>3. Progress'
  BY <1>1, <1>2, SameTemplate DEF IInv, Progress
<1>4. failed = {} => Meanings'
  BY <1>1, PluginStays DEF IInv, PluginDone
<1>5. ASSUME failed = {} PROVE Integrating'
  <2>1. Integrating
    BY <1>1, <1>5 DEF IInv
  <2>2. Handled' = Handled \cup {pair}
    BY <1>1, <1>2 DEF Handled
  <2>3. \A p : Served(p) => Served(p)'
    BY <1>1, <1>2, SameTemplate DEF Served
  <2>4. Served(pair)'
    BY <1>1, <1>2, SameTemplate, ApisApart DEF Served, IsManaged
  <2>5. IntegrationsAre(Handled)
    BY <2>1 DEF Integrating, Integrated
  <2>6. IntegrationsAre(Handled)'
    BY <1>1, <1>2, <2>2, <2>5, SameTemplate DEF IntegrationsAre, IsManaged
  <2>7. ASSUME NEW p \in Handled PROVE ~Clash(p, pair) /\ ~Clash(pair, p)
    BY <1>1, ApisApart DEF Clash, IsManaged
  <2> QED
    BY <1>1, <1>5, <2>3, <2>4, <2>6, <2>7, ServedOne
<1> QED
  BY <1>1, <1>3, <1>4, <1>5 DEF IInv

LEMMA FinishStep ==
  ASSUME IInv, Finish
  PROVE  IInv'
<1>1. /\ phase = "integrate" /\ todo = {} /\ phase' = (IF failed = {} THEN "done" ELSE "rejected")
      /\ PluginDone /\ todo' = todo /\ failed' = failed /\ integrations' = integrations
  BY DEF Finish, PluginDone
<1>2. given' = given
  BY <1>1 DEF PluginDone
<1>3. Progress'
  BY <1>1, <1>2, SameTemplate DEF IInv, Progress
<1>4. failed = {} => Meanings'
  BY <1>1, PluginStays DEF IInv, PluginDone
<1>5. ASSUME failed = {} PROVE Integrating'
  <2>1. Integrating
    BY <1>1, <1>5 DEF IInv
  <2>2. Handled' = Handled
    BY <1>1, <1>2 DEF Handled
  <2>3. \A p : Served(p)' <=> Served(p)
    BY <1>1, <1>2, SameTemplate DEF Served
  <2>4. IntegrationsAre(Handled)' <=> IntegrationsAre(Handled)
    BY <1>1, <1>2, <2>2, SameTemplate DEF IntegrationsAre
  <2>5. Integrated(Handled)'
    BY <2>1, <2>2, <2>3, <2>4, <1>2, SameTemplate DEF Integrating, Integrated
  <2> QED
    BY <2>1, <2>5, <1>1, PluginStays DEF Integrating, PluginDone
<1> QED
  BY <1>1, <1>3, <1>4, <1>5 DEF IInv

-----------------------------------------------------------------------------
(* What the plugin makes conditional, and on what.                         *)

LEMMA KeysConditions ==
  ASSUME given \in Templates, Collected(EventsOf(given)), NEW k \in DOMAIN apiConditions
  PROVE  apiConditions[k] \in Conditions \cup {NoCondition}
  BY EventParts DEF Collected

(* A condition that is shared by all is one of the template's.             *)
LEMMA OneCondition ==
  ASSUME given \in Templates, Collected(EventsOf(given)), NEW name,
         NEW keys \in SUBSET DOMAIN apiConditions, Conditional(keys), ~IsCombined(keys)
  PROVE  /\ ConditionFor(keys, name) \in Conditions
         /\ \A k \in keys : apiConditions[k] = ConditionFor(keys, name)
<1> DEFINE all == ConditionsAt(keys)
<1>1. all \subseteq Conditions /\ all # {}
  BY KeysConditions DEF Conditional, ConditionsAt
<1>2. IsFiniteSet(all)
  BY <1>1, ApiEventsAssumption, FS_Subset
<1>3. Cardinality(all) \in Nat /\ Cardinality(all) # 0 /\ ~(Cardinality(all) > 1)
  BY <1>1, <1>2, FS_CardinalityType, FS_EmptySet DEF IsCombined
<1>4. Cardinality(all) = 1
  BY <1>3
<1>5. PICK c : all = {c}
  BY <1>2, <1>4, FS_Singleton
<1>6. ConditionFor(keys, name) = c
  BY <1>5 DEF ConditionFor
<1> QED
  BY <1>1, <1>5, <1>6 DEF ConditionsAt

LEMMA SomeUnconditional ==
  ASSUME NEW keys, keys # {}, ~Conditional(keys), NEW truth
  PROVE  Behind(keys, truth)
  BY DEF Conditional, ConditionsAt, Behind

LEMMA Disjunction ==
  ASSUME given \in Templates, Collected(EventsOf(given)), Meanings,
         NEW keys \in SUBSET DOMAIN apiConditions, Conditional(keys), NEW truth \in Truths
  PROVE  truth \in Combined(keys) <=> Behind(keys, truth)
<1>1. \A k \in keys : apiConditions[k] \in Conditions /\ apiConditions[k] # NoCondition
  BY KeysConditions DEF Conditional, ConditionsAt
<1>2. \A k \in keys : truth \in conditions[apiConditions[k]] <=> truth[apiConditions[k]]
  BY <1>1 DEF Meanings
<1> QED
  BY <1>1, <1>2 DEF Combined, ConditionsAt, Behind

LEMMA NameParts ==
  /\ CombinedNames \subseteq {PathConditionName(p[1], p[2]) : p \in paths}
  /\ Conditions \cap PathConditions = {} /\ ApiCondition \notin PathConditions \cup Conditions
  /\ NoCondition \notin Conditions \cup {ApiCondition} \cup PathConditions
  BY ApiEventsAssumption DEF CombinedNames, Names

LEMMA PathParts ==
  ASSUME given \in Templates, Collected(EventsOf(given)), NEW p \in paths
  PROVE  /\ p = <<p[1], p[2]>> /\ p[1] \in Apis /\ p[2] \in Paths
         /\ KeysOfPath(p) # {} /\ KeysOfPath(p) \subseteq DOMAIN apiConditions
         /\ \E e \in EventsIn(given) : e.path = p[2]
<1>1. PICK pair \in EventsOf(given) : p = <<EventOf(pair).api, EventOf(pair).path>>
  BY DEF Collected
<1>2. Whole(pair) /\ Key(pair) \in DOMAIN apiConditions
  BY DEF Collected
<1>3. EventOf(pair).path \in Paths /\ EventOf(pair).api \in Apis
  BY <1>2, EventParts DEF Whole
<1>4. Key(pair) \in KeysOfPath(p)
  BY <1>1, <1>2 DEF Key, KeysOfPath
<1> QED
  BY <1>1, <1>3, <1>4, EventParts DEF KeysOfPath

LEMMA FinishPluginStep ==
  ASSUME IInv, FinishPlugin
  PROVE  IInv'
<1> DEFINE ofApi == IF IsCombined(KeysOfApi) THEN {ApiCondition} ELSE {}
<1>1. /\ phase = "collect" /\ todo = {} /\ given' = given /\ failed' = failed
      /\ phase' = (IF failed = {} THEN "integrate" ELSE "rejected")
      /\ todo' = (IF failed = {} THEN EventsOf(given) ELSE {})
      /\ apiConditions' = apiConditions /\ policies' = policies /\ paths' = paths
      /\ integrations' = integrations
  BY DEF FinishPlugin
<1>2. implicit' = MaybeRemove(
         [kind |-> "generated",
          condition |-> IF Conditional(KeysOfApi) THEN ConditionFor(KeysOfApi, ApiCondition) ELSE NoCondition,
          deletion |-> DeletionPolicy, update |-> UpdateReplacePolicy])
  BY DEF FinishPlugin
<1>3. pathCondition' = [p \in {q \in paths : Conditional(KeysOfPath(q))} |->
         ConditionFor(KeysOfPath(p), PathConditionName(p[1], p[2]))]
  BY DEF FinishPlugin
<1>4. PICK last \in [CombinedNames -> paths] :
        /\ \A name \in CombinedNames : last[name] \in CombinedPathsWith(name)
        /\ conditions' =
             [name \in DOMAIN conditions \cup CombinedNames \cup ofApi |->
                IF name \in CombinedNames THEN Combined(KeysOfPath(last[name]))
                ELSE IF name = ApiCondition /\ IsCombined(KeysOfApi) THEN Combined(KeysOfApi)
                ELSE conditions[name]]
  BY DEF FinishPlugin
<1>5. Progress'
  BY <1>1, SameTemplate DEF IInv, Progress
<1>6. ASSUME failed = {} PROVE Meanings' /\ Integrating'
  <2>1. given \in Templates /\ Collected(EventsOf(given)) /\ Meanings /\ integrations = {}
    BY <1>1, <1>6 DEF IInv, Progress, Collecting, Handled
  <2>2. CombinedNames \subseteq PathConditions
    BY <2>1, PathParts, NameParts DEF PathConditions
  <2>3. DOMAIN conditions' = DOMAIN conditions \cup CombinedNames \cup ofApi
    BY <1>4
  <2>4. \A name \in CombinedNames : conditions'[name] = Combined(KeysOfPath(last[name]))
    BY <1>4
  <2>5. IsCombined(KeysOfApi) => ApiCondition \in DOMAIN conditions' /\ conditions'[ApiCondition] = Combined(KeysOfApi)
    BY <1>4, <2>2, NameParts
  <2>6. \A c \in Conditions : c \in DOMAIN conditions' /\ conditions'[c] = conditions[c]
    BY <1>4, <2>1, <2>2, NameParts DEF Meanings
  <2>7. Meanings'
    BY <2>1, <2>6 DEF Meanings
  <2>8. /\ \A keys, truth : Behind(keys, truth)' = Behind(keys, truth)
        /\ KeysOfApi' = KeysOfApi /\ \A p : KeysOfPath(p)' = KeysOfPath(p)
    BY <1>1 DEF Behind, KeysOfApi, KeysOfPath
  <2>9. \A c \in Conditions, truth \in Truths : Holds(c, truth)' <=> truth[c]
    BY <2>7, NameParts DEF Holds, Meanings
  <2>10. \A truth \in Truths : Holds(NoCondition, truth)'
    BY DEF Holds
  (* The disjunction stands for a set of keys under the name it has.       *)
  <2>11. ASSUME NEW name, NEW keys \in SUBSET DOMAIN apiConditions, Conditional(keys), NEW truth \in Truths,
                name # NoCondition,
                IsCombined(keys) => name \in DOMAIN conditions' /\ conditions'[name] = Combined(keys),
                NEW c, c = ConditionFor(keys, name)
         PROVE  Holds(c, truth)' <=> Behind(keys, truth)
    <3>1. keys # {}
      BY <2>11 DEF Conditional
    <3>2. CASE IsCombined(keys)
      <4>1. c = name
        BY <2>11, <3>2 DEF ConditionFor
      <4>2. Holds(c, truth)' <=> truth \in conditions'[name]
        BY <4>1, <2>11, <3>2 DEF Holds
      <4> QED
        BY <4>2, <2>11, <3>2, <2>1, Disjunction
    <3>3. CASE ~IsCombined(keys)
      <4>1. c \in Conditions /\ \A k \in keys : apiConditions[k] = c
        BY <3>3, <2>1, <2>11, OneCondition
      <4>2. Holds(c, truth)' <=> truth[c]
        BY <4>1, <2>9
      <4> QED
        BY <4>1, <4>2, <3>1, NameParts DEF Behind
    <3> QED
      BY <3>2, <3>3
  <2>12. HasPath' = HasPath /\ DeletionPolicy' = DeletionPolicy /\ UpdateReplacePolicy' = UpdateReplacePolicy
    BY <1>1 DEF HasPath, DeletionPolicy, UpdateReplacePolicy
  <2>13. ApiFollows'
    <3>1. ASSUME HasPath
          PROVE  /\ implicit'.kind = "generated"
                 /\ \A truth \in Truths : Holds(implicit.condition, truth)' <=> Behind(KeysOfApi, truth)
                 /\ implicit'.deletion = DeletionPolicy /\ implicit'.update = UpdateReplacePolicy
      <4> DEFINE on == IF Conditional(KeysOfApi) THEN ConditionFor(KeysOfApi, ApiCondition) ELSE NoCondition
      <4>1. implicit' = [kind |-> "generated", condition |-> on,
                         deletion |-> DeletionPolicy, update |-> UpdateReplacePolicy]
        BY <1>2, <3>1 DEF MaybeRemove, HasPath
      <4>2. PICK p \in paths : p[1] = ImplicitApi
        BY <3>1 DEF HasPath
      <4>3. KeysOfApi # {} /\ KeysOfApi \subseteq DOMAIN apiConditions
        BY <4>2, <2>1, PathParts DEF KeysOfApi, KeysOfPath
      <4>4. PICK c : c = on
        OBVIOUS
      <4>5. implicit'.condition = c
        BY <4>1, <4>4
      <4>6. PICK keys : keys = KeysOfApi
        OBVIOUS
      <4>7. ASSUME NEW truth \in Truths PROVE Holds(c, truth)' <=> Behind(keys, truth)
        <5>1. CASE Conditional(keys)
          BY <5>1, <4>3, <4>4, <4>6, <2>5, <2>11, NameParts
        <5>2. CASE ~Conditional(keys)
          <6>1. Holds(c, truth)'
            BY <5>2, <4>4, <4>6, <2>10
          <6> QED
            BY <6>1, <5>2, <4>3, <4>6, SomeUnconditional
        <5> QED
          BY <5>1, <5>2
      <4>8. ASSUME NEW truth \in Truths PROVE Holds(implicit.condition, truth)' <=> Behind(KeysOfApi, truth)
        BY <4>5, <4>6, <4>7 DEF Holds
      <4> QED
        BY <4>1, <4>8
    <3>2. ASSUME ~HasPath PROVE implicit'.kind = IF given.own THEN "own" ELSE "absent"
      BY <1>2, <3>2 DEF MaybeRemove, HasPath, Generated
    <3> QED
      BY <3>1, <3>2, <1>1, <2>8, <2>12 DEF ApiFollows
  <2>14. PathsFollow'
    <3> SUFFICES ASSUME ~SharesName(given), NEW p \in paths, NEW truth \in Truths
                 PROVE  PathKept(p, truth)' <=> Behind(KeysOfPath(p), truth)
      BY <1>1, <2>8 DEF PathsFollow, SharesName
    <3> DEFINE name == PathConditionName(p[1], p[2])
    <3>1. PICK keys : keys = KeysOfPath(p)
      OBVIOUS
    <3>2. /\ p[2] \in Paths /\ p[1] \in Apis /\ keys # {} /\ keys \subseteq DOMAIN apiConditions
          /\ \E e \in EventsIn(given) : e.path = p[2]
      BY <3>1, <2>1, PathParts
    <3>3. p \in paths'
      BY <1>1
    <3>4. CASE ~Conditional(keys)
      <4>1. p \notin DOMAIN pathCondition'
        BY <3>1, <3>4, <1>3
      <4>2. PathKept(p, truth)'
        BY <4>1, <3>3 DEF PathKept
      <4> QED
        BY <4>2, <3>1, <3>2, <3>4, SomeUnconditional
    <3>5. CASE Conditional(keys)
      <4>1. PICK c : c = ConditionFor(keys, name)
        OBVIOUS
      <4>2. p \in DOMAIN pathCondition' /\ pathCondition'[p] = c
        BY <3>1, <3>5, <4>1, <1>3
      <4>3. PathKept(p, truth)' <=> Holds(c, truth)'
        BY <4>2, <3>3 DEF PathKept, Holds
      <4>4. name # NoCondition
        BY <3>2, NameParts DEF PathConditions
      <4>5. ASSUME IsCombined(keys) PROVE name \in DOMAIN conditions' /\ conditions'[name] = Combined(keys)
        <5>1. name \in CombinedNames
          BY <4>5, <3>1 DEF CombinedNames
        <5>2. PICK q \in paths : q = last[name] /\ PathConditionName(q[1], q[2]) = name
          BY <5>1, <1>4 DEF CombinedPathsWith
        <5>3. /\ q[2] \in Paths /\ q = <<q[1], q[2]>> /\ p = <<p[1], p[2]>>
              /\ \E e \in EventsIn(given) : e.path = q[2]
          BY <2>1, PathParts
        <5>4. q[1] = p[1] /\ PathConditionName(ImplicitApi, q[2]) = PathConditionName(ImplicitApi, p[2])
          BY <5>2, <5>3, <3>2, PathNames
        <5>5. q[2] # NoPath /\ p[2] # NoPath
          BY <5>3, <3>2, ApiEventsAssumption
        <5>6. q[2] = p[2]
          BY <5>3, <5>4, <5>5, <3>2 DEF SharesName
        <5>7. q = p
          BY <5>3, <5>4, <5>6
        <5> QED
          BY <5>1, <5>2, <5>7, <2>3, <2>4, <3>1
      <4>6. Holds(c, truth)' <=> Behind(keys, truth)
        BY <4>1, <4>4, <4>5, <3>2, <3>5, <2>11
      <4> QED
        BY <4>3, <4>6, <3>1
    <3> QED
      BY <3>4, <3>5
  <2>15. Collected(EventsOf(given))'
    BY <2>1, <1>1, SameTemplate DEF Collected
  <2>16. Integrated(Handled)'
    <3>1. Handled' = {}
      BY <1>1, <1>6 DEF Handled
    <3> QED
      BY <3>1, <1>1, <2>1 DEF Integrated, IntegrationsAre
  <2> QED
    BY <2>7, <2>13, <2>14, <2>15, <2>16 DEF Integrating
<1> QED
  BY <1>1, <1>5, <1>6 DEF IInv

LEMMA NextIInv == IInv /\ [Next]_vars => IInv'
<1> SUFFICES ASSUME IInv, [Next]_vars PROVE IInv'
  OBVIOUS
<1>1. ASSUME NEW pair \in todo,
             \/ AddApiToSwagger(pair) \/ RefuseEvent(pair)
             \/ AddSwaggerIntegration(pair) \/ RefuseDuplicate(pair)
             \/ MergeDefinitions(pair) \/ PermitOnly(pair)
      PROVE  IInv'
  BY <1>1, CollectStep, RefuseEventStep, AddIntegrationStep, RefuseDuplicateStep, MergeStep, PermitStep
<1>2. CASE FinishPlugin
  BY <1>2, FinishPluginStep
<1>3. CASE Finish
  BY <1>3, FinishStep
<1>4. CASE UNCHANGED vars
  <2>1. given' = given /\ PluginDone /\ phase' = phase /\ todo' = todo /\ failed' = failed
        /\ integrations' = integrations /\ conditions' = conditions
    BY <1>4 DEF vars, PluginDone
  <2>2. Progress'
    BY <2>1, SameTemplate DEF IInv, Progress
  <2>3. Handled' = Handled
    BY <2>1 DEF Handled
  <2>4. /\ Collected(EventsOf(given))' <=> Collected(EventsOf(given))
        /\ ApiFollows' <=> ApiFollows
        /\ PathsFollow' <=> PathsFollow
        /\ Meanings' <=> Meanings
    BY <2>1, PluginStays DEF PluginDone
  <2>5. Collected(Handled)' <=> Collected(Handled)
    BY <2>1, <2>3, SameTemplate DEF Collected, PluginDone
  <2>6. \A p : Served(p)' <=> Served(p)
    BY <2>1, SameTemplate DEF Served
  <2>7. IntegrationsAre(Handled)' <=> IntegrationsAre(Handled)
    BY <2>1, <2>3, SameTemplate DEF IntegrationsAre
  <2>8. Integrated(Handled)' <=> Integrated(Handled)
    BY <2>1, <2>3, <2>6, <2>7, SameTemplate DEF Integrated
  <2> QED
    BY <2>1, <2>2, <2>4, <2>5, <2>8 DEF IInv, Collecting, Integrating
<1> QED
  BY <1>1, <1>2, <1>3, <1>4 DEF Next

(* The inductive invariant: as long as no function has failed, what has    *)
(* been collected and integrated is what the events handled so far say,    *)
(* and what the plugin makes conditional holds when one of the functions   *)
(* behind it is created; a function has failed only for a cause.           *)
THEOREM SpecIInv == Spec => []IInv
  BY InitIInv, NextIInv, PTL DEF Spec

-----------------------------------------------------------------------------
(* What the invariant says when the translation is through.                *)

LEMMA IInvRefused == IInv => RefusedForCause
<1> SUFFICES ASSUME IInv PROVE RefusedForCause
  OBVIOUS
<1>1. ASSUME phase = "done"
      PROVE  /\ \A a, b \in EventsOf(given) : ~Clash(a, b)
             /\ \A pair \in EventsOf(given) : Whole(pair)
  BY <1>1 DEF IInv, Progress, Integrating, Integrated, Collected, Handled
<1>2. phase = "rejected" => Cause
  BY DEF IInv, Progress
<1> QED
  BY <1>1, <1>2 DEF RefusedForCause, Cause, Whole

(* A template is refused for two events of one route of a managed API or   *)
(* for an event without a path or an API, and always for these.            *)
THEOREM RefusedForCauseHolds == Spec => []RefusedForCause
  BY SpecIInv, IInvRefused, PTL

LEMMA WhenDone ==
  ASSUME IInv, phase = "done"
  PROVE  /\ given \in Templates /\ Meanings /\ Collected(EventsOf(given)) /\ ApiFollows /\ PathsFollow
         /\ Integrated(EventsOf(given))
  BY DEF IInv, Progress, Integrating, Handled

LEMMA FunctionHolds ==
  ASSUME given \in Templates, Meanings, NEW pair \in EventsOf(given), NEW truth \in Truths
  PROVE  Created(pair[1], truth) <=>
           FunctionOf(pair).condition = NoCondition \/ truth[FunctionOf(pair).condition]
<1>1. given.functions[pair[1]] = FunctionOf(pair)
  BY DEF FunctionOf
<1>2. FunctionOf(pair).condition \in Conditions \cup {NoCondition} /\ NoCondition \notin Conditions
  BY EventParts, NameParts
<1> QED
  BY <1>1, <1>2 DEF Created, Holds, Meanings

(* What is recorded under some keys is behind them: a function of an event *)
(* that has one of them.                                                   *)
LEMMA BehindIsCreated ==
  ASSUME given \in Templates, Meanings, Collected(EventsOf(given)), NEW truth \in Truths,
         NEW keys \in SUBSET DOMAIN apiConditions, Behind(keys, truth)
  PROVE  \E pair \in EventsOf(given) : Key(pair) \in keys /\ Created(pair[1], truth)
<1>1. PICK k \in keys : apiConditions[k] = NoCondition \/ truth[apiConditions[k]]
  BY DEF Behind
<1>2. PICK pair \in EventsOf(given) : Key(pair) = k /\ apiConditions[k] = FunctionOf(pair).condition
  BY DEF Collected
<1> QED
  BY <1>1, <1>2, FunctionHolds

(* A route of a managed API has one event, so its key has its condition.   *)
LEMMA CreatedIsBehind ==
  ASSUME given \in Templates, Meanings, Collected(EventsOf(given)), Integrated(EventsOf(given)),
         NEW pair \in EventsOf(given), IsManaged(EventOf(pair).api),
         NEW truth \in Truths, Created(pair[1], truth),
         NEW keys \in SUBSET DOMAIN apiConditions, Key(pair) \in keys
  PROVE  Behind(keys, truth)
<1>1. PICK other \in EventsOf(given) :
        Key(other) = Key(pair) /\ apiConditions[Key(pair)] = FunctionOf(other).condition
  BY DEF Collected
<1>2. other = pair
  BY <1>1 DEF Integrated, Clash, Key
<1> QED
  BY <1>1, <1>2, FunctionHolds DEF Behind

LEMMA IInvRoutesReachable ==
  IInv => (~MergesBadly(given) /\ ~SharesName(given) => RoutesReachable)
<1> SUFFICES ASSUME IInv, ~MergesTwice(given), ~MergesIntoNothing(given), ~MergesIntoOwn(given),
                    ~SharesName(given), phase = "done",
                    NEW pair \in EventsOf(given), NEW truth \in Truths,
                    EventOf(pair).api # UnmanagedApi, Created(pair[1], truth)
             PROVE  /\ \E i \in integrations :
                         /\ i.api = EventOf(pair).api /\ i.path = EventOf(pair).path /\ i.function = pair[1]
                         /\ i.method \in {Lower(EventOf(pair).method), NormalizeMethodName(EventOf(pair).method)}
                         /\ Holds(i.condition, truth) /\ i.form = "whole"
                    /\ IsManaged(EventOf(pair).api) => PathKept(<<EventOf(pair).api, EventOf(pair).path>>, truth)
                    /\ EventOf(pair).api = ImplicitApi => ApiKept(truth)
  BY DEF RoutesReachable, MergesBadly
<1>1. /\ given \in Templates /\ Meanings /\ Collected(EventsOf(given)) /\ ApiFollows /\ PathsFollow
      /\ Integrated(EventsOf(given))
  BY WhenDone
<1>2. Served(pair) /\ Whole(pair) /\ Key(pair) \in DOMAIN apiConditions
  BY <1>1 DEF Integrated, Collected
<1>3. Holds(FunctionOf(pair).condition, truth)
  BY DEF Created, FunctionOf
<1>4. IsManaged(EventOf(pair).api) \/ EventOf(pair).api = MergedApi
  BY <1>1, <1>2, EventParts DEF Apis, Whole, IsManaged
<1>5. PICK m \in {Lower(EventOf(pair).method), NormalizeMethodName(EventOf(pair).method)} :
        Integration(pair, m) \in integrations
  <2>1. CASE IsManaged(EventOf(pair).api)
    BY <2>1, <1>2 DEF Served, LambdaIntegration
  <2>2. CASE EventOf(pair).api = MergedApi
    <3>1. given.body # {}
      BY <2>2, <1>1, EventParts DEF MergesIntoNothing
    <3> QED
      BY <2>2, <3>1, <1>2 DEF Served
  <2> QED
    BY <1>4, <2>1, <2>2
<1>6. LET i == Integration(pair, m)
      IN  /\ i.api = EventOf(pair).api /\ i.path = EventOf(pair).path /\ i.function = pair[1]
          /\ i.method = m /\ i.condition = FunctionOf(pair).condition /\ i.form = "whole"
  BY DEF Integration
<1>7. \E i \in integrations :
        /\ i.api = EventOf(pair).api /\ i.path = EventOf(pair).path /\ i.function = pair[1]
        /\ i.method \in {Lower(EventOf(pair).method), NormalizeMethodName(EventOf(pair).method)}
        /\ Holds(i.condition, truth) /\ i.form = "whole"
  BY <1>3, <1>5, <1>6
<1>8. ASSUME IsManaged(EventOf(pair).api)
      PROVE  PathKept(<<EventOf(pair).api, EventOf(pair).path>>, truth)
  <2> DEFINE p == <<EventOf(pair).api, EventOf(pair).path>>
  <2>1. p \in paths
    BY <1>1, <1>8 DEF Collected
  <2>2. Key(pair) \in KeysOfPath(p) /\ KeysOfPath(p) \subseteq DOMAIN apiConditions
    BY <1>2 DEF KeysOfPath, Key
  <2>3. Behind(KeysOfPath(p), truth)
    BY <2>2, <1>1, <1>8, CreatedIsBehind
  <2> QED
    BY <2>1, <2>3, <1>1 DEF PathsFollow
<1>9. ASSUME EventOf(pair).api = ImplicitApi PROVE ApiKept(truth)
  <2>1. IsManaged(EventOf(pair).api)
    BY <1>9 DEF IsManaged
  <2>2. HasPath
    BY <2>1, <1>1, <1>9 DEF HasPath, Collected
  <2>3. Key(pair) \in KeysOfApi /\ KeysOfApi \subseteq DOMAIN apiConditions
    BY <1>2, <1>9 DEF KeysOfApi, Key
  <2>4. Behind(KeysOfApi, truth)
    BY <2>1, <2>3, <1>1, CreatedIsBehind
  <2> QED
    BY <2>2, <2>4, <1>1 DEF ApiFollows, ApiKept
<1> QED
  BY <1>7, <1>8, <1>9

(* A function that is created serves each route of its events, under any   *)
(* truth of the conditions, in templates where no two events are merged    *)
(* into one route, none into a definition without paths, no conditional    *)
(* one into a route that the author describes, and no two paths share a    *)
(* name.                                                                   *)
THEOREM RoutesReachableHolds ==
  Spec => [](~MergesBadly(given) /\ ~SharesName(given) => RoutesReachable)
  BY SpecIInv, IInvRoutesReachable, PTL

LEMMA IInvNothingWithout == IInv => (~SharesName(given) => NothingWithoutFunctions)
<1> SUFFICES ASSUME IInv, ~SharesName(given), phase = "done", NEW truth \in Truths
             PROVE  /\ ApiKept(truth) => \E pair \in EventsOf(given) :
                         EventOf(pair).api = ImplicitApi /\ Created(pair[1], truth)
                    /\ \A p \in paths : PathKept(p, truth) => \E pair \in EventsOf(given) :
                         EventOf(pair).api = p[1] /\ EventOf(pair).path = p[2] /\ Created(pair[1], truth)
                    /\ \A i \in integrations : Holds(i.condition, truth) => Created(i.function, truth)
  BY DEF NothingWithoutFunctions
<1>1. /\ given \in Templates /\ Meanings /\ Collected(EventsOf(given)) /\ ApiFollows /\ PathsFollow
      /\ Integrated(EventsOf(given))
  BY WhenDone
<1>2. ASSUME ApiKept(truth)
      PROVE  \E pair \in EventsOf(given) : EventOf(pair).api = ImplicitApi /\ Created(pair[1], truth)
  <2>1. Behind(KeysOfApi, truth)
    BY <1>1, <1>2 DEF ApiFollows, ApiKept
  <2>2. PICK pair \in EventsOf(given) : Key(pair) \in KeysOfApi /\ Created(pair[1], truth)
    BY <2>1, <1>1, BehindIsCreated DEF KeysOfApi
  <2> QED
    BY <2>2 DEF KeysOfApi, Key
<1>3. ASSUME NEW p \in paths, PathKept(p, truth)
      PROVE  \E pair \in EventsOf(given) :
               EventOf(pair).api = p[1] /\ EventOf(pair).path = p[2] /\ Created(pair[1], truth)
  <2>1. Behind(KeysOfPath(p), truth)
    BY <1>1, <1>3 DEF PathsFollow
  <2>2. PICK pair \in EventsOf(given) : Key(pair) \in KeysOfPath(p) /\ Created(pair[1], truth)
    BY <2>1, <1>1, BehindIsCreated DEF KeysOfPath
  <2> QED
    BY <2>2 DEF KeysOfPath, Key
<1>4. ASSUME NEW i \in integrations, Holds(i.condition, truth) PROVE Created(i.function, truth)
  <2>1. PICK pair \in EventsOf(given) : i = LambdaIntegration(pair) \/ MergedFrom(i, pair)
    BY <1>1 DEF Integrated, IntegrationsAre
  <2>2. i.function = pair[1] /\ i.condition = FunctionOf(pair).condition
    BY <2>1 DEF LambdaIntegration, MergedFrom, Integration
  <2> QED
    BY <2>2, <1>4 DEF Created, FunctionOf
<1> QED
  BY <1>2, <1>3, <1>4

LEMMA IInvPolicies == IInv => PoliciesOfFunctions
<1> SUFFICES ASSUME IInv, phase = "done", implicit.kind = "generated" PROVE PoliciesOfFunctions
  BY DEF PoliciesOfFunctions
<1> DEFINE events == {p \in EventsOf(given) : EventOf(p).api = ImplicitApi}
           functions == {FunctionOf(pair) : pair \in events}
<1>1. given \in Templates /\ Collected(EventsOf(given)) /\ ApiFollows
  BY WhenDone
<1>2. HasPath
  BY <1>1 DEF ApiFollows
<1>3. implicit.deletion = DeletionPolicy /\ implicit.update = UpdateReplacePolicy
  BY <1>1, <1>2 DEF ApiFollows
<1>4. PICK first \in EventsOf(given) : EventOf(first).api = ImplicitApi
  BY <1>1, <1>2 DEF HasPath, Collected
<1>5. \A f \in functions : f.deletion \in DeletionPolicies /\ f.update \in UpdatePolicies
  BY <1>1, EventParts
<1>6. \A f \in functions : \E p \in policies : p.deletion = f.deletion /\ p.update = f.update
  BY <1>1 DEF Collected, PoliciesOf
<1>7. \A p \in policies : \E f \in functions : p.deletion = f.deletion /\ p.update = f.update
  BY <1>1 DEF Collected, PoliciesOf
<1>8. functions # {}
  BY <1>4
<1> HIDE DEF functions
<1>9. /\ \A f \in functions : Retains(f.deletion) <= Retains(DeletionPolicy)
      /\ \E f \in functions : f.deletion = DeletionPolicy
  BY <1>5, <1>6, <1>7, <1>8 DEF DeletionPolicy, Retains, DeletionPolicies
<1>10. /\ \A f \in functions : Retains(f.update) <= Retains(UpdateReplacePolicy)
       /\ \E f \in functions : f.update = UpdateReplacePolicy
  BY <1>5, <1>6, <1>7, <1>8 DEF UpdateReplacePolicy, Retains, UpdatePolicies, DeletionPolicies
<1> QED
  BY <1>3, <1>9, <1>10 DEF PoliciesOfFunctions, functions

LEMMA IInvOwnApi == IInv => (~NamesOwn(given) => OwnApiKept)
<1> SUFFICES ASSUME IInv, ~NamesOwn(given), phase = "done", given.own,
                    \A pair \in EventsOf(given) : EventOf(pair).named
             PROVE  implicit.kind = "own"
  BY DEF OwnApiKept
<1>1. given \in Templates /\ Collected(EventsOf(given)) /\ ApiFollows
  BY WhenDone
<1>2. \A pair \in EventsOf(given) : EventOf(pair).api # ImplicitApi
  BY <1>1, EventParts DEF NamesOwn
<1>3. ~HasPath
  BY <1>1, <1>2 DEF HasPath, Collected
<1> QED
  BY <1>1, <1>3 DEF ApiFollows

LEMMA IInvApisFollow == IInv => (~SharesName(given) /\ ~NamesOwn(given) => ApisFollowFunctions)
  BY IInvNothingWithout, IInvPolicies, IInvOwnApi DEF ApisFollowFunctions

(* Nothing exists that no function is behind, the implicit API is kept as  *)
(* the most careful function wants it, and the author's own comes back, in *)
(* templates where no two paths share a name and no event names the        *)
(* author's own ServerlessRestApi.                                         *)
THEOREM ApisFollowFunctionsHolds ==
  Spec => [](~SharesName(given) /\ ~NamesOwn(given) => ApisFollowFunctions)
  BY SpecIInv, IInvApisFollow, PTL
=============================================================================
