------------------------------ MODULE ApiEvents ------------------------------
(***************************************************************************)
(* Api events of functions.  The ImplicitApiPlugin collects them before    *)
(* the translation: it adds their paths to the definition of the API they  *)
(* name, ServerlessRestApi when they name none, and makes paths and that   *)
(* API as conditional as the functions behind them.  The translation of a  *)
(* function then integrates it into each of these definitions.             *)
(*                                                                         *)
(* A path is a sequence of tokens: "/", "{", "}" and what is between.  The *)
(* meaning of a condition is the set of assignments of truth to the        *)
(* template's own conditions under which it holds.                         *)
(***************************************************************************)
EXTENDS Integers, Sequences, FiniteSets

CONSTANTS
  ImplicitApi,   \* the logical id ServerlessRestApi
  ManagedApi,    \* an API without a DefinitionBody
  UnmanagedApi,  \* an API with a DefinitionBody
  MergedApi,     \* an API with a DefinitionBody and MergeDefinitions
  MissingApi,    \* no resource, or a resource that is no Serverless::Api
  Conditions, ApiCondition, NoCondition,
  Paths, NoPath,
  Templates      \* the templates considered, see Template

Apis == {ImplicitApi, ManagedApi, UnmanagedApi, MergedApi, MissingApi}
Methods == {"get", "GET", "post", "any"}
Truths == [Conditions -> BOOLEAN]

Event == [api : Apis, named : BOOLEAN, path : Paths \cup {NoPath}, method : Methods]
DeletionPolicies == {"none", "Retain", "Delete"}
UpdatePolicies == DeletionPolicies \cup {"Snapshot"}

Function == [condition : Conditions \cup {NoCondition}, deletion : DeletionPolicies,
             update : UpdatePolicies, events : Seq(Event)]

(* own: the author has a resource ServerlessRestApi.  body: the paths and  *)
(* methods that the DefinitionBody of MergedApi describes, each by a map   *)
(* that is not empty and no If.                                            *)
Template == [functions : Seq(Function), own : BOOLEAN,
             body : SUBSET (Paths \X {"get", "post"})]

Lower(method) == IF method = "GET" THEN "get" ELSE method
NormalizeMethodName(method) ==
  IF method = "any" THEN "x-amazon-apigateway-any-method" ELSE Lower(method)
Keys == {Lower(m) : m \in Methods} \cup {NormalizeMethodName(m) : m \in Methods}

Replaced(token) ==
  CASE token = "/" -> "SLASH" [] token = "{" -> "OB" [] token = "}" -> "CB" [] OTHER -> token
PathConditionName(api, path) == <<api>> \o [i \in DOMAIN path |-> Replaced(path[i])]

PathConditions == {PathConditionName(api, path) : api \in Apis, path \in Paths}
Names == Conditions \cup {ApiCondition} \cup PathConditions

(* The conditions of a template are the keys of one finite map.            *)
ASSUME ApiEventsAssumption ==
  /\ ImplicitApi \notin {ManagedApi, UnmanagedApi, MergedApi, MissingApi}
  /\ ManagedApi \notin {UnmanagedApi, MergedApi, MissingApi}
  /\ UnmanagedApi \notin {MergedApi, MissingApi} /\ MergedApi # MissingApi
  /\ IsFiniteSet(Conditions)
  /\ Paths \subseteq Seq(STRING) /\ NoPath \notin Paths
  /\ ApiCondition \notin Conditions /\ NoCondition \notin Names
  /\ \A c \in Conditions \cup {ApiCondition} : c \notin PathConditions
  /\ \A t \in Templates :
       /\ t \in Template
       /\ \A f \in DOMAIN t.functions : \A e \in DOMAIN t.functions[f].events :
            LET event == t.functions[f].events[e] IN ~event.named => event.api = ImplicitApi

VARIABLES
  given,          \* the template
  phase,          \* "collect", "integrate", "done" or "rejected"
  todo,           \* events to look at in this phase, as <<function, event>>
  failed,         \* functions with an error
  apiConditions,  \* condition of the last function by <<api, path, method>>
  policies,       \* [deletion, update] of the events at ServerlessRestApi
  paths,          \* <<api, path>> in the definitions SAM manages
  pathCondition,  \* condition of some of these
  integrations,   \* what the definitions integrate, at most one per route
  implicit,       \* what the template has at ServerlessRestApi
  conditions      \* the Conditions section: meaning of each name

vars == <<given, phase, todo, failed, apiConditions, policies, paths,
          pathCondition, integrations, implicit, conditions>>

FunctionOf(pair) == given.functions[pair[1]]
EventOf(pair) == FunctionOf(pair).events[pair[2]]

EventsOf(t) ==
  UNION {{<<f, e>> : e \in DOMAIN t.functions[f].events} : f \in DOMAIN t.functions}

Generated == [kind |-> "generated", condition |-> NoCondition, deletion |-> "none", update |-> "none"]

Init ==
  /\ given \in Templates
  /\ phase = "collect"
  /\ todo = EventsOf(given)
  /\ failed = {}
  /\ apiConditions = << >>
  /\ policies = {}
  /\ paths = {} /\ pathCondition = << >>
  /\ integrations = {}
  /\ implicit = Generated
  /\ conditions = [c \in Conditions |-> {truth \in Truths : truth[c]}]

(* Functions come in the order of the template.                            *)
OfNextFunction(pair) == \A other \in todo : pair[1] <= other[1]
OthersLeft(pair) == {other \in todo : other[1] # pair[1]}

-----------------------------------------------------------------------------
(* The plugin.  An event is recorded with its function's condition and     *)
(* policies before the API it names is looked up; a function that fails    *)
(* has the rest of its events left out.                                    *)
NextCollected(pair) ==
  /\ phase = "collect"
  /\ pair \in todo /\ OfNextFunction(pair)
  /\ \A other \in todo : other[1] = pair[1] => pair[2] <= other[2]

Put(map, key, value) ==
  [k \in DOMAIN map \cup {key} |-> IF k = key THEN value ELSE map[k]]

Record(event, function) ==
  /\ apiConditions' = Put(apiConditions, <<event.api, event.path, event.method>>, function.condition)
  /\ policies' = IF event.api = ImplicitApi
                   THEN policies \cup {[deletion |-> function.deletion, update |-> function.update]}
                   ELSE policies

IsManaged(api) == api \in {ImplicitApi, ManagedApi}

AddApiToSwagger(pair) ==
  LET event == EventOf(pair) IN
  /\ NextCollected(pair)
  /\ event.path # NoPath /\ event.api # MissingApi
  /\ Record(event, FunctionOf(pair))
  /\ paths' = IF IsManaged(event.api) THEN paths \cup {<<event.api, event.path>>} ELSE paths
  /\ todo' = todo \ {pair}
  /\ UNCHANGED <<given, phase, failed, pathCondition, integrations, implicit, conditions>>

RefuseEvent(pair) ==
  LET event == EventOf(pair) IN
  /\ NextCollected(pair)
  /\ event.path = NoPath \/ event.api = MissingApi
  /\ IF event.path = NoPath THEN UNCHANGED <<apiConditions, policies>>
                            ELSE Record(event, FunctionOf(pair))
  /\ failed' = failed \cup {pair[1]}
  /\ todo' = OthersLeft(pair)
  /\ UNCHANGED <<given, phase, paths, pathCondition, integrations, implicit, conditions>>

(* What becomes conditional when all the functions behind it are: on the   *)
(* one condition they share, or on the disjunction of theirs, by a name.   *)
ConditionsAt(keys) == {apiConditions[k] : k \in keys}
Conditional_Any(keys) == keys # {} /\ ConditionsAt(keys) # {NoCondition}
Conditional(keys) == keys # {} /\ NoCondition \notin ConditionsAt(keys)
IsCombined(keys) == Conditional(keys) /\ Cardinality(ConditionsAt(keys)) > 1
ConditionFor(keys, name) ==
  IF IsCombined(keys) THEN name ELSE CHOOSE c \in ConditionsAt(keys) : TRUE
Combined(keys) == UNION {conditions[c] : c \in ConditionsAt(keys) \ {NoCondition}}

KeysOfApi == {k \in DOMAIN apiConditions : k[1] = ImplicitApi}
KeysOfPath_SamePath(at) == {k \in DOMAIN apiConditions : k[2] = at[2]}
KeysOfPath(at) == {k \in DOMAIN apiConditions : k[1] = at[1] /\ k[2] = at[2]}

(* Paths with one name for their condition share it: the last one's.       *)
CombinedPathsWith(name) ==
  {at \in paths : IsCombined(KeysOfPath(at)) /\ PathConditionName(at[1], at[2]) = name}
CombinedNames ==
  {PathConditionName(at[1], at[2]) : at \in {p \in paths : IsCombined(KeysOfPath(p))}}

DeletionPolicy ==
  LET given_ == {p.deletion : p \in policies} IN
  IF "Retain" \in given_ THEN "Retain" ELSE IF "Delete" \in given_ THEN "Delete" ELSE "none"
UpdateReplacePolicy_DeleteFirst ==
  LET given_ == {p.update : p \in policies} IN
  IF "Delete" \in given_ THEN "Delete" ELSE IF "Retain" \in given_ THEN "Retain" ELSE "none"
UpdateReplacePolicy ==
  LET given_ == {p.update : p \in policies} IN
  IF "Retain" \in given_ THEN "Retain"
  ELSE IF "Snapshot" \in given_ THEN "Snapshot"
  ELSE IF "Delete" \in given_ THEN "Delete" ELSE "none"

(* _maybe_remove_implicit_api                                              *)
MaybeRemove(api) ==
  IF \E at \in paths : at[1] = ImplicitApi THEN api
  ELSE [Generated EXCEPT !.kind = IF given.own THEN "own" ELSE "absent"]

FinishPlugin ==
  /\ phase = "collect" /\ todo = {}
  /\ implicit' = MaybeRemove(
       [kind |-> "generated",
        condition |-> IF Conditional(KeysOfApi) THEN ConditionFor(KeysOfApi, ApiCondition) ELSE NoCondition,
        deletion |-> DeletionPolicy, update |-> UpdateReplacePolicy])
  /\ pathCondition' = [at \in {p \in paths : Conditional(KeysOfPath(p))} |->
                         ConditionFor(KeysOfPath(at), PathConditionName(at[1], at[2]))]
  /\ \E last \in [CombinedNames -> paths] :
       /\ \A name \in CombinedNames : last[name] \in CombinedPathsWith(name)
       /\ conditions' =
            [name \in DOMAIN conditions \cup CombinedNames
                        \cup (IF IsCombined(KeysOfApi) THEN {ApiCondition} ELSE {}) |->
               IF name \in CombinedNames THEN Combined(KeysOfPath(last[name]))
               ELSE IF name = ApiCondition /\ IsCombined(KeysOfApi) THEN Combined(KeysOfApi)
               ELSE conditions[name]]
  /\ phase' = IF failed = {} THEN "integrate" ELSE "rejected"
  /\ todo' = IF failed = {} THEN EventsOf(given) ELSE {}
  /\ UNCHANGED <<given, failed, apiConditions, policies, paths, integrations>>

-----------------------------------------------------------------------------
(* The translation of functions.  The events of one are sorted by path,    *)
(* which does not matter here.                                             *)
NextIntegrated(pair) == phase = "integrate" /\ pair \in todo /\ OfNextFunction(pair)

At(i, api, path, key) == i.api = api /\ i.path = path /\ i.method = key
HasIntegration_AsWritten(event) ==
  \E i \in integrations : At(i, event.api, event.path, event.method)
HasIntegration(event) ==
  \E i \in integrations : At(i, event.api, event.path, NormalizeMethodName(event.method))

Integration(pair, key) ==
  [api |-> EventOf(pair).api, path |-> EventOf(pair).path, method |-> key,
   function |-> pair[1], condition |-> FunctionOf(pair).condition, form |-> "whole"]

LambdaIntegration_Unconditional(pair) ==
  [Integration(pair, NormalizeMethodName(EventOf(pair).method)) EXCEPT !.condition = NoCondition]
LambdaIntegration(pair) == Integration(pair, NormalizeMethodName(EventOf(pair).method))

AddSwaggerIntegration(pair) ==
  /\ NextIntegrated(pair)
  /\ IsManaged(EventOf(pair).api)
  /\ ~HasIntegration(EventOf(pair))
  /\ integrations' = integrations \cup {LambdaIntegration(pair)}
  /\ todo' = todo \ {pair}
  /\ UNCHANGED <<given, phase, failed, apiConditions, policies, paths, pathCondition, implicit, conditions>>

RefuseDuplicate(pair) ==
  /\ NextIntegrated(pair)
  /\ IsManaged(EventOf(pair).api)
  /\ HasIntegration(EventOf(pair))
  /\ failed' = failed \cup {pair[1]}
  /\ todo' = OthersLeft(pair)
  /\ UNCHANGED <<given, phase, apiConditions, policies, paths, pathCondition, integrations, implicit, conditions>>

(* A definition of one's own is merged with one that has this event alone, *)
(* key by key of the method: of an integration that is there already all   *)
(* is replaced.  But a function with a condition has one key, Fn::If, for  *)
(* all: this does not replace what others are there, nor do they replace   *)
(* it, and an If that is mixed with other keys is none.                    *)
Mixed(pair, key) ==
  LET path == EventOf(pair).path
      conditional == FunctionOf(pair).condition # NoCondition
  IN  \/ conditional /\ <<path, key>> \in given.body
      \/ \E i \in integrations :
           At(i, MergedApi, path, key) /\ (i.form = "mixed" \/ (i.condition # NoCondition) # conditional)

(* The paths are merged into the map of the DefinitionBody if it has one   *)
(* that is not empty, and into a map that is then dropped if it has none.  *)
MergeDefinitions(pair) ==
  LET event == EventOf(pair)
      key == Lower(event.method) IN
  /\ NextIntegrated(pair)
  /\ event.api = MergedApi
  /\ integrations' =
       IF given.body = {} THEN integrations
       ELSE {i \in integrations : ~At(i, MergedApi, event.path, key)}
              \cup {[Integration(pair, key) EXCEPT !.form = IF Mixed(pair, key) THEN "mixed" ELSE "whole"]}
  /\ todo' = todo \ {pair}
  /\ UNCHANGED <<given, phase, failed, apiConditions, policies, paths, pathCondition, implicit, conditions>>

PermitOnly(pair) ==
  /\ NextIntegrated(pair)
  /\ EventOf(pair).api = UnmanagedApi
  /\ todo' = todo \ {pair}
  /\ UNCHANGED <<given, phase, failed, apiConditions, policies, paths, pathCondition, integrations,
                 implicit, conditions>>

Finish ==
  /\ phase = "integrate" /\ todo = {}
  /\ phase' = IF failed = {} THEN "done" ELSE "rejected"
  /\ UNCHANGED <<given, todo, failed, apiConditions, policies, paths, pathCondition, integrations,
                 implicit, conditions>>

Next ==
  \/ \E pair \in todo :
       \/ AddApiToSwagger(pair) \/ RefuseEvent(pair)
       \/ AddSwaggerIntegration(pair) \/ RefuseDuplicate(pair)
       \/ MergeDefinitions(pair) \/ PermitOnly(pair)
  \/ FinishPlugin
  \/ Finish

Spec == Init /\ [][Next]_vars
-----------------------------------------------------------------------------
Integrations ==
  [api : {ImplicitApi, ManagedApi, MergedApi}, path : Paths, method : Keys,
   function : DOMAIN given.functions, condition : Conditions \cup {NoCondition}, form : {"whole", "mixed"}]

(* Every variable has its type.                                            *)
TypeOK ==
  /\ given \in Template
  /\ phase \in {"collect", "integrate", "done", "rejected"}
  /\ todo \subseteq EventsOf(given)
  /\ failed \subseteq DOMAIN given.functions
  /\ \A k \in DOMAIN apiConditions :
       k \in Apis \X Paths \X Methods /\ apiConditions[k] \in Conditions \cup {NoCondition}
  /\ policies \subseteq [deletion : DeletionPolicies, update : UpdatePolicies]
  /\ paths \subseteq {ImplicitApi, ManagedApi} \X Paths
  /\ DOMAIN pathCondition \subseteq paths
  /\ \A at \in DOMAIN pathCondition : pathCondition[at] \in Names
  /\ integrations \subseteq Integrations
  /\ implicit \in [kind : {"generated", "own", "absent"}, condition : Names \cup {NoCondition},
                   deletion : DeletionPolicies, update : UpdatePolicies]
  /\ DOMAIN conditions \subseteq Names
  /\ \A name \in DOMAIN conditions : conditions[name] \subseteq Truths

Holds(c, truth) == c = NoCondition \/ (c \in DOMAIN conditions /\ truth \in conditions[c])
Created(f, truth) == Holds(given.functions[f].condition, truth)
PathKept(at, truth) ==
  at \in paths /\ (at \in DOMAIN pathCondition => Holds(pathCondition[at], truth))
ApiKept(truth) == implicit.kind = "generated" /\ Holds(implicit.condition, truth)

-----------------------------------------------------------------------------
(* What a template may not have for the code to do well by it.             *)

EventIn(t, pair) == t.functions[pair[1]].events[pair[2]]
EventsIn(t) == {EventIn(t, pair) : pair \in EventsOf(t)}

(* An event names the author's own ServerlessRestApi.                      *)
NamesOwn(t) == t.own /\ \E e \in EventsIn(t) : e.named /\ e.api = ImplicitApi

(* Two events ask for one route of an API with definitions of its own, or  *)
(* one for a route of such an API that has no paths to merge it into.      *)
MergesTwice(t) ==
  \E p, q \in EventsOf(t) :
    /\ p # q
    /\ EventIn(t, p).api = MergedApi /\ EventIn(t, q).api = MergedApi
    /\ EventIn(t, p).path = EventIn(t, q).path
    /\ Lower(EventIn(t, p).method) = Lower(EventIn(t, q).method)
MergesIntoNothing(t) == t.body = {} /\ \E e \in EventsIn(t) : e.api = MergedApi

(* A function with a condition asks for a route that such an API describes *)
(* already: what comes of that is described under Mixed.                   *)
MergesIntoOwn(t) ==
  \E p \in EventsOf(t) :
    /\ EventIn(t, p).api = MergedApi /\ t.functions[p[1]].condition # NoCondition
    /\ <<EventIn(t, p).path, Lower(EventIn(t, p).method)>> \in t.body

MergesBadly(t) == MergesTwice(t) \/ MergesIntoNothing(t) \/ MergesIntoOwn(t)

(* Two paths are told apart by a slash or a brace alone, where the other   *)
(* has the letters that the name of its condition has in place of that.    *)
SharesName(t) ==
  \E d, e \in EventsIn(t) :
    /\ NoPath \notin {d.path, e.path} /\ d.path # e.path
    /\ PathConditionName(ImplicitApi, d.path) = PathConditionName(ImplicitApi, e.path)

-----------------------------------------------------------------------------
(* In what is translated, a function that is created serves each route of  *)
(* its events: an integration names it, as a definition can have it, and   *)
(* neither that, nor its path, nor the implicit API is missing under any   *)
(* truth that creates the function, through all the conditions that are    *)
(* combined.                                                               *)
RoutesReachable ==
  phase = "done" =>
    \A pair \in EventsOf(given), truth \in Truths :
      LET event == EventOf(pair) IN
      event.api # UnmanagedApi /\ Created(pair[1], truth) =>
        /\ \E i \in integrations :
             /\ i.api = event.api /\ i.path = event.path /\ i.function = pair[1]
             /\ i.method \in {Lower(event.method), NormalizeMethodName(event.method)}
             /\ Holds(i.condition, truth) /\ i.form = "whole"
        /\ IsManaged(event.api) => PathKept(<<event.api, event.path>>, truth)
        /\ event.api = ImplicitApi => ApiKept(truth)

(* Nothing is created that no function is behind: a path of a managed API, *)
(* and the implicit API itself, only with one of their functions, and an   *)
(* integration only with the function it invokes.                          *)
NothingWithoutFunctions ==
  phase = "done" =>
    \A truth \in Truths :
      /\ ApiKept(truth) => \E pair \in EventsOf(given) :
           EventOf(pair).api = ImplicitApi /\ Created(pair[1], truth)
      /\ \A at \in paths : PathKept(at, truth) => \E pair \in EventsOf(given) :
           EventOf(pair).api = at[1] /\ EventOf(pair).path = at[2] /\ Created(pair[1], truth)
      /\ \A i \in integrations : Holds(i.condition, truth) => Created(i.function, truth)

Clash(a, b) ==
  /\ a # b
  /\ EventOf(a).api = EventOf(b).api /\ IsManaged(EventOf(a).api)
  /\ EventOf(a).path = EventOf(b).path
  /\ NormalizeMethodName(EventOf(a).method) = NormalizeMethodName(EventOf(b).method)

(* A route belongs to one event: of two that ask a managed API for the     *)
(* same one, however they spell the method, neither wins silently.  And a  *)
(* template is refused only for such a pair, or for an event that has no   *)
(* path or no API.                                                         *)
RefusedForCause ==
  LET clashes == \E a, b \in EventsOf(given) : Clash(a, b)
      broken == \E pair \in EventsOf(given) :
                  EventOf(pair).path = NoPath \/ EventOf(pair).api = MissingApi
  IN /\ phase = "done" => ~clashes /\ ~broken
     /\ phase = "rejected" => clashes \/ broken

(* The author's own ServerlessRestApi is in the template in the end if no  *)
(* event leaves out the API it belongs to.                                 *)
OwnApiKept ==
  phase = "done" /\ given.own /\ (\A pair \in EventsOf(given) : EventOf(pair).named)
    => implicit.kind = "own"

Retains(policy) == CASE policy = "Retain" -> 3 [] policy = "Snapshot" -> 2
                     [] policy = "Delete" -> 1 [] OTHER -> 0

(* The implicit API is kept as long as the most careful of its functions:  *)
(* its policies retain what any of these retain, and never more.           *)
PoliciesOfFunctions ==
  phase = "done" /\ implicit.kind = "generated" =>
    LET functions == {FunctionOf(pair) : pair \in {p \in EventsOf(given) : EventOf(p).api = ImplicitApi}}
    IN /\ \A f \in functions : Retains(f.deletion) <= Retains(implicit.deletion)
       /\ \A f \in functions : Retains(f.update) <= Retains(implicit.update)
       /\ \E f \in functions : f.deletion = implicit.deletion
       /\ \E f \in functions : f.update = implicit.update

(* APIs follow their functions: what exists, how long it is kept, and that *)
(* the author's own API comes back.                                        *)
ApisFollowFunctions ==
  NothingWithoutFunctions /\ PoliciesOfFunctions /\ OwnApiKept
=============================================================================
