--------------------------- MODULE SharedUsagePlan ---------------------------
(***************************************************************************)
(* The usage plan, API key and usage plan key that the AWS::Serverless::Api *)
(* resources with CreateUsagePlan SHARED have in common.  Every such API   *)
(* generates the three again, from what SharedApiUsagePlan collected so    *)
(* far, and the last copy replaces the others in the template.  APIs with  *)
(* PER_API have three of their own.                                        *)
(***************************************************************************)
EXTENDS FiniteSets, Naturals

CONSTANTS
  Apis,         \* the AWS::Serverless::Api resources
  Conditions,   \* conditions of the template
  NoCondition,
  Combined,     \* SharedUsagePlanCondition
  Shared,       \* stands for the three shared resources' owner
  Templates     \* the templates considered, see Template

Policies == {"none", "Delete", "Snapshot", "Retain"}

Api ==
  [usagePlan : {"NONE", "PER_API", "SHARED"}, \* CreateUsagePlan; NONE if absent
   condition : Conditions \cup {NoCondition},
   deletion  : Policies,                      \* DeletionPolicy
   update    : Policies,                      \* UpdateReplacePolicy
   settings  : BOOLEAN]                       \* a Quota, a UsagePlanName ...

Template ==
  [conditions : BOOLEAN,                      \* there is a Conditions section
   apis       : [Apis -> Api]]

ASSUME TemplatesAssumption ==
  /\ NoCondition \notin Conditions
  /\ Combined \notin Conditions \cup {NoCondition}
  /\ Shared \notin Apis
  /\ Templates \subseteq Template

Kinds == {"UsagePlan", "ApiKey", "UsagePlanKey"}

VARIABLES
  given,     \* the template
  todo,      \* APIs still to translate
  failed,    \* an API had an error: nothing is returned
  collected, \* the SharedApiUsagePlan
  defined,   \* what the template defines Combined to be the disjunction of,
             \* {} if it has no such condition
  resources  \* owner -> kind -> the resource as last generated

vars == <<given, todo, failed, collected, defined, resources>>

Init ==
  /\ given \in Templates
  /\ todo = Apis
  /\ failed = FALSE
  /\ collected = [stages |-> {}, keys |-> {}, depends |-> {}, conditions |-> {},
                  without |-> FALSE, deletion |-> "none", update |-> "none"]
  /\ defined = {}
  /\ resources = <<>>

-----------------------------------------------------------------------------
(* What SharedApiUsagePlan makes of one more API.                          *)

DeletionWith(old, new) ==
  IF new # "none" /\ (old = "none" \/ new = "Retain") THEN new ELSE old

UpdateWith_LastWins(old, new) == IF new = "none" THEN old ELSE new
UpdateWith(old, new) ==
  IF \/ old = "none"
     \/ new = "Retain"
     \/ new = "Snapshot" /\ old = "Delete"
  THEN new ELSE old

(* A condition that was not met before needs a Conditions section.         *)
Raises(c, a) ==
  /\ ~c.without
  /\ a.condition \notin c.conditions \cup {NoCondition}
  /\ ~given.conditions

Note(c, a) ==
  [c EXCEPT
     !.deletion = DeletionWith(@, a.deletion),
     !.update = UpdateWith(@, a.update),
     !.conditions = IF c.without \/ a.condition = NoCondition
                    THEN @ ELSE @ \cup {a.condition},
     !.without = @ \/ a.condition = NoCondition]

(* The template's definition of Combined, after c noted the same.          *)
Definition_First(c) ==
  IF c.without THEN {}
  ELSE IF defined # {} THEN defined ELSE c.conditions
Definition(c) == IF c.without THEN {} ELSE c.conditions

Attributes_Whole(c) ==
  [condition |-> IF c.conditions # {} /\ ~c.without THEN c.conditions ELSE NoCondition,
   deletion  |-> c.deletion,
   update    |-> c.update]
Attributes(c) ==
  [condition |-> IF c.conditions # {} /\ ~c.without THEN Combined ELSE NoCondition,
   deletion  |-> c.deletion,
   update    |-> c.update]

Passthrough(a) ==
  [condition |-> a.condition, deletion |-> a.deletion, update |-> a.update]

(* A generated resource: its attributes, the APIs it is for, the API whose *)
(* Ref is in its DependsOn, whether it has the optional settings.          *)
Generated(attributes, apis, depends, settings) ==
  [attributes |-> attributes, apis |-> apis, depends |-> depends, settings |-> settings]

Put(owner, plan, key, planKey) ==
  resources' =
    [o \in DOMAIN resources \cup {owner} |->
       IF o = owner
       THEN [UsagePlan |-> plan, ApiKey |-> key, UsagePlanKey |-> planKey]
       ELSE resources[o]]

-----------------------------------------------------------------------------
Take(api) ==
  /\ api \in todo
  /\ todo' = todo \ {api}
  /\ UNCHANGED given

TranslateWithout(api) ==
  /\ Take(api)
  /\ given.apis[api].usagePlan = "NONE"
  /\ UNCHANGED <<failed, collected, defined, resources>>

TranslatePerApi(api) ==
  LET a == given.apis[api]
      Own(settings, depends) == Generated(Passthrough(a), {api}, depends, settings)
  IN /\ Take(api)
     /\ a.usagePlan = "PER_API"
     /\ Put(api, Own(a.settings, {api}), Own(FALSE, {}),
            Generated(Passthrough(a), {}, {}, FALSE))
     /\ UNCHANGED <<failed, collected, defined>>

(* The attributes are collected anew for each of the three resources.      *)
TranslateShared(api) ==
  LET a       == given.apis[api]
      start   == [collected EXCEPT !.depends = @ \cup {api}]
      forPlan == [Note(start, a) EXCEPT !.stages = @ \cup {api}]
      forKey  == [Note(forPlan, a) EXCEPT !.keys = @ \cup {api}]
      last    == Note(forKey, a)
  IN /\ Take(api)
     /\ a.usagePlan = "SHARED"
     /\ ~Raises(collected, a)
     /\ collected' = last
     /\ defined' = Definition(last)
     /\ Put(Shared,
            Generated(Attributes(forPlan), forPlan.stages, forPlan.depends, a.settings),
            Generated(Attributes(forKey), forKey.keys, {}, FALSE),
            Generated(Attributes(last), {}, {}, FALSE))
     /\ UNCHANGED failed

SharedRaises(api) ==
  LET a == given.apis[api]
  IN /\ Take(api)
     /\ a.usagePlan = "SHARED"
     /\ Raises(collected, a)
     /\ collected' =
          [collected EXCEPT !.depends = @ \cup {api},
                            !.deletion = DeletionWith(@, a.deletion),
                            !.update = UpdateWith(@, a.update)]
     /\ failed' = TRUE
     /\ UNCHANGED <<defined, resources>>

(* Any of the earlier steps of the generator raises.                       *)
TranslateFails(api) ==
  /\ Take(api)
  /\ failed' = TRUE
  /\ UNCHANGED <<collected, defined, resources>>

Next ==
  \E api \in Apis :
    \/ TranslateWithout(api)
    \/ TranslatePerApi(api)
    \/ TranslateShared(api)
    \/ SharedRaises(api)
    \/ TranslateFails(api)

Spec == Init /\ [][Next]_vars

-----------------------------------------------------------------------------
(* Properties.                                                             *)

Collected ==
  [stages : SUBSET Apis, keys : SUBSET Apis, depends : SUBSET Apis,
   conditions : SUBSET Conditions, without : BOOLEAN,
   deletion : Policies, update : Policies]

Resource ==
  [attributes : [condition : Conditions \cup {NoCondition, Combined},
                 deletion : Policies, update : Policies],
   apis : SUBSET Apis, depends : SUBSET Apis, settings : BOOLEAN]

(* The variables have the shape of what the code keeps.                    *)
TypeOK ==
  /\ given \in Template
  /\ todo \subseteq Apis
  /\ failed \in BOOLEAN
  /\ collected \in Collected
  /\ defined \subseteq Conditions
  /\ DOMAIN resources \subseteq Apis \cup {Shared}
  /\ resources \in [DOMAIN resources -> [Kinds -> Resource]]

Returned == todo = {} /\ ~failed

(* The APIs an owner's resources are for.                                  *)
UsersOf(owner) ==
  IF owner = Shared THEN {a \in Apis : given.apis[a].usagePlan = "SHARED"}
  ELSE {a \in {owner} : given.apis[a].usagePlan = "PER_API"}

(* Does a condition hold when those in truth do?                           *)
Holds(truth, condition) ==
  \/ condition = NoCondition
  \/ condition \in truth
  \/ condition = Combined /\ defined \cap truth # {}

Created(truth, owner, kind) ==
  /\ owner \in DOMAIN resources
  /\ Holds(truth, resources[owner][kind].attributes.condition)

(* Whatever conditions hold at deployment, the plan, its key and the       *)
(* association of the two are created exactly when one of the APIs they    *)
(* are for is (_set_condition, get_combined_resource_attributes): APIs     *)
(* with and without conditions may come in any order, and the template     *)
(* defines the condition that the resources have.                          *)
PlanWithApis ==
  Returned =>
    \A owner \in Apis \cup {Shared}, kind \in Kinds, truth \in SUBSET Conditions :
      Created(truth, owner, kind) <=>
        \E a \in UsersOf(owner) : Holds(truth, given.apis[a].condition)

Care == [none |-> 0, Delete |-> 1, Snapshot |-> 2, Retain |-> 3]

(* The last copy of the shared resources is for all the APIs that share    *)
(* them, whichever came last, and keeps what the most careful policies of  *)
(* any of them keep (sam-docs.json on CreateUsagePlan: "shared across any  *)
(* API that also has CreateUsagePlan: SHARED in the same AWS SAM           *)
(* template"; _set_deletion_policy looks for Retain only).                 *)
SharedByAll ==
  Returned /\ UsersOf(Shared) # {} =>
  LET users == UsersOf(Shared)
      At(kind) == resources[Shared][kind]
  IN /\ At("UsagePlan").apis = users
     /\ At("UsagePlan").depends = users
     /\ At("ApiKey").apis = users
     /\ \A kind \in Kinds, a \in users :
          LET kept == At(kind).attributes
              asks == given.apis[a]
          IN /\ asks.deletion = "Retain" => kept.deletion = "Retain"
             /\ asks.deletion # "none" => kept.deletion # "none"
             /\ Care[asks.update] <= Care[kept.update]
=============================================================================
