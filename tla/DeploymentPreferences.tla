------------------------ MODULE DeploymentPreferences ------------------------
(***************************************************************************)
(* DeploymentPreferenceCollection: the functions of a template register    *)
(* their deployment preferences one after the other; then one CodeDeploy   *)
(* application, one service role and a deployment group per function are   *)
(* generated.  Every one of these may have a condition, and the group of a *)
(* function refers to the application and the role: whatever conditions    *)
(* hold at deployment, what is there must find what it refers to.          *)
(***************************************************************************)
EXTENDS FiniteSets, Naturals

CONSTANTS
  Functions,    \* functions with a DeploymentPreference
  Conditions,   \* conditions of the template
  NoCondition,
  Aggregate,    \* ServerlessCodeDeployCondition
  Templates     \* the preferences considered, see Preference

Preference ==
  [condition   : Conditions \cup {NoCondition}, \* of the function
   passthrough : BOOLEAN,                       \* PassthroughCondition
   enabled     : BOOLEAN,
   wellFormed  : BOOLEAN,                       \* Type given, Hooks a map
   alarmsOk    : BOOLEAN,                       \* Alarms a list
   ownRole     : BOOLEAN,
   alias       : BOOLEAN]                       \* AutoPublishAlias given

ASSUME PreferencesAssumption ==
  /\ NoCondition \notin Conditions
  /\ Aggregate \notin Conditions \cup {NoCondition}
  /\ IsFiniteSet(Conditions)
  /\ Templates \subseteq [Functions -> Preference]

VARIABLES
  given,     \* the preference each function has in the template
  todo,      \* functions the loop has still to translate
  added,     \* _resource_preferences: functions that have registered
  errors,
  phase,     \* "functions", "groups", "done"
  aggregate, \* what the aggregate condition is the disjunction of, or {}
  shared,    \* the condition on the application (and on the role)
  app, role, \* they are generated
  groups     \* functions whose deployment group is generated

preferencesVars == <<given, todo, added, errors, phase, aggregate, shared, app, role, groups>>

PreferencesInit ==
  /\ given \in Templates
  /\ todo = Functions
  /\ added = {}
  /\ errors = FALSE
  /\ phase = "functions"
  /\ aggregate = {}
  /\ shared = NoCondition
  /\ app = FALSE /\ role = FALSE
  /\ groups = {}

-----------------------------------------------------------------------------
(* A function registers and, if the preference is enabled, gives its alias *)
(* an update policy; it may fail before or after it registered.            *)
Malformed(f) == given[f].enabled /\ ~given[f].wellFormed
FailsLate(f) == given[f].enabled /\ ~(given[f].alias /\ given[f].alarmsOk)

AddPreference(f) ==
  /\ phase = "functions"
  /\ f \in todo
  /\ todo' = todo \ {f}
  /\ added' = IF Malformed(f) THEN added ELSE added \cup {f}
  /\ errors' = (errors \/ Malformed(f) \/ FailsLate(f))
  /\ UNCHANGED <<given, phase, aggregate, shared, app, role, groups>>

(* The condition recorded: none unless the preference is enabled and has   *)
(* its function's condition passed through.                                *)
RecordedCondition(f) ==
  IF given[f].enabled /\ given[f].passthrough THEN given[f].condition ELSE NoCondition

AllConditions == {RecordedCondition(f) : f \in added} \ {NoCondition}

EnabledIds_Conditional == {f \in added : given[f].enabled /\ RecordedCondition(f) # NoCondition}
EnabledIds == {f \in added : given[f].enabled}

NeedsCondition_Never == FALSE
NeedsCondition_IfAny == AllConditions # {}
NeedsCondition ==
  added # {} /\ ~ \E f \in added : given[f].enabled /\ RecordedCondition(f) = NoCondition

CanSkipRole == \A f \in added : given[f].ownRole \/ ~given[f].enabled

(* get_codedeploy_application and create_aggregate_deployment_condition,   *)
(* which make_combined_condition makes the disjunction of two or more.     *)
Combines(cs) == Cardinality(cs) >= 2

ResourceCondition ==
  IF Cardinality(AllConditions) <= 1
    THEN CHOOSE c \in AllConditions : TRUE
    ELSE Aggregate

AddApplication ==
  /\ phase = "functions"
  /\ todo = {}
  /\ IF EnabledIds = {}
       THEN phase' = "done" /\ UNCHANGED <<aggregate, shared, app, role>>
       ELSE /\ phase' = "groups"
            /\ app' = TRUE
            /\ IF NeedsCondition
                 THEN /\ shared' = ResourceCondition
                      /\ aggregate' = IF Combines(AllConditions) THEN AllConditions ELSE {}
                 ELSE UNCHANGED <<aggregate, shared>>
            /\ role' = ~CanSkipRole
  /\ UNCHANGED <<given, todo, added, errors, groups>>

(* A group whose alarms are invalid is one more error.                     *)
AddGroups ==
  /\ phase = "groups"
  /\ groups' = {f \in EnabledIds : given[f].alarmsOk}
  /\ errors' = (errors \/ groups' # EnabledIds)
  /\ phase' = "done"
  /\ UNCHANGED <<given, todo, added, aggregate, shared, app, role>>

PreferencesNext == (\E f \in Functions : AddPreference(f)) \/ AddApplication \/ AddGroups
PreferencesSpec == PreferencesInit /\ [][PreferencesNext]_preferencesVars

-----------------------------------------------------------------------------
PreferencesTypeOK ==
  /\ given \in [Functions -> Preference]
  /\ todo \subseteq Functions
  /\ added \subseteq Functions
  /\ errors \in BOOLEAN
  /\ phase \in {"functions", "groups", "done"}
  /\ aggregate \subseteq Conditions
  /\ shared \in Conditions \cup {NoCondition, Aggregate}
  /\ app \in BOOLEAN /\ role \in BOOLEAN
  /\ groups \subseteq Functions

(* A resource with condition c is created when truth makes c hold.         *)
Created(c, truth) ==
  \/ c = NoCondition
  \/ c = Aggregate /\ \E d \in aggregate : truth[d]
  \/ c \in Conditions /\ truth[c]

Truths == [Conditions -> BOOLEAN]
Returned == phase = "done" /\ ~errors
GroupCreated(f, truth) == f \in groups /\ Created(RecordedCondition(f), truth)

(* A deployment group that is created finds the application it belongs to, *)
(* and the service role unless it has its own, under any truth of the      *)
(* conditions of the template.                                             *)
GroupsFindWhatTheyName ==
  Returned => \A truth \in Truths, f \in Functions : GroupCreated(f, truth) =>
                /\ app /\ Created(shared, truth)
                /\ given[f].ownRole \/ role

(* The alias of a function with an enabled preference, which has the       *)
(* function's condition, finds the group its update policy names.          *)
AliasesFindGroups ==
  Returned => \A truth \in Truths, f \in Functions :
                (given[f].enabled /\ Created(given[f].condition, truth))
                  => GroupCreated(f, truth)

(* The application and the role are not created without a group.           *)
NothingIdle ==
  Returned /\ app => \A truth \in Truths :
    Created(shared, truth) => \E f \in Functions : GroupCreated(f, truth)

(* A resource has the aggregate condition only when it is defined.         *)
AggregateIsDefined == Returned /\ shared = Aggregate => aggregate # {}
=============================================================================
