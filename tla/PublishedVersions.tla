--------------------------- MODULE PublishedVersions ---------------------------
(***************************************************************************)
(* What becomes of the generated versions when a stack is deployed again   *)
(* and again: CloudFormation publishes nothing that is there already, so   *)
(* the transform puts a hash of what a Lambda version, a layer or an API   *)
(* deployment is made from into its logical id, lets aliases and stages    *)
(* name the new one, and says what becomes of the old.  State machine      *)
(* versions have one id and are replaced as their machine is updated.      *)
(*                                                                         *)
(* The transform is LogicalId ... Stage.  CloudFormation and Lambda are    *)
(* external, with what the code's comments say of them: resources are      *)
(* updated in the order of their references, an update may fail at any     *)
(* step and is undone, what left the template is deleted at the end unless *)
(* it is retained, and publishing an unchanged function gives the version  *)
(* there is.  A value is a pair: as written in the template, and with its  *)
(* parameters resolved.                                                    *)
(***************************************************************************)
EXTENDS Naturals, Sequences, SequencesExt

CONSTANTS Stacks,      \* sets of templates, between which authors may move
          MaxUpdates,  \* bound on the updates of one stack
          Unset

VARIABLES templates,   \* the set chosen
          template,    \* what the stack was last made from, Unset at first
          wanted,      \* what it is being made from
          updates,     \* their number, and the time for AlwaysDeploy
          done,        \* the resources of this update that are through
          made,        \* everything published so far, in order
          held,        \* the stack's versions: logical id to position in made
          values,      \* its other resources, with what they refer to
          gone,        \* positions of what was deleted
          before       \* held, values and Len(made) as the update began
vars == <<templates, template, wanted, updates, done, made, held, values, gone, before>>

Written(x) == x[1]
Resolved(x) == x[2]

-----------------------------------------------------------------------------
(* The transform.                                                          *)

(* The hash given, else one of the data.                                   *)
LogicalId(prefix, data, hash) == <<prefix, hash, IF hash # Unset THEN Unset ELSE data>>

(* Metadata and the policies are not hashed, the properties are.           *)
LayerId_Fixed(t) == LogicalId("Layer", Unset, Unset)
LayerId_WithMetadata(t) == LogicalId("Layer", t.layer, Unset)
LayerId(t) ==
  LogicalId("Layer", [content |-> Written(t.layer.content), publish |-> t.layer.publish,
                      retention |-> t.layer.retention], Unset)
LayerDeletion(t) ==
  IF t.layer.retention # Unset THEN t.layer.retention
  ELSE IF t.layer.deletion # Unset THEN t.layer.deletion ELSE "Retain"

(* Code is hashed with its parameters resolved, the rest as it is written. *)
HashedLayer(t) ==
  IF t.layer # Unset /\ t.layer.publish
  THEN <<Written(t.layer.content), t.layer.publish, t.layer.retention>> ELSE Unset
LogicalDict_Unresolved(t) ==
  LET f == t.function
  IN  [code |-> Written(f.code), settings |-> Written(f.settings), all |-> f.all,
       other |-> IF f.all THEN Written(f.other) ELSE Unset,
       name |-> IF f.all THEN Written(f.name) ELSE Unset,
       layer |-> IF f.all THEN HashedLayer(t) ELSE Unset]
LogicalDict(t) ==
  LET f == t.function
  IN  [code |-> Resolved(f.code), settings |-> Written(f.settings), all |-> f.all,
       other |-> IF f.all THEN Written(f.other) ELSE Unset,
       name |-> IF f.all THEN Written(f.name) ELSE Unset,
       layer |-> IF f.all THEN HashedLayer(t) ELSE Unset]
VersionId(t) == LogicalId("Version", LogicalDict(t), t.function.sha)
VersionDeletion(t) ==
  LET f == t.function
  IN  IF f.deletion # Unset THEN f.deletion
      ELSE IF f.versionDeletion # Unset THEN f.versionDeletion
      ELSE IF f.capacity THEN "Delete" ELSE "Retain"

(* AutoPublishCodeSha256 becomes part of the function's description, which *)
(* is what makes Lambda publish code that is the same by its name.         *)
FunctionProperties_AsWritten(t, layer) ==
  [code |-> Resolved(t.function.code), settings |-> Resolved(t.function.settings),
   other |-> Resolved(t.function.other), name |-> Resolved(t.function.name),
   description |-> Unset, layer |-> layer]
FunctionProperties(t, layer) ==
  [code |-> Resolved(t.function.code), settings |-> Resolved(t.function.settings),
   other |-> Resolved(t.function.other), name |-> Resolved(t.function.name),
   description |-> t.function.sha, layer |-> layer]

(* The names of the functions an API calls change without its definition.  *)
FunctionNames(t) == IF t.function = Unset THEN Unset ELSE Resolved(t.function.name)
DeploymentId(t, time) ==
  LogicalId("Deployment",
            IF t.api.always THEN <<"time", time>>
            ELSE <<Written(t.api.definition), t.api.domain, FunctionNames(t)>>, Unset)

MachineVersionId == LogicalId("MachineVersion", Unset, Unset)
MachineVersionReplacement(t) == IF t.machine.replacement # Unset THEN t.machine.replacement ELSE "Retain"

-----------------------------------------------------------------------------
(* CloudFormation.                                                         *)

Init ==
  /\ templates \in Stacks
  /\ template = Unset /\ wanted = Unset /\ updates = 0
  /\ done = {} /\ made = <<>> /\ held = <<>> /\ values = <<>> /\ gone = {}
  /\ before = Unset

ResourcesOf(t) ==
  (IF t.layer = Unset THEN {} ELSE {"layer"})
  \cup (IF t.function = Unset THEN {} ELSE {"function", "version", "alias"})
  \cup (IF t.api = Unset THEN {} ELSE {"api", "deployment", "stage"})
  \cup (IF t.machine = Unset THEN {} ELSE {"machine", "machineVersion", "machineAlias"})

(* A resource that leaves a stack takes its versions with it, by their     *)
(* policies: the templates of a stack differ in what its resources are     *)
(* made from, not in which there are.                                      *)
ASSUME StacksAssumption ==
  /\ MaxUpdates \in Nat
  /\ \A stack \in Stacks :
       /\ Unset \notin stack
       /\ \A t, u \in stack : ResourcesOf(t) = ResourcesOf(u)
       /\ \A t \in stack :
            /\ t.function # Unset => t.function.all \in BOOLEAN
            /\ t.api # Unset => t.api.always \in BOOLEAN

StartUpdate ==
  /\ wanted = Unset /\ updates < MaxUpdates
  /\ \E t \in templates : wanted' = t
  /\ updates' = updates + 1
  /\ done' = {}
  /\ before' = [held |-> held, values |-> values, made |-> Len(made)]
  /\ UNCHANGED <<templates, template, made, held, values, gone>>

(* A resource has its turn after those it refers to.                       *)
Turn(resource, after) ==
  /\ wanted # Unset
  /\ resource \in ResourcesOf(wanted) \ done
  /\ after \cap ResourcesOf(wanted) \subseteq done
  /\ done' = done \cup {resource}
  /\ UNCHANGED <<templates, template, wanted, updates, gone, before>>

With(f, x, y) == [z \in DOMAIN f \cup {x} |-> IF z = x THEN y ELSE f[z]]
Set(resource, value) == values' = With(values, resource, value) /\ UNCHANGED <<made, held>>

Hold(id, n) == held' = With(held, id, n) /\ UNCHANGED values
(* Something new under this id; what the id was of before stays until the  *)
(* end of the update.                                                      *)
Publish(kind, id, snapshot) ==
  made' = Append(made, [kind |-> kind, id |-> id, snapshot |-> snapshot]) /\ Hold(id, Len(made) + 1)
Keep == UNCHANGED <<made, held, values>>

LayerContent(t) == Resolved(t.layer.content)
UpdateLayer ==
  /\ Turn("layer", {})
  /\ LET id == LayerId(wanted)
     IN  IF id \in DOMAIN held /\ made[held[id]].snapshot = LayerContent(wanted) THEN Keep
         ELSE Publish("layer", id, LayerContent(wanted))

UpdateFunction ==
  /\ Turn("function", {"layer"})
  /\ Set("function", FunctionProperties(wanted, IF wanted.layer = Unset THEN 0 ELSE held[LayerId(wanted)]))

Versions == {n \in DOMAIN made : made[n].kind = "version" /\ n \notin gone}
LastVersion(n) == n \in Versions /\ \A m \in Versions : m <= n
UpdateVersion ==
  /\ Turn("version", {"function"})
  /\ LET id == VersionId(wanted)
         Same(n) == LastVersion(n) /\ made[n].snapshot = values["function"]
     IN  \/ id \in DOMAIN held /\ Keep
         \/ id \notin DOMAIN held /\ \E n \in DOMAIN made : Same(n) /\ Hold(id, n) /\ UNCHANGED made
         \/ id \notin DOMAIN held /\ ~(\E n \in DOMAIN made : Same(n)) /\ Publish("version", id, values["function"])
UpdateAlias == Turn("alias", {"version"}) /\ Set("alias", held[VersionId(wanted)])

UpdateApi ==
  /\ Turn("api", {"function"})
  /\ Set("api", [definition |-> Resolved(wanted.api.definition), calls |-> FunctionNames(wanted)])
UpdateDeployment ==
  /\ Turn("deployment", {"api"})
  /\ LET id == DeploymentId(wanted, updates)
     IN  IF id \in DOMAIN held THEN Keep ELSE Publish("deployment", id, values["api"])
UpdateStage == Turn("stage", {"deployment"}) /\ Set("stage", held[DeploymentId(wanted, updates)])

UpdateMachine == Turn("machine", {}) /\ Set("machine", Resolved(wanted.machine.definition))
UpdateMachineVersion ==
  /\ Turn("machineVersion", {"machine"})
  /\ IF MachineVersionId \in DOMAIN held /\ made[held[MachineVersionId]].snapshot = values["machine"] THEN Keep
     ELSE Publish("machineVersion", MachineVersionId, values["machine"])
UpdateMachineAlias == Turn("machineAlias", {"machineVersion"}) /\ Set("machineAlias", held[MachineVersionId])

(* What leaves the stack is deleted by the policy it had, what is replaced *)
(* under its id by the UpdateReplacePolicy, which layers do not get.       *)
IdsOf(t, time) ==
  (IF t.layer = Unset THEN {} ELSE {LayerId(t)}) \cup (IF t.function = Unset THEN {} ELSE {VersionId(t)})
  \cup (IF t.api = Unset THEN {} ELSE {DeploymentId(t, time)}) \cup (IF t.machine = Unset THEN {} ELSE {MachineVersionId})
DeletionOf(id, t) ==
  CASE id[1] = "Layer" -> LayerDeletion(t)
    [] id[1] = "Version" -> VersionDeletion(t)
    [] OTHER -> "Delete"
ReplacementOf(id, t) == IF id[1] = "MachineVersion" THEN MachineVersionReplacement(t) ELSE "Delete"
Left == DOMAIN held \ IdsOf(wanted, updates)
Replaced == {id \in DOMAIN before.held \cap DOMAIN held : before.held[id] # held[id]}

FinishUpdate ==
  /\ wanted # Unset /\ done = ResourcesOf(wanted)
  /\ gone' = gone \cup {held[id] : id \in {i \in Left : DeletionOf(i, template) = "Delete"}}
                  \cup {before.held[id] : id \in {i \in Replaced : ReplacementOf(i, wanted) = "Delete"}}
  /\ held' = [id \in DOMAIN held \ Left |-> held[id]]
  /\ template' = wanted /\ wanted' = Unset
  /\ UNCHANGED <<templates, updates, done, made, values, before>>

(* The stack is as it was; what was published is deleted unless retained.  *)
FailUpdate ==
  /\ wanted # Unset
  /\ held' = before.held /\ values' = before.values
  /\ gone' = gone \cup {n \in before.made + 1 .. Len(made) :
                          made[n].kind # "machineVersion" /\ DeletionOf(made[n].id, wanted) = "Delete"}
  /\ wanted' = Unset
  /\ UNCHANGED <<templates, template, updates, done, made, before>>

Stop == wanted = Unset /\ updates = MaxUpdates /\ UNCHANGED vars

Next ==
  \/ StartUpdate
  \/ UpdateLayer \/ UpdateFunction \/ UpdateVersion \/ UpdateAlias
  \/ UpdateApi \/ UpdateDeployment \/ UpdateStage
  \/ UpdateMachine \/ UpdateMachineVersion \/ UpdateMachineAlias
  \/ FinishUpdate \/ FailUpdate \/ Stop

Spec == Init /\ [][Next]_vars

-----------------------------------------------------------------------------
(* Properties.                                                             *)

Settled == wanted = Unset /\ template # Unset
Serves(resource) == made[values[resource]].snapshot

(* The ids are hashes of what is written, of which the parameters are      *)
(* known for the code alone: what is written the same is the same ...      *)
WrittenTells ==
  \A t, u \in templates :
    /\ t.function # Unset /\ u.function # Unset =>
         /\ Written(t.function.settings) = Written(u.function.settings) =>
              Resolved(t.function.settings) = Resolved(u.function.settings)
         /\ Written(t.function.other) = Written(u.function.other) =>
              Resolved(t.function.other) = Resolved(u.function.other)
         /\ t.function.all /\ u.function.all /\ Written(t.function.name) = Written(u.function.name) =>
              Resolved(t.function.name) = Resolved(u.function.name)
    /\ t.api # Unset /\ u.api # Unset /\ Written(t.api.definition) = Written(u.api.definition) =>
         Resolved(t.api.definition) = Resolved(u.api.definition)
LayersNamed ==
  \A t, u \in templates :
    t.layer # Unset /\ u.layer # Unset /\ LayerId(t) = LayerId(u) => LayerContent(t) = LayerContent(u)
(* ... and what is the same has the same id, or versions are not deleted.  *)
SameFunction(t, u) ==
  /\ t.function # Unset /\ u.function # Unset
  /\ FunctionProperties(t, 0) = FunctionProperties(u, 0)
  /\ t.layer # Unset => LayerId(t) = LayerId(u)
VersionsNamed ==
  \/ \A t, u \in templates : SameFunction(t, u) => VersionId(t) = VersionId(u)
  \/ \A t \in templates : t.function # Unset => VersionDeletion(t) # "Delete"

(* After an update the alias leads to a version made of what the template  *)
(* says: of the code and the settings that are published, of all if all    *)
(* properties are, or by the hash of the code where the author gives one;  *)
(* and the stage to a deployment of the definition, calling the functions  *)
(* by the names they have.                                                 *)
ServedAsWritten ==
  Settled =>
    /\ template.function # Unset =>
         LET f == template.function
             s == Serves("alias")
         IN  /\ s.description = f.sha
             /\ f.sha = Unset =>
                  /\ s.code = Resolved(f.code) /\ s.settings = Resolved(f.settings)
                  /\ f.all => s.other = Resolved(f.other) /\ s.name = Resolved(f.name)
                  /\ f.all /\ HashedLayer(template) # Unset => s.layer = held[LayerId(template)]
    /\ template.api # Unset =>
         Serves("stage") = [definition |-> Resolved(template.api.definition), calls |-> FunctionNames(template)]
    /\ template.machine # Unset => Serves("machineAlias") = Resolved(template.machine.definition)

(* Nothing in use is ever deleted: at every step of an update, and of one  *)
(* that is undone, aliases, stages and functions lead to what is there.    *)
InUseBy(v) ==
  {v[r] : r \in DOMAIN v \cap {"alias", "stage", "machineAlias"}}
  \cup (IF "function" \in DOMAIN v THEN {v["function"].layer} ELSE {})
InUse == InUseBy(values)
NothingInUseDeleted == InUse \cap gone = {}

(* A layer, a Lambda version or a state machine version is deleted only by *)
(* an author who asked for it: none otherwise, however often the stack is  *)
(* updated, and so can be gone back to.                                    *)
Expendable(t) ==
  (IF t.layer # Unset /\ "Delete" \in {t.layer.retention, t.layer.deletion} THEN {"layer"} ELSE {})
  \cup (IF t.function # Unset /\ ("Delete" \in {t.function.deletion, t.function.versionDeletion} \/ t.function.capacity)
        THEN {"version"} ELSE {})
  \cup (IF t.machine # Unset /\ t.machine.replacement = "Delete" THEN {"machineVersion"} ELSE {})
OldVersionsKept ==
  \A n \in gone : made[n].kind = "deployment" \/ \E t \in templates : made[n].kind \in Expendable(t)

(* Nothing is published by an update that touches nothing it is made from. *)
MadeFrom(kind, t) ==
  CASE kind = "version" ->
         LET f == t.function
         IN  IF f.sha # Unset THEN <<f.sha>>
             ELSE IF f.all THEN <<f.code, f.settings, f.other, f.name, HashedLayer(t)>> ELSE <<f.code, f.settings>>
    [] kind = "layer" -> <<t.layer.content, t.layer.publish, t.layer.retention>>
    [] kind = "deployment" -> <<t.api.definition, t.api.domain, FunctionNames(t), t.api.always>>
    [] OTHER -> <<t.machine.definition>>
NothingPublishedTwice ==
  [][\A n \in DOMAIN made' \ DOMAIN made :
       template # Unset /\ ~(made'[n].kind = "deployment" /\ wanted.api.always) =>
         MadeFrom(made'[n].kind, wanted) # MadeFrom(made'[n].kind, template)]_vars
=============================================================================
