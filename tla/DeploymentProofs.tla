--------------------------- MODULE DeploymentProofs ---------------------------
(***************************************************************************)
(* Proofs about what is published and deployed.  First about               *)
(* PublishedVersions, for any stacks and any number of updates.            *)
(*                                                                         *)
(* Between two updates the stack is as its template says: its versions are *)
(* those of the ids the transform gives, each made from what the id was    *)
(* hashed of, and its aliases, stages and functions lead to them.  During  *)
(* an update the resources that are through are as the wanted template     *)
(* says, the ids of the others are held as before, and what the stack was  *)
(* is kept, so that a failure can return to it.  That is the inductive     *)
(* invariant; the conditions WrittenTells, LayersNamed and VersionsNamed   *)
(* are needed for some of its parts and are hypotheses of those alone.     *)
(***************************************************************************)
EXTENDS PublishedVersions, DeploymentPreferences, CombinedCondition,
        FiniteSetTheorems, SequenceTheorems, TLAPS

LayerOf(t) == [kind |-> "layer", id |-> LayerId(t), snapshot |-> LayerContent(t)]
VersionOf(t, p) == [kind |-> "version", id |-> VersionId(t), snapshot |-> FunctionProperties(t, p)]
ApiOf(t) == [definition |-> Resolved(t.api.definition), calls |-> FunctionNames(t)]
DeploymentOf(t, k) == [kind |-> "deployment", id |-> DeploymentId(t, k), snapshot |-> ApiOf(t)]
MachineVersionOf(t) ==
  [kind |-> "machineVersion", id |-> MachineVersionId, snapshot |-> Resolved(t.machine.definition)]

(* Whatever was published was made of a template of the stack.             *)
MadeOfATemplate ==
  /\ made \in Seq(ToSet(made))
  /\ \A n \in DOMAIN made : \E t \in templates :
       \/ t.layer # Unset /\ made[n] = LayerOf(t)
       \/ t.function # Unset /\ \E p \in 0 .. Len(made) : made[n] = VersionOf(t, p)
       \/ t.api # Unset /\ \E k \in 0 .. updates : made[n] = DeploymentOf(t, k)
       \/ t.machine # Unset /\ made[n] = MachineVersionOf(t)

(* What the stack with versions h and values v has for a resource, that    *)
(* template t, at time k, says.                                            *)
LayerIn(t, h) == IF t.layer = Unset THEN 0 ELSE h[LayerId(t)]
VersionServes(s, t, h) ==
  LET f == t.function
  IN  /\ s.description = f.sha
      /\ f.sha = Unset =>
           /\ s.code = Resolved(f.code)
           /\ WrittenTells => s.settings = Resolved(f.settings)
           /\ WrittenTells /\ f.all => s.other = Resolved(f.other) /\ s.name = Resolved(f.name)
           /\ LayersNamed /\ f.all /\ HashedLayer(t) # Unset => s.layer = LayerIn(t, h)

LayerIs(t, h) == LayerId(t) \in DOMAIN h /\ made[h[LayerId(t)]] = LayerOf(t)
FunctionIs(t, h, v) == "function" \in DOMAIN v /\ v["function"] = FunctionProperties(t, LayerIn(t, h))
VersionIs(t, h) ==
  /\ VersionId(t) \in DOMAIN h
  /\ made[h[VersionId(t)]].kind = "version"
  /\ VersionServes(made[h[VersionId(t)]].snapshot, t, h)
AliasIs(t, h, v) == "alias" \in DOMAIN v /\ v["alias"] = h[VersionId(t)]
ApiIs(t, v) == "api" \in DOMAIN v /\ v["api"] = ApiOf(t)
DeploymentIs(t, k, h) ==
  LET id == DeploymentId(t, k)
  IN  /\ id \in DOMAIN h
      /\ made[h[id]].kind = "deployment" /\ made[h[id]].id = id
      /\ WrittenTells => made[h[id]].snapshot = ApiOf(t)
StageIs(t, k, h, v) == "stage" \in DOMAIN v /\ v["stage"] = h[DeploymentId(t, k)]
MachineIs(t, v) == "machine" \in DOMAIN v /\ v["machine"] = Resolved(t.machine.definition)
MachineVersionIs(t, h) ==
  MachineVersionId \in DOMAIN h /\ made[h[MachineVersionId]] = MachineVersionOf(t)
MachineAliasIs(h, v) == "machineAlias" \in DOMAIN v /\ v["machineAlias"] = h[MachineVersionId]

ResourcesAre(resources, t, k, h, v) ==
  /\ "layer" \in resources => LayerIs(t, h)
  /\ "function" \in resources => FunctionIs(t, h, v)
  /\ "version" \in resources => VersionIs(t, h)
  /\ "alias" \in resources => AliasIs(t, h, v)
  /\ "api" \in resources => ApiIs(t, v)
  /\ "deployment" \in resources => DeploymentIs(t, k, h)
  /\ "stage" \in resources => StageIs(t, k, h, v)
  /\ "machine" \in resources => MachineIs(t, v)
  /\ "machineVersion" \in resources => MachineVersionIs(t, h)
  /\ "machineAlias" \in resources => MachineAliasIs(h, v)

(* A stack between updates, of which the last was at time k or before.     *)
StackIs(t, k, h, v) ==
  /\ DOMAIN h = IdsOf(t, k) /\ DOMAIN v \subseteq ResourcesOf(t)
  /\ ResourcesAre(ResourcesOf(t), t, k, h, v)
StackWas(k, h, v) ==
  IF template = Unset THEN DOMAIN h = {} /\ DOMAIN v = {}
  ELSE \E j \in 0 .. k : StackIs(template, j, h, v)

IdsDone ==
  (IF "layer" \in done THEN {LayerId(wanted)} ELSE {})
  \cup (IF "version" \in done THEN {VersionId(wanted)} ELSE {})
  \cup (IF "deployment" \in done THEN {DeploymentId(wanted, updates)} ELSE {})
  \cup (IF "machineVersion" \in done THEN {MachineVersionId} ELSE {})

DoneInOrder ==
  /\ done \subseteq ResourcesOf(wanted)
  /\ "function" \in done /\ wanted.layer # Unset => "layer" \in done
  /\ "version" \in done => "function" \in done
  /\ "alias" \in done => "version" \in done
  /\ "api" \in done /\ wanted.function # Unset => "function" \in done
  /\ "deployment" \in done => "api" \in done
  /\ "stage" \in done => "deployment" \in done
  /\ "machineVersion" \in done => "machine" \in done
  /\ "machineAlias" \in done => "machineVersion" \in done

(* An id is held as before, but for a layer of other content and for the   *)
(* version of a state machine.                                             *)
ReplacedForCause(id) ==
  \/ /\ "layer" \in done /\ id = LayerId(wanted)
     /\ made[before.held[id]].snapshot # LayerContent(wanted)
  \/ "machineVersion" \in done /\ id = MachineVersionId

Updating ==
  /\ before = [held |-> before.held, values |-> before.values, made |-> before.made]
  /\ updates > 0
  /\ before.made \in 0 .. Len(made)
  /\ \A id \in DOMAIN before.held : before.held[id] \in 1 .. before.made
  /\ StackWas(updates - 1, before.held, before.values)
  /\ DOMAIN held = DOMAIN before.held \cup IdsDone
  /\ \A id \in DOMAIN before.held : before.held[id] # held[id] => ReplacedForCause(id)
  /\ DOMAIN values \subseteq ResourcesOf(wanted)
  /\ DoneInOrder
  /\ ResourcesAre(done, wanted, updates, held, values)

TypeOK ==
  /\ templates \in Stacks
  /\ template \in templates \cup {Unset} /\ wanted \in templates \cup {Unset}
  /\ updates \in Nat
  /\ gone \subseteq DOMAIN made
  /\ \A id \in DOMAIN held : held[id] \in DOMAIN made

(* Two ids may share a version: it is what each of them was hashed of.     *)
LayerAt(t, p) ==
  IF t.layer = Unset THEN p = 0 ELSE p \in DOMAIN made /\ made[p].id = LayerId(t)
VersionsShared ==
  \A id \in DOMAIN held : id[1] = "Version" =>
    \E t \in templates, p \in 0 .. Len(made) :
      /\ t.function # Unset /\ VersionId(t) = id
      /\ made[held[id]].kind = "version" /\ made[held[id]].snapshot = FunctionProperties(t, p)
      /\ LayerAt(t, p)

StackInv ==
  /\ TypeOK /\ MadeOfATemplate /\ VersionsShared
  /\ wanted = Unset => StackWas(updates, held, values)
  /\ wanted # Unset => Updating

HeldBy(h) == {h[id] : id \in DOMAIN h}
NothingHeldGone ==
  VersionsNamed =>
    /\ HeldBy(held) \cap gone = {} /\ InUseBy(values) \cap gone = {}
    /\ wanted # Unset => HeldBy(before.held) \cap gone = {} /\ InUseBy(before.values) \cap gone = {}
GoneByPolicy == LayersNamed => OldVersionsKept

-----------------------------------------------------------------------------
(* Ids.                                                                    *)

(* The prefix of an id is that of its resource.                            *)
LEMMA IdPrefixes ==
  ASSUME NEW t, NEW k
  PROVE  /\ LayerId(t)[1] = "Layer"
         /\ VersionId(t)[1] = "Version"
         /\ DeploymentId(t, k)[1] = "Deployment"
         /\ MachineVersionId[1] = "MachineVersion"
<1>1. \A prefix, data, hash : LogicalId(prefix, data, hash)[1] = prefix
  BY DEF LogicalId
<1>2. LayerId(t)[1] = "Layer"
  BY <1>1 DEF LayerId
<1>3. VersionId(t)[1] = "Version"
  BY <1>1 DEF VersionId
<1>4. DeploymentId(t, k)[1] = "Deployment"
  BY <1>1 DEF DeploymentId
<1>5. MachineVersionId[1] = "MachineVersion"
  BY <1>1 DEF MachineVersionId
<1> QED
  BY <1>2, <1>3, <1>4, <1>5

(* Two layers of one id have the same content as it is written, and are    *)
(* published or not alike.                                                 *)
LEMMA LayerIdTells ==
  ASSUME NEW t, NEW u, LayerId(t) = LayerId(u)
  PROVE  /\ Written(t.layer.content) = Written(u.layer.content)
         /\ t.layer.publish = u.layer.publish /\ t.layer.retention = u.layer.retention
<1> DEFINE data(x) == [content |-> Written(x.layer.content), publish |-> x.layer.publish,
                       retention |-> x.layer.retention]
<1>1. data(t) = data(u)
  BY DEF LayerId, LogicalId
<1>2. /\ data(t).content = data(u).content /\ data(t).publish = data(u).publish
      /\ data(t).retention = data(u).retention
  BY <1>1
<1> QED
  BY <1>2

(* Two versions of one id have the same hash given, or else the same code, *)
(* the same settings as they are written, and so on.                       *)
LEMMA VersionIdTells ==
  ASSUME NEW t, NEW u, VersionId(t) = VersionId(u)
  PROVE  /\ t.function.sha = u.function.sha
         /\ t.function.sha = Unset =>
              /\ Resolved(t.function.code) = Resolved(u.function.code)
              /\ Written(t.function.settings) = Written(u.function.settings)
              /\ t.function.all = u.function.all
              /\ t.function.all =>
                   /\ Written(t.function.other) = Written(u.function.other)
                   /\ Written(t.function.name) = Written(u.function.name)
                   /\ HashedLayer(t) = HashedLayer(u)
<1>1. t.function.sha = u.function.sha
  BY DEF VersionId, LogicalId
<1>2. ASSUME t.function.sha = Unset
      PROVE  LogicalDict(t) = LogicalDict(u)
  BY <1>1, <1>2 DEF VersionId, LogicalId
<1>3. ASSUME LogicalDict(t) = LogicalDict(u)
      PROVE  /\ LogicalDict(t).code = LogicalDict(u).code
             /\ LogicalDict(t).settings = LogicalDict(u).settings
             /\ LogicalDict(t).all = LogicalDict(u).all
             /\ LogicalDict(t).other = LogicalDict(u).other
             /\ LogicalDict(t).name = LogicalDict(u).name
             /\ LogicalDict(t).layer = LogicalDict(u).layer
  BY <1>3
<1> QED
  BY <1>1, <1>2, <1>3 DEF LogicalDict

(* A layer that is hashed into the id of a version is there, and has the   *)
(* id of the other layer that gives the same hash.                         *)
LEMMA HashedLayerTells ==
  ASSUME NEW t, NEW u, HashedLayer(t) = HashedLayer(u), HashedLayer(t) # Unset
  PROVE  t.layer # Unset /\ u.layer # Unset /\ LayerId(t) = LayerId(u)
<1>1. t.layer # Unset /\ u.layer # Unset
  BY DEF HashedLayer
<1>2. <<Written(t.layer.content), t.layer.publish, t.layer.retention>>
        = <<Written(u.layer.content), u.layer.publish, u.layer.retention>>
  BY DEF HashedLayer
<1>3. /\ Written(t.layer.content) = Written(u.layer.content)
      /\ t.layer.publish = u.layer.publish /\ t.layer.retention = u.layer.retention
  BY <1>2
<1> QED
  BY <1>1, <1>3 DEF LayerId

(* A pair is no triple.                                                    *)
LEMMA TupleLengths ==
  ASSUME NEW a, NEW b, NEW c, NEW d, NEW e
  PROVE  <<a, b>> # <<c, d, e>>
<1>1. Len(<<a, b>>) = 2 /\ Len(<<c, d, e>>) = 3
  OBVIOUS
<1> QED
  BY <1>1

(* Two deployments of one id were both forced at one time, or else are of  *)
(* the same definition as it is written, with the same domain and names.   *)
LEMMA DeploymentIdTells ==
  ASSUME NEW t, NEW k, NEW u, NEW j, DeploymentId(t, k) = DeploymentId(u, j),
         t.api.always \in BOOLEAN, u.api.always \in BOOLEAN
  PROVE  /\ t.api.always = u.api.always
         /\ t.api.always => k = j
         /\ ~t.api.always => /\ Written(t.api.definition) = Written(u.api.definition)
                             /\ t.api.domain = u.api.domain
                             /\ FunctionNames(t) = FunctionNames(u)
<1> DEFINE named(x) == <<Written(x.api.definition), x.api.domain, FunctionNames(x)>>
           forced(n) == <<"time", n>>
           data(x, n) == IF x.api.always THEN forced(n) ELSE named(x)
<1>1. data(t, k) = data(u, j)
  BY DEF DeploymentId, LogicalId
<1>2. \A x, y, n : named(x) # forced(n)
  BY TupleLengths
<1>3. CASE t.api.always
  <2>1. u.api.always
    BY <1>1, <1>2, <1>3
  <2>2. forced(k) = forced(j)
    BY <1>1, <1>3, <2>1
  <2> QED
    BY <1>3, <2>1, <2>2
<1>4. CASE ~t.api.always
  <2>1. ~u.api.always
    BY <1>1, <1>2, <1>4
  <2>2. named(t) = named(u)
    BY <1>1, <1>4, <2>1
  <2> QED
    BY <1>4, <2>1, <2>2
<1> QED
  BY <1>3, <1>4

-----------------------------------------------------------------------------
(* Templates, and the functions and sequences that steps change.           *)

(* Which resources a template has.                                         *)
LEMMA ResourcesPresent ==
  ASSUME NEW t
  PROVE  /\ "layer" \in ResourcesOf(t) <=> t.layer # Unset
         /\ \A r \in {"function", "version", "alias"} : r \in ResourcesOf(t) <=> t.function # Unset
         /\ \A r \in {"api", "deployment", "stage"} : r \in ResourcesOf(t) <=> t.api # Unset
         /\ \A r \in {"machine", "machineVersion", "machineAlias"} :
              r \in ResourcesOf(t) <=> t.machine # Unset
BY DEF ResourcesOf

(* The templates of a stack have the same resources.                       *)
LEMMA SameResources ==
  ASSUME TypeOK, NEW t \in templates, NEW u \in templates
  PROVE  /\ t # Unset
         /\ ResourcesOf(t) = ResourcesOf(u)
         /\ t.layer = Unset <=> u.layer = Unset
         /\ t.function = Unset <=> u.function = Unset
         /\ t.api = Unset <=> u.api = Unset
         /\ t.machine = Unset <=> u.machine = Unset
         /\ t.function # Unset => t.function.all \in BOOLEAN
         /\ t.api # Unset => t.api.always \in BOOLEAN
<1>1. templates \in Stacks
  BY DEF TypeOK
<1>2. /\ Unset \notin templates
      /\ ResourcesOf(t) = ResourcesOf(u)
      /\ t.function # Unset => t.function.all \in BOOLEAN
      /\ t.api # Unset => t.api.always \in BOOLEAN
  BY <1>1, StacksAssumption
<1> QED
  BY <1>2, ResourcesPresent

(* Which ids of versions a template has.                                   *)
LEMMA IdsPresent ==
  ASSUME NEW t, NEW k, NEW id
  PROVE  id \in IdsOf(t, k) <=>
           \/ t.layer # Unset /\ id = LayerId(t)
           \/ t.function # Unset /\ id = VersionId(t)
           \/ t.api # Unset /\ id = DeploymentId(t, k)
           \/ t.machine # Unset /\ id = MachineVersionId
BY DEF IdsOf

(* What a function is after one value is set.                              *)
LEMMA WithIs ==
  ASSUME NEW f, NEW x, NEW y
  PROVE  /\ DOMAIN With(f, x, y) = DOMAIN f \cup {x}
         /\ With(f, x, y)[x] = y
         /\ \A z \in DOMAIN f : z # x => With(f, x, y)[z] = f[z]
BY DEF With

(* What a sequence of versions is after one is published.                  *)
LEMMA Appended ==
  ASSUME NEW s, s \in Seq(ToSet(s)), NEW e
  PROVE  /\ Append(s, e) \in Seq(ToSet(Append(s, e)))
         /\ Len(s) \in Nat /\ Len(Append(s, e)) = Len(s) + 1
         /\ DOMAIN s = 1 .. Len(s) /\ DOMAIN Append(s, e) = 1 .. Len(s) + 1
         /\ Append(s, e)[Len(s) + 1] = e
         /\ \A n \in DOMAIN s : Append(s, e)[n] = s[n]
<1> DEFINE S == ToSet(s) \cup {e}
<1>1. s \in Seq(S) /\ e \in S
  OBVIOUS
<1>2. /\ Append(s, e) \in Seq(S)
      /\ Len(s) \in Nat /\ Len(Append(s, e)) = Len(s) + 1
      /\ DOMAIN s = 1 .. Len(s) /\ DOMAIN Append(s, e) = 1 .. Len(s) + 1
      /\ Append(s, e)[Len(s) + 1] = e
      /\ \A n \in DOMAIN s : Append(s, e)[n] = s[n]
  BY <1>1
<1>3. Append(s, e) \in Seq(ToSet(Append(s, e)))
  BY <1>2 DEF ToSet
<1> QED
  BY <1>2, <1>3

-----------------------------------------------------------------------------
(* Steps of an update.                                                     *)

(* What is published stays as it is.                                       *)
MadeGrows ==
  /\ Len(made) \in Nat /\ Len(made') \in Nat /\ Len(made) <= Len(made')
  /\ DOMAIN made = 1 .. Len(made) /\ DOMAIN made' = 1 .. Len(made')
  /\ \A n \in DOMAIN made : made'[n] = made[n]

(* A step that publishes nothing.                                          *)
LEMMA NothingMade ==
  ASSUME MadeOfATemplate, made' = made
  PROVE  MadeGrows
BY DEF MadeOfATemplate, MadeGrows

(* A step that publishes one version.                                      *)
LEMMA OneMade ==
  ASSUME MadeOfATemplate, NEW e, made' = Append(made, e)
  PROVE  MadeGrows
BY Appended DEF MadeOfATemplate, MadeGrows

(* Turns follow the references.                                            *)
InTurn(r) ==
  /\ Updating /\ TypeOK /\ MadeOfATemplate /\ VersionsShared
  /\ wanted \in templates /\ wanted # Unset
  /\ r \in ResourcesOf(wanted) /\ r \notin done /\ done' = done \cup {r}
  /\ UNCHANGED <<templates, template, wanted, updates, gone, before>>
  /\ DoneInOrder'

(* A resource has its turn when those that it refers to had theirs.        *)
LEMMA TurnInOrder ==
  ASSUME StackInv, NEW r, NEW after, Turn(r, after),
         \/ r = "layer" /\ after = {}
         \/ r = "function" /\ after = {"layer"}
         \/ r = "version" /\ after = {"function"}
         \/ r = "alias" /\ after = {"version"}
         \/ r = "api" /\ after = {"function"}
         \/ r = "deployment" /\ after = {"api"}
         \/ r = "stage" /\ after = {"deployment"}
         \/ r = "machine" /\ after = {}
         \/ r = "machineVersion" /\ after = {"machine"}
         \/ r = "machineAlias" /\ after = {"machineVersion"}
  PROVE  InTurn(r)
<1>1. /\ Updating /\ TypeOK /\ MadeOfATemplate /\ VersionsShared
      /\ wanted \in templates /\ wanted # Unset
      /\ r \in ResourcesOf(wanted) /\ r \notin done /\ done' = done \cup {r}
      /\ UNCHANGED <<templates, template, wanted, updates, gone, before>>
      /\ after \cap ResourcesOf(wanted) \subseteq done
  BY DEF StackInv, TypeOK, Turn
<1>2. DoneInOrder
  BY <1>1 DEF Updating
<1>3. DoneInOrder'
  BY <1>1, <1>2, ResourcesPresent DEF DoneInOrder
<1> QED
  BY <1>1, <1>3 DEF InTurn

(* What the stack was stays what it was.                                   *)
LEMMA BeforeStays ==
  ASSUME TypeOK, Updating, MadeGrows, UNCHANGED <<templates, template, wanted, updates, before>>
  PROVE  /\ before' = [held |-> before'.held, values |-> before'.values, made |-> before'.made]
         /\ updates' > 0
         /\ before'.made \in 0 .. Len(made')
         /\ \A id \in DOMAIN before'.held : before'.held[id] \in 1 .. before'.made
         /\ StackWas(updates - 1, before.held, before.values)'
<1>1. /\ before' = [held |-> before'.held, values |-> before'.values, made |-> before'.made]
      /\ updates' > 0
      /\ before'.made \in 0 .. Len(made')
      /\ \A id \in DOMAIN before'.held : before'.held[id] \in 1 .. before'.made
  BY DEF Updating, MadeGrows
<1>2. \A id \in DOMAIN before.held : made'[before'.held[id]] = made[before.held[id]]
  BY DEF Updating, MadeGrows
<1>3. /\ WrittenTells' = WrittenTells
      /\ LayersNamed' = LayersNamed
  BY DEF WrittenTells, LayersNamed
<1>4. ASSUME NEW j \in 0 .. updates - 1, StackIs(template, j, before.held, before.values)
      PROVE  StackIs(template, j, before.held, before.values)'
  <2>1. /\ DOMAIN before'.held = IdsOf(template, j)
        /\ DOMAIN before'.values \subseteq ResourcesOf(template)
        /\ ResourcesAre(ResourcesOf(template), template, j, before.held, before.values)
    BY <1>4 DEF StackIs
  <2>2. LayerIs(template, before.held) => LayerIs(template, before.held)'
    BY <1>2 DEF LayerIs
  <2>3. FunctionIs(template, before.held, before.values) => FunctionIs(template, before.held, before.values)'
    BY DEF FunctionIs, LayerIn
  <2>4. VersionIs(template, before.held) => VersionIs(template, before.held)'
    BY <1>2, <1>3 DEF VersionIs, VersionServes, LayerIn
  <2>5. AliasIs(template, before.held, before.values) => AliasIs(template, before.held, before.values)'
    BY DEF AliasIs
  <2>6. ApiIs(template, before.values) => ApiIs(template, before.values)'
    BY DEF ApiIs
  <2>7. DeploymentIs(template, j, before.held) => DeploymentIs(template, j, before.held)'
    BY <1>2, <1>3 DEF DeploymentIs
  <2>8. StageIs(template, j, before.held, before.values) => StageIs(template, j, before.held, before.values)'
    BY DEF StageIs
  <2>9. MachineIs(template, before.values) => MachineIs(template, before.values)'
    BY DEF MachineIs
  <2>10. MachineVersionIs(template, before.held) => MachineVersionIs(template, before.held)'
    BY <1>2 DEF MachineVersionIs
  <2>11. MachineAliasIs(before.held, before.values) => MachineAliasIs(before.held, before.values)'
    BY DEF MachineAliasIs
  <2> QED
    BY <2>1, <2>2, <2>3, <2>4, <2>5, <2>6, <2>7, <2>8, <2>9, <2>10, <2>11 DEF StackIs, ResourcesAre
<1>5. StackWas(updates - 1, before.held, before.values)'
  BY <1>4 DEF Updating, StackWas
<1> QED
  BY <1>1, <1>5

(* A step that gives one of the resources a value keeps the others.        *)
LEMMA SetKeeps ==
  ASSUME NEW r \in {"function", "alias", "api", "stage", "machine", "machineAlias"}, InTurn(r),
         UNCHANGED <<made, held>>,
         DOMAIN values' = DOMAIN values \cup {r},
         \A q \in DOMAIN values : q # r => values'[q] = values[q],
         ResourcesAre({r}, wanted, updates, held, values)'
  PROVE  StackInv'
<1> USE DEF InTurn
<1>1. TypeOK'
  BY DEF TypeOK
<1>2. MadeOfATemplate'
  BY DEF MadeOfATemplate
<1>3. VersionsShared'
  BY DEF VersionsShared, LayerAt
<1>4. MadeGrows
  BY NothingMade
<1>5. WrittenTells' = WrittenTells /\ LayersNamed' = LayersNamed
  BY DEF WrittenTells, LayersNamed
<1>6. ResourcesAre(done, wanted, updates, held, values)'
  <2>1. ResourcesAre(done, wanted, updates, held, values) /\ DoneInOrder
    BY DEF Updating
  <2>2. r # "layer" /\ r # "version" /\ r # "deployment" /\ r # "machineVersion"
    OBVIOUS
  <2>3. "layer" \in done' => LayerIs(wanted, held)'
    BY <2>1, <2>2 DEF ResourcesAre, LayerIs
  <2>4. "function" \in done' => FunctionIs(wanted, held, values)'
    BY <2>1 DEF ResourcesAre, FunctionIs, LayerIn
  <2>5. "version" \in done' => VersionIs(wanted, held)'
    BY <2>1, <2>2, <1>5 DEF ResourcesAre, VersionIs, VersionServes, LayerIn
  <2>6. "alias" \in done' => AliasIs(wanted, held, values)'
    BY <2>1 DEF ResourcesAre, AliasIs
  <2>7. "api" \in done' => ApiIs(wanted, values)'
    BY <2>1 DEF ResourcesAre, ApiIs
  <2>8. "deployment" \in done' => DeploymentIs(wanted, updates, held)'
    BY <2>1, <2>2, <1>5 DEF ResourcesAre, DeploymentIs
  <2>9. "stage" \in done' => StageIs(wanted, updates, held, values)'
    BY <2>1 DEF ResourcesAre, StageIs
  <2>10. "machine" \in done' => MachineIs(wanted, values)'
    BY <2>1 DEF ResourcesAre, MachineIs
  <2>11. "machineVersion" \in done' => MachineVersionIs(wanted, held)'
    BY <2>1, <2>2 DEF ResourcesAre, MachineVersionIs
  <2>12. "machineAlias" \in done' => MachineAliasIs(held, values)'
    BY <2>1 DEF ResourcesAre, MachineAliasIs
  <2> QED
    BY <2>3, <2>4, <2>5, <2>6, <2>7, <2>8, <2>9, <2>10, <2>11, <2>12 DEF ResourcesAre
<1>7. DOMAIN held' = DOMAIN before'.held \cup IdsDone'
  BY DEF Updating, IdsDone
<1>8. \A id \in DOMAIN before'.held : before'.held[id] # held'[id] => ReplacedForCause(id)'
  BY DEF Updating, ReplacedForCause
<1>9. DOMAIN values' \subseteq ResourcesOf(wanted')
  BY DEF Updating
<1>10. Updating'
  BY <1>4, <1>6, <1>7, <1>8, <1>9, BeforeStays DEF Updating
<1> QED
  BY <1>1, <1>2, <1>3, <1>10 DEF StackInv

(* A step that has one of the ids hold something keeps what others hold.   *)
Publishables == {"layer", "version", "deployment", "machineVersion"}
IdFor(r) ==
  IF r = "layer" THEN LayerId(wanted) ELSE IF r = "version" THEN VersionId(wanted)
  ELSE IF r = "deployment" THEN DeploymentId(wanted, updates) ELSE MachineVersionId

(* The id of what a step publishes is none of the other resources'.        *)
LEMMA IdsDiffer ==
  ASSUME NEW r \in Publishables
  PROVE  /\ r # "layer" => IdFor(r) # LayerId(wanted)
         /\ r # "version" => IdFor(r) # VersionId(wanted) /\ IdFor(r)[1] # "Version"
         /\ r # "deployment" => IdFor(r) # DeploymentId(wanted, updates)
         /\ r # "machineVersion" => IdFor(r) # MachineVersionId
<1>1. /\ LayerId(wanted)[1] = "Layer"
      /\ VersionId(wanted)[1] = "Version"
      /\ DeploymentId(wanted, updates)[1] = "Deployment"
      /\ MachineVersionId[1] = "MachineVersion"
  BY IdPrefixes
<1> QED
  BY <1>1 DEF IdFor, Publishables

(* A step that publishes keeps the invariant when what it holds afterwards *)
(* is the version that the template names, replaced for cause.             *)
LEMMA HoldKeeps ==
  ASSUME NEW r \in Publishables, InTurn(r), MadeGrows, values' = values,
         DOMAIN held' = DOMAIN held \cup {IdFor(r)},
         \A id \in DOMAIN held : id # IdFor(r) => held'[id] = held[id],
         held'[IdFor(r)] \in DOMAIN made',
         IdFor(r) \in DOMAIN before.held /\ before.held[IdFor(r)] # held'[IdFor(r)]
           => ReplacedForCause(IdFor(r))',
         MadeOfATemplate', VersionsShared',
         ResourcesAre({r}, wanted, updates, held, values)'
  PROVE  StackInv'
<1> USE DEF InTurn
<1>1. \A id \in DOMAIN held : id # IdFor(r) => made'[held'[id]] = made[held[id]]
  BY DEF MadeGrows, TypeOK
<1>2. WrittenTells' = WrittenTells /\ LayersNamed' = LayersNamed
  BY DEF WrittenTells, LayersNamed
<1>3. TypeOK'
  BY DEF TypeOK, MadeGrows
<1>4. ResourcesAre(done, wanted, updates, held, values)'
  <2>1. ResourcesAre(done, wanted, updates, held, values) /\ DoneInOrder
    BY DEF Updating
  <2>2. /\ r # "function" /\ r # "alias" /\ r # "api" /\ r # "stage" /\ r # "machine"
        /\ r # "machineAlias"
    BY DEF Publishables
  <2>3. wanted.layer # Unset /\ r = "layer" => "function" \notin done /\ "version" \notin done
    BY <2>1 DEF DoneInOrder
  <2>4. "layer" \in done' => LayerIs(wanted, held)'
    BY <2>1, <1>1, IdsDiffer DEF ResourcesAre, LayerIs
  <2>5. "function" \in done => LayerIn(wanted, held)' = LayerIn(wanted, held)
    BY <2>1, <2>3, IdsDiffer DEF DoneInOrder, LayerIn, ResourcesAre, LayerIs
  <2>6. "function" \in done' => FunctionIs(wanted, held, values)'
    BY <2>1, <2>2, <2>5 DEF ResourcesAre, FunctionIs
  <2>7. "version" \in done' => VersionIs(wanted, held)'
    <3>1. CASE r = "version"
      BY <3>1 DEF ResourcesAre
    <3>2. CASE r # "version" /\ "version" \in done
      <4>1. VersionIs(wanted, held) /\ VersionId(wanted) # IdFor(r)
        BY <2>1, <3>2, IdsDiffer DEF ResourcesAre
      <4>2. made'[held'[VersionId(wanted)]] = made[held[VersionId(wanted)]]
        BY <4>1, <1>1 DEF VersionIs
      <4>3. LayerIn(wanted, held)' = LayerIn(wanted, held)
        BY <2>1, <2>5, <3>2 DEF DoneInOrder
      <4> QED
        BY <4>1, <4>2, <4>3, <1>2 DEF VersionIs, VersionServes
    <3> QED
      BY <3>1, <3>2
  <2>8. "alias" \in done' => AliasIs(wanted, held, values)'
    BY <2>1, <2>2, IdsDiffer DEF ResourcesAre, AliasIs, DoneInOrder, VersionIs
  <2>9. "api" \in done' => ApiIs(wanted, values)'
    BY <2>1, <2>2 DEF ResourcesAre, ApiIs
  <2>10. "deployment" \in done' => DeploymentIs(wanted, updates, held)'
    BY <2>1, <1>1, <1>2, IdsDiffer DEF ResourcesAre, DeploymentIs
  <2>11. "stage" \in done' => StageIs(wanted, updates, held, values)'
    BY <2>1, <2>2, IdsDiffer DEF ResourcesAre, StageIs, DoneInOrder, DeploymentIs
  <2>12. "machine" \in done' => MachineIs(wanted, values)'
    BY <2>1, <2>2 DEF ResourcesAre, MachineIs
  <2>13. "machineVersion" \in done' => MachineVersionIs(wanted, held)'
    BY <2>1, <1>1, IdsDiffer DEF ResourcesAre, MachineVersionIs
  <2>14. "machineAlias" \in done' => MachineAliasIs(held, values)'
    BY <2>1, <2>2, IdsDiffer DEF ResourcesAre, MachineAliasIs, DoneInOrder, MachineVersionIs
  <2> QED
    BY <2>4, <2>6, <2>7, <2>8, <2>9, <2>10, <2>11, <2>12, <2>13, <2>14 DEF ResourcesAre
<1>5. DOMAIN held' = DOMAIN before'.held \cup IdsDone'
  <2>1. IdsDone' = IdsDone \cup {IdFor(r)}
    BY DEF IdsDone, IdFor, Publishables
  <2> QED
    BY <2>1 DEF Updating
<1>6. \A id \in DOMAIN before'.held : before'.held[id] # held'[id] => ReplacedForCause(id)'
  <2>1. ASSUME NEW id \in DOMAIN before.held, id # IdFor(r), before.held[id] # held'[id]
        PROVE  ReplacedForCause(id)'
    <3>1. id \in DOMAIN held /\ ReplacedForCause(id)
      BY <2>1 DEF Updating
    <3>2. made'[before'.held[id]] = made[before.held[id]]
      BY <2>1 DEF Updating, MadeGrows
    <3> QED
      BY <3>1, <3>2 DEF ReplacedForCause
  <2>2. IdFor(r)' = IdFor(r)
    BY DEF IdFor
  <2>3. ASSUME IdFor(r) \in DOMAIN before.held, before.held[IdFor(r)] # held'[IdFor(r)]
        PROVE  \A id : id = IdFor(r) => ReplacedForCause(id)'
    BY <2>2, <2>3 DEF ReplacedForCause
  <2> QED
    BY <2>1, <2>3
<1>7. DOMAIN values' \subseteq ResourcesOf(wanted')
  BY DEF Updating
<1>8. Updating'
  BY <1>4, <1>5, <1>6, <1>7, BeforeStays DEF Updating
<1> QED
  BY <1>3, <1>8 DEF StackInv

(* Versions stay what their ids were hashed of.                            *)
LEMMA VersionsStay ==
  ASSUME NEW r \in Publishables, InTurn(r), MadeGrows, r # "version",
         DOMAIN held' = DOMAIN held \cup {IdFor(r)},
         \A id \in DOMAIN held : id # IdFor(r) => held'[id] = held[id]
  PROVE  VersionsShared'
<1> USE DEF InTurn
<1> SUFFICES ASSUME NEW id \in DOMAIN held', id[1] = "Version"
             PROVE  \E t \in templates, p \in 0 .. Len(made') :
                      /\ t.function # Unset /\ VersionId(t) = id
                      /\ made'[held'[id]].kind = "version"
                      /\ made'[held'[id]].snapshot = FunctionProperties(t, p)
                      /\ LayerAt(t, p)'
  BY DEF VersionsShared
<1>1. id # IdFor(r) /\ id \in DOMAIN held
  BY IdsDiffer
<1>2. held'[id] = held[id] /\ made'[held'[id]] = made[held[id]]
  BY <1>1 DEF MadeGrows, TypeOK
<1>3. PICK t \in templates, p \in 0 .. Len(made) :
        /\ t.function # Unset /\ VersionId(t) = id
        /\ made[held[id]].kind = "version"
        /\ made[held[id]].snapshot = FunctionProperties(t, p)
        /\ LayerAt(t, p)
  BY <1>1 DEF VersionsShared
<1>4. p \in 0 .. Len(made') /\ LayerAt(t, p)'
  BY <1>3 DEF MadeGrows, LayerAt
<1> QED
  BY <1>2, <1>3, <1>4

(* An id that is held when its resource has its turn was held for the same *)
(* resource of the last template.                                          *)
LEMMA HeldBefore ==
  ASSUME NEW r \in Publishables, InTurn(r), IdFor(r) \in DOMAIN held
  PROVE  /\ IdFor(r) \in DOMAIN before.held /\ held[IdFor(r)] = before.held[IdFor(r)]
         /\ template \in templates /\ r \in ResourcesOf(template)
         /\ \E j \in 0 .. updates - 1 :
              /\ StackIs(template, j, before.held, before.values)
              /\ r = "layer" => IdFor(r) = LayerId(template)
              /\ r = "version" => IdFor(r) = VersionId(template)
              /\ r = "deployment" => IdFor(r) = DeploymentId(template, j)
<1> USE DEF InTurn
<1>1. IdFor(r) \notin IdsDone
  BY IdsDiffer DEF IdsDone
<1>2. IdFor(r) \in DOMAIN before.held
  BY <1>1 DEF Updating
<1>3. held[IdFor(r)] = before.held[IdFor(r)]
  BY <1>2, IdsDiffer DEF Updating, ReplacedForCause
<1>4. template \in templates
  BY <1>2 DEF TypeOK, Updating, StackWas
<1>5. template # Unset
  BY <1>4, SameResources
<1>6. PICK j \in 0 .. updates - 1 : StackIs(template, j, before.held, before.values)
  BY <1>5 DEF Updating, StackWas
<1>7. r \in ResourcesOf(template)
  BY <1>4, SameResources
<1>8. IdFor(r) \in IdsOf(template, j)
  BY <1>2, <1>6 DEF StackIs
<1>9. /\ LayerId(template)[1] = "Layer" /\ LayerId(wanted)[1] = "Layer"
      /\ VersionId(template)[1] = "Version" /\ VersionId(wanted)[1] = "Version"
      /\ DeploymentId(template, j)[1] = "Deployment"
      /\ DeploymentId(wanted, updates)[1] = "Deployment"
      /\ MachineVersionId[1] = "MachineVersion"
  BY IdPrefixes
<1>10. /\ r = "layer" => IdFor(r) = LayerId(template)
       /\ r = "version" => IdFor(r) = VersionId(template)
       /\ r = "deployment" => IdFor(r) = DeploymentId(template, j)
  BY <1>8, <1>9, IdsPresent DEF IdFor
<1> QED
  BY <1>2, <1>3, <1>4, <1>6, <1>7, <1>10

(* What one step publishes is made of the template.                        *)
LEMMA OneOfATemplate ==
  ASSUME TypeOK, MadeOfATemplate, UNCHANGED <<templates, updates>>,
         NEW e, made' = Append(made, e), NEW u \in templates,
         \/ u.layer # Unset /\ e = LayerOf(u)
         \/ u.function # Unset /\ \E p \in 0 .. Len(made) : e = VersionOf(u, p)
         \/ u.api # Unset /\ \E k \in 0 .. updates : e = DeploymentOf(u, k)
         \/ u.machine # Unset /\ e = MachineVersionOf(u)
  PROVE  MadeOfATemplate'
<1>1. made \in Seq(ToSet(made))
  BY DEF MadeOfATemplate
<1>2. /\ made' \in Seq(ToSet(made'))
      /\ Len(made) \in Nat /\ Len(made') = Len(made) + 1
      /\ DOMAIN made = 1 .. Len(made) /\ DOMAIN made' = 1 .. Len(made) + 1
      /\ made'[Len(made) + 1] = e
      /\ \A n \in DOMAIN made : made'[n] = made[n]
  BY <1>1, Appended
<1>3. 0 .. Len(made) \subseteq 0 .. Len(made')
  BY <1>2
<1>4. \E t \in templates' :
       \/ t.layer # Unset /\ made'[Len(made) + 1] = LayerOf(t)
       \/ t.function # Unset /\ \E p \in 0 .. Len(made') : made'[Len(made) + 1] = VersionOf(t, p)
       \/ t.api # Unset /\ \E k \in 0 .. updates' : made'[Len(made) + 1] = DeploymentOf(t, k)
       \/ t.machine # Unset /\ made'[Len(made) + 1] = MachineVersionOf(t)
  BY <1>2, <1>3
<1>5. ASSUME NEW n \in DOMAIN made
      PROVE  \E t \in templates' :
       \/ t.layer # Unset /\ made'[n] = LayerOf(t)
       \/ t.function # Unset /\ \E p \in 0 .. Len(made') : made'[n] = VersionOf(t, p)
       \/ t.api # Unset /\ \E k \in 0 .. updates' : made'[n] = DeploymentOf(t, k)
       \/ t.machine # Unset /\ made'[n] = MachineVersionOf(t)
  <2>1. made'[n] = made[n]
    BY <1>2
  <2>2. \E t \in templates :
       \/ t.layer # Unset /\ made[n] = LayerOf(t)
       \/ t.function # Unset /\ \E p \in 0 .. Len(made) : made[n] = VersionOf(t, p)
       \/ t.api # Unset /\ \E k \in 0 .. updates : made[n] = DeploymentOf(t, k)
       \/ t.machine # Unset /\ made[n] = MachineVersionOf(t)
    BY DEF MadeOfATemplate
  <2> QED
    BY <2>1, <2>2, <1>3
<1>6. DOMAIN made' = DOMAIN made \cup {Len(made) + 1}
  BY <1>2
<1> QED
  BY <1>2, <1>4, <1>5, <1>6 DEF MadeOfATemplate

(* A publication gives its id a new position.                              *)
LEMMA PublishGives ==
  ASSUME NEW r \in Publishables, InTurn(r), NEW e,
         made' = Append(made, e), held' = With(held, IdFor(r), Len(made) + 1)
  PROVE  /\ MadeGrows /\ Len(made) + 1 \in DOMAIN made'
         /\ DOMAIN held' = DOMAIN held \cup {IdFor(r)}
         /\ \A id \in DOMAIN held : id # IdFor(r) => held'[id] = held[id]
         /\ held'[IdFor(r)] = Len(made) + 1
         /\ made'[held'[IdFor(r)]] = e
<1>1. made \in Seq(ToSet(made))
  BY DEF InTurn, MadeOfATemplate
<1>2. MadeGrows
  BY OneMade DEF InTurn
<1>3. /\ DOMAIN held' = DOMAIN held \cup {IdFor(r)}
      /\ \A id \in DOMAIN held : id # IdFor(r) => held'[id] = held[id]
      /\ held'[IdFor(r)] = Len(made) + 1
  <2>1. \A f, x, y : With(f, x, y) = [z \in DOMAIN f \cup {x} |-> IF z = x THEN y ELSE f[z]]
    BY DEF With
  <2>2. held' = [z \in DOMAIN held \cup {IdFor(r)} |-> IF z = IdFor(r) THEN Len(made) + 1 ELSE held[z]]
    BY <2>1
  <2> QED
    BY <2>2
<1>4. Len(made) + 1 \in DOMAIN made' /\ made'[Len(made) + 1] = e
  BY <1>1, Appended
<1> QED
  BY <1>2, <1>3, <1>4

-----------------------------------------------------------------------------
(* Each step of an update.                                                 *)

(* Updating a layer version keeps the invariant.                           *)
LEMMA LayerStep == StackInv /\ UpdateLayer => StackInv'
<1> SUFFICES ASSUME StackInv, UpdateLayer PROVE StackInv'
  OBVIOUS
<1> DEFINE id == LayerId(wanted)
<1>1. InTurn("layer") /\ "layer" \in Publishables /\ IdFor("layer") = id
  BY TurnInOrder DEF UpdateLayer, Publishables, IdFor
<1>2. wanted.layer # Unset /\ wanted \in templates
  BY <1>1, ResourcesPresent DEF InTurn
<1>3. CASE id \in DOMAIN held /\ made[held[id]].snapshot = LayerContent(wanted) /\ Keep
  <2>1. UNCHANGED <<made, held, values>>
    BY <1>3 DEF Keep
  <2>2. LayerIs(wanted, held)
    <3>1. PICK j \in 0 .. updates - 1 :
            StackIs(template, j, before.held, before.values) /\ id = LayerId(template)
      BY <1>1, <1>3, HeldBefore
    <3>2. held[id] = before.held[id] /\ "layer" \in ResourcesOf(template)
      BY <1>1, <1>3, HeldBefore
    <3>3. made[held[id]] = LayerOf(template)
      BY <3>1, <3>2 DEF StackIs, ResourcesAre, LayerIs
    <3> QED
      BY <1>3, <3>1, <3>3 DEF LayerIs, LayerOf
  <2>3. MadeGrows
    BY <1>1, <2>1, NothingMade DEF InTurn
  <2>4. MadeOfATemplate'
    BY <1>1, <2>1 DEF InTurn, MadeOfATemplate
  <2>5. VersionsShared'
    BY <1>1, <1>3, <2>1, <2>3, VersionsStay
  <2>6. ResourcesAre({"layer"}, wanted, updates, held, values)'
    BY <1>1, <2>1, <2>2 DEF InTurn, ResourcesAre, LayerIs
  <2>7. held'[id] \in DOMAIN made' /\ (id \in DOMAIN before.held => before.held[id] = held'[id])
    BY <1>1, <1>3, <2>1, HeldBefore DEF InTurn, TypeOK
  <2> QED
    BY <1>1, <1>3, <2>1, <2>3, <2>4, <2>5, <2>6, <2>7, HoldKeeps
<1>4. CASE /\ ~(id \in DOMAIN held /\ made[held[id]].snapshot = LayerContent(wanted))
           /\ Publish("layer", id, LayerContent(wanted))
  <2>1. made' = Append(made, LayerOf(wanted)) /\ held' = With(held, id, Len(made) + 1) /\ values' = values
    BY <1>4 DEF Publish, Hold, LayerOf
  <2>2. /\ MadeGrows /\ Len(made) + 1 \in DOMAIN made'
        /\ DOMAIN held' = DOMAIN held \cup {id}
        /\ \A i \in DOMAIN held : i # id => held'[i] = held[i]
        /\ held'[id] = Len(made) + 1 /\ made'[held'[id]] = LayerOf(wanted)
    <3> PICK e : e = LayerOf(wanted)
      OBVIOUS
    <3>1. made' = Append(made, e) /\ held' = With(held, IdFor("layer"), Len(made) + 1)
      BY <1>1, <2>1
    <3> HIDE DEF id
    <3>2. /\ MadeGrows /\ Len(made) + 1 \in DOMAIN made'
          /\ DOMAIN held' = DOMAIN held \cup {IdFor("layer")}
          /\ \A i \in DOMAIN held : i # IdFor("layer") => held'[i] = held[i]
          /\ held'[IdFor("layer")] = Len(made) + 1
          /\ made'[held'[IdFor("layer")]] = e
      BY <1>1, <3>1, PublishGives
    <3> QED
      BY <1>1, <3>2
  <2>3. MadeOfATemplate'
    <3> PICK e : e = LayerOf(wanted)
      OBVIOUS
    <3> QED
      BY <1>1, <1>2, <2>1, OneOfATemplate DEF InTurn
  <2>4. VersionsShared'
    BY <1>1, <2>2, VersionsStay
  <2>5. ResourcesAre({"layer"}, wanted, updates, held, values)'
    BY <1>1, <2>2 DEF InTurn, ResourcesAre, LayerIs, LayerOf
  <2>6. ASSUME id \in DOMAIN before.held
        PROVE  ReplacedForCause(IdFor("layer"))'
    <3>1. id \in DOMAIN held /\ "layer" \notin done
      BY <1>1, <2>6 DEF InTurn, Updating
    <3>2. held[id] = before.held[id] /\ held[id] \in DOMAIN made
      BY <1>1, <3>1, HeldBefore DEF InTurn, TypeOK
    <3>3. made'[before'.held[id]].snapshot # LayerContent(wanted)
      BY <1>1, <1>4, <2>2, <3>1, <3>2 DEF InTurn, MadeGrows
    <3>4. "layer" \in done' /\ IdFor("layer")' = LayerId(wanted) /\ wanted' = wanted
      BY <1>1 DEF InTurn, IdFor
    <3> QED
      BY <3>3, <3>4 DEF ReplacedForCause
  <2> QED
    BY <1>1, <2>1, <2>2, <2>3, <2>4, <2>5, <2>6, HoldKeeps
<1> QED
  BY <1>3, <1>4 DEF UpdateLayer

(* What the values of the stack are after one is set.                      *)
LEMMA SetGives ==
  ASSUME NEW r, NEW x, values' = With(values, r, x)
  PROVE  /\ DOMAIN values' = DOMAIN values \cup {r}
         /\ \A q \in DOMAIN values : q # r => values'[q] = values[q]
         /\ values'[r] = x
BY DEF With

(* So does updating a function.                                            *)
LEMMA FunctionStep == StackInv /\ UpdateFunction => StackInv'
<1> SUFFICES ASSUME StackInv, UpdateFunction PROVE StackInv'
  OBVIOUS
<1>1. InTurn("function")
  BY TurnInOrder DEF UpdateFunction
<1> PICK x : x = FunctionProperties(wanted, LayerIn(wanted, held))
  OBVIOUS
<1>2. values' = With(values, "function", x) /\ UNCHANGED <<made, held>>
  BY DEF UpdateFunction, Set, LayerIn
<1>3. /\ DOMAIN values' = DOMAIN values \cup {"function"}
      /\ \A q \in DOMAIN values : q # "function" => values'[q] = values[q]
      /\ values'["function"] = x
  BY <1>2, SetGives
<1>4. FunctionIs(wanted, held, values)'
  BY <1>1, <1>2, <1>3 DEF InTurn, FunctionIs, LayerIn
<1>5. ResourcesAre({"function"}, wanted, updates, held, values)'
  BY <1>4 DEF ResourcesAre
<1> QED
  BY <1>1, <1>2, <1>3, <1>5, SetKeeps

(* So does updating an alias.                                              *)
LEMMA AliasStep == StackInv /\ UpdateAlias => StackInv'
<1> SUFFICES ASSUME StackInv, UpdateAlias PROVE StackInv'
  OBVIOUS
<1>1. InTurn("alias")
  BY TurnInOrder DEF UpdateAlias
<1> PICK x : x = held[VersionId(wanted)]
  OBVIOUS
<1>2. values' = With(values, "alias", x) /\ UNCHANGED <<made, held>>
  BY DEF UpdateAlias, Set
<1>3. /\ DOMAIN values' = DOMAIN values \cup {"alias"}
      /\ \A q \in DOMAIN values : q # "alias" => values'[q] = values[q]
      /\ values'["alias"] = x
  BY <1>2, SetGives
<1>4. AliasIs(wanted, held, values)'
  BY <1>1, <1>2, <1>3 DEF InTurn, AliasIs
<1>5. ResourcesAre({"alias"}, wanted, updates, held, values)'
  BY <1>4 DEF ResourcesAre
<1> QED
  BY <1>1, <1>2, <1>3, <1>5, SetKeeps

(* So does updating an API.                                                *)
LEMMA ApiStep == StackInv /\ UpdateApi => StackInv'
<1> SUFFICES ASSUME StackInv, UpdateApi PROVE StackInv'
  OBVIOUS
<1>1. InTurn("api")
  BY TurnInOrder DEF UpdateApi
<1> PICK x : x = ApiOf(wanted)
  OBVIOUS
<1>2. values' = With(values, "api", x) /\ UNCHANGED <<made, held>>
  BY DEF UpdateApi, Set, ApiOf
<1>3. /\ DOMAIN values' = DOMAIN values \cup {"api"}
      /\ \A q \in DOMAIN values : q # "api" => values'[q] = values[q]
      /\ values'["api"] = x
  BY <1>2, SetGives
<1>4. ApiIs(wanted, values)'
  BY <1>1, <1>2, <1>3 DEF InTurn, ApiIs, ApiOf
<1>5. ResourcesAre({"api"}, wanted, updates, held, values)'
  BY <1>4 DEF ResourcesAre
<1> QED
  BY <1>1, <1>2, <1>3, <1>5, SetKeeps

(* So does updating a stage.                                               *)
LEMMA StageStep == StackInv /\ UpdateStage => StackInv'
<1> SUFFICES ASSUME StackInv, UpdateStage PROVE StackInv'
  OBVIOUS
<1>1. InTurn("stage")
  BY TurnInOrder DEF UpdateStage
<1> PICK x : x = held[DeploymentId(wanted, updates)]
  OBVIOUS
<1>2. values' = With(values, "stage", x) /\ UNCHANGED <<made, held>>
  BY DEF UpdateStage, Set
<1>3. /\ DOMAIN values' = DOMAIN values \cup {"stage"}
      /\ \A q \in DOMAIN values : q # "stage" => values'[q] = values[q]
      /\ values'["stage"] = x
  BY <1>2, SetGives
<1>4. StageIs(wanted, updates, held, values)'
  BY <1>1, <1>2, <1>3 DEF InTurn, StageIs
<1>5. ResourcesAre({"stage"}, wanted, updates, held, values)'
  BY <1>4 DEF ResourcesAre
<1> QED
  BY <1>1, <1>2, <1>3, <1>5, SetKeeps

(* So does updating a state machine.                                       *)
LEMMA MachineStep == StackInv /\ UpdateMachine => StackInv'
<1> SUFFICES ASSUME StackInv, UpdateMachine PROVE StackInv'
  OBVIOUS
<1>1. InTurn("machine")
  BY TurnInOrder DEF UpdateMachine
<1> PICK x : x = Resolved(wanted.machine.definition)
  OBVIOUS
<1>2. values' = With(values, "machine", x) /\ UNCHANGED <<made, held>>
  BY DEF UpdateMachine, Set
<1>3. /\ DOMAIN values' = DOMAIN values \cup {"machine"}
      /\ \A q \in DOMAIN values : q # "machine" => values'[q] = values[q]
      /\ values'["machine"] = x
  BY <1>2, SetGives
<1>4. MachineIs(wanted, values)'
  BY <1>1, <1>2, <1>3 DEF InTurn, MachineIs
<1>5. ResourcesAre({"machine"}, wanted, updates, held, values)'
  BY <1>4 DEF ResourcesAre
<1> QED
  BY <1>1, <1>2, <1>3, <1>5, SetKeeps

(* So does updating the alias of a state machine.                          *)
LEMMA MachineAliasStep == StackInv /\ UpdateMachineAlias => StackInv'
<1> SUFFICES ASSUME StackInv, UpdateMachineAlias PROVE StackInv'
  OBVIOUS
<1>1. InTurn("machineAlias")
  BY TurnInOrder DEF UpdateMachineAlias
<1> PICK x : x = held[MachineVersionId]
  OBVIOUS
<1>2. values' = With(values, "machineAlias", x) /\ UNCHANGED <<made, held>>
  BY DEF UpdateMachineAlias, Set
<1>3. /\ DOMAIN values' = DOMAIN values \cup {"machineAlias"}
      /\ \A q \in DOMAIN values : q # "machineAlias" => values'[q] = values[q]
      /\ values'["machineAlias"] = x
  BY <1>2, SetGives
<1>4. MachineAliasIs(held, values)'
  BY <1>1, <1>2, <1>3 DEF InTurn, MachineAliasIs
<1>5. ResourcesAre({"machineAlias"}, wanted, updates, held, values)'
  BY <1>4 DEF ResourcesAre
<1> QED
  BY <1>1, <1>2, <1>3, <1>5, SetKeeps

(* What is made of the template's function serves what it says.            *)
LEMMA OwnServes ==
  ASSUME NEW t, NEW h
  PROVE  VersionServes(FunctionProperties(t, LayerIn(t, h)), t, h)
BY DEF VersionServes, FunctionProperties

(* The version that is kept serves what the wanted template says too.      *)
LEMMA KeptServes ==
  ASSUME InTurn("version"), "function" \in done, VersionId(wanted) \in DOMAIN held
  PROVE  VersionIs(wanted, held)
<1> DEFINE id == VersionId(wanted)
           s == made[held[id]].snapshot
<1> USE DEF InTurn
<1>1. "version" \in Publishables /\ IdFor("version") = id
  BY DEF Publishables, IdFor
<1>2. PICK j \in 0 .. updates - 1 :
        StackIs(template, j, before.held, before.values) /\ id = VersionId(template)
  BY <1>1, HeldBefore
<1>3. /\ id \in DOMAIN before.held /\ held[id] = before.held[id]
      /\ template \in templates /\ "version" \in ResourcesOf(template)
  BY <1>1, HeldBefore
<1>4. VersionIs(template, before.held)
  BY <1>2, <1>3 DEF StackIs, ResourcesAre
<1>5. made[held[id]].kind = "version" /\ VersionServes(s, template, before.held)
  BY <1>2, <1>3, <1>4 DEF VersionIs
<1>6. /\ template.function # Unset /\ wanted.function # Unset
      /\ template.layer # Unset <=> wanted.layer # Unset
  BY <1>3, SameResources, ResourcesPresent
<1>7. /\ wanted.function.sha = template.function.sha
      /\ wanted.function.sha = Unset =>
           /\ Resolved(wanted.function.code) = Resolved(template.function.code)
           /\ Written(wanted.function.settings) = Written(template.function.settings)
           /\ wanted.function.all = template.function.all
           /\ wanted.function.all =>
                /\ Written(wanted.function.other) = Written(template.function.other)
                /\ Written(wanted.function.name) = Written(template.function.name)
                /\ HashedLayer(wanted) = HashedLayer(template)
  BY <1>2, VersionIdTells
<1>8. ASSUME WrittenTells, wanted.function.sha = Unset
      PROVE  /\ Resolved(wanted.function.settings) = Resolved(template.function.settings)
             /\ wanted.function.all =>
                  /\ Resolved(wanted.function.other) = Resolved(template.function.other)
                  /\ Resolved(wanted.function.name) = Resolved(template.function.name)
  BY <1>3, <1>6, <1>7, <1>8 DEF WrittenTells
<1>9. ASSUME LayersNamed, wanted.function.sha = Unset, wanted.function.all, HashedLayer(wanted) # Unset
      PROVE  LayerIn(wanted, held) = LayerIn(template, before.held)
  <2>1. /\ wanted.layer # Unset /\ template.layer # Unset
        /\ LayerId(wanted) = LayerId(template)
    BY <1>7, <1>9, HashedLayerTells
  <2>2. LayerIs(template, before.held)
    BY <1>2, <2>1, ResourcesPresent DEF StackIs, ResourcesAre
  <2>3. /\ LayerId(wanted) \in DOMAIN before.held
        /\ made[before.held[LayerId(wanted)]].snapshot = LayerContent(wanted)
    BY <1>3, <1>9, <2>1, <2>2 DEF LayerIs, LayerOf, LayersNamed
  <2>4. LayerId(wanted) # MachineVersionId
    <3>1. LayerId(wanted)[1] = "Layer" /\ MachineVersionId[1] = "MachineVersion"
      BY IdPrefixes
    <3> QED
      BY <3>1
  <2>5. held[LayerId(wanted)] = before.held[LayerId(wanted)]
    BY <2>3, <2>4 DEF Updating, ReplacedForCause
  <2> QED
    BY <2>1, <2>5 DEF LayerIn
<1> HIDE DEF s
<1>10. VersionServes(s, wanted, held)
  BY <1>5, <1>7, <1>8, <1>9 DEF VersionServes
<1> QED
  BY <1>5, <1>10 DEF VersionIs, s

(* So does updating a function version.                                    *)
LEMMA VersionStep == StackInv /\ UpdateVersion => StackInv'
<1> SUFFICES ASSUME StackInv, UpdateVersion PROVE StackInv'
  OBVIOUS
<1> DEFINE id == VersionId(wanted)
           Same(n) == LastVersion(n) /\ made[n].snapshot = values["function"]
           p == LayerIn(wanted, held)
<1>1. InTurn("version") /\ "version" \in Publishables /\ IdFor("version") = id
  BY TurnInOrder DEF UpdateVersion, Publishables, IdFor
<1>2. wanted.function # Unset /\ wanted \in templates
  BY <1>1, ResourcesPresent DEF InTurn
<1>3. "function" \in done /\ (wanted.layer # Unset => "layer" \in done)
  BY <1>1 DEF InTurn, DoneInOrder
<1>4. values["function"] = FunctionProperties(wanted, p)
  BY <1>1, <1>3 DEF InTurn, Updating, ResourcesAre, FunctionIs
<1>5. p \in 0 .. Len(made) /\ LayerAt(wanted, p)
  <2>1. wanted.layer # Unset => LayerIs(wanted, held)
    BY <1>1, <1>3 DEF InTurn, Updating, ResourcesAre
  <2>2. DOMAIN made = 1 .. Len(made) /\ Len(made) \in Nat
    BY <1>1 DEF InTurn, MadeOfATemplate
  <2> QED
    BY <1>1, <2>1, <2>2 DEF InTurn, TypeOK, LayerIn, LayerAt, LayerIs, LayerOf
<1>6. UNCHANGED <<templates, wanted, updates>> /\ WrittenTells' = WrittenTells /\ LayersNamed' = LayersNamed
  BY <1>1 DEF InTurn, WrittenTells, LayersNamed
<1>7. id # LayerId(wanted)
  BY <1>1, IdsDiffer
<1>8. CASE id \in DOMAIN held /\ Keep
  <2>1. UNCHANGED <<made, held, values>>
    BY <1>8 DEF Keep
  <2>2. VersionIs(wanted, held)
    BY <1>1, <1>3, <1>8, KeptServes
  <2>3. MadeGrows
    BY <1>1, <2>1, NothingMade DEF InTurn
  <2>4. MadeOfATemplate'
    BY <1>1, <2>1 DEF InTurn, MadeOfATemplate
  <2>5. VersionsShared'
    BY <1>1, <2>1 DEF InTurn, VersionsShared, LayerAt
  <2>6. ResourcesAre({"version"}, wanted, updates, held, values)'
    BY <1>6, <2>1, <2>2 DEF ResourcesAre, VersionIs, VersionServes, LayerIn
  <2>7. held'[id] \in DOMAIN made' /\ (id \in DOMAIN before.held => before.held[id] = held'[id])
    BY <1>1, <1>8, <2>1, HeldBefore DEF InTurn, TypeOK
  <2> QED
    BY <1>1, <1>8, <2>1, <2>3, <2>4, <2>5, <2>6, <2>7, HoldKeeps
<1>9. ASSUME id \notin DOMAIN held, MadeGrows, MadeOfATemplate', values' = values,
             DOMAIN held' = DOMAIN held \cup {id},
             \A i \in DOMAIN held : i # id => held'[i] = held[i],
             held'[id] \in DOMAIN made', made'[held'[id]].kind = "version",
             made'[held'[id]].snapshot = FunctionProperties(wanted, p)
      PROVE  StackInv'
  <2>1. VersionsShared'
    <3> SUFFICES ASSUME NEW i \in DOMAIN held', i[1] = "Version"
                 PROVE  \E t \in templates, q \in 0 .. Len(made') :
                          /\ t.function # Unset /\ VersionId(t) = i
                          /\ made'[held'[i]].kind = "version"
                          /\ made'[held'[i]].snapshot = FunctionProperties(t, q)
                          /\ LayerAt(t, q)'
      BY <1>6 DEF VersionsShared
    <3>1. CASE i = id
      <4>1. PICK t \in templates, q \in 0 .. Len(made) : t = wanted /\ q = p
        BY <1>2, <1>5
      <4>2. q \in 0 .. Len(made') /\ LayerAt(t, q)'
        BY <1>5, <1>9, <4>1 DEF MadeGrows, LayerAt
      <4> QED
        BY <1>2, <1>9, <3>1, <4>1, <4>2
    <3>2. CASE i # id
      <4>1. i \in DOMAIN held /\ held'[i] = held[i] /\ made'[held'[i]] = made[held[i]]
        BY <1>1, <1>9, <3>2 DEF InTurn, TypeOK, MadeGrows
      <4>2. PICK t \in templates, q \in 0 .. Len(made) :
              /\ t.function # Unset /\ VersionId(t) = i
              /\ made[held[i]].kind = "version"
              /\ made[held[i]].snapshot = FunctionProperties(t, q)
              /\ LayerAt(t, q)
        BY <1>1, <4>1 DEF InTurn, VersionsShared
      <4>3. q \in 0 .. Len(made') /\ LayerAt(t, q)'
        BY <1>9, <4>2 DEF MadeGrows, LayerAt
      <4> QED
        BY <4>1, <4>2, <4>3
    <3> QED
      BY <3>1, <3>2
  <2>2. LayerIn(wanted, held)' = p
    <3>1. wanted.layer # Unset => LayerId(wanted) \in DOMAIN held
      BY <1>1, <1>3 DEF InTurn, Updating, ResourcesAre, LayerIs
    <3> QED
      BY <1>6, <1>7, <1>9, <3>1 DEF LayerIn
  <2>3. VersionServes(made[held[id]].snapshot, wanted, held)'
    BY <1>6, <1>9, <2>2 DEF VersionServes, FunctionProperties
  <2>4. ResourcesAre({"version"}, wanted, updates, held, values)'
    BY <1>6, <1>9, <2>3 DEF ResourcesAre, VersionIs
  <2>5. id \notin DOMAIN before.held
    BY <1>1, <1>9 DEF InTurn, Updating
  <2> QED
    BY <1>1, <1>9, <2>1, <2>4, <2>5, HoldKeeps
<1>10. ASSUME id \notin DOMAIN held, NEW n \in DOMAIN made, Same(n), Hold(id, n), made' = made
       PROVE  StackInv'
  <2>1. MadeGrows /\ MadeOfATemplate'
    BY <1>1, <1>10, NothingMade DEF InTurn, MadeOfATemplate
  <2>2. /\ DOMAIN held' = DOMAIN held \cup {id}
        /\ \A i \in DOMAIN held : i # id => held'[i] = held[i]
        /\ held'[id] = n /\ values' = values
    BY <1>10 DEF Hold, With
  <2>3. made[n].kind = "version"
    BY <1>10 DEF LastVersion, Versions
  <2> QED
    BY <1>4, <1>9, <1>10, <2>1, <2>2, <2>3
<1>11. CASE id \notin DOMAIN held /\ Publish("version", id, values["function"])
  <2> PICK e : e = VersionOf(wanted, p)
    OBVIOUS
  <2>1. made' = Append(made, e) /\ held' = With(held, IdFor("version"), Len(made) + 1) /\ values' = values
    BY <1>1, <1>4, <1>11 DEF Publish, Hold, VersionOf
  <2>2. /\ MadeGrows /\ Len(made) + 1 \in DOMAIN made'
        /\ DOMAIN held' = DOMAIN held \cup {IdFor("version")}
        /\ \A i \in DOMAIN held : i # IdFor("version") => held'[i] = held[i]
        /\ held'[IdFor("version")] = Len(made) + 1 /\ made'[held'[IdFor("version")]] = e
    <3> HIDE DEF id, p
    <3> QED
      BY <1>1, <2>1, PublishGives
  <2>3. MadeOfATemplate'
    BY <1>1, <1>2, <1>5, <2>1, OneOfATemplate DEF InTurn
  <2>4. e.kind = "version" /\ e.snapshot = FunctionProperties(wanted, p)
    BY DEF VersionOf
  <2>5. /\ DOMAIN held' = DOMAIN held \cup {id}
        /\ \A i \in DOMAIN held : i # id => held'[i] = held[i]
        /\ held'[id] \in DOMAIN made' /\ made'[held'[id]] = e
    BY <1>1, <2>2
  <2> HIDE DEF id, p
  <2> QED
    BY <1>9, <1>11, <2>1, <2>2, <2>3, <2>4, <2>5
<1> QED
  BY <1>8, <1>10, <1>11 DEF UpdateVersion

(* So does updating a deployment.                                          *)
LEMMA DeploymentStep == StackInv /\ UpdateDeployment => StackInv'
<1> SUFFICES ASSUME StackInv, UpdateDeployment PROVE StackInv'
  OBVIOUS
<1> DEFINE id == DeploymentId(wanted, updates)
<1>1. InTurn("deployment") /\ "deployment" \in Publishables /\ IdFor("deployment") = id
  BY TurnInOrder DEF UpdateDeployment, Publishables, IdFor
<1>2. wanted.api # Unset /\ wanted \in templates /\ updates \in Nat
  BY <1>1, ResourcesPresent DEF InTurn, TypeOK
<1>3. values["api"] = ApiOf(wanted)
  <2>1. "api" \in done
    BY <1>1 DEF InTurn, DoneInOrder
  <2> QED
    BY <1>1, <2>1 DEF InTurn, Updating, ResourcesAre, ApiIs
<1>4. CASE id \in DOMAIN held /\ Keep
  <2>1. UNCHANGED <<made, held, values>>
    BY <1>4 DEF Keep
  <2>2. DeploymentIs(wanted, updates, held)
    <3>1. PICK j \in 0 .. updates - 1 :
            StackIs(template, j, before.held, before.values) /\ id = DeploymentId(template, j)
      BY <1>1, <1>4, HeldBefore
    <3>2. /\ id \in DOMAIN before.held /\ held[id] = before.held[id]
          /\ template \in templates /\ "deployment" \in ResourcesOf(template)
      BY <1>1, <1>4, HeldBefore
    <3>3. DeploymentIs(template, j, before.held)
      BY <3>1, <3>2 DEF StackIs, ResourcesAre
    <3>4. wanted.api.always \in BOOLEAN /\ template.api # Unset /\ template.api.always \in BOOLEAN
      BY <1>1, <1>2, <3>2, SameResources DEF InTurn
    <3>5. /\ Written(wanted.api.definition) = Written(template.api.definition)
          /\ FunctionNames(wanted) = FunctionNames(template)
      <4>1. j # updates
        BY <1>2
      <4> QED
        BY <3>1, <3>4, <4>1, DeploymentIdTells
    <3>6. WrittenTells => ApiOf(wanted) = ApiOf(template)
      BY <1>2, <3>2, <3>4, <3>5 DEF WrittenTells, ApiOf
    <3> QED
      BY <1>4, <3>1, <3>2, <3>3, <3>6 DEF DeploymentIs
  <2>3. MadeGrows
    BY <1>1, <2>1, NothingMade DEF InTurn
  <2>4. MadeOfATemplate'
    BY <1>1, <2>1 DEF InTurn, MadeOfATemplate
  <2>5. VersionsShared'
    BY <1>1, <2>1 DEF InTurn, VersionsShared, LayerAt
  <2>6. ResourcesAre({"deployment"}, wanted, updates, held, values)'
    BY <1>1, <2>1, <2>2 DEF InTurn, ResourcesAre, DeploymentIs, WrittenTells, ApiOf
  <2>7. held'[id] \in DOMAIN made' /\ (id \in DOMAIN before.held => before.held[id] = held'[id])
    BY <1>1, <1>4, <2>1, HeldBefore DEF InTurn, TypeOK
  <2> QED
    BY <1>1, <1>4, <2>1, <2>3, <2>4, <2>5, <2>6, <2>7, HoldKeeps
<1>5. CASE id \notin DOMAIN held /\ Publish("deployment", id, values["api"])
  <2> PICK e : e = DeploymentOf(wanted, updates)
    OBVIOUS
  <2>1. made' = Append(made, e) /\ held' = With(held, IdFor("deployment"), Len(made) + 1) /\ values' = values
    BY <1>1, <1>3, <1>5 DEF Publish, Hold, DeploymentOf
  <2>2. /\ MadeGrows /\ Len(made) + 1 \in DOMAIN made'
        /\ DOMAIN held' = DOMAIN held \cup {IdFor("deployment")}
        /\ \A i \in DOMAIN held : i # IdFor("deployment") => held'[i] = held[i]
        /\ held'[IdFor("deployment")] = Len(made) + 1 /\ made'[held'[IdFor("deployment")]] = e
    BY <1>1, <2>1, PublishGives
  <2>3. MadeOfATemplate'
    BY <1>1, <1>2, <2>1, OneOfATemplate DEF InTurn, TypeOK
  <2>4. VersionsShared'
    BY <1>1, <2>2, VersionsStay
  <2>5. ResourcesAre({"deployment"}, wanted, updates, held, values)'
    BY <1>1, <2>2 DEF InTurn, ResourcesAre, DeploymentIs, DeploymentOf
  <2>6. id \notin DOMAIN before.held
    BY <1>1, <1>5 DEF InTurn, Updating
  <2> QED
    BY <1>1, <2>1, <2>2, <2>3, <2>4, <2>5, <2>6, HoldKeeps
<1> QED
  BY <1>4, <1>5 DEF UpdateDeployment

(* So does updating the version of a state machine.                        *)
LEMMA MachineVersionStep == StackInv /\ UpdateMachineVersion => StackInv'
<1> SUFFICES ASSUME StackInv, UpdateMachineVersion PROVE StackInv'
  OBVIOUS
<1> DEFINE id == MachineVersionId
<1>1. InTurn("machineVersion") /\ "machineVersion" \in Publishables /\ IdFor("machineVersion") = id
  BY TurnInOrder DEF UpdateMachineVersion, Publishables, IdFor
<1>2. wanted.machine # Unset /\ wanted \in templates
  BY <1>1, ResourcesPresent DEF InTurn
<1>3. values["machine"] = Resolved(wanted.machine.definition)
  <2>1. "machine" \in done
    BY <1>1 DEF InTurn, DoneInOrder
  <2> QED
    BY <1>1, <2>1 DEF InTurn, Updating, ResourcesAre, MachineIs
<1>4. CASE id \in DOMAIN held /\ made[held[id]].snapshot = values["machine"] /\ Keep
  <2>1. UNCHANGED <<made, held, values>>
    BY <1>4 DEF Keep
  <2>2. MachineVersionIs(wanted, held)
    <3>1. PICK j \in 0 .. updates - 1 : StackIs(template, j, before.held, before.values)
      BY <1>1, <1>4, HeldBefore
    <3>2. held[id] = before.held[id] /\ "machineVersion" \in ResourcesOf(template)
      BY <1>1, <1>4, HeldBefore
    <3>3. made[held[id]] = MachineVersionOf(template)
      BY <3>1, <3>2 DEF StackIs, ResourcesAre, MachineVersionIs
    <3>4. Resolved(template.machine.definition) = Resolved(wanted.machine.definition)
      <4>1. MachineVersionOf(template).snapshot = Resolved(template.machine.definition)
        BY DEF MachineVersionOf
      <4>2. made[held[MachineVersionId]].snapshot = values["machine"]
        BY <1>4
      <4> QED
        BY <1>3, <3>3, <4>1, <4>2
    <3> QED
      BY <1>4, <3>3, <3>4 DEF MachineVersionIs, MachineVersionOf
  <2>3. MadeGrows
    BY <1>1, <2>1, NothingMade DEF InTurn
  <2>4. MadeOfATemplate'
    BY <1>1, <2>1 DEF InTurn, MadeOfATemplate
  <2>5. VersionsShared'
    BY <1>1, <2>1 DEF InTurn, VersionsShared, LayerAt
  <2>6. ResourcesAre({"machineVersion"}, wanted, updates, held, values)'
    BY <1>1, <2>1, <2>2 DEF InTurn, ResourcesAre, MachineVersionIs, MachineVersionOf
  <2>7. held'[id] \in DOMAIN made' /\ (id \in DOMAIN before.held => before.held[id] = held'[id])
    BY <1>1, <1>4, <2>1, HeldBefore DEF InTurn, TypeOK
  <2> QED
    BY <1>1, <1>4, <2>1, <2>3, <2>4, <2>5, <2>6, <2>7, HoldKeeps
<1>5. CASE Publish("machineVersion", id, values["machine"])
  <2> PICK e : e = MachineVersionOf(wanted)
    OBVIOUS
  <2>1. made' = Append(made, e) /\ held' = With(held, IdFor("machineVersion"), Len(made) + 1) /\ values' = values
    BY <1>1, <1>3, <1>5 DEF Publish, Hold, MachineVersionOf
  <2>2. /\ MadeGrows /\ Len(made) + 1 \in DOMAIN made'
        /\ DOMAIN held' = DOMAIN held \cup {IdFor("machineVersion")}
        /\ \A i \in DOMAIN held : i # IdFor("machineVersion") => held'[i] = held[i]
        /\ held'[IdFor("machineVersion")] = Len(made) + 1 /\ made'[held'[IdFor("machineVersion")]] = e
    BY <1>1, <2>1, PublishGives
  <2>3. MadeOfATemplate'
    BY <1>1, <1>2, <2>1, OneOfATemplate DEF InTurn, TypeOK
  <2>4. VersionsShared'
    BY <1>1, <2>2, VersionsStay
  <2>5. ResourcesAre({"machineVersion"}, wanted, updates, held, values)'
    BY <1>1, <2>2 DEF InTurn, ResourcesAre, MachineVersionIs, MachineVersionOf
  <2>6. ReplacedForCause(IdFor("machineVersion"))'
    BY <1>1 DEF InTurn, ReplacedForCause, IdFor
  <2> QED
    BY <1>1, <2>1, <2>2, <2>3, <2>4, <2>5, <2>6, HoldKeeps
<1> QED
  BY <1>4, <1>5 DEF UpdateMachineVersion

-----------------------------------------------------------------------------
(* The beginning and the two ends of an update.                            *)

(* So does starting an update with a new template.                         *)
LEMMA StartStep == StackInv /\ StartUpdate => StackInv'
<1> SUFFICES ASSUME StackInv, StartUpdate PROVE StackInv'
  OBVIOUS
<1>1. /\ TypeOK /\ MadeOfATemplate /\ VersionsShared /\ StackWas(updates, held, values)
      /\ wanted' \in templates /\ updates' = updates + 1 /\ done' = {}
      /\ before' = [held |-> held, values |-> values, made |-> Len(made)]
      /\ UNCHANGED <<templates, template, made, held, values, gone>>
  BY DEF StackInv, StartUpdate
<1>2. before'.held = held /\ before'.values = values /\ before'.made = Len(made)
  BY <1>1
<1>3. updates \in Nat /\ updates' - 1 = updates
  BY <1>1 DEF TypeOK
<1>4. WrittenTells' = WrittenTells /\ LayersNamed' = LayersNamed
  BY <1>1 DEF WrittenTells, LayersNamed
<1>5. TypeOK'
  BY <1>1 DEF TypeOK
<1>6. MadeOfATemplate'
  <2>1. 0 .. updates \subseteq 0 .. updates'
    BY <1>1, <1>3
  <2> QED
    BY <1>1, <2>1 DEF MadeOfATemplate
<1>7. VersionsShared'
  BY <1>1 DEF VersionsShared, LayerAt
<1>8. ASSUME NEW j \in 0 .. updates, StackIs(template, j, held, values)
      PROVE  StackIs(template, j, before.held, before.values)'
  <2>1. /\ DOMAIN held = IdsOf(template, j) /\ DOMAIN values \subseteq ResourcesOf(template)
        /\ ResourcesAre(ResourcesOf(template), template, j, held, values)
    BY <1>8 DEF StackIs
  <2>2. LayerIs(template, held) => LayerIs(template, before.held)'
    BY <1>1, <1>2 DEF LayerIs
  <2>3. FunctionIs(template, held, values) => FunctionIs(template, before.held, before.values)'
    BY <1>1, <1>2 DEF FunctionIs, LayerIn
  <2>4. VersionIs(template, held) => VersionIs(template, before.held)'
    BY <1>1, <1>2, <1>4 DEF VersionIs, VersionServes, LayerIn
  <2>5. AliasIs(template, held, values) => AliasIs(template, before.held, before.values)'
    BY <1>1, <1>2 DEF AliasIs
  <2>6. ApiIs(template, values) => ApiIs(template, before.values)'
    BY <1>1, <1>2 DEF ApiIs
  <2>7. DeploymentIs(template, j, held) => DeploymentIs(template, j, before.held)'
    BY <1>1, <1>2, <1>4 DEF DeploymentIs
  <2>8. StageIs(template, j, held, values) => StageIs(template, j, before.held, before.values)'
    BY <1>1, <1>2 DEF StageIs
  <2>9. MachineIs(template, values) => MachineIs(template, before.values)'
    BY <1>1, <1>2 DEF MachineIs
  <2>10. MachineVersionIs(template, held) => MachineVersionIs(template, before.held)'
    BY <1>1, <1>2 DEF MachineVersionIs
  <2>11. MachineAliasIs(held, values) => MachineAliasIs(before.held, before.values)'
    BY <1>1, <1>2 DEF MachineAliasIs
  <2> QED
    BY <1>1, <1>2, <2>1, <2>2, <2>3, <2>4, <2>5, <2>6, <2>7, <2>8, <2>9, <2>10, <2>11 DEF StackIs, ResourcesAre
<1>9. StackWas(updates - 1, before.held, before.values)'
  BY <1>1, <1>2, <1>3, <1>8 DEF StackWas
<1>10. DOMAIN values \subseteq ResourcesOf(wanted')
  <2>1. CASE template = Unset
    BY <1>1, <2>1 DEF StackWas
  <2>2. CASE template # Unset
    <3>1. template \in templates /\ DOMAIN values \subseteq ResourcesOf(template)
      BY <1>1, <2>2 DEF StackWas, StackIs, TypeOK
    <3> QED
      BY <1>1, <3>1, SameResources
  <2> QED
    BY <2>1, <2>2
<1>11. DoneInOrder' /\ ResourcesAre(done, wanted, updates, held, values)'
  BY <1>1 DEF DoneInOrder, ResourcesAre
<1>12. DOMAIN held' = DOMAIN before'.held \cup IdsDone'
  BY <1>1, <1>2 DEF IdsDone
<1>13. Len(made) \in Nat /\ DOMAIN made = 1 .. Len(made)
  BY <1>1 DEF MadeOfATemplate
<1>14. Updating'
  BY <1>1, <1>2, <1>3, <1>9, <1>10, <1>11, <1>12, <1>13 DEF Updating, TypeOK
<1>15. wanted' # Unset
  BY <1>1, SameResources
<1> QED
  BY <1>5, <1>6, <1>7, <1>14, <1>15 DEF StackInv

(* So does an update that fails and is rolled back.                        *)
LEMMA FailStep == StackInv /\ FailUpdate => StackInv'
<1> SUFFICES ASSUME StackInv, FailUpdate PROVE StackInv'
  OBVIOUS
<1>1. /\ TypeOK /\ MadeOfATemplate /\ VersionsShared /\ Updating
      /\ wanted' = Unset /\ held' = before.held /\ values' = before.values
      /\ gone' \subseteq gone \cup (before.made + 1 .. Len(made))
      /\ UNCHANGED <<templates, template, updates, done, made, before>>
  BY DEF StackInv, FailUpdate
<1>2. /\ DOMAIN made = 1 .. Len(made) /\ Len(made) \in Nat
      /\ updates \in Nat /\ before.made \in 0 .. Len(made)
      /\ \A id \in DOMAIN before.held : before.held[id] \in 1 .. before.made
  BY <1>1 DEF MadeOfATemplate, TypeOK, Updating
<1>3. TypeOK'
  <2>1. \A id \in DOMAIN held' : held'[id] \in DOMAIN made'
    BY <1>1, <1>2
  <2>2. gone' \subseteq DOMAIN made'
    BY <1>1, <1>2 DEF TypeOK
  <2> QED
    BY <1>1, <2>1, <2>2 DEF TypeOK
<1>4. WrittenTells' = WrittenTells /\ LayersNamed' = LayersNamed
  BY <1>1 DEF WrittenTells, LayersNamed
<1>5. MadeOfATemplate'
  BY <1>1 DEF MadeOfATemplate
<1>6. VersionsShared'
  <2>1. ASSUME NEW id \in DOMAIN before.held, id[1] = "Version"
        PROVE  id \in DOMAIN held /\ held[id] = before.held[id]
    <3>1. LayerId(wanted)[1] = "Layer" /\ MachineVersionId[1] = "MachineVersion"
      BY IdPrefixes
    <3> QED
      BY <1>1, <2>1, <3>1 DEF Updating, ReplacedForCause
  <2> QED
    BY <1>1, <2>1 DEF VersionsShared, LayerAt
<1>7. ASSUME NEW j \in 0 .. updates - 1, StackIs(template, j, before.held, before.values)
      PROVE  StackIs(template, j, held, values)'
  <2>1. /\ DOMAIN before.held = IdsOf(template, j) /\ DOMAIN before.values \subseteq ResourcesOf(template)
        /\ ResourcesAre(ResourcesOf(template), template, j, before.held, before.values)
    BY <1>7 DEF StackIs
  <2>2. LayerIs(template, before.held) => LayerIs(template, held)'
    BY <1>1 DEF LayerIs
  <2>3. FunctionIs(template, before.held, before.values) => FunctionIs(template, held, values)'
    BY <1>1 DEF FunctionIs, LayerIn
  <2>4. VersionIs(template, before.held) => VersionIs(template, held)'
    BY <1>1, <1>4 DEF VersionIs, VersionServes, LayerIn
  <2>5. AliasIs(template, before.held, before.values) => AliasIs(template, held, values)'
    BY <1>1 DEF AliasIs
  <2>6. ApiIs(template, before.values) => ApiIs(template, values)'
    BY <1>1 DEF ApiIs
  <2>7. DeploymentIs(template, j, before.held) => DeploymentIs(template, j, held)'
    BY <1>1, <1>4 DEF DeploymentIs
  <2>8. StageIs(template, j, before.held, before.values) => StageIs(template, j, held, values)'
    BY <1>1 DEF StageIs
  <2>9. MachineIs(template, before.values) => MachineIs(template, values)'
    BY <1>1 DEF MachineIs
  <2>10. MachineVersionIs(template, before.held) => MachineVersionIs(template, held)'
    BY <1>1 DEF MachineVersionIs
  <2>11. MachineAliasIs(before.held, before.values) => MachineAliasIs(held, values)'
    BY <1>1 DEF MachineAliasIs
  <2> QED
    BY <1>1, <2>1, <2>2, <2>3, <2>4, <2>5, <2>6, <2>7, <2>8, <2>9, <2>10, <2>11 DEF StackIs, ResourcesAre
<1>8. StackWas(updates, held, values)'
  <2>1. 0 .. updates - 1 \subseteq 0 .. updates
    BY <1>2
  <2> QED
    BY <1>1, <1>7, <2>1 DEF StackWas, Updating
<1> QED
  BY <1>1, <1>3, <1>5, <1>6, <1>8 DEF StackInv

(* So does the clean-up that ends an update.                               *)
LEMMA FinishStep == StackInv /\ FinishUpdate => StackInv'
<1> SUFFICES ASSUME StackInv, FinishUpdate PROVE StackInv'
  OBVIOUS
<1>1. /\ TypeOK /\ MadeOfATemplate /\ VersionsShared /\ Updating
      /\ wanted # Unset /\ wanted \in templates /\ done = ResourcesOf(wanted)
      /\ wanted' = Unset /\ template' = wanted
      /\ held' = [id \in DOMAIN held \ Left |-> held[id]]
      /\ gone' = gone \cup {held[id] : id \in {i \in Left : DeletionOf(i, template) = "Delete"}}
                      \cup {before.held[id] : id \in {i \in Replaced : ReplacementOf(i, wanted) = "Delete"}}
      /\ UNCHANGED <<templates, updates, done, made, values, before>>
  BY DEF StackInv, FinishUpdate, TypeOK
<1>2. /\ DOMAIN made = 1 .. Len(made) /\ Len(made) \in Nat
      /\ updates \in Nat /\ before.made \in 0 .. Len(made)
      /\ \A id \in DOMAIN before.held : before.held[id] \in 1 .. before.made
  BY <1>1 DEF MadeOfATemplate, TypeOK, Updating
<1>3. TypeOK'
  <2>1. \A id \in DOMAIN held' : held'[id] \in DOMAIN made'
    BY <1>1 DEF TypeOK
  <2>2. gone' \subseteq DOMAIN made'
    BY <1>1, <1>2 DEF TypeOK, Left, Replaced
  <2> QED
    BY <1>1, <2>1, <2>2 DEF TypeOK
<1>4. WrittenTells' = WrittenTells /\ LayersNamed' = LayersNamed
  BY <1>1 DEF WrittenTells, LayersNamed
<1>5. MadeOfATemplate'
  BY <1>1 DEF MadeOfATemplate
<1>6. VersionsShared'
  <2>1. \A id \in DOMAIN held' : id \in DOMAIN held /\ held'[id] = held[id]
    BY <1>1
  <2> QED
    BY <1>1, <2>1 DEF VersionsShared, LayerAt
<1>7. ResourcesAre(ResourcesOf(wanted), wanted, updates, held, values)
  BY <1>1 DEF Updating
<1>8. IdsOf(wanted, updates) \subseteq DOMAIN held
  <2> SUFFICES ASSUME NEW id \in IdsOf(wanted, updates) PROVE id \in DOMAIN held
    OBVIOUS
  <2>1. CASE wanted.layer # Unset /\ id = LayerId(wanted)
    BY <1>7, <2>1, ResourcesPresent DEF ResourcesAre, LayerIs
  <2>2. CASE wanted.function # Unset /\ id = VersionId(wanted)
    BY <1>7, <2>2, ResourcesPresent DEF ResourcesAre, VersionIs
  <2>3. CASE wanted.api # Unset /\ id = DeploymentId(wanted, updates)
    BY <1>7, <2>3, ResourcesPresent DEF ResourcesAre, DeploymentIs
  <2>4. CASE wanted.machine # Unset /\ id = MachineVersionId
    BY <1>7, <2>4, ResourcesPresent DEF ResourcesAre, MachineVersionIs
  <2> QED
    BY <2>1, <2>2, <2>3, <2>4, IdsPresent
<1>9. DOMAIN held' = IdsOf(wanted, updates) /\ \A id \in DOMAIN held' : held'[id] = held[id]
  BY <1>1, <1>8 DEF Left
<1>10. ASSUME NEW k, k = updates
       PROVE  StackIs(template, k, held, values)'
  <2>1. /\ wanted.layer # Unset => LayerId(wanted) \in DOMAIN held'
        /\ wanted.function # Unset => VersionId(wanted) \in DOMAIN held'
        /\ wanted.api # Unset => DeploymentId(wanted, k) \in DOMAIN held'
        /\ wanted.machine # Unset => MachineVersionId \in DOMAIN held'
        /\ \A r \in {"function", "version", "alias"} : r \in ResourcesOf(wanted) => wanted.function # Unset
        /\ \A r \in {"api", "deployment", "stage"} : r \in ResourcesOf(wanted) => wanted.api # Unset
        /\ \A r \in {"machine", "machineVersion", "machineAlias"} :
             r \in ResourcesOf(wanted) => wanted.machine # Unset
        /\ "layer" \in ResourcesOf(wanted) <=> wanted.layer # Unset
    BY <1>9, <1>10, IdsPresent, ResourcesPresent
  <2>2. "layer" \in ResourcesOf(wanted) => LayerIs(template, held)'
    BY <1>1, <1>4, <1>7, <1>9, <1>10, <2>1 DEF ResourcesAre, LayerIs
  <2>3. "function" \in ResourcesOf(wanted) => FunctionIs(template, held, values)'
    BY <1>1, <1>4, <1>7, <1>9, <1>10, <2>1 DEF ResourcesAre, FunctionIs, LayerIn
  <2>4. "version" \in ResourcesOf(wanted) => VersionIs(template, held)'
    BY <1>1, <1>4, <1>7, <1>9, <1>10, <2>1 DEF ResourcesAre, VersionIs, VersionServes, LayerIn
  <2>5. "alias" \in ResourcesOf(wanted) => AliasIs(template, held, values)'
    BY <1>1, <1>4, <1>7, <1>9, <1>10, <2>1 DEF ResourcesAre, AliasIs
  <2>6. "api" \in ResourcesOf(wanted) => ApiIs(template, values)'
    BY <1>1, <1>4, <1>7, <1>9, <1>10, <2>1 DEF ResourcesAre, ApiIs
  <2>7. "deployment" \in ResourcesOf(wanted) => DeploymentIs(template, k, held)'
    BY <1>1, <1>4, <1>7, <1>9, <1>10, <2>1 DEF ResourcesAre, DeploymentIs
  <2>8. "stage" \in ResourcesOf(wanted) => StageIs(template, k, held, values)'
    BY <1>1, <1>4, <1>7, <1>9, <1>10, <2>1 DEF ResourcesAre, StageIs
  <2>9. "machine" \in ResourcesOf(wanted) => MachineIs(template, values)'
    BY <1>1, <1>4, <1>7, <1>9, <1>10, <2>1 DEF ResourcesAre, MachineIs
  <2>10. "machineVersion" \in ResourcesOf(wanted) => MachineVersionIs(template, held)'
    BY <1>1, <1>4, <1>7, <1>9, <1>10, <2>1 DEF ResourcesAre, MachineVersionIs
  <2>11. "machineAlias" \in ResourcesOf(wanted) => MachineAliasIs(held, values)'
    BY <1>1, <1>4, <1>7, <1>9, <1>10, <2>1 DEF ResourcesAre, MachineAliasIs
  <2>12. DOMAIN values' \subseteq ResourcesOf(wanted)
    BY <1>1 DEF Updating
  <2>13. ResourcesAre(ResourcesOf(template), template, k, held, values)'
    BY <1>1, <2>2, <2>3, <2>4, <2>5, <2>6, <2>7, <2>8, <2>9, <2>10, <2>11 DEF ResourcesAre
  <2> QED
    BY <1>1, <1>9, <1>10, <2>12, <2>13 DEF StackIs
<1>11. StackWas(updates, held, values)'
  <2>1. PICK k : k = updates
    OBVIOUS
  <2>2. k \in 0 .. updates'
    BY <1>1, <1>2, <2>1
  <2>3. StackIs(template, k, held, values)'
    BY <1>10, <2>1
  <2>4. template' # Unset
    BY <1>1
  <2> QED
    BY <2>2, <2>3, <2>4 DEF StackWas
<1> QED
  BY <1>1, <1>3, <1>5, <1>6, <1>11 DEF StackInv

-----------------------------------------------------------------------------
(* The inductive invariant.                                                *)

(* The invariant holds of a new stack.                                     *)
LEMMA InitStack == Init => StackInv
<1> SUFFICES ASSUME Init PROVE StackInv
  OBVIOUS
<1>1. /\ templates \in Stacks
      /\ template = Unset /\ wanted = Unset /\ updates = 0
      /\ made = <<>> /\ held = <<>> /\ values = <<>> /\ gone = {}
  BY DEF Init
<1>2. DOMAIN made = {} /\ DOMAIN held = {} /\ DOMAIN values = {} /\ made \in Seq(ToSet(made))
  BY <1>1
<1> QED
  BY <1>1, <1>2 DEF StackInv, TypeOK, MadeOfATemplate, VersionsShared, StackWas

(* Every step keeps the invariant.                                         *)
LEMMA NextStack == StackInv /\ [Next]_vars => StackInv'
<1> SUFFICES ASSUME StackInv, [Next]_vars PROVE StackInv'
  OBVIOUS
<1>1. CASE UNCHANGED vars
  <2>1. UNCHANGED <<templates, template, wanted, updates, done, made, held, values, gone, before>>
    BY <1>1 DEF vars
  <2>2. TypeOK' /\ MadeOfATemplate' /\ VersionsShared'
    BY <2>1 DEF StackInv, TypeOK, MadeOfATemplate, VersionsShared, LayerAt
  <2>3. WrittenTells' = WrittenTells /\ LayersNamed' = LayersNamed
    BY <2>1 DEF WrittenTells, LayersNamed
  <2>4. ASSUME wanted = Unset
        PROVE  StackWas(updates, held, values)'
    <3>1. StackWas(updates, held, values)
      BY <2>4 DEF StackInv
    <3>2. ASSUME NEW j \in 0 .. updates, StackIs(template, j, held, values)
          PROVE  StackIs(template, j, held, values)'
      <4>1. /\ DOMAIN held = IdsOf(template, j) /\ DOMAIN values \subseteq ResourcesOf(template)
            /\ ResourcesAre(ResourcesOf(template), template, j, held, values)
        BY <3>2 DEF StackIs
      <4>2. LayerIs(template, held) => LayerIs(template, held)'
        BY <2>1, <2>3 DEF LayerIs
      <4>3. FunctionIs(template, held, values) => FunctionIs(template, held, values)'
        BY <2>1, <2>3 DEF FunctionIs, LayerIn
      <4>4. VersionIs(template, held) => VersionIs(template, held)'
        BY <2>1, <2>3 DEF VersionIs, VersionServes, LayerIn
      <4>5. AliasIs(template, held, values) => AliasIs(template, held, values)'
        BY <2>1, <2>3 DEF AliasIs
      <4>6. ApiIs(template, values) => ApiIs(template, values)'
        BY <2>1, <2>3 DEF ApiIs
      <4>7. DeploymentIs(template, j, held) => DeploymentIs(template, j, held)'
        BY <2>1, <2>3 DEF DeploymentIs
      <4>8. StageIs(template, j, held, values) => StageIs(template, j, held, values)'
        BY <2>1, <2>3 DEF StageIs
      <4>9. MachineIs(template, values) => MachineIs(template, values)'
        BY <2>1, <2>3 DEF MachineIs
      <4>10. MachineVersionIs(template, held) => MachineVersionIs(template, held)'
        BY <2>1, <2>3 DEF MachineVersionIs
      <4>11. MachineAliasIs(held, values) => MachineAliasIs(held, values)'
        BY <2>1, <2>3 DEF MachineAliasIs
      <4> QED
        BY <2>1, <4>1, <4>2, <4>3, <4>4, <4>5, <4>6, <4>7, <4>8, <4>9, <4>10, <4>11 DEF StackIs, ResourcesAre
    <3> QED
      BY <2>1, <3>1, <3>2 DEF StackWas
  <2>5. ASSUME wanted # Unset
        PROVE  Updating'
    <3>1. TypeOK /\ MadeOfATemplate /\ Updating
      BY <2>5 DEF StackInv
    <3>2. MadeGrows
      BY <2>1, <3>1, NothingMade
    <3>3. ResourcesAre(done, wanted, updates, held, values)'
      <4>1. ResourcesAre(done, wanted, updates, held, values)
        BY <3>1 DEF Updating
      <4>2. LayerIs(wanted, held) => LayerIs(wanted, held)'
        BY <2>1, <2>3 DEF LayerIs
      <4>3. FunctionIs(wanted, held, values) => FunctionIs(wanted, held, values)'
        BY <2>1, <2>3 DEF FunctionIs, LayerIn
      <4>4. VersionIs(wanted, held) => VersionIs(wanted, held)'
        BY <2>1, <2>3 DEF VersionIs, VersionServes, LayerIn
      <4>5. AliasIs(wanted, held, values) => AliasIs(wanted, held, values)'
        BY <2>1, <2>3 DEF AliasIs
      <4>6. ApiIs(wanted, values) => ApiIs(wanted, values)'
        BY <2>1, <2>3 DEF ApiIs
      <4>7. DeploymentIs(wanted, updates, held) => DeploymentIs(wanted, updates, held)'
        BY <2>1, <2>3 DEF DeploymentIs
      <4>8. StageIs(wanted, updates, held, values) => StageIs(wanted, updates, held, values)'
        BY <2>1, <2>3 DEF StageIs
      <4>9. MachineIs(wanted, values) => MachineIs(wanted, values)'
        BY <2>1, <2>3 DEF MachineIs
      <4>10. MachineVersionIs(wanted, held) => MachineVersionIs(wanted, held)'
        BY <2>1, <2>3 DEF MachineVersionIs
      <4>11. MachineAliasIs(held, values) => MachineAliasIs(held, values)'
        BY <2>1, <2>3 DEF MachineAliasIs
      <4> QED
        BY <2>1, <4>1, <4>2, <4>3, <4>4, <4>5, <4>6, <4>7, <4>8, <4>9, <4>10, <4>11 DEF ResourcesAre
    <3> QED
      BY <2>1, <3>1, <3>2, <3>3, BeforeStays DEF Updating, IdsDone, ReplacedForCause, DoneInOrder
  <2> QED
    BY <2>1, <2>2, <2>4, <2>5 DEF StackInv
<1>2. CASE Stop
  <2>1. UNCHANGED vars
    BY <1>2 DEF Stop
  <2> QED
    BY <1>1, <2>1
<1> QED
  BY <1>1, <1>2, StartStep, LayerStep, FunctionStep, VersionStep, AliasStep, ApiStep, DeploymentStep,
     StageStep, MachineStep, MachineVersionStep, MachineAliasStep, FinishStep, FailStep DEF Next

(* Between updates a stack is as its template says, and during an update   *)
(* what is through is as the wanted one says, whatever fails in between.   *)
THEOREM StackIsAsWritten == Spec => []StackInv
BY InitStack, NextStack, PTL DEF Spec

-----------------------------------------------------------------------------
(* What is served.                                                         *)

(* A stack that is as written serves what its template says, if the hashes *)
(* tell templates apart and layers are named.                              *)
LEMMA StackServes == StackInv /\ WrittenTells /\ LayersNamed => ServedAsWritten
<1> SUFFICES ASSUME StackInv, WrittenTells, LayersNamed, wanted = Unset, template # Unset
             PROVE  /\ template.function # Unset =>
                         LET f == template.function
                             s == Serves("alias")
                         IN  /\ s.description = f.sha
                             /\ f.sha = Unset =>
                                  /\ s.code = Resolved(f.code) /\ s.settings = Resolved(f.settings)
                                  /\ f.all => s.other = Resolved(f.other) /\ s.name = Resolved(f.name)
                                  /\ f.all /\ HashedLayer(template) # Unset => s.layer = held[LayerId(template)]
                    /\ template.api # Unset =>
                         Serves("stage") = [definition |-> Resolved(template.api.definition),
                                            calls |-> FunctionNames(template)]
                    /\ template.machine # Unset =>
                         Serves("machineAlias") = Resolved(template.machine.definition)
  BY DEF ServedAsWritten, Settled
<1>1. PICK j \in 0 .. updates : StackIs(template, j, held, values)
  BY DEF StackInv, StackWas
<1>2. ResourcesAre(ResourcesOf(template), template, j, held, values)
  BY <1>1 DEF StackIs
<1>3. ASSUME template.function # Unset
      PROVE  LET f == template.function
                 s == Serves("alias")
             IN  /\ s.description = f.sha
                 /\ f.sha = Unset =>
                      /\ s.code = Resolved(f.code) /\ s.settings = Resolved(f.settings)
                      /\ f.all => s.other = Resolved(f.other) /\ s.name = Resolved(f.name)
                      /\ f.all /\ HashedLayer(template) # Unset => s.layer = held[LayerId(template)]
  <2>1. VersionIs(template, held) /\ AliasIs(template, held, values)
    BY <1>2, <1>3, ResourcesPresent DEF ResourcesAre
  <2>2. VersionServes(Serves("alias"), template, held)
    BY <2>1 DEF VersionIs, AliasIs, Serves
  <2>3. HashedLayer(template) # Unset => LayerIn(template, held) = held[LayerId(template)]
    BY DEF HashedLayer, LayerIn
  <2> QED
    BY <2>2, <2>3 DEF VersionServes
<1>4. ASSUME template.api # Unset
      PROVE  Serves("stage") = ApiOf(template)
  <2>1. DeploymentIs(template, j, held) /\ StageIs(template, j, held, values)
    BY <1>2, <1>4, ResourcesPresent DEF ResourcesAre
  <2> QED
    BY <2>1 DEF DeploymentIs, StageIs, Serves
<1>5. ASSUME template.machine # Unset
      PROVE  Serves("machineAlias") = Resolved(template.machine.definition)
  <2>1. MachineVersionIs(template, held) /\ MachineAliasIs(held, values)
    BY <1>2, <1>5, ResourcesPresent DEF ResourcesAre
  <2>2. Serves("machineAlias") = MachineVersionOf(template).snapshot
    BY <2>1 DEF MachineVersionIs, MachineAliasIs, Serves
  <2> QED
    BY <2>2 DEF MachineVersionOf
<1> QED
  BY <1>3, <1>4, <1>5 DEF ApiOf

(* After every update of a stack whose templates write different things    *)
(* differently, the aliases and stages serve what the template says.       *)
THEOREM ServedAsWrittenHolds == Spec => [](WrittenTells /\ LayersNamed => ServedAsWritten)
BY StackIsAsWritten, StackServes, PTL

-----------------------------------------------------------------------------
(* What is published.                                                      *)

PublishedForCause ==
  \A n \in DOMAIN made' \ DOMAIN made :
    template # Unset /\ ~(made'[n].kind = "deployment" /\ wanted.api.always) =>
      MadeFrom(made'[n].kind, wanted) # MadeFrom(made'[n].kind, template)

(* What the stack had before the update for a resource that is not through.*)
LEMMA LastTemplateIs ==
  ASSUME NEW r \in Publishables, InTurn(r), template # Unset
  PROVE  /\ template \in templates /\ r \in ResourcesOf(template)
         /\ \E j \in 0 .. updates - 1 :
              /\ DOMAIN before.held = IdsOf(template, j)
              /\ ResourcesAre({r}, template, j, before.held, before.values)
         /\ DOMAIN before.held \subseteq DOMAIN held
         /\ IdFor(r) \in DOMAIN before.held => held[IdFor(r)] = before.held[IdFor(r)]
<1> USE DEF InTurn
<1>1. template \in templates
  BY DEF TypeOK
<1>2. r \in ResourcesOf(template)
  BY <1>1, SameResources
<1>3. PICK j \in 0 .. updates - 1 : StackIs(template, j, before.held, before.values)
  BY DEF Updating, StackWas
<1>4. DOMAIN before.held = IdsOf(template, j) /\ ResourcesAre({r}, template, j, before.held, before.values)
  BY <1>2, <1>3 DEF StackIs, ResourcesAre
<1>5. DOMAIN before.held \subseteq DOMAIN held
  BY DEF Updating
<1>6. ASSUME IdFor(r) \in DOMAIN before.held
      PROVE  held[IdFor(r)] = before.held[IdFor(r)]
  BY <1>5, <1>6, HeldBefore
<1> QED
  BY <1>1, <1>2, <1>4, <1>5, <1>6

(* A layer version is published only for a change of what is hashed.       *)
LEMMA LayerPublished == StackInv /\ UpdateLayer => PublishedForCause
<1> SUFFICES ASSUME StackInv, UpdateLayer, NEW n \in DOMAIN made' \ DOMAIN made, template # Unset,
                    MadeFrom(made'[n].kind, wanted) = MadeFrom(made'[n].kind, template)
             PROVE  FALSE
  BY DEF PublishedForCause
<1> DEFINE id == LayerId(wanted)
<1>1. InTurn("layer") /\ "layer" \in Publishables /\ IdFor("layer") = id
  BY TurnInOrder DEF UpdateLayer, Publishables, IdFor
<1>2. /\ ~(id \in DOMAIN held /\ made[held[id]].snapshot = LayerContent(wanted))
      /\ made' = Append(made, LayerOf(wanted))
  BY DEF UpdateLayer, Keep, Publish, LayerOf
<1>3. made'[n].kind = "layer"
  <2> PICK e : e = LayerOf(wanted)
    OBVIOUS
  <2>1. made'[n] = e
    BY <1>1, <1>2, Appended DEF InTurn, MadeOfATemplate
  <2> QED
    BY <2>1 DEF LayerOf
<1>4. /\ wanted.layer.content = template.layer.content
      /\ wanted.layer.publish = template.layer.publish
      /\ wanted.layer.retention = template.layer.retention
  <2>1. <<wanted.layer.content, wanted.layer.publish, wanted.layer.retention>>
          = <<template.layer.content, template.layer.publish, template.layer.retention>>
    BY <1>3 DEF MadeFrom
  <2> QED
    BY <2>1
<1>5. id = LayerId(template) /\ LayerContent(wanted) = LayerContent(template)
  BY <1>4 DEF LayerId, LayerContent
<1>6. LayerIs(template, before.held)
  BY <1>1, LastTemplateIs DEF ResourcesAre
<1>7. id \in DOMAIN before.held /\ made[before.held[id]].snapshot = LayerContent(wanted)
  BY <1>5, <1>6 DEF LayerIs, LayerOf
<1> QED
  BY <1>1, <1>2, <1>7, LastTemplateIs

(* What a function version is made from is what its id tells.              *)
LEMMA VersionMadeFromTells ==
  ASSUME NEW t, NEW u, MadeFrom("version", t) = MadeFrom("version", u),
         t.function.all \in BOOLEAN, u.function.all \in BOOLEAN
  PROVE  VersionId(t) = VersionId(u)
<1> DEFINE code(x) == <<x.function.code, x.function.settings>>
           all(x) == <<x.function.code, x.function.settings, x.function.other, x.function.name,
                       HashedLayer(x)>>
           from(x) == IF x.function.sha # Unset THEN <<x.function.sha>>
                      ELSE IF x.function.all THEN all(x) ELSE code(x)
<1>1. from(t) = from(u)
  BY DEF MadeFrom
<1>2. \A x, y : Len(<<x.function.sha>>) = 1 /\ Len(code(y)) = 2 /\ Len(all(y)) = 5
  OBVIOUS
<1>3. t.function.sha # Unset <=> u.function.sha # Unset
  BY <1>1, <1>2
<1>4. CASE t.function.sha # Unset
  <2>1. <<t.function.sha>> = <<u.function.sha>>
    BY <1>1, <1>3, <1>4
  <2>2. t.function.sha = u.function.sha
    BY <2>1
  <2> QED
    BY <1>4, <2>2 DEF VersionId, LogicalId
<1>5. CASE t.function.sha = Unset /\ t.function.all
  <2>1. u.function.all /\ all(t) = all(u)
    BY <1>1, <1>2, <1>3, <1>5
  <2>2. /\ t.function.code = u.function.code /\ t.function.settings = u.function.settings
        /\ t.function.other = u.function.other /\ t.function.name = u.function.name
        /\ HashedLayer(t) = HashedLayer(u)
    BY <2>1
  <2>3. LogicalDict(t) = LogicalDict(u)
    BY <1>5, <2>1, <2>2 DEF LogicalDict
  <2> QED
    BY <1>3, <1>5, <2>3 DEF VersionId
<1>6. CASE t.function.sha = Unset /\ ~t.function.all
  <2>1. ~u.function.all /\ code(t) = code(u)
    BY <1>1, <1>2, <1>3, <1>6
  <2>2. t.function.code = u.function.code /\ t.function.settings = u.function.settings
    BY <2>1
  <2>3. LogicalDict(t) = LogicalDict(u)
    BY <1>6, <2>1, <2>2 DEF LogicalDict
  <2> QED
    BY <1>3, <1>6, <2>3 DEF VersionId
<1> QED
  BY <1>4, <1>5, <1>6

(* A function version is published only for a change of what is hashed.    *)
LEMMA VersionPublished == StackInv /\ UpdateVersion => PublishedForCause
<1> SUFFICES ASSUME StackInv, UpdateVersion, NEW n \in DOMAIN made' \ DOMAIN made, template # Unset,
                    MadeFrom(made'[n].kind, wanted) = MadeFrom(made'[n].kind, template)
             PROVE  FALSE
  BY DEF PublishedForCause
<1> DEFINE id == VersionId(wanted)
<1>1. InTurn("version") /\ "version" \in Publishables /\ IdFor("version") = id
  BY TurnInOrder DEF UpdateVersion, Publishables, IdFor
<1>2. /\ id \notin DOMAIN held
      /\ made' = Append(made, [kind |-> "version", id |-> id, snapshot |-> values["function"]])
  BY DEF UpdateVersion, Keep, Publish, LastVersion, Versions
<1>3. made'[n].kind = "version"
  <2> PICK e : e = [kind |-> "version", id |-> id, snapshot |-> values["function"]]
    OBVIOUS
  <2>1. made'[n] = e
    BY <1>1, <1>2, Appended DEF InTurn, MadeOfATemplate
  <2> QED
    BY <2>1
<1>4. id = VersionId(template)
  <2>1. template \in templates /\ wanted \in templates /\ wanted.function # Unset
    BY <1>1, LastTemplateIs, ResourcesPresent DEF InTurn
  <2>2. wanted.function.all \in BOOLEAN /\ template.function.all \in BOOLEAN
    BY <1>1, <2>1, SameResources DEF InTurn
  <2> QED
    BY <1>3, <2>2, VersionMadeFromTells
<1>5. VersionIs(template, before.held)
  <2>1. PICK j \in 0 .. updates - 1 :
          /\ DOMAIN before.held = IdsOf(template, j)
          /\ ResourcesAre({"version"}, template, j, before.held, before.values)
    BY <1>1, LastTemplateIs
  <2> QED
    BY <2>1, <1>1, <1>2, <1>4, LastTemplateIs, IdsPresent, ResourcesPresent DEF ResourcesAre
<1> QED
  BY <1>1, <1>2, <1>4, <1>5, LastTemplateIs DEF VersionIs

(* So is a deployment.                                                     *)
LEMMA DeploymentPublished == StackInv /\ UpdateDeployment => PublishedForCause
<1> SUFFICES ASSUME StackInv, UpdateDeployment, NEW n \in DOMAIN made' \ DOMAIN made, template # Unset,
                    ~(made'[n].kind = "deployment" /\ wanted.api.always),
                    MadeFrom(made'[n].kind, wanted) = MadeFrom(made'[n].kind, template)
             PROVE  FALSE
  BY DEF PublishedForCause
<1> DEFINE id == DeploymentId(wanted, updates)
<1>1. InTurn("deployment") /\ "deployment" \in Publishables /\ IdFor("deployment") = id
  BY TurnInOrder DEF UpdateDeployment, Publishables, IdFor
<1>2. /\ id \notin DOMAIN held
      /\ made' = Append(made, [kind |-> "deployment", id |-> id, snapshot |-> values["api"]])
  BY DEF UpdateDeployment, Keep, Publish
<1>3. made'[n].kind = "deployment"
  <2> PICK e : e = [kind |-> "deployment", id |-> id, snapshot |-> values["api"]]
    OBVIOUS
  <2>1. made'[n] = e
    BY <1>1, <1>2, Appended DEF InTurn, MadeOfATemplate
  <2> QED
    BY <2>1
<1>4. /\ wanted.api.definition = template.api.definition
      /\ wanted.api.domain = template.api.domain
      /\ FunctionNames(wanted) = FunctionNames(template)
      /\ wanted.api.always = template.api.always
  <2>1. <<wanted.api.definition, wanted.api.domain, FunctionNames(wanted), wanted.api.always>>
          = <<template.api.definition, template.api.domain, FunctionNames(template), template.api.always>>
    BY <1>3 DEF MadeFrom
  <2> QED
    BY <2>1
<1>5. PICK j \in 0 .. updates - 1 : ResourcesAre({"deployment"}, template, j, before.held, before.values)
  BY <1>1, LastTemplateIs
<1>6. id = DeploymentId(template, j)
  BY <1>3, <1>4 DEF DeploymentId
<1>7. id \in DOMAIN before.held
  BY <1>5, <1>6 DEF ResourcesAre, DeploymentIs
<1> QED
  BY <1>1, <1>2, <1>7, LastTemplateIs

(* A version that a step makes was not there before.                       *)
LEMMA NewIsPublished ==
  ASSUME made \in Seq(ToSet(made)), NEW n \in DOMAIN made' \ DOMAIN made
  PROVE  \A e : made' = Append(made, e) => made'[n] = e
BY Appended

(* A state machine version is published only for a change.                 *)
LEMMA MachineVersionPublished == StackInv /\ UpdateMachineVersion => PublishedForCause
<1> SUFFICES ASSUME StackInv, UpdateMachineVersion, NEW n \in DOMAIN made' \ DOMAIN made, template # Unset,
                    MadeFrom(made'[n].kind, wanted) = MadeFrom(made'[n].kind, template)
             PROVE  FALSE
  BY DEF PublishedForCause
<1> DEFINE id == MachineVersionId
<1>1. /\ InTurn("machineVersion") /\ "machineVersion" \in Publishables
      /\ IdFor("machineVersion") = id
  BY TurnInOrder DEF UpdateMachineVersion, Publishables, IdFor
<1>2. ~(id \in DOMAIN held /\ made[held[id]].snapshot = values["machine"])
  BY DEF UpdateMachineVersion, Keep
<1>3. values["machine"] = Resolved(wanted.machine.definition)
  <2>1. "machine" \in done
    BY <1>1 DEF InTurn, DoneInOrder
  <2> QED
    BY <1>1, <2>1 DEF InTurn, Updating, ResourcesAre, MachineIs
<1>4. made'[n].kind = "machineVersion"
  <2>1. made' = Append(made, MachineVersionOf(wanted))
    BY <1>2, <1>3 DEF UpdateMachineVersion, Keep, Publish, MachineVersionOf
  <2>2. \A e : made' = Append(made, e) => made'[n] = e
    BY <1>1, NewIsPublished DEF InTurn, MadeOfATemplate
  <2>3. made'[n] = MachineVersionOf(wanted)
    BY <2>1, <2>2
  <2>4. MachineVersionOf(wanted).kind = "machineVersion"
    BY DEF MachineVersionOf
  <2> QED
    BY <2>3, <2>4
<1>5. wanted.machine.definition = template.machine.definition
  BY <1>4 DEF MadeFrom
<1>6. MachineVersionIs(template, before.held)
  BY <1>1, LastTemplateIs DEF ResourcesAre
<1>7. id \in DOMAIN before.held /\ made[before.held[id]].snapshot = values["machine"]
  <2>1. MachineVersionOf(template).snapshot = Resolved(template.machine.definition)
    BY DEF MachineVersionOf
  <2> QED
    BY <1>3, <1>5, <1>6, <2>1 DEF MachineVersionIs
<1> QED
  BY <1>1, <1>2, <1>7, LastTemplateIs

(* Every step publishes for cause.                                         *)
LEMMA NextPublishes == StackInv /\ [Next]_vars => [PublishedForCause]_vars
<1> SUFFICES ASSUME StackInv, [Next]_vars PROVE PublishedForCause
  OBVIOUS
<1>1. made' = made => PublishedForCause
  BY DEF PublishedForCause
<1>2. \/ UNCHANGED vars \/ Stop \/ StartUpdate \/ FinishUpdate \/ FailUpdate
      \/ UpdateFunction \/ UpdateAlias \/ UpdateApi \/ UpdateStage \/ UpdateMachine \/ UpdateMachineAlias
      => made' = made
  BY DEF vars, Stop, StartUpdate, FinishUpdate, FailUpdate, UpdateFunction, UpdateAlias, UpdateApi,
         UpdateStage, UpdateMachine, UpdateMachineAlias, Set
<1> QED
  BY <1>1, <1>2, LayerPublished, VersionPublished, DeploymentPublished, MachineVersionPublished DEF Next

(* Nothing is published by an update that touches nothing it is made from, *)
(* in any stack.                                                           *)
THEOREM NothingPublishedTwiceHolds == Spec => NothingPublishedTwice
BY StackIsAsWritten, NextPublishes, PTL DEF Spec, NothingPublishedTwice, PublishedForCause

-----------------------------------------------------------------------------
(* What is deleted.                                                        *)

(* What leaves the stack as an update ends, and what was replaced in it,   *)
(* was held for the last template.                                         *)
LEMMA LeavingIds ==
  ASSUME StackInv, FinishUpdate, NEW id \in Left \cup Replaced
  PROVE  /\ id \in DOMAIN before.held /\ template \in templates /\ wanted \in templates
         /\ id \in Left => held[id] = before.held[id] \/ ReplacedForCause(id)
         /\ id \in Replaced => ReplacedForCause(id)
         /\ \E j \in 0 .. updates - 1 :
              /\ StackIs(template, j, before.held, before.values)
              /\ \/ template.layer # Unset /\ id = LayerId(template)
                 \/ template.function # Unset /\ id = VersionId(template)
                 \/ template.api # Unset /\ id = DeploymentId(template, j)
                 \/ template.machine # Unset /\ id = MachineVersionId
<1>1. /\ Updating /\ TypeOK /\ wanted \in templates /\ done = ResourcesOf(wanted)
  BY DEF StackInv, FinishUpdate, TypeOK
<1>2. IdsDone \subseteq IdsOf(wanted, updates)
  BY <1>1, IdsPresent, ResourcesPresent DEF IdsDone
<1>3. id \in DOMAIN before.held
  BY <1>1, <1>2 DEF Left, Replaced, Updating
<1>4. template \in templates
  BY <1>1, <1>3 DEF TypeOK, Updating, StackWas
<1>5. template # Unset
  BY <1>1, <1>4, SameResources
<1>6. PICK j \in 0 .. updates - 1 : StackIs(template, j, before.held, before.values)
  BY <1>1, <1>5 DEF Updating, StackWas
<1>7. id \in IdsOf(template, j)
  BY <1>3, <1>6 DEF StackIs
<1>8. /\ id \in Left => held[id] = before.held[id] \/ ReplacedForCause(id)
      /\ id \in Replaced => ReplacedForCause(id)
  BY <1>1, <1>3 DEF Updating, Replaced
<1> QED
  BY <1>1, <1>3, <1>4, <1>6, <1>7, <1>8, IdsPresent

(* But for its two ends an update deletes nothing.                         *)
LEMMA OnlyEndsDelete ==
  ASSUME StackInv, [Next]_vars, ~FinishUpdate, ~FailUpdate
  PROVE  MadeGrows /\ UNCHANGED <<templates, gone>>
<1>1. MadeOfATemplate
  BY DEF StackInv
<1>2. made' = made => MadeGrows
  BY <1>1, NothingMade
<1>3. (\E e : made' = Append(made, e)) => MadeGrows
  BY <1>1, OneMade
<1>4. CASE UpdateLayer
  BY <1>2, <1>3, <1>4 DEF UpdateLayer, Turn, Keep, Publish
<1>5. CASE UpdateVersion
  BY <1>2, <1>3, <1>5 DEF UpdateVersion, Turn, Keep, Publish
<1>6. CASE UpdateDeployment
  BY <1>2, <1>3, <1>6 DEF UpdateDeployment, Turn, Keep, Publish
<1>7. CASE UpdateMachineVersion
  BY <1>2, <1>3, <1>7 DEF UpdateMachineVersion, Turn, Keep, Publish
<1>8. CASE \/ UpdateFunction \/ UpdateAlias \/ UpdateApi \/ UpdateStage \/ UpdateMachine \/ UpdateMachineAlias
  BY <1>2, <1>8 DEF UpdateFunction, UpdateAlias, UpdateApi, UpdateStage, UpdateMachine, UpdateMachineAlias,
                    Turn, Set
<1>9. CASE StartUpdate \/ Stop \/ UNCHANGED vars
  BY <1>2, <1>9 DEF StartUpdate, Stop, vars
<1> QED
  BY <1>4, <1>5, <1>6, <1>7, <1>8, <1>9 DEF Next

(* A policy that deletes is one that the author gave.                      *)
LEMMA DeletionGiven ==
  ASSUME NEW t
  PROVE  /\ t.layer # Unset /\ LayerDeletion(t) = "Delete" => "layer" \in Expendable(t)
         /\ t.function # Unset /\ VersionDeletion(t) = "Delete" => "version" \in Expendable(t)
         /\ t.machine # Unset /\ MachineVersionReplacement(t) = "Delete" => "machineVersion" \in Expendable(t)
<1>1. ASSUME t.layer # Unset, LayerDeletion(t) = "Delete"
      PROVE  "layer" \in Expendable(t)
  BY <1>1 DEF LayerDeletion, Expendable
<1>2. ASSUME t.function # Unset, VersionDeletion(t) = "Delete"
      PROVE  "version" \in Expendable(t)
  BY <1>2 DEF VersionDeletion, Expendable
<1>3. ASSUME t.machine # Unset, MachineVersionReplacement(t) = "Delete"
      PROVE  "machineVersion" \in Expendable(t)
  BY <1>3 DEF MachineVersionReplacement, Expendable
<1> QED
  BY <1>1, <1>2, <1>3

ByPolicy(n) == made[n].kind = "deployment" \/ \E t \in templates : made[n].kind \in Expendable(t)

(* A rollback deletes by policy what the update made.                      *)
LEMMA FailDeletesByPolicy ==
  ASSUME StackInv, FailUpdate, NEW n \in gone' \ gone
  PROVE  ByPolicy(n)
<1>1. /\ TypeOK /\ MadeOfATemplate /\ Updating /\ wanted \in templates
      /\ n \in before.made + 1 .. Len(made)
      /\ made[n].kind # "machineVersion" /\ DeletionOf(made[n].id, wanted) = "Delete"
  BY DEF StackInv, FailUpdate, TypeOK
<1>2. n \in DOMAIN made
  <2>1. before.made \in 0 .. Len(made)
    BY <1>1 DEF Updating
  <2>2. DOMAIN made = 1 .. Len(made) /\ Len(made) \in Nat
    BY <1>1 DEF MadeOfATemplate
  <2> QED
    BY <1>1, <2>1, <2>2
<1>3. PICK t \in templates :
        \/ t.layer # Unset /\ made[n] = LayerOf(t)
        \/ t.function # Unset /\ \E p \in 0 .. Len(made) : made[n] = VersionOf(t, p)
        \/ t.api # Unset /\ \E k \in 0 .. updates : made[n] = DeploymentOf(t, k)
        \/ t.machine # Unset /\ made[n] = MachineVersionOf(t)
  BY <1>1, <1>2 DEF MadeOfATemplate
<1>4. /\ t.layer = Unset <=> wanted.layer = Unset
      /\ t.function = Unset <=> wanted.function = Unset
  BY <1>1, SameResources
<1>5. CASE t.layer # Unset /\ made[n] = LayerOf(t)
  <2>1. made[n].kind = "layer" /\ made[n].id[1] = "Layer"
    BY <1>5, IdPrefixes DEF LayerOf
  <2>2. LayerDeletion(wanted) = "Delete"
    BY <1>1, <2>1 DEF DeletionOf
  <2> QED
    BY <1>1, <1>4, <1>5, <2>1, <2>2, DeletionGiven DEF ByPolicy
<1>6. CASE t.function # Unset /\ \E p \in 0 .. Len(made) : made[n] = VersionOf(t, p)
  <2>1. made[n].kind = "version" /\ made[n].id[1] = "Version"
    BY <1>6, IdPrefixes DEF VersionOf
  <2>2. VersionDeletion(wanted) = "Delete"
    BY <1>1, <2>1 DEF DeletionOf
  <2> QED
    BY <1>1, <1>4, <1>6, <2>1, <2>2, DeletionGiven DEF ByPolicy
<1>7. CASE \E k \in 0 .. updates : made[n] = DeploymentOf(t, k)
  <2>1. PICK k \in 0 .. updates : made[n] = DeploymentOf(t, k)
    BY <1>7
  <2>2. made[n].kind = "deployment"
    BY <2>1 DEF DeploymentOf
  <2> QED
    BY <2>2 DEF ByPolicy
<1>8. CASE made[n] = MachineVersionOf(t)
  BY <1>1, <1>8 DEF MachineVersionOf
<1> QED
  BY <1>3, <1>5, <1>6, <1>7, <1>8

(* The clean-up deletes by policy what the update left behind.             *)
LEMMA FinishDeletesByPolicy ==
  ASSUME StackInv, LayersNamed, FinishUpdate, NEW n \in gone' \ gone
  PROVE  ByPolicy(n)
<1>1. /\ TypeOK /\ Updating /\ wanted \in templates /\ done = ResourcesOf(wanted)
      /\ \/ \E id \in Left : n = held[id] /\ DeletionOf(id, template) = "Delete"
         \/ \E id \in Replaced : n = before.held[id] /\ ReplacementOf(id, wanted) = "Delete"
  BY DEF StackInv, FinishUpdate, TypeOK
<1>2. ASSUME NEW id \in Left, n = held[id], DeletionOf(id, template) = "Delete"
      PROVE  ByPolicy(n)
  <2>1. PICK j \in 0 .. updates - 1 :
          /\ StackIs(template, j, before.held, before.values)
          /\ \/ template.layer # Unset /\ id = LayerId(template)
             \/ template.function # Unset /\ id = VersionId(template)
             \/ template.api # Unset /\ id = DeploymentId(template, j)
             \/ template.machine # Unset /\ id = MachineVersionId
    BY LeavingIds
  <2>2. template \in templates /\ (held[id] = before.held[id] \/ ReplacedForCause(id))
    BY LeavingIds
  <2>3. ~ReplacedForCause(id)
    BY <1>1, IdsPresent, ResourcesPresent DEF ReplacedForCause, Left
  <2>4. ResourcesAre(ResourcesOf(template), template, j, before.held, before.values)
    BY <2>1 DEF StackIs
  <2>5. CASE template.layer # Unset /\ id = LayerId(template)
    <3>1. made[n] = LayerOf(template)
      BY <1>2, <2>2, <2>3, <2>4, <2>5, ResourcesPresent DEF ResourcesAre, LayerIs
    <3>2. LayerDeletion(template) = "Delete"
      BY <1>2, <2>5, IdPrefixes DEF DeletionOf
    <3>3. LayerOf(template).kind = "layer"
      BY DEF LayerOf
    <3> QED
      BY <2>2, <2>5, <3>1, <3>2, <3>3, DeletionGiven DEF ByPolicy
  <2>6. CASE template.function # Unset /\ id = VersionId(template)
    <3>1. made[n].kind = "version"
      BY <1>2, <2>2, <2>3, <2>4, <2>6, ResourcesPresent DEF ResourcesAre, VersionIs
    <3>2. id[1] = "Version"
      BY <2>6, IdPrefixes
    <3>3. VersionDeletion(template) = "Delete"
      BY <1>2, <3>2 DEF DeletionOf
    <3> QED
      BY <2>2, <2>6, <3>1, <3>3, DeletionGiven DEF ByPolicy
  <2>7. CASE template.api # Unset /\ id = DeploymentId(template, j)
    BY <1>2, <2>2, <2>3, <2>4, <2>7, ResourcesPresent DEF ResourcesAre, DeploymentIs, ByPolicy
  <2>8. CASE template.machine # Unset /\ id = MachineVersionId
    <3>1. wanted.machine # Unset
      BY <1>1, <2>2, <2>8, SameResources
    <3> QED
      BY <2>8, <3>1, IdsPresent DEF Left
  <2> QED
    BY <2>1, <2>5, <2>6, <2>7, <2>8
<1>3. ASSUME NEW id \in Replaced, n = before.held[id], ReplacementOf(id, wanted) = "Delete"
      PROVE  ByPolicy(n)
  <2>1. PICK j \in 0 .. updates - 1 :
          /\ StackIs(template, j, before.held, before.values)
          /\ \/ template.layer # Unset /\ id = LayerId(template)
             \/ template.function # Unset /\ id = VersionId(template)
             \/ template.api # Unset /\ id = DeploymentId(template, j)
             \/ template.machine # Unset /\ id = MachineVersionId
    BY LeavingIds
  <2>2. template \in templates /\ ReplacedForCause(id)
    BY LeavingIds
  <2>3. ResourcesAre(ResourcesOf(template), template, j, before.held, before.values)
    BY <2>1 DEF StackIs
  <2>4. /\ LayerId(wanted)[1] = "Layer" /\ VersionId(template)[1] = "Version"
        /\ DeploymentId(template, j)[1] = "Deployment" /\ MachineVersionId[1] = "MachineVersion"
        /\ LayerId(template)[1] = "Layer"
    BY IdPrefixes
  <2>5. CASE "layer" \in done /\ id = LayerId(wanted) /\ made[before.held[id]].snapshot # LayerContent(wanted)
    <3>1. template.layer # Unset /\ id = LayerId(template) /\ wanted.layer # Unset
      BY <1>1, <2>1, <2>4, <2>5, ResourcesPresent
    <3>2. made[before.held[id]] = LayerOf(template)
      BY <2>3, <3>1, ResourcesPresent DEF ResourcesAre, LayerIs
    <3>3. LayerContent(template) # LayerContent(wanted)
      BY <2>5, <3>2 DEF LayerOf
    <3> QED
      BY <1>1, <2>2, <2>5, <3>1, <3>3 DEF LayersNamed
  <2>6. CASE "machineVersion" \in done /\ id = MachineVersionId
    <3>1. template.machine # Unset /\ wanted.machine # Unset
      BY <1>1, <2>2, <2>6, SameResources, ResourcesPresent
    <3>2. made[n] = MachineVersionOf(template)
      BY <1>3, <2>3, <2>6, <3>1, ResourcesPresent DEF ResourcesAre, MachineVersionIs
    <3>3. MachineVersionReplacement(wanted) = "Delete"
      BY <1>3, <2>4, <2>6 DEF ReplacementOf
    <3>4. MachineVersionOf(template).kind = "machineVersion"
      BY DEF MachineVersionOf
    <3> QED
      BY <1>1, <3>1, <3>2, <3>3, <3>4, DeletionGiven DEF ByPolicy
  <2> QED
    BY <2>2, <2>5, <2>6 DEF ReplacedForCause
<1> QED
  BY <1>1, <1>2, <1>3

(* So whatever is deleted was deleted by policy.                           *)
LEMMA NextByPolicy == StackInv /\ GoneByPolicy /\ [Next]_vars => GoneByPolicy'
<1> SUFFICES ASSUME StackInv, GoneByPolicy, [Next]_vars PROVE GoneByPolicy'
  OBVIOUS
<1>1. gone \subseteq DOMAIN made
  BY DEF StackInv, TypeOK
<1>2. CASE ~FinishUpdate /\ ~FailUpdate
  <2>1. MadeGrows /\ UNCHANGED <<templates, gone>>
    BY <1>2, OnlyEndsDelete
  <2> QED
    BY <1>1, <2>1 DEF GoneByPolicy, OldVersionsKept, MadeGrows, LayersNamed
<1>3. CASE FinishUpdate \/ FailUpdate
  <2>1. UNCHANGED <<templates, made>>
    BY <1>3 DEF FinishUpdate, FailUpdate
  <2>2. LayersNamed => \A n \in gone' \ gone : ByPolicy(n)
    BY <1>3, FinishDeletesByPolicy, FailDeletesByPolicy
  <2>3. LayersNamed => \A n \in gone : ByPolicy(n)
    BY DEF GoneByPolicy, OldVersionsKept, ByPolicy
  <2> QED
    BY <2>1, <2>2, <2>3 DEF GoneByPolicy, OldVersionsKept, ByPolicy, LayersNamed
<1> QED
  BY <1>2, <1>3

(* Whatever is ever deleted, but for deployments, is of a kind that the    *)
(* author of the stack gave up, where layers of other content have other   *)
(* ids.                                                                    *)
THEOREM OldVersionsKeptHolds == Spec => [](LayersNamed => OldVersionsKept)
<1>1. Init => GoneByPolicy
  BY DEF Init, GoneByPolicy, OldVersionsKept
<1>2. Spec => []GoneByPolicy
  BY <1>1, NextByPolicy, StackIsAsWritten, PTL DEF Spec
<1> QED
  BY <1>2, PTL DEF GoneByPolicy

-----------------------------------------------------------------------------
(* What is in use.                                                         *)

(* Where all resources are as a template says, what they use is held.      *)
LEMMA UsesHeld ==
  ASSUME NEW t, NEW k, NEW h, NEW v,
         ResourcesAre(ResourcesOf(t), t, k, h, v), DOMAIN v \subseteq ResourcesOf(t)
  PROVE  InUseBy(v) \subseteq {0} \cup {h[id] : id \in IdsOf(t, k)}
<1>1. ASSUME "alias" \in DOMAIN v
      PROVE  v["alias"] \in {h[id] : id \in IdsOf(t, k)}
  BY <1>1, ResourcesPresent, IdsPresent DEF ResourcesAre, AliasIs
<1>2. ASSUME "stage" \in DOMAIN v
      PROVE  v["stage"] \in {h[id] : id \in IdsOf(t, k)}
  BY <1>2, ResourcesPresent, IdsPresent DEF ResourcesAre, StageIs
<1>3. ASSUME "machineAlias" \in DOMAIN v
      PROVE  v["machineAlias"] \in {h[id] : id \in IdsOf(t, k)}
  BY <1>3, ResourcesPresent, IdsPresent DEF ResourcesAre, MachineAliasIs
<1>4. ASSUME "function" \in DOMAIN v
      PROVE  v["function"].layer \in {0} \cup {h[id] : id \in IdsOf(t, k)}
  <2>1. v["function"] = FunctionProperties(t, LayerIn(t, h))
    BY <1>4 DEF ResourcesAre, FunctionIs
  <2>2. v["function"].layer = LayerIn(t, h)
    BY <2>1 DEF FunctionProperties
  <2> QED
    BY <2>2, IdsPresent DEF LayerIn
<1> QED
  BY <1>1, <1>2, <1>3, <1>4 DEF InUseBy

(* What a step of an update uses, and what it holds, is held already or is *)
(* new or is there.                                                        *)
Fresh == {0, Len(made) + 1} \cup Versions

(* Setting one value uses what that value names, and what was used.        *)
LEMMA UseIs ==
  ASSUME NEW v, NEW r, NEW x, NEW w, w = With(v, r, x), NEW S,
         r \in {"alias", "stage", "machineAlias"} => x \in S,
         r = "function" => x.layer \in S,
         InUseBy(v) \subseteq S
  PROVE  InUseBy(w) \subseteq S
<1>1. /\ DOMAIN w = DOMAIN v \cup {r} /\ w[r] = x
      /\ \A q \in DOMAIN v : q # r => w[q] = v[q]
  BY DEF With
<1>2. ASSUME NEW q \in {"alias", "stage", "machineAlias"} \cap DOMAIN w
      PROVE  w[q] \in S
  BY <1>1 DEF InUseBy
<1>3. ASSUME "function" \in DOMAIN w
      PROVE  w["function"].layer \in S
  BY <1>1, <1>3 DEF InUseBy
<1> QED
  BY <1>2, <1>3 DEF InUseBy

(* A step that does not end an update holds and uses what was held, is     *)
(* new, or is there by its name.                                           *)
LEMMA StepsUse ==
  ASSUME StackInv, [Next]_vars, ~FinishUpdate, ~FailUpdate
  PROVE  /\ HeldBy(held') \subseteq HeldBy(held) \cup Fresh
         /\ InUseBy(values') \subseteq InUseBy(values) \cup HeldBy(held) \cup Fresh
<1> DEFINE S == InUseBy(values) \cup HeldBy(held) \cup Fresh
<1>1. held' = held => HeldBy(held') \subseteq HeldBy(held) \cup Fresh
  OBVIOUS
<1>2. values' = values => InUseBy(values') \subseteq S
  OBVIOUS
<1>3. ASSUME NEW id, NEW n \in Fresh, held' = With(held, id, n)
      PROVE  HeldBy(held') \subseteq HeldBy(held) \cup Fresh
  BY <1>3 DEF HeldBy, With
<1>4. ASSUME NEW r, NEW x, values' = With(values, r, x),
             r \in {"alias", "stage", "machineAlias"} => x \in S,
             r = "function" => x.layer \in S
      PROVE  InUseBy(values') \subseteq S
  <2> PICK v, w, T : v = values /\ w = values' /\ T = S
    OBVIOUS
  <2>1. w = With(v, r, x)
    BY <1>4
  <2>2. InUseBy(v) \subseteq T
    OBVIOUS
  <2>3. /\ r \in {"alias", "stage", "machineAlias"} => x \in T
        /\ r = "function" => x.layer \in T
    BY <1>4
  <2>4. InUseBy(w) \subseteq T
    <3> HIDE DEF S
    <3> QED
      BY <2>1, <2>2, <2>3, UseIs
  <2> QED
    BY <2>4
<1> HIDE DEF S
<1>5. 0 \in Fresh /\ Len(made) + 1 \in Fresh /\ Versions \subseteq Fresh
  BY DEF Fresh
<1>6. HeldBy(held) \cup Fresh \subseteq S
  BY DEF S
<1>7. CASE UpdateLayer \/ UpdateDeployment \/ UpdateMachineVersion
  BY <1>1, <1>2, <1>3, <1>5, <1>7
     DEF UpdateLayer, UpdateDeployment, UpdateMachineVersion, Keep, Publish, Hold, S
<1>8. CASE UpdateVersion
  <2>1. \A n : LastVersion(n) => n \in Fresh
    BY <1>5 DEF LastVersion
  <2>2. \/ UNCHANGED <<held, values>>
        \/ \E n \in Fresh : held' = With(held, VersionId(wanted), n) /\ values' = values
    BY <1>5, <1>8, <2>1 DEF UpdateVersion, Keep, Publish, Hold
  <2> QED
    BY <1>1, <1>2, <1>3, <2>2 DEF S
<1>9. CASE UpdateFunction
  <2>1. InTurn("function")
    BY <1>9, TurnInOrder DEF UpdateFunction
  <2>2. values' = With(values, "function", FunctionProperties(wanted, LayerIn(wanted, held))) /\ held' = held
    BY <1>9 DEF UpdateFunction, Set, LayerIn
  <2>3. wanted.layer # Unset => LayerIs(wanted, held)
    <3>1. wanted.layer # Unset => "layer" \in done
      BY <2>1 DEF InTurn, DoneInOrder
    <3> QED
      BY <2>1, <3>1 DEF InTurn, Updating, ResourcesAre
  <2>4. LayerIn(wanted, held) \in S
    BY <1>5, <1>6, <2>3 DEF LayerIn, LayerIs, HeldBy
  <2>5. FunctionProperties(wanted, LayerIn(wanted, held)).layer \in S
    BY <2>4 DEF FunctionProperties
  <2> PICK x : x = FunctionProperties(wanted, LayerIn(wanted, held))
    OBVIOUS
  <2> QED
    BY <1>1, <1>4, <2>2, <2>5 DEF S
<1>10. CASE UpdateAlias
  <2>1. InTurn("alias")
    BY <1>10, TurnInOrder DEF UpdateAlias
  <2>2. "version" \in done
    BY <2>1 DEF InTurn, DoneInOrder
  <2>3. VersionIs(wanted, held)
    BY <2>1, <2>2 DEF InTurn, Updating, ResourcesAre
  <2>4. held[VersionId(wanted)] \in S
    BY <1>6, <2>3 DEF VersionIs, HeldBy
  <2> QED
    BY <1>1, <1>4, <1>10, <2>4 DEF UpdateAlias, Set, S
<1>11. CASE UpdateStage
  <2>1. InTurn("stage")
    BY <1>11, TurnInOrder DEF UpdateStage
  <2>2. "deployment" \in done
    BY <2>1 DEF InTurn, DoneInOrder
  <2>3. DeploymentIs(wanted, updates, held)
    BY <2>1, <2>2 DEF InTurn, Updating, ResourcesAre
  <2>4. held[DeploymentId(wanted, updates)] \in S
    BY <1>6, <2>3 DEF DeploymentIs, HeldBy
  <2> QED
    BY <1>1, <1>4, <1>11, <2>4 DEF UpdateStage, Set, S
<1>12. CASE UpdateMachineAlias
  <2>1. InTurn("machineAlias")
    BY <1>12, TurnInOrder DEF UpdateMachineAlias
  <2>2. "machineVersion" \in done
    BY <2>1 DEF InTurn, DoneInOrder
  <2>3. MachineVersionIs(wanted, held)
    BY <2>1, <2>2 DEF InTurn, Updating, ResourcesAre
  <2>4. held[MachineVersionId] \in S
    BY <1>6, <2>3 DEF MachineVersionIs, HeldBy
  <2> QED
    BY <1>1, <1>4, <1>12, <2>4 DEF UpdateMachineAlias, Set, S
<1>13. CASE UpdateApi \/ UpdateMachine
  BY <1>1, <1>4, <1>13 DEF UpdateApi, UpdateMachine, Set, S
<1>14. CASE StartUpdate \/ Stop \/ UNCHANGED vars
  BY <1>1, <1>2, <1>14 DEF StartUpdate, Stop, vars, S
<1> QED
  BY <1>7, <1>8, <1>9, <1>10, <1>11, <1>12, <1>13, <1>14 DEF Next

(* What the wanted template says is held under its ids, each for its kind. *)
LEMMA HeldForWanted ==
  ASSUME StackInv, FinishUpdate, NEW i \in IdsOf(wanted, updates)
  PROVE  /\ i \in DOMAIN held
         /\ \/ i = LayerId(wanted) /\ made[held[i]] = LayerOf(wanted)
            \/ i = VersionId(wanted) /\ made[held[i]].kind = "version"
            \/ /\ i = DeploymentId(wanted, updates)
               /\ made[held[i]].kind = "deployment" /\ made[held[i]].id = i
            \/ i = MachineVersionId /\ made[held[i]] = MachineVersionOf(wanted)
<1>1. ResourcesAre(ResourcesOf(wanted), wanted, updates, held, values)
  BY DEF StackInv, FinishUpdate, Updating
<1>2. CASE wanted.layer # Unset /\ i = LayerId(wanted)
  BY <1>1, <1>2, ResourcesPresent DEF ResourcesAre, LayerIs
<1>3. CASE wanted.function # Unset /\ i = VersionId(wanted)
  BY <1>1, <1>3, ResourcesPresent DEF ResourcesAre, VersionIs
<1>4. CASE wanted.api # Unset /\ i = DeploymentId(wanted, updates)
  BY <1>1, <1>4, ResourcesPresent DEF ResourcesAre, DeploymentIs
<1>5. CASE wanted.machine # Unset /\ i = MachineVersionId
  BY <1>1, <1>5, ResourcesPresent DEF ResourcesAre, MachineVersionIs
<1> QED
  BY <1>2, <1>3, <1>4, <1>5, IdsPresent

(* Two ids that share a version were hashed of the same.                   *)
LEMMA SharedBySame ==
  ASSUME StackInv, VersionsNamed, NEW id \in DOMAIN held, NEW i \in DOMAIN held,
         id[1] = "Version", i[1] = "Version", held[id] = held[i], id # i
  PROVE  \A t \in templates : t.function # Unset => VersionDeletion(t) # "Delete"
<1>1. PICK u \in templates, p \in 0 .. Len(made) :
        /\ u.function # Unset /\ VersionId(u) = id
        /\ made[held[id]].snapshot = FunctionProperties(u, p) /\ LayerAt(u, p)
  BY DEF StackInv, VersionsShared
<1>2. PICK w \in templates, q \in 0 .. Len(made) :
        /\ w.function # Unset /\ VersionId(w) = i
        /\ made[held[i]].snapshot = FunctionProperties(w, q) /\ LayerAt(w, q)
  BY DEF StackInv, VersionsShared
<1>3. FunctionProperties(u, p) = FunctionProperties(w, q)
  BY <1>1, <1>2
<1>4. /\ FunctionProperties(u, p).code = FunctionProperties(w, q).code
      /\ FunctionProperties(u, p).settings = FunctionProperties(w, q).settings
      /\ FunctionProperties(u, p).other = FunctionProperties(w, q).other
      /\ FunctionProperties(u, p).name = FunctionProperties(w, q).name
      /\ FunctionProperties(u, p).description = FunctionProperties(w, q).description
      /\ FunctionProperties(u, p).layer = FunctionProperties(w, q).layer
  BY <1>3
<1>5. p = q /\ FunctionProperties(u, 0) = FunctionProperties(w, 0)
  BY <1>4 DEF FunctionProperties
<1>6. u.layer # Unset => LayerId(u) = LayerId(w)
  <2>1. u.layer = Unset <=> w.layer = Unset
    BY SameResources DEF StackInv
  <2> QED
    BY <1>1, <1>2, <1>5, <2>1 DEF LayerAt
<1>7. SameFunction(u, w) /\ VersionId(u) # VersionId(w)
  BY <1>1, <1>2, <1>5, <1>6 DEF SameFunction
<1> QED
  BY <1>7 DEF VersionsNamed

(* What an update deletes as it ends is held by no id of the new template. *)
LEMMA DeletedNotHeld ==
  ASSUME StackInv, VersionsNamed, FinishUpdate, NEW n \in gone' \ gone, NEW i \in IdsOf(wanted, updates)
  PROVE  held[i] # n
<1> SUFFICES ASSUME held[i] = n PROVE FALSE
  OBVIOUS
<1>1. /\ TypeOK /\ Updating /\ wanted \in templates /\ done = ResourcesOf(wanted)
      /\ \/ \E id \in Left : n = held[id] /\ DeletionOf(id, template) = "Delete"
         \/ \E id \in Replaced : n = before.held[id] /\ ReplacementOf(id, wanted) = "Delete"
  BY DEF StackInv, FinishUpdate, TypeOK
<1>2. /\ i \in DOMAIN held
      /\ \/ i = LayerId(wanted) /\ made[n] = LayerOf(wanted)
         \/ i = VersionId(wanted) /\ made[n].kind = "version"
         \/ i = DeploymentId(wanted, updates) /\ made[n].kind = "deployment" /\ made[n].id = i
         \/ i = MachineVersionId /\ made[n] = MachineVersionOf(wanted)
  BY HeldForWanted
<1>3. \A t : /\ LayerOf(t).kind = "layer" /\ LayerOf(t).id = LayerId(t) /\ LayerOf(t).snapshot = LayerContent(t)
             /\ MachineVersionOf(t).kind = "machineVersion" /\ MachineVersionOf(t).id = MachineVersionId
  BY DEF LayerOf, MachineVersionOf
<1>4. /\ made[n].kind = "version" => i = VersionId(wanted)
      /\ made[n].kind # "version" => made[n].id = i
      /\ made[n].kind = "layer" => i = LayerId(wanted) /\ made[n].snapshot = LayerContent(wanted)
  BY <1>2, <1>3
<1>5. ASSUME NEW id \in Left, n = held[id], DeletionOf(id, template) = "Delete"
      PROVE  FALSE
  <2>1. PICK j \in 0 .. updates - 1 :
          /\ StackIs(template, j, before.held, before.values)
          /\ \/ template.layer # Unset /\ id = LayerId(template)
             \/ template.function # Unset /\ id = VersionId(template)
             \/ template.api # Unset /\ id = DeploymentId(template, j)
             \/ template.machine # Unset /\ id = MachineVersionId
    BY LeavingIds
  <2>2. template \in templates /\ (held[id] = before.held[id] \/ ReplacedForCause(id))
    BY LeavingIds
  <2>3. ~ReplacedForCause(id) /\ id # i /\ id \in DOMAIN held
    BY <1>1, IdsPresent, ResourcesPresent DEF ReplacedForCause, Left
  <2>4. ResourcesAre(ResourcesOf(template), template, j, before.held, before.values)
    BY <2>1 DEF StackIs
  <2>5. CASE template.layer # Unset /\ id = LayerId(template)
    <3>1. made[n] = LayerOf(template)
      BY <1>5, <2>2, <2>3, <2>4, <2>5, ResourcesPresent DEF ResourcesAre, LayerIs
    <3> QED
      BY <1>3, <1>4, <2>3, <2>5, <3>1
  <2>6. CASE template.function # Unset /\ id = VersionId(template)
    <3>1. made[n].kind = "version"
      BY <1>5, <2>2, <2>3, <2>4, <2>6, ResourcesPresent DEF ResourcesAre, VersionIs
    <3>2. id[1] = "Version" /\ i[1] = "Version"
      BY <1>4, <2>6, <3>1, IdPrefixes
    <3>3. VersionDeletion(template) = "Delete"
      BY <1>5, <3>2 DEF DeletionOf
    <3> QED
      BY <1>2, <1>5, <2>2, <2>3, <2>6, <3>2, <3>3, SharedBySame
  <2>7. CASE template.api # Unset /\ id = DeploymentId(template, j)
    <3>1. made[n].kind = "deployment" /\ made[n].id = id
      BY <1>5, <2>2, <2>3, <2>4, <2>7, ResourcesPresent DEF ResourcesAre, DeploymentIs
    <3> QED
      BY <1>4, <2>3, <3>1
  <2>8. CASE template.machine # Unset /\ id = MachineVersionId
    <3>1. wanted.machine # Unset
      BY <1>1, <2>2, <2>8, SameResources
    <3> QED
      BY <2>8, <3>1, IdsPresent DEF Left
  <2> QED
    BY <2>1, <2>5, <2>6, <2>7, <2>8
<1>6. ASSUME NEW id \in Replaced, n = before.held[id]
      PROVE  FALSE
  <2>1. PICK j \in 0 .. updates - 1 :
          /\ StackIs(template, j, before.held, before.values)
          /\ \/ template.layer # Unset /\ id = LayerId(template)
             \/ template.function # Unset /\ id = VersionId(template)
             \/ template.api # Unset /\ id = DeploymentId(template, j)
             \/ template.machine # Unset /\ id = MachineVersionId
    BY LeavingIds
  <2>2. template \in templates /\ ReplacedForCause(id) /\ id # i
    BY <1>6, LeavingIds DEF Replaced
  <2>3. ResourcesAre(ResourcesOf(template), template, j, before.held, before.values)
    BY <2>1 DEF StackIs
  <2>4. /\ LayerId(wanted)[1] = "Layer" /\ VersionId(template)[1] = "Version"
        /\ DeploymentId(template, j)[1] = "Deployment" /\ MachineVersionId[1] = "MachineVersion"
        /\ LayerId(template)[1] = "Layer"
    BY IdPrefixes
  <2>5. CASE id = LayerId(wanted)
    <3>1. template.layer # Unset /\ id = LayerId(template)
      BY <2>1, <2>4, <2>5
    <3>2. made[n] = LayerOf(template)
      BY <1>6, <2>3, <3>1, ResourcesPresent DEF ResourcesAre, LayerIs
    <3> QED
      BY <1>3, <1>4, <2>2, <3>1, <3>2
  <2>6. CASE id = MachineVersionId
    <3>1. template.machine # Unset
      BY <2>1, <2>4, <2>6
    <3>2. made[n] = MachineVersionOf(template)
      BY <1>6, <2>3, <2>6, <3>1, ResourcesPresent DEF ResourcesAre, MachineVersionIs
    <3> QED
      BY <1>3, <1>4, <2>2, <2>6, <3>2
  <2> QED
    BY <2>2, <2>5, <2>6 DEF ReplacedForCause
<1> QED
  BY <1>1, <1>5, <1>6

(* What the stack used as an update began, it held.                        *)
LEMMA UsedBefore ==
  ASSUME NEW k, NEW h, NEW v, StackWas(k, h, v)
  PROVE  InUseBy(v) \subseteq {0} \cup HeldBy(h)
<1>1. CASE template = Unset
  BY <1>1 DEF StackWas, InUseBy
<1>2. CASE template # Unset
  <2>1. PICK j \in 0 .. k : StackIs(template, j, h, v)
    BY <1>2 DEF StackWas
  <2>2. /\ DOMAIN h = IdsOf(template, j) /\ DOMAIN v \subseteq ResourcesOf(template)
        /\ ResourcesAre(ResourcesOf(template), template, j, h, v)
    BY <2>1 DEF StackIs
  <2>3. InUseBy(v) \subseteq {0} \cup {h[id] : id \in IdsOf(template, j)}
    BY <2>2, UsesHeld
  <2> QED
    BY <2>2, <2>3 DEF HeldBy
<1> QED
  BY <1>1, <1>2

(* The scope of what follows does not change.                              *)
LEMMA StepsName == [Next]_vars => VersionsNamed' = VersionsNamed
<1> SUFFICES ASSUME [Next]_vars PROVE VersionsNamed' = VersionsNamed
  OBVIOUS
<1>1. templates' = templates
  BY DEF Next, vars, StartUpdate, UpdateLayer, UpdateFunction, UpdateVersion, UpdateAlias,
         UpdateApi, UpdateDeployment, UpdateStage, UpdateMachine, UpdateMachineVersion,
         UpdateMachineAlias, Turn, FinishUpdate, FailUpdate, Stop
<1> QED
  BY <1>1 DEF VersionsNamed

(* A step that does not end an update holds and uses nothing that is gone. *)
LEMMA StepHeld ==
  ASSUME StackInv, NothingHeldGone, VersionsNamed, [Next]_vars, ~FinishUpdate, ~FailUpdate
  PROVE  NothingHeldGone'
<1>1. UNCHANGED <<templates, gone>>
  BY OnlyEndsDelete
<1>2. Fresh \cap gone = {}
  <2>1. gone \subseteq 1 .. Len(made) /\ Len(made) \in Nat
    BY DEF StackInv, TypeOK, MadeOfATemplate
  <2>2. Versions \cap gone = {}
    BY DEF Versions
  <2> QED
    BY <2>1, <2>2 DEF Fresh
<1>3. HeldBy(held) \cap gone = {} /\ InUseBy(values) \cap gone = {}
  BY DEF NothingHeldGone
<1>4. HeldBy(held') \cap gone = {} /\ InUseBy(values') \cap gone = {}
  BY <1>2, <1>3, StepsUse
<1>5. wanted' # Unset =>
        HeldBy((before.held)') \cap gone = {} /\ InUseBy((before.values)') \cap gone = {}
  <2>1. CASE StartUpdate
    <3>1. (before.held)' = held /\ (before.values)' = values
      BY <2>1 DEF StartUpdate
    <3> QED
      BY <1>3, <3>1
  <2>2. CASE ~StartUpdate
    <3>1. UNCHANGED <<wanted, before>>
      BY <2>2 DEF Next, vars, UpdateLayer, UpdateFunction, UpdateVersion, UpdateAlias,
                  UpdateApi, UpdateDeployment, UpdateStage, UpdateMachine, UpdateMachineVersion,
                  UpdateMachineAlias, Turn, Stop
    <3> QED
      BY <3>1 DEF NothingHeldGone
  <2> QED
    BY <2>1, <2>2
<1>6. /\ HeldBy(held)' = HeldBy(held') /\ InUseBy(values)' = InUseBy(values')
      /\ HeldBy(before.held)' = HeldBy((before.held)') /\ InUseBy(before.values)' = InUseBy((before.values)')
  BY DEF HeldBy, InUseBy
<1> QED
  BY <1>1, <1>4, <1>5, <1>6 DEF NothingHeldGone

(* The clean-up deletes nothing that is held or in use.                    *)
LEMMA FinishHeld ==
  ASSUME StackInv, NothingHeldGone, VersionsNamed, FinishUpdate
  PROVE  NothingHeldGone'
<1> DEFINE Kept == {held[i] : i \in IdsOf(wanted, updates)}
<1>1. /\ Updating /\ TypeOK /\ ResourcesAre(ResourcesOf(wanted), wanted, updates, held, values)
      /\ DOMAIN values \subseteq ResourcesOf(wanted)
  BY DEF StackInv, FinishUpdate, Updating
<1>2. IdsOf(wanted, updates) \subseteq DOMAIN held
  BY HeldForWanted
<1>3. Kept \cap gone' = {}
  <2>1. ASSUME NEW i \in IdsOf(wanted, updates)
        PROVE  held[i] \notin gone'
    <3>1. held[i] \notin gone
      BY <1>2 DEF NothingHeldGone, HeldBy
    <3>2. \A n \in gone' \ gone : held[i] # n
      BY DeletedNotHeld
    <3> QED
      BY <3>1, <3>2
  <2> QED
    BY <2>1
<1>4. HeldBy(held)' \subseteq Kept
  <2>1. held' = [id \in DOMAIN held \ Left |-> held[id]]
    BY DEF FinishUpdate
  <2>2. DOMAIN held' \subseteq IdsOf(wanted, updates) /\ \A i \in DOMAIN held' : held'[i] = held[i]
    BY <2>1 DEF Left
  <2> QED
    BY <2>2 DEF HeldBy
<1>5. InUseBy(values)' \subseteq {0} \cup Kept
  <2> PICK t, k, h, v : t = wanted /\ k = updates /\ h = held /\ v = values
    OBVIOUS
  <2>1. ResourcesAre(ResourcesOf(t), t, k, h, v) /\ DOMAIN v \subseteq ResourcesOf(t)
    BY <1>1
  <2>2. InUseBy(v) \subseteq {0} \cup {h[id] : id \in IdsOf(t, k)}
    BY <2>1, UsesHeld
  <2>3. InUseBy(values)' = InUseBy(v)
    BY DEF FinishUpdate, InUseBy
  <2> QED
    BY <2>2, <2>3
<1>6. 0 \notin gone' /\ wanted' = Unset
  <2>1. StackInv' /\ made' = made
    BY NextStack DEF Next, FinishUpdate
  <2>2. gone' \subseteq DOMAIN made
    BY <2>1 DEF StackInv, TypeOK
  <2>3. DOMAIN made = 1 .. Len(made) /\ Len(made) \in Nat
    BY DEF StackInv, MadeOfATemplate
  <2> QED
    BY <2>2, <2>3 DEF FinishUpdate
<1> QED
  BY <1>3, <1>4, <1>5, <1>6 DEF NothingHeldGone

(* A rollback deletes nothing that was held or in use before the update.   *)
LEMMA FailHeld ==
  ASSUME StackInv, NothingHeldGone, VersionsNamed, FailUpdate
  PROVE  NothingHeldGone'
<1>1. /\ Updating /\ wanted # Unset /\ before.made \in 0 .. Len(made) /\ Len(made) \in Nat
      /\ \A id \in DOMAIN before.held : before.held[id] \in 1 .. before.made
      /\ StackWas(updates - 1, before.held, before.values) /\ gone \subseteq 1 .. Len(made)
  BY DEF StackInv, FailUpdate, Updating, TypeOK, MadeOfATemplate
<1>2. gone' \subseteq gone \cup (before.made + 1 .. Len(made))
  BY DEF FailUpdate
<1>3. HeldBy(before.held) \cap gone' = {}
  <2>1. HeldBy(before.held) \cap gone = {}
    BY <1>1 DEF NothingHeldGone
  <2>2. HeldBy(before.held) \subseteq 1 .. before.made
    BY <1>1 DEF HeldBy
  <2>3. (1 .. before.made) \cap (before.made + 1 .. Len(made)) = {}
    BY <1>1
  <2> QED
    BY <1>2, <2>1, <2>2, <2>3
<1>4. InUseBy(before.values) \cap gone' = {}
  <2>1. InUseBy(before.values) \subseteq {0} \cup HeldBy(before.held)
    <3> PICK k, h, v : k = updates - 1 /\ h = before.held /\ v = before.values
      OBVIOUS
    <3>1. InUseBy(v) \subseteq {0} \cup HeldBy(h)
      BY <1>1, UsedBefore
    <3> QED
      BY <3>1
  <2>2. 0 \notin gone'
    BY <1>1, <1>2
  <2> QED
    BY <1>3, <2>1, <2>2
<1>5. HeldBy(held)' = HeldBy(before.held) /\ InUseBy(values)' = InUseBy(before.values) /\ wanted' = Unset
  BY DEF FailUpdate, HeldBy, InUseBy
<1> QED
  BY <1>3, <1>4, <1>5 DEF NothingHeldGone

(* So nothing that is held or in use is ever deleted.                      *)
LEMMA NextHeld == StackInv /\ NothingHeldGone /\ [Next]_vars => NothingHeldGone'
<1> SUFFICES ASSUME StackInv, NothingHeldGone, [Next]_vars PROVE NothingHeldGone'
  OBVIOUS
<1>1. CASE VersionsNamed
  BY <1>1, StepHeld, FinishHeld, FailHeld
<1>2. CASE ~VersionsNamed
  BY <1>2, StepsName DEF NothingHeldGone
<1> QED
  BY <1>1, <1>2

(* Nothing an alias, a stage or a function leads to is ever deleted, at    *)
(* any step of an update or of its undoing, where versions made of the     *)
(* same have the same id or else none is deleted.  It takes that no id of  *)
(* the stack holds what is deleted, nor did as the update began.           *)
THEOREM NothingInUseDeletedHolds == Spec => [](VersionsNamed => NothingInUseDeleted)
<1>1. Init => NothingHeldGone
  BY DEF Init, NothingHeldGone
<1>2. NothingHeldGone => (VersionsNamed => NothingInUseDeleted)
  BY DEF NothingHeldGone, NothingInUseDeleted, InUse
<1>3. Spec => []NothingHeldGone
  BY <1>1, NextHeld, StackIsAsWritten, PTL DEF Spec
<1> QED
  BY <1>2, <1>3, PTL

-----------------------------------------------------------------------------
(***************************************************************************)
(* Then about DeploymentPreferences, for any functions, any finite set     *)
(* of conditions and any preferences.                                      *)
(*                                                                         *)
(* The inductive invariant relates what is generated to what the           *)
(* collection holds: when the loop is over without an error, every         *)
(* function is registered, and the application, the role, their condition  *)
(* and the groups are those the collection's answers call for.  From there *)
(* each property is an argument about the collection only.                 *)
(*                                                                         *)
(* Last about CombinedCondition, which makes the aggregate condition: it   *)
(* is right for lists of any length and Fn::Or of any size.  No Fn::Or is  *)
(* too long, no name is given twice, the list ends in the bare name, and   *)
(* that condition is the disjunction of the list.                          *)
(***************************************************************************)

(* Nothing is generated before the loop is over.                           *)
NothingYet == ~app /\ ~role /\ groups = {} /\ aggregate = {} /\ shared = NoCondition

AllRegistered == ~errors => \A f \in Functions : f \in added \/ f \in todo

(* Every alarm of a registered function is valid when there is no error.   *)
AlarmsChecked == ~errors => \A f \in EnabledIds : given[f].alarmsOk

SharedIsResult ==
  shared = IF EnabledIds # {} /\ NeedsCondition THEN ResourceCondition ELSE NoCondition

AggregateIsResult ==
  aggregate = IF EnabledIds # {} /\ NeedsCondition /\ Combines(AllConditions)
                THEN AllConditions ELSE {}

AfterLoop ==
  phase # "functions" =>
    /\ todo = {}
    /\ app <=> EnabledIds # {}
    /\ role <=> (EnabledIds # {} /\ ~CanSkipRole)
    /\ SharedIsResult
    /\ AggregateIsResult

GroupsAreResult ==
  phase = "done" => groups = {f \in EnabledIds : given[f].alarmsOk}

IInv ==
  /\ PreferencesTypeOK
  /\ phase = "functions" => NothingYet
  /\ AllRegistered
  /\ AlarmsChecked
  /\ AfterLoop
  /\ GroupsAreResult

-----------------------------------------------------------------------------
(* What it means that a resource with each kind of condition is created.   *)
LEMMA CreatedMeaning ==
  ASSUME NEW truth
  PROVE  /\ Created(NoCondition, truth)
         /\ Created(Aggregate, truth) <=> \E d \in aggregate : truth[d]
         /\ \A c \in Conditions : Created(c, truth) <=> truth[c]
<1>1. NoCondition # Aggregate
  BY PreferencesAssumption, Zenon
<1>2. \A c \in Conditions : c # NoCondition /\ c # Aggregate
  BY PreferencesAssumption, Zenon
<1> QED
  BY <1>1, <1>2 DEF Created

(* The recorded conditions are conditions of the template, finitely many.  *)
LEMMA RecordedConditions ==
  ASSUME PreferencesTypeOK
  PROVE  /\ \A f \in Functions : RecordedCondition(f) \in Conditions \cup {NoCondition}
         /\ AllConditions \subseteq Conditions
         /\ IsFiniteSet(AllConditions)
         /\ Cardinality(AllConditions) \in Nat
<1>1. \A f \in Functions : RecordedCondition(f) \in Conditions \cup {NoCondition}
  BY DEF PreferencesTypeOK, RecordedCondition, Preference
<1>2. AllConditions \subseteq Conditions
  BY <1>1 DEF AllConditions, PreferencesTypeOK
<1>3. IsFiniteSet(AllConditions)
  BY <1>2, FS_Subset, PreferencesAssumption
<1> QED
  BY <1>1, <1>2, <1>3, FS_CardinalityType

(* When the application needs a condition, the enabled functions all have  *)
(* one, and the application's is the only one of them or the aggregate.    *)
LEMMA NeededCondition ==
  ASSUME PreferencesTypeOK, EnabledIds # {}, NeedsCondition
  PROVE  /\ \A f \in EnabledIds : RecordedCondition(f) \in AllConditions
         /\ AllConditions # {}
         /\ \/ AllConditions = {ResourceCondition} /\ ResourceCondition # Aggregate
            \/ ResourceCondition = Aggregate /\ Combines(AllConditions)
         /\ ResourceCondition \in Conditions \cup {Aggregate}
<1>1. \A f \in EnabledIds : RecordedCondition(f) \in AllConditions
  BY DEF NeedsCondition, EnabledIds, AllConditions
<1>2. AllConditions # {}
  BY <1>1
<1>3. CASE Cardinality(AllConditions) <= 1
  <2>1. Cardinality(AllConditions) # 0
    BY <1>2, RecordedConditions, FS_EmptySet
  <2>2. Cardinality(AllConditions) = 1
    <3>1. \A n \in Nat : n <= 1 /\ n # 0 => n = 1
      OBVIOUS
    <3> QED
      BY <3>1, <2>1, <1>3, RecordedConditions, Zenon
  <2>3. PICK c : AllConditions = {c}
    BY <2>2, RecordedConditions, FS_Singleton, Zenon
  <2>4. ResourceCondition = c
    BY <2>3, <1>3 DEF ResourceCondition
  <2>5. c \in Conditions
    BY <2>3, RecordedConditions
  <2> QED
    BY <1>1, <1>2, <2>3, <2>4, <2>5, PreferencesAssumption
<1>4. CASE ~(Cardinality(AllConditions) <= 1)
  <2>1. ResourceCondition = Aggregate
    BY <1>4 DEF ResourceCondition
  <2>2. Combines(AllConditions)
    <3>1. \A n \in Nat : ~(n <= 1) => n >= 2
      OBVIOUS
    <3> QED
      BY <3>1, <1>4, RecordedConditions DEF Combines
  <2> QED
    BY <1>1, <1>2, <2>1, <2>2
<1> QED
  BY <1>3, <1>4

-----------------------------------------------------------------------------
(* Initially nothing is registered and nothing is generated.               *)
LEMMA InitIInv == PreferencesInit => IInv
<1> SUFFICES ASSUME PreferencesInit PROVE IInv
  OBVIOUS
<1>1. PreferencesTypeOK
  <2>1. given \in [Functions -> Preference]
    BY PreferencesAssumption, Zenon DEF PreferencesInit
  <2> QED
    BY <2>1 DEF PreferencesInit, PreferencesTypeOK
<1> QED
  BY <1>1 DEF PreferencesInit, IInv, NothingYet, AllRegistered, AlarmsChecked, EnabledIds,
              AfterLoop, GroupsAreResult

(* Registering a function leaves what is generated alone.                  *)
LEMMA AddPreferenceKeeps ==
  ASSUME IInv, NEW f \in Functions, AddPreference(f)
  PROVE  IInv'
<1> USE DEF AddPreference
<1>1. phase' = "functions" /\ phase = "functions"
  BY DEF IInv
<1>2. PreferencesTypeOK'
  <2>1. errors' \in BOOLEAN
    OBVIOUS
  <2> QED
    BY <2>1 DEF IInv, PreferencesTypeOK
<1>3. NothingYet'
  BY <1>1 DEF IInv, NothingYet
<1>4. AllRegistered'
  BY DEF IInv, AllRegistered
<1>5. AlarmsChecked'
  <2>1. SUFFICES ASSUME ~errors', NEW g \in added', given[g].enabled
                 PROVE  given[g].alarmsOk
    BY DEF AlarmsChecked, EnabledIds
  <2>2. ~errors /\ ~FailsLate(f)
    BY <2>1
  <2>3. CASE g = f
    BY <2>1, <2>2, <2>3 DEF FailsLate
  <2>4. CASE g # f
    BY <2>1, <2>2, <2>4 DEF IInv, AlarmsChecked, EnabledIds
  <2> QED
    BY <2>3, <2>4
<1> QED
  BY <1>1, <1>2, <1>3, <1>4, <1>5 DEF IInv, AfterLoop, GroupsAreResult

(* The application and the role are what the collection calls for.         *)
LEMMA AddApplicationKeeps ==
  ASSUME IInv, AddApplication
  PROVE  IInv'
<1> USE DEF AddApplication
<1>1. phase = "functions" /\ NothingYet /\ PreferencesTypeOK /\ todo = {}
  BY DEF IInv
<1>2. UNCHANGED <<given, todo, added, errors, groups>>
  OBVIOUS
<1>3. /\ EnabledIds' = EnabledIds
      /\ NeedsCondition' = NeedsCondition
      /\ CanSkipRole' = CanSkipRole
      /\ AllConditions' = AllConditions
      /\ ResourceCondition' = ResourceCondition
  BY <1>2 DEF EnabledIds, NeedsCondition, CanSkipRole, AllConditions,
              ResourceCondition, RecordedCondition
<1>4. /\ phase' = IF EnabledIds = {} THEN "done" ELSE "groups"
      /\ app' <=> EnabledIds # {}
      /\ role' <=> (EnabledIds # {} /\ ~CanSkipRole)
  BY <1>1 DEF NothingYet
<1>5. /\ app' \in BOOLEAN
      /\ role' \in BOOLEAN
  <2>1. CASE EnabledIds = {}
    BY <2>1, <1>1 DEF PreferencesTypeOK
  <2>2. CASE EnabledIds # {}
    BY <2>2 DEF CanSkipRole
  <2> QED
    BY <2>1, <2>2
<1>6. shared' = IF EnabledIds # {} /\ NeedsCondition THEN ResourceCondition ELSE NoCondition
  BY <1>1 DEF NothingYet
<1>7. aggregate' = IF EnabledIds # {} /\ NeedsCondition /\ Combines(AllConditions)
                     THEN AllConditions ELSE {}
  BY <1>1 DEF NothingYet
<1>8. /\ shared' \in Conditions \cup {NoCondition, Aggregate}
      /\ aggregate' \subseteq Conditions
  BY <1>1, <1>6, <1>7, NeededCondition, RecordedConditions
<1>9. PreferencesTypeOK'
  BY <1>1, <1>2, <1>4, <1>5, <1>8 DEF PreferencesTypeOK
<1>10. AllRegistered' /\ AlarmsChecked'
  BY <1>2, <1>3 DEF IInv, AllRegistered, AlarmsChecked
<1>11. SharedIsResult' /\ AggregateIsResult'
  <2>1. Combines(AllConditions)' = Combines(AllConditions)
    BY <1>3 DEF Combines
  <2> QED
    BY <1>3, <1>6, <1>7, <2>1 DEF SharedIsResult, AggregateIsResult
<1>12. AfterLoop'
  BY <1>1, <1>2, <1>3, <1>4, <1>11 DEF AfterLoop
<1>13. GroupsAreResult'
  BY <1>1, <1>2, <1>3, <1>4 DEF GroupsAreResult, NothingYet
<1> QED
  BY <1>4, <1>9, <1>10, <1>12, <1>13 DEF IInv

(* The groups are those of the enabled functions.                          *)
LEMMA AddGroupsKeeps ==
  ASSUME IInv, AddGroups
  PROVE  IInv'
<1> USE DEF AddGroups
<1>1. phase = "groups" /\ phase' = "done" /\ PreferencesTypeOK
  BY DEF IInv
<1>2. UNCHANGED <<given, todo, added, aggregate, shared, app, role>>
  OBVIOUS
<1>3. /\ EnabledIds' = EnabledIds
      /\ NeedsCondition' = NeedsCondition
      /\ CanSkipRole' = CanSkipRole
      /\ AllConditions' = AllConditions
      /\ ResourceCondition' = ResourceCondition
  BY <1>2 DEF EnabledIds, NeedsCondition, CanSkipRole, AllConditions,
              ResourceCondition, RecordedCondition
<1>4. errors' \in BOOLEAN /\ (errors => errors')
  OBVIOUS
<1>5. groups' \subseteq Functions
  BY <1>1 DEF PreferencesTypeOK, EnabledIds
<1>6. PreferencesTypeOK'
  BY <1>1, <1>2, <1>4, <1>5 DEF PreferencesTypeOK
<1>7. AllRegistered' /\ AlarmsChecked'
  BY <1>2, <1>3, <1>4 DEF IInv, AllRegistered, AlarmsChecked
<1>8. SharedIsResult' /\ AggregateIsResult'
  <2>1. Combines(AllConditions)' = Combines(AllConditions)
    BY <1>3 DEF Combines
  <2> QED
    BY <1>1, <1>2, <1>3, <2>1 DEF IInv, AfterLoop, SharedIsResult, AggregateIsResult
<1>9. AfterLoop'
  BY <1>1, <1>2, <1>3, <1>8 DEF IInv, AfterLoop
<1>10. GroupsAreResult'
  BY <1>2, <1>3 DEF GroupsAreResult
<1> QED
  BY <1>1, <1>6, <1>7, <1>9, <1>10 DEF IInv

(* Every step keeps the invariant.                                         *)
LEMMA NextIInv == IInv /\ [PreferencesNext]_preferencesVars => IInv'
<1> SUFFICES ASSUME IInv, [PreferencesNext]_preferencesVars PROVE IInv'
  OBVIOUS
<1>1. CASE UNCHANGED preferencesVars
  BY <1>1 DEF preferencesVars, IInv, PreferencesTypeOK, NothingYet, AllRegistered, AlarmsChecked, AfterLoop,
              GroupsAreResult, SharedIsResult, AggregateIsResult, EnabledIds, NeedsCondition,
              CanSkipRole, AllConditions, ResourceCondition, RecordedCondition, Combines
<1>2. ASSUME NEW f \in Functions, AddPreference(f) PROVE IInv'
  BY <1>2, AddPreferenceKeeps
<1>3. CASE AddApplication
  BY <1>3, AddApplicationKeeps
<1>4. CASE AddGroups
  BY <1>4, AddGroupsKeeps
<1> QED
  BY <1>1, <1>2, <1>3, <1>4 DEF PreferencesNext

(* The invariant holds in every reachable state.                           *)
THEOREM SpecIInv == PreferencesSpec => []IInv
BY InitIInv, NextIInv, PTL DEF PreferencesSpec

-----------------------------------------------------------------------------
(* The collection's answers, in a returned template: the group of every    *)
(* enabled function is there and has the condition that was recorded.      *)
LEMMA GroupOfEnabled ==
  ASSUME IInv, Returned
  PROVE  /\ groups = EnabledIds
         /\ \A f \in Functions : f \in added
         /\ app <=> EnabledIds # {}
         /\ role <=> (EnabledIds # {} /\ ~CanSkipRole)
         /\ SharedIsResult
         /\ AggregateIsResult
<1>1. phase = "done" /\ ~errors
  BY DEF Returned
<1>2. AfterLoop /\ AllRegistered /\ AlarmsChecked /\ GroupsAreResult
  BY DEF IInv
<1>3. groups = EnabledIds
  BY <1>1, <1>2 DEF AlarmsChecked, GroupsAreResult, EnabledIds
<1> QED
  BY <1>1, <1>2, <1>3 DEF AfterLoop, AllRegistered

(* Three cases: no condition is shared, a single one, or the aggregate.    *)
LEMMA SharedCases ==
  ASSUME IInv, Returned, EnabledIds # {}
  PROVE  \/ shared = NoCondition /\ ~NeedsCondition
         \/ /\ shared \in Conditions /\ AllConditions = {shared}
            /\ \A f \in EnabledIds : RecordedCondition(f) \in AllConditions
         \/ /\ shared = Aggregate /\ aggregate = AllConditions /\ AllConditions # {}
            /\ \A f \in EnabledIds : RecordedCondition(f) \in AllConditions
<1>1. SharedIsResult /\ AggregateIsResult /\ PreferencesTypeOK
  BY GroupOfEnabled DEF IInv
<1>2. CASE ~NeedsCondition
  BY <1>1, <1>2 DEF SharedIsResult
<1>3. CASE NeedsCondition
  <2>1. shared = ResourceCondition
    BY <1>1, <1>3 DEF SharedIsResult
  <2>2. Combines(AllConditions) => aggregate = AllConditions
    BY <1>1, <1>3 DEF AggregateIsResult
  <2> QED
    BY <1>1, <1>3, <2>1, <2>2, NeededCondition
<1> QED
  BY <1>2, <1>3

(* The application is there whenever a group is, and so is the role.       *)
LEMMA IInvGroupsFind == IInv => GroupsFindWhatTheyName
<1> SUFFICES ASSUME IInv, Returned, NEW truth \in Truths, NEW f \in Functions,
                    GroupCreated(f, truth)
             PROVE  app /\ Created(shared, truth) /\ (given[f].ownRole \/ role)
  BY DEF GroupsFindWhatTheyName
<1>1. f \in EnabledIds /\ Created(RecordedCondition(f), truth)
  BY GroupOfEnabled DEF GroupCreated
<1>2. app
  BY <1>1, GroupOfEnabled
<1>3. given[f].ownRole \/ role
  BY <1>1, GroupOfEnabled DEF CanSkipRole, EnabledIds
<1>4. Created(shared, truth)
  <2>1. AllConditions \subseteq Conditions
    BY RecordedConditions DEF IInv
  <2>2. RecordedCondition(f) \in AllConditions =>
          RecordedCondition(f) \in Conditions /\ truth[RecordedCondition(f)]
    BY <1>1, <2>1, CreatedMeaning
  <2>3. CASE shared = NoCondition
    BY <2>3, CreatedMeaning
  <2>4. CASE shared \in Conditions /\ AllConditions = {shared}
             /\ RecordedCondition(f) \in AllConditions
    BY <2>4, <2>2, CreatedMeaning
  <2>5. CASE shared = Aggregate /\ aggregate = AllConditions
             /\ RecordedCondition(f) \in AllConditions
    BY <2>5, <2>2, CreatedMeaning
  <2> QED
    BY <1>1, <2>3, <2>4, <2>5, SharedCases
<1> QED
  BY <1>2, <1>3, <1>4

(* A group has its function's condition or none.                           *)
LEMMA IInvAliasesFind == IInv => AliasesFindGroups
<1> SUFFICES ASSUME IInv, Returned, NEW truth \in Truths, NEW f \in Functions,
                    given[f].enabled, Created(given[f].condition, truth)
             PROVE  GroupCreated(f, truth)
  BY DEF AliasesFindGroups
<1>1. f \in groups
  BY GroupOfEnabled DEF EnabledIds
<1>2. RecordedCondition(f) \in {given[f].condition, NoCondition}
  BY DEF RecordedCondition
<1>3. Created(RecordedCondition(f), truth)
  BY <1>2, CreatedMeaning
<1> QED
  BY <1>1, <1>3 DEF GroupCreated

(* The condition that is shared holds only if that of some group does.     *)
LEMMA IInvNothingIdle == IInv => NothingIdle
<1> SUFFICES ASSUME IInv, Returned, app, NEW truth \in Truths, Created(shared, truth)
             PROVE  \E f \in Functions : GroupCreated(f, truth)
  BY DEF NothingIdle
<1>1. EnabledIds # {} /\ groups = EnabledIds /\ PreferencesTypeOK
  BY GroupOfEnabled DEF IInv
<1>2. EnabledIds \subseteq Functions /\ added \subseteq Functions
  BY <1>1 DEF EnabledIds, PreferencesTypeOK
<1>3. CASE ~NeedsCondition
  <2>1. PICK f \in added : given[f].enabled /\ RecordedCondition(f) = NoCondition
    BY <1>1, <1>3 DEF NeedsCondition, EnabledIds
  <2>2. f \in groups /\ Created(RecordedCondition(f), truth)
    BY <2>1, <1>1, CreatedMeaning DEF EnabledIds
  <2> QED
    BY <2>1, <2>2, <1>2 DEF GroupCreated
<1>4. ASSUME NEW c \in AllConditions, truth[c]
      PROVE  \E f \in Functions : GroupCreated(f, truth)
  <2>1. PICK f \in added : RecordedCondition(f) = c
    BY <1>4 DEF AllConditions
  <2>2. c \in Conditions /\ c # NoCondition
    BY <1>1, RecordedConditions DEF AllConditions
  <2>3. f \in EnabledIds
    BY <2>1, <2>2 DEF EnabledIds, RecordedCondition
  <2>4. Created(RecordedCondition(f), truth)
    BY <1>4, <2>1, <2>2, CreatedMeaning
  <2> QED
    BY <1>1, <1>2, <2>3, <2>4 DEF GroupCreated
<1>5. CASE shared \in Conditions /\ AllConditions = {shared}
  BY <1>4, <1>5, CreatedMeaning
<1>6. CASE shared = Aggregate /\ aggregate = AllConditions
  BY <1>4, <1>6, CreatedMeaning
<1> QED
  BY <1>1, <1>3, <1>5, <1>6, SharedCases

(* The aggregate is the disjunction of at least two conditions.            *)
LEMMA IInvAggregate == IInv => AggregateIsDefined
<1> SUFFICES ASSUME IInv, Returned, shared = Aggregate PROVE aggregate # {}
  BY DEF AggregateIsDefined
<1>1. shared # NoCondition /\ shared \notin Conditions
  BY PreferencesAssumption
<1>2. EnabledIds # {}
  BY <1>1, GroupOfEnabled DEF SharedIsResult
<1> QED
  BY <1>1, <1>2, SharedCases

-----------------------------------------------------------------------------
(* Whatever conditions hold, a deployment group that is created finds the  *)
(* application and the service role it refers to.                          *)
THEOREM GroupsAlwaysFind == PreferencesSpec => []GroupsFindWhatTheyName
BY SpecIInv, IInvGroupsFind, PTL

(* Whatever conditions hold, the update policy of an alias names a         *)
(* deployment group that is created.                                       *)
THEOREM AliasesAlwaysFind == PreferencesSpec => []AliasesFindGroups
BY SpecIInv, IInvAliasesFind, PTL

(* An application is never created without a deployment group.             *)
THEOREM NeverIdle == PreferencesSpec => []NothingIdle
BY SpecIInv, IInvNothingIdle, PTL

(* No resource is given the aggregate condition without its definition.    *)
THEOREM AggregateAlwaysDefined == PreferencesSpec => []AggregateIsDefined
BY SpecIInv, IInvAggregate, PTL

-----------------------------------------------------------------------------
(* CombinedCondition.                                                      *)

(* How many names are left is how many rounds are left.                    *)
RoundsLeft(n, length) ==
  /\ n * (MaxConditions - 1) <= length - 2
  /\ length - 2 < (n + 1) * (MaxConditions - 1)

Countdown ==
  result = "running" =>
    \/ /\ Len(list) > 1
       /\ RoundsLeft(number, Len(list))
       /\ DOMAIN ors \cap 0..number = {}
    \/ Len(list) = 1 /\ list = <<Bare>> /\ Bare \in DOMAIN ors

(* A condition is used only when it is defined.                            *)
Defined ==
  /\ Members(list) \subseteq TemplateConditions \cup DOMAIN ors
  /\ \A n \in DOMAIN ors : Members(ors[n]) \subseteq TemplateConditions \cup DOMAIN ors

CombineIInv == CombineTypeOK /\ Countdown /\ Defined /\ OrAccepted /\ EndsInBareName /\ MeansAny

-----------------------------------------------------------------------------
(* What the two parts of a list hold, and the list with the new condition. *)
LEMMA Parts ==
  ASSUME NEW S, NEW s \in Seq(S), NEW k \in S, Len(s) > 1,
         MaxConditions \in Nat, MaxConditions >= 2
  PROVE  /\ Taken(s) \in Seq(S) /\ Len(Taken(s)) \in 2..MaxConditions
         /\ Append(Remaining(s), k) \in Seq(S)
         /\ Len(s) <= MaxConditions => Append(Remaining(s), k) = <<k>>
         /\ Len(s) > MaxConditions => Len(Append(Remaining(s), k)) = Len(s) - MaxConditions + 1
         /\ Members(s) = Members(Taken(s)) \cup Members(Remaining(s))
         /\ Members(Append(Remaining(s), k)) = Members(Remaining(s)) \cup {k}
<1> DEFINE n == IF Len(s) < MaxConditions THEN Len(s) ELSE MaxConditions
<1>1. n \in 2..MaxConditions /\ n <= Len(s)
  OBVIOUS
<1>2. /\ Taken(s) \in Seq(S) /\ Len(Taken(s)) = n
      /\ \A i \in 1..n : Taken(s)[i] = s[i]
  <2> SUFFICES /\ SubSeq(s, 1, n) \in Seq(S) /\ Len(SubSeq(s, 1, n)) = n
               /\ \A i \in 1..n : SubSeq(s, 1, n)[i] = s[i]
    BY DEF Taken
  <2> HIDE DEF n
  <2> QED
    BY <1>1, SubSeqProperties
<1>3. CASE Len(s) <= MaxConditions
  <2>1. Remaining(s) = <<>>
    BY <1>3 DEF Remaining
  <2>2. n = Len(s)
    BY <1>3
  <2>3. Members(Remaining(s)) = {} /\ Members(Taken(s)) = Members(s)
    BY <1>2, <2>1, <2>2 DEF Members
  <2>4. Append(Remaining(s), k) = <<k>>
    BY <2>1
  <2>5. Members(<<k>>) = {k}
    BY DEF Members
  <2> QED
    BY <1>1, <1>2, <1>3, <2>3, <2>4, <2>5
<1>4. CASE Len(s) > MaxConditions
  <2> DEFINE l == Remaining(s)
             m == Len(s) - MaxConditions
  <2>1. m \in Nat /\ m > 0 /\ n = MaxConditions /\ Len(s) = MaxConditions + m
    BY <1>4
  <2>2. /\ l \in Seq(S) /\ Len(l) = m
        /\ \A i \in 1..m : l[i] = s[MaxConditions + i]
    BY <1>4 DEF Remaining
  <2>3. Members(s) = Members(Taken(s)) \cup Members(l)
    <3> HIDE DEF l, m, n
    <3>1. ASSUME NEW i \in 1..Len(s) PROVE s[i] \in Members(Taken(s)) \cup Members(l)
      <4>1. CASE i <= MaxConditions
        BY <1>2, <2>1, <4>1 DEF Members
      <4>2. CASE i > MaxConditions
        <5>1. i - MaxConditions \in 1..m /\ l[i - MaxConditions] = s[i]
          BY <2>1, <2>2, <4>2
        <5> QED
          BY <5>1, <2>2 DEF Members
      <4> QED
        BY <4>1, <4>2
    <3>2. Members(Taken(s)) \subseteq Members(s)
      BY <1>1, <1>2, <2>1 DEF Members
    <3>3. Members(l) \subseteq Members(s)
      <4>1. \A i \in 1..m : MaxConditions + i \in 1..Len(s)
        BY <2>1
      <4> QED
        BY <2>2, <4>1 DEF Members
    <3> QED
      BY <3>1, <3>2, <3>3 DEF Members
  <2>4. /\ Append(l, k) \in Seq(S) /\ Len(Append(l, k)) = m + 1
        /\ Members(Append(l, k)) = Members(l) \cup {k}
    <3> HIDE DEF l, m
    <3>1. /\ Append(l, k) \in Seq(S) /\ Len(Append(l, k)) = m + 1
          /\ \A i \in 1..m : Append(l, k)[i] = l[i]
          /\ Append(l, k)[m + 1] = k
      BY <2>1, <2>2
    <3>2. 1..(m + 1) = 1..m \cup {m + 1}
      BY <2>1
    <3> QED
      BY <2>2, <3>1, <3>2 DEF Members
  <2> QED
    BY <1>1, <1>2, <1>4, <2>3, <2>4
<1> QED
  BY <1>3, <1>4

(* calculate_number_of_conditions starts the countdown right.              *)
LEMMA Rounds ==
  ASSUME NEW L \in Nat, L >= 2, MaxConditions \in Nat, MaxConditions >= 2
  PROVE  /\ NumberOfConditions(L) - 1 \in Nat
         /\ RoundsLeft(NumberOfConditions(L) - 1, L)
<1> DEFINE d == MaxConditions - 1
           q == (L - 2) \div d
<1>1. d \in Nat /\ d >= 1 /\ L - 2 \in Nat
  OBVIOUS
<1>2. q \in Int /\ q * d <= L - 2 /\ L - 2 < (q + 1) * d
  OBVIOUS
<1>3. q >= 0
  <2> HIDE DEF q, d
  <2> SUFFICES ASSUME q <= -1 PROVE FALSE
    BY <1>2
  <2>1. (q + 1) * d <= 0
    BY <1>1, <1>2
  <2> QED
    BY <1>1, <1>2, <2>1
<1>4. NumberOfConditions(L) - 1 = q
  BY <1>2 DEF NumberOfConditions
<1> QED
  BY <1>2, <1>3, <1>4 DEF RoundsLeft

(* A list with a name left for a later round is longer than an Fn::Or, and *)
(* one without is not.                                                     *)
LEMMA RoundTaken ==
  ASSUME NEW L \in Nat, NEW k \in Nat, RoundsLeft(k, L),
         MaxConditions \in Nat, MaxConditions >= 2
  PROVE  /\ k = 0 => L <= MaxConditions
         /\ k > 0 => /\ L > MaxConditions
                      /\ RoundsLeft(k - 1, L - MaxConditions + 1)
<1> DEFINE d == MaxConditions - 1
<1>1. d \in Nat /\ d >= 1 /\ MaxConditions = d + 1
  OBVIOUS
<1>2. k * d <= L - 2 /\ L - 2 < (k + 1) * d
  BY DEF RoundsLeft
<1> HIDE DEF d
<1>3. k = 0 => L <= MaxConditions
  BY <1>1, <1>2
<1>4. ASSUME k > 0
      PROVE  L > MaxConditions /\ (k - 1) * d <= (L - d) - 2 /\ (L - d) - 2 < ((k - 1) + 1) * d
  <2>1. (k - 1) * d = k * d - d /\ (k + 1) * d = k * d + d /\ k * d \in Int
    BY <1>1
  <2>2. k * d >= d
    <3>1. (k - 1) * d >= 0
      BY <1>1, <1>4
    <3> QED
      BY <2>1, <3>1, <1>1
  <2>3. (k - 1) + 1 = k
    OBVIOUS
  <2> QED
    BY <1>1, <1>2, <2>1, <2>2, <2>3
<1> QED
  BY <1>1, <1>3, <1>4 DEF RoundsLeft, d

-----------------------------------------------------------------------------
(* The invariant holds when the combining begins.                          *)
LEMMA CombineInitIInv == CombineInit => CombineIInv
<1> SUFFICES ASSUME CombineInit PROVE CombineIInv
  OBVIOUS
<1> USE CombineAssumption
<1>1. toCombine \in Seq(TemplateConditions) /\ toCombine \in Seq(TemplateConditions \cup Nat) /\ list = toCombine
  BY DEF CombineInit
<1>2. DOMAIN ors = {}
  BY DEF CombineInit
<1>3. number \in Nat /\ (result = "running" => Len(list) > 1 /\ RoundsLeft(number, Len(list)))
  BY <1>1, Rounds DEF CombineInit
<1>4. result \in {"running", "none"}
  BY DEF CombineInit
<1>5. CombineTypeOK
  BY <1>1, <1>2, <1>3, <1>4 DEF CombineTypeOK
<1>6. Members(toCombine) \subseteq TemplateConditions
  BY <1>1 DEF Members
<1> QED
  BY <1>1, <1>2, <1>3, <1>4, <1>5, <1>6
  DEF CombineIInv, Countdown, Defined, OrAccepted, EndsInBareName, MeansAny

(* One round: the first conditions of the list give way to a new one.      *)
LEMMA CombineStep == CombineIInv /\ Combine => CombineIInv'
<1> SUFFICES ASSUME CombineIInv, Combine PROVE CombineIInv'
  OBVIOUS
<1> DEFINE M == MaxConditions
           S == TemplateConditions \cup Nat
           D == DOMAIN ors
<1>1. M \in Nat /\ M >= 2 /\ TemplateConditions \cap Nat = {}
  BY CombineAssumption
<1>2. /\ CombineTypeOK /\ Countdown /\ Defined /\ OrAccepted /\ EndsInBareName /\ MeansAny
  BY DEF CombineIInv
<1>3. /\ result = "running" /\ Len(list) > 1 /\ toCombine' = toCombine /\ result' = result
      /\ list' = Append(Remaining(list), number)
      /\ number' = CountDown(number)
      /\ DOMAIN ors' = D \cup {number}
      /\ ors'[number] = Taken(list)
      /\ \A n \in D : n # number => ors'[n] = ors[n]
  BY DEF Combine
<1>4. /\ list \in Seq(S) /\ number \in S /\ number \in Nat /\ Len(list) \in Nat
  BY <1>2 DEF CombineTypeOK
<1>5. /\ RoundsLeft(number, Len(list)) /\ DOMAIN ors \cap 0..number = {}
  <2>1. result = "running" /\ Countdown
    BY <1>2, <1>3
  <2>2. Len(list) # 1
    <3>1. Len(list) > 1 /\ Len(list) \in Nat
      BY <1>3, <1>4
    <3>2. \A n \in Nat : n > 1 => n # 1
      OBVIOUS
    <3> QED
      BY <3>1, <3>2, Zenon
  <2> QED
    BY <2>1, <2>2, Zenon DEF Countdown
<1>6. number \notin D /\ \A n \in D : ors'[n] = ors[n]
  BY <1>3, <1>4, <1>5
<1>7. /\ Taken(list) \in Seq(S) /\ Len(Taken(list)) \in 2..M
      /\ list' \in Seq(S)
      /\ Len(list) <= M => list' = <<number>>
      /\ Len(list) > M => Len(list') = Len(list) - M + 1
      /\ Members(list) = Members(Taken(list)) \cup Members(Remaining(list))
      /\ Members(list') = Members(Remaining(list)) \cup {number}
  <2> HIDE DEF S
  <2> QED
    BY <1>1, <1>3, <1>4, Parts
<1>8. CombineTypeOK'
  <2>1. number' \in Nat
    BY <1>3, <1>4 DEF CountDown
  <2>2. \A n \in DOMAIN ors' : ors'[n] \in Seq(S)
    BY <1>2, <1>3, <1>6, <1>7 DEF CombineTypeOK
  <2> QED
    BY <1>2, <1>3, <1>4, <1>7, <2>1, <2>2 DEF CombineTypeOK
<1>9. Countdown'
  <2>1. CASE number = 0
    <3>1. list' = <<Bare>>
      BY <1>1, <1>4, <1>5, <1>7, <2>1, RoundTaken DEF Bare
    <3> QED
      <4>1. Len(list') = 1
        BY <3>1
      <4> QED
        BY <1>3, <2>1, <3>1, <4>1 DEF Countdown, Bare
  <2>2. CASE number > 0
    <3>1. Len(list) > M /\ RoundsLeft(number - 1, Len(list) - M + 1)
      BY <1>1, <1>4, <1>5, <2>2, RoundTaken
    <3>2. number' = number - 1 /\ Len(list') = Len(list) - M + 1
      BY <1>3, <1>7, <2>2, <3>1 DEF CountDown
    <3>3. DOMAIN ors' \cap 0..number' = {}
      BY <1>3, <1>4, <1>5, <3>2
    <3>4. Len(list') > 1 /\ RoundsLeft(number', Len(list'))
      BY <1>1, <1>4, <3>1, <3>2
    <3> QED
      BY <3>3, <3>4 DEF Countdown
  <2> QED
    BY <1>4, <2>1, <2>2
<1>10. Defined'
  BY <1>2, <1>3, <1>6, <1>7 DEF Defined
<1>11. OrAccepted'
  BY <1>2, <1>3, <1>6, <1>7 DEF OrAccepted
<1>12. EndsInBareName'
  BY <1>3 DEF EndsInBareName
<1>13. MeansAny'
  <2> SUFFICES ASSUME NEW truth \in [TemplateConditions \cup DOMAIN ors' -> BOOLEAN], Worth(truth)'
               PROVE  (\E c \in Members(list') : truth[c]) <=> \E c \in Members(toCombine) : truth[c]
    BY <1>3 DEF MeansAny
  <2> DEFINE old == [c \in TemplateConditions \cup D |-> truth[c]]
  <2>1. old \in [TemplateConditions \cup D -> BOOLEAN]
    BY <1>3
  <2>2. \A n \in DOMAIN ors' : truth[n] <=> \E c \in Members(ors'[n]) : truth[c]
    BY DEF Worth
  <2>3. \A n \in D : Members(ors[n]) \subseteq TemplateConditions \cup D
    BY <1>2 DEF Defined
  <2>4. ASSUME NEW n \in D PROVE old[n] <=> \E c \in Members(ors[n]) : old[c]
    <3>1. old[n] = truth[n] /\ \A c \in Members(ors[n]) : old[c] = truth[c]
      BY <2>3
    <3>2. truth[n] <=> \E c \in Members(ors[n]) : truth[c]
      BY <1>3, <1>6, <2>2
    <3> HIDE DEF old
    <3> QED
      BY <3>1, <3>2
  <2>5. Worth(old)
    BY <2>4 DEF Worth
  <2> HIDE DEF old
  <2>6. (\E c \in Members(list) : old[c]) <=> \E c \in Members(toCombine) : old[c]
    BY <1>2, <2>1, <2>5 DEF MeansAny
  <2>7. /\ \A c \in Members(list) : old[c] = truth[c]
        /\ \A c \in Members(toCombine) : old[c] = truth[c]
    <3>1. Members(list) \subseteq TemplateConditions \cup D
      BY <1>2 DEF Defined
    <3>2. Members(toCombine) \subseteq TemplateConditions
      BY <1>2 DEF CombineTypeOK, Members
    <3> QED
      BY <3>1, <3>2 DEF old
  <2>8. truth[number] <=> \E c \in Members(Taken(list)) : truth[c]
    BY <1>3, <2>2
  <2>9. (\E c \in Members(list') : truth[c]) <=> \E c \in Members(list) : truth[c]
    BY <1>7, <2>8
  <2>10. (\E c \in Members(list) : truth[c]) <=> \E c \in Members(toCombine) : truth[c]
    BY <2>6, <2>7
  <2> QED
    BY <2>9, <2>10
<1> QED
  BY <1>8, <1>9, <1>10, <1>11, <1>12, <1>13 DEF CombineIInv

(* The invariant of make_combined_condition.                               *)
THEOREM CombineSpecIInv == CombineSpec => []CombineIInv
<1>1. CombineIInv /\ Return => CombineIInv'
  <2> SUFFICES ASSUME CombineIInv, Return PROVE CombineIInv'
    OBVIOUS
  <2>1. /\ result' = "combined" /\ list' = list /\ ors' = ors /\ toCombine' = toCombine
        /\ number' = number /\ result = "running" /\ Len(list) <= 1
    BY DEF Return
  <2>2. list = <<Bare>> /\ Bare \in DOMAIN ors
    BY <2>1 DEF CombineIInv, Countdown, CombineTypeOK
  <2>3. CombineTypeOK' /\ Countdown' /\ Defined' /\ OrAccepted' /\ EndsInBareName'
    BY <2>1, <2>2 DEF CombineIInv, CombineTypeOK, Countdown, Defined, OrAccepted, EndsInBareName
  <2>4. MeansAny'
    BY <2>1 DEF CombineIInv, MeansAny, Worth
  <2> QED
    BY <2>3, <2>4 DEF CombineIInv
<1>2. CombineIInv /\ UNCHANGED combineVars => CombineIInv'
  <2> SUFFICES ASSUME CombineIInv, UNCHANGED combineVars PROVE CombineIInv'
    OBVIOUS
  <2>1. UNCHANGED <<toCombine, list, number, ors, result>>
    BY DEF combineVars
  <2>2. MeansAny'
    BY <2>1 DEF CombineIInv, MeansAny, Worth
  <2> QED
    BY <2>1, <2>2 DEF CombineIInv, CombineTypeOK, Countdown, Defined, OrAccepted, EndsInBareName
<1> QED
  BY <1>1, <1>2, CombineInitIInv, CombineStep, PTL DEF CombineSpec, CombineNext

(* No Fn::Or is longer than CloudFormation takes, nor shorter than two.    *)
THEOREM EveryOrIsAccepted == CombineSpec => []OrAccepted
<1>1. CombineIInv => OrAccepted
  BY DEF CombineIInv
<1> QED
  BY <1>1, CombineSpecIInv, PTL

(* The list ends in the bare name, which callers refer to.                 *)
THEOREM BareNameIsLast == CombineSpec => []EndsInBareName
<1>1. CombineIInv => EndsInBareName
  BY DEF CombineIInv
<1> QED
  BY <1>1, CombineSpecIInv, PTL

(* The list always means the disjunction of the conditions given.          *)
THEOREM CombinedMeansAny == CombineSpec => []MeansAny
<1>1. CombineIInv => MeansAny
  BY DEF CombineIInv
<1> QED
  BY <1>1, CombineSpecIInv, PTL

(* What the callers refer to is always an accepted disjunction.            *)
THEOREM AlwaysAcceptedDisjunction == CombineSpec => []AcceptedDisjunction
<1>1. CombineIInv => AcceptedDisjunction
  BY DEF CombineIInv, AcceptedDisjunction
<1> QED
  BY <1>1, CombineSpecIInv, PTL

(* No name is given to two new conditions.                                 *)
THEOREM NamesAreTakenOnce == CombineSpec => NamesTakenOnce
<1>1. CombineIInv /\ [CombineNext]_combineVars => \A n \in DOMAIN ors : ors'[n] = ors[n]
  <2> SUFFICES ASSUME CombineIInv, Combine, NEW n \in DOMAIN ors PROVE ors'[n] = ors[n]
    BY DEF CombineNext, Return, combineVars
  <2>1. number \notin DOMAIN ors
    <3>1. result = "running" /\ Countdown /\ number \in Nat
      BY DEF CombineIInv, CombineTypeOK, Combine
    <3>2. Len(list) # 1
      <4>1. Len(list) > 1 /\ Len(list) \in Nat
        BY DEF CombineIInv, CombineTypeOK, Combine
      <4>2. \A m \in Nat : m > 1 => m # 1
        OBVIOUS
      <4> QED
        BY <4>1, <4>2, Zenon
    <3>3. DOMAIN ors \cap 0..number = {}
      BY <3>1, <3>2, Zenon DEF Countdown
    <3> QED
      BY <3>1, <3>3
  <2> QED
    BY <2>1 DEF Combine
<1> QED
  BY <1>1, CombineSpecIInv, PTL DEF CombineSpec, NamesTakenOnce
=============================================================================
