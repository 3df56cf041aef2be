-------------------------- MODULE ApiResourcesProofs --------------------------
(***************************************************************************)
(* Proofs about SharedUsagePlan and ApiResources, for any APIs, conditions *)
(* and templates.                                                          *)
(*                                                                         *)
(* Usage plans.  While no API has failed, the SharedApiUsagePlan is what   *)
(* the SHARED APIs translated so far ask for, whatever their order, and    *)
(* the shared resources are as the last of them generated them: that is    *)
(* IInv.  Collecting from the same API again changes nothing, so that the  *)
(* three resources agree.                                                  *)
(*                                                                         *)
(* Domains, records and routes.  While no API has failed, the template     *)
(* under construction holds what the APIs that are done made alone, a copy *)
(* of each of their domains, and their records in the group of their zone: *)
(* that is ResourcesInv.  Ids tell the APIs apart, so that one step only   *)
(* disturbs the domain and the group of the API it translates, and those   *)
(* it leaves alike, or with more records.                                  *)
(***************************************************************************)
EXTENDS ApiResources, FiniteSetTheorems, TLAPS

Seen == UsersOf(Shared) \ todo

CollectedIsSeen ==
  ~failed =>
    /\ collected.without <=> \E a \in Seen : given.apis[a].condition = NoCondition
    /\ ~collected.without => collected.conditions = {given.apis[a].condition : a \in Seen}
    /\ defined = Definition(collected)
    /\ collected.stages = Seen /\ collected.keys = Seen /\ collected.depends = Seen

(* The collected policies are at least as careful as those seen.           *)
AtLeast(policies, asked) ==
  /\ asked.deletion = "Retain" => policies.deletion = "Retain"
  /\ asked.deletion # "none" => policies.deletion # "none"
  /\ Care[asked.update] <= Care[policies.update]

PoliciesAreSeen ==
  ~failed => \A a \in Seen : AtLeast(collected, given.apis[a])

SharedIsSeen ==
  ~failed =>
    /\ Shared \in DOMAIN resources <=> Seen # {}
    /\ Seen # {} =>
         /\ \A kind \in Kinds : resources[Shared][kind].attributes = Attributes(collected)
         /\ resources[Shared]["UsagePlan"].apis = Seen
         /\ resources[Shared]["UsagePlan"].depends = Seen
         /\ resources[Shared]["ApiKey"].apis = Seen

OwnAreSeen ==
  ~failed =>
    \A o \in Apis :
      /\ o \in DOMAIN resources <=> given.apis[o].usagePlan = "PER_API" /\ o \notin todo
      /\ o \in DOMAIN resources =>
           \A kind \in Kinds :
             resources[o][kind].attributes.condition = given.apis[o].condition

IInv == TypeOK /\ CollectedIsSeen /\ PoliciesAreSeen /\ SharedIsSeen /\ OwnAreSeen

-----------------------------------------------------------------------------
(* What collecting from one more API gives.                                *)
LEMMA NoteFields ==
  ASSUME NEW c \in Collected, NEW a \in Api
  PROVE  /\ Note(c, a) \in Collected
         /\ Note(c, a).stages = c.stages
         /\ Note(c, a).keys = c.keys
         /\ Note(c, a).depends = c.depends
         /\ Note(c, a).without <=> c.without \/ a.condition = NoCondition
         /\ Note(c, a).conditions = IF c.without \/ a.condition = NoCondition
                                    THEN c.conditions ELSE c.conditions \cup {a.condition}
         /\ Note(c, a).deletion = DeletionWith(c.deletion, a.deletion)
         /\ Note(c, a).update = UpdateWith(c.update, a.update)
<1>1. DeletionWith(c.deletion, a.deletion) \in Policies
  BY DEF DeletionWith, Collected, Api
<1>2. UpdateWith(c.update, a.update) \in Policies
  BY DEF UpdateWith, Collected, Api
<1>3. (IF c.without \/ a.condition = NoCondition
         THEN c.conditions ELSE c.conditions \cup {a.condition}) \in SUBSET Conditions
  BY DEF Collected, Api
<1>4. (c.without \/ a.condition = NoCondition) \in BOOLEAN
  BY DEF Collected
<1> QED
  BY <1>1, <1>2, <1>3, <1>4 DEF Note, Collected

(* The policies become as careful as those of the API and stay as careful  *)
(* as they were.                                                           *)
LEMMA NoteIsCareful ==
  ASSUME NEW c \in Collected, NEW a \in Api
  PROVE  /\ AtLeast(Note(c, a), a)
         /\ \A b \in Api : AtLeast(c, b) => AtLeast(Note(c, a), b)
<1>1. /\ Note(c, a).deletion = DeletionWith(c.deletion, a.deletion)
      /\ Note(c, a).update = UpdateWith(c.update, a.update)
  BY NoteFields
<1>2. c.deletion \in Policies /\ c.update \in Policies /\ a.deletion \in Policies /\ a.update \in Policies
  BY DEF Collected, Api
<1>3. \A b \in Api : b.deletion \in Policies /\ b.update \in Policies
  BY DEF Api
<1> HIDE DEF Api, Collected
<1> QED
  BY <1>1, <1>2, <1>3 DEF AtLeast, DeletionWith, UpdateWith, Policies, Care

(* Collecting from an API a second time changes nothing that shows.        *)
LEMMA NoteTwice ==
  ASSUME NEW c \in Collected, NEW n \in Collected, NEW a \in Api,
         n.without = Note(c, a).without, n.conditions = Note(c, a).conditions,
         n.deletion = Note(c, a).deletion, n.update = Note(c, a).update
  PROVE  /\ Note(n, a).without = n.without
         /\ Note(n, a).conditions = n.conditions
         /\ Note(n, a).deletion = n.deletion
         /\ Note(n, a).update = n.update
<1>1. /\ n.without <=> c.without \/ a.condition = NoCondition
      /\ n.conditions = IF c.without \/ a.condition = NoCondition
                        THEN c.conditions ELSE c.conditions \cup {a.condition}
      /\ n.deletion = DeletionWith(c.deletion, a.deletion)
      /\ n.update = UpdateWith(c.update, a.update)
  BY NoteFields
<1>2. /\ Note(n, a).without <=> n.without \/ a.condition = NoCondition
      /\ Note(n, a).conditions = IF n.without \/ a.condition = NoCondition
                                 THEN n.conditions ELSE n.conditions \cup {a.condition}
      /\ Note(n, a).deletion = DeletionWith(n.deletion, a.deletion)
      /\ Note(n, a).update = UpdateWith(n.update, a.update)
      /\ Note(n, a).without \in BOOLEAN
  <2>1. Note(n, a) \in Collected
    BY NoteFields
  <2> QED
    BY <2>1, NoteFields DEF Collected
<1>3. n.without \in BOOLEAN
  BY DEF Collected
<1>4. Note(n, a).without = n.without
  BY <1>1, <1>2, <1>3
<1>5. Note(n, a).conditions = n.conditions
  BY <1>1, <1>2
<1>6. Note(n, a).deletion = n.deletion /\ Note(n, a).update = n.update
  BY <1>1, <1>2 DEF DeletionWith, UpdateWith
<1> QED
  BY <1>4, <1>5, <1>6

-----------------------------------------------------------------------------
(* What Put leaves.                                                        *)
LEMMA PutLeaves ==
  ASSUME TypeOK, NEW owner \in Apis \cup {Shared},
         NEW plan \in Resource, NEW key \in Resource, NEW planKey \in Resource,
         Put(owner, plan, key, planKey)
  PROVE  /\ DOMAIN resources' = DOMAIN resources \cup {owner}
         /\ resources'[owner]["UsagePlan"] = plan
         /\ resources'[owner]["ApiKey"] = key
         /\ resources'[owner]["UsagePlanKey"] = planKey
         /\ \A o \in DOMAIN resources : o # owner => resources'[o] = resources[o]
         /\ resources' \in [DOMAIN resources' -> [Kinds -> Resource]]
         /\ DOMAIN resources' \subseteq Apis \cup {Shared}
<1> DEFINE trio == [UsagePlan |-> plan, ApiKey |-> key, UsagePlanKey |-> planKey]
<1>1. trio \in [Kinds -> Resource]
  BY DEF Kinds
<1>2. trio["UsagePlan"] = plan /\ trio["ApiKey"] = key /\ trio["UsagePlanKey"] = planKey
  OBVIOUS
<1>3. resources' = [o \in DOMAIN resources \cup {owner} |->
                      IF o = owner THEN trio ELSE resources[o]]
  BY DEF Put
<1>4. /\ resources \in [DOMAIN resources -> [Kinds -> Resource]]
      /\ DOMAIN resources \subseteq Apis \cup {Shared}
  BY DEF TypeOK
<1> HIDE DEF trio
<1> QED
  BY <1>1, <1>2, <1>3, <1>4

(* The resources an API generates are resources.                           *)
LEMMA PassthroughType ==
  ASSUME NEW a \in Api, NEW depends \in SUBSET Apis, NEW apis \in SUBSET Apis,
         NEW settings \in BOOLEAN
  PROVE  /\ Generated(Passthrough(a), apis, depends, settings) \in Resource
         /\ Passthrough(a).condition = a.condition
  BY DEF Generated, Passthrough, Resource, Api

(* What is generated with collected attributes is a resource.              *)
LEMMA AttributesType ==
  ASSUME NEW c \in Collected, NEW depends \in SUBSET Apis, NEW apis \in SUBSET Apis,
         NEW settings \in BOOLEAN
  PROVE  Generated(Attributes(c), apis, depends, settings) \in Resource
<1>1. c.deletion \in Policies /\ c.update \in Policies
  BY DEF Collected
<1> QED
  BY <1>1 DEF Generated, Attributes, Resource

(* The steps of an API with a shared plan, and what becomes of the fields. *)
LEMMA SharedStep ==
  ASSUME TypeOK, NEW api \in Apis, TranslateShared(api)
  PROVE  /\ TypeOK'
         /\ collected'.without <=>
              collected.without \/ given.apis[api].condition = NoCondition
         /\ ~collected'.without =>
              collected'.conditions = collected.conditions \cup {given.apis[api].condition}
         /\ defined' = Definition(collected')
         /\ collected'.stages = collected.stages \cup {api}
         /\ collected'.keys = collected.keys \cup {api}
         /\ collected'.depends = collected.depends \cup {api}
         /\ AtLeast(collected', given.apis[api])
         /\ \A b \in Api : AtLeast(collected, b) => AtLeast(collected', b)
         /\ DOMAIN resources' = DOMAIN resources \cup {Shared}
         /\ \A o \in DOMAIN resources : o # Shared => resources'[o] = resources[o]
         /\ \A kind \in Kinds : resources'[Shared][kind].attributes = Attributes(collected')
         /\ resources'[Shared]["UsagePlan"].apis = collected'.stages
         /\ resources'[Shared]["UsagePlan"].depends = collected'.depends
         /\ resources'[Shared]["ApiKey"].apis = collected'.keys
<1> DEFINE a == given.apis[api]
           start == [collected EXCEPT !.depends = @ \cup {api}]
           noted == Note(start, a)
           forPlan == [noted EXCEPT !.stages = @ \cup {api}]
           again == Note(forPlan, a)
           forKey == [again EXCEPT !.keys = @ \cup {api}]
           last == Note(forKey, a)
           plan == Generated(Attributes(forPlan), forPlan.stages, forPlan.depends, a.settings)
           key == Generated(Attributes(forKey), forKey.keys, {}, FALSE)
           planKey == Generated(Attributes(last), {}, {}, FALSE)
<1>1. a \in Api /\ a.settings \in BOOLEAN
  BY DEF TypeOK, Template, Api
<1>2. start \in Collected /\ start.depends = collected.depends \cup {api}
      /\ start.stages = collected.stages /\ start.keys = collected.keys
      /\ start.without = collected.without /\ start.conditions = collected.conditions
      /\ start.deletion = collected.deletion /\ start.update = collected.update
  BY DEF TypeOK, Collected
<1>3. /\ collected' = last
      /\ defined' = Definition(last)
      /\ Put(Shared, plan, key, planKey)
      /\ given' = given /\ failed' = failed /\ todo' = todo \ {api}
  BY DEF TranslateShared, Take
<1> HIDE DEF a, start
<1>4. noted \in Collected /\ noted.depends = start.depends
      /\ noted.stages = start.stages /\ noted.keys = start.keys
      /\ (noted.without <=> start.without \/ a.condition = NoCondition)
      /\ noted.conditions = (IF start.without \/ a.condition = NoCondition
                             THEN start.conditions ELSE start.conditions \cup {a.condition})
      /\ AtLeast(noted, a) /\ \A b \in Api : AtLeast(start, b) => AtLeast(noted, b)
  BY <1>1, <1>2, NoteFields, NoteIsCareful
<1>5. forPlan \in Collected /\ forPlan.depends = noted.depends
      /\ forPlan.stages = noted.stages \cup {api} /\ forPlan.keys = noted.keys
      /\ forPlan.without = noted.without /\ forPlan.conditions = noted.conditions
      /\ forPlan.deletion = noted.deletion /\ forPlan.update = noted.update
  <2> HIDE DEF noted
  <2> QED
    BY <1>4 DEF Collected
<1>6. again \in Collected /\ again.depends = forPlan.depends
      /\ again.stages = forPlan.stages /\ again.keys = forPlan.keys
      /\ again.without = noted.without /\ again.conditions = noted.conditions
      /\ again.deletion = noted.deletion /\ again.update = noted.update
  <2>1. again \in Collected /\ again.depends = forPlan.depends
        /\ again.stages = forPlan.stages /\ again.keys = forPlan.keys
    <3> HIDE DEF forPlan
    <3> QED
      BY <1>1, <1>5, NoteFields
  <2>2. /\ again.without = forPlan.without /\ again.conditions = forPlan.conditions
        /\ again.deletion = forPlan.deletion /\ again.update = forPlan.update
    <3>1. /\ forPlan.without = Note(start, a).without
          /\ forPlan.conditions = Note(start, a).conditions
          /\ forPlan.deletion = Note(start, a).deletion
          /\ forPlan.update = Note(start, a).update
      BY <1>5
    <3> HIDE DEF forPlan
    <3> QED
      BY <3>1, <1>1, <1>2, <1>5, NoteTwice
  <2> QED
    BY <2>1, <2>2, <1>5
<1>7. forKey \in Collected /\ forKey.depends = again.depends
      /\ forKey.stages = again.stages /\ forKey.keys = again.keys \cup {api}
      /\ forKey.without = again.without /\ forKey.conditions = again.conditions
      /\ forKey.deletion = again.deletion /\ forKey.update = again.update
  <2> HIDE DEF again
  <2> QED
    BY <1>6 DEF Collected
<1>8. last \in Collected /\ last.depends = forKey.depends
      /\ last.stages = forKey.stages /\ last.keys = forKey.keys
      /\ last.without = noted.without /\ last.conditions = noted.conditions
      /\ last.deletion = noted.deletion /\ last.update = noted.update
  <2>1. last \in Collected /\ last.depends = forKey.depends
        /\ last.stages = forKey.stages /\ last.keys = forKey.keys
    <3> HIDE DEF forKey
    <3> QED
      BY <1>1, <1>7, NoteFields
  <2>2. /\ last.without = forKey.without /\ last.conditions = forKey.conditions
        /\ last.deletion = forKey.deletion /\ last.update = forKey.update
    <3>1. /\ forKey.without = Note(start, a).without
          /\ forKey.conditions = Note(start, a).conditions
          /\ forKey.deletion = Note(start, a).deletion
          /\ forKey.update = Note(start, a).update
      BY <1>6, <1>7
    <3> HIDE DEF forKey
    <3> QED
      BY <3>1, <1>1, <1>2, <1>7, NoteTwice
  <2> QED
    BY <2>1, <2>2, <1>6, <1>7
<1> HIDE DEF noted, forPlan, again, forKey, last
<1>9. Attributes(forPlan) = Attributes(last) /\ Attributes(forKey) = Attributes(last)
  BY <1>5, <1>6, <1>7, <1>8 DEF Attributes
<1>10. plan \in Resource /\ key \in Resource /\ planKey \in Resource
  BY <1>1, <1>5, <1>7, <1>8, AttributesType DEF Collected
<1>11. /\ plan.attributes = Attributes(last) /\ key.attributes = Attributes(last)
       /\ planKey.attributes = Attributes(last)
       /\ plan.apis = last.stages /\ plan.depends = last.depends /\ key.apis = last.keys
  BY <1>5, <1>6, <1>7, <1>8, <1>9 DEF Generated
<1> HIDE DEF plan, key, planKey
<1>12. /\ DOMAIN resources' = DOMAIN resources \cup {Shared}
       /\ resources'[Shared]["UsagePlan"] = plan
       /\ resources'[Shared]["ApiKey"] = key
       /\ resources'[Shared]["UsagePlanKey"] = planKey
       /\ \A o \in DOMAIN resources : o # Shared => resources'[o] = resources[o]
       /\ resources' \in [DOMAIN resources' -> [Kinds -> Resource]]
       /\ DOMAIN resources' \subseteq Apis \cup {Shared}
  BY <1>3, <1>10, PutLeaves
<1>13. TypeOK'
  <2>1. Definition(last) \subseteq Conditions
    BY <1>8 DEF Definition, Collected
  <2> QED
    BY <1>3, <1>8, <1>12, <2>1 DEF TypeOK
<1>14. AtLeast(last, a) /\ \A b \in Api : AtLeast(collected, b) => AtLeast(last, b)
  BY <1>2, <1>4, <1>8 DEF AtLeast
<1>15. \A kind \in Kinds : resources'[Shared][kind].attributes = Attributes(last)
  BY <1>11, <1>12 DEF Kinds
<1>16. /\ last.without <=> collected.without \/ a.condition = NoCondition
       /\ ~last.without => last.conditions = collected.conditions \cup {a.condition}
  BY <1>2, <1>4, <1>8
<1>17. /\ last.stages = collected.stages \cup {api}
       /\ last.keys = collected.keys \cup {api}
       /\ last.depends = collected.depends \cup {api}
  BY <1>2, <1>4, <1>5, <1>6, <1>7, <1>8
<1> QED
  BY <1>3, <1>11, <1>12, <1>13, <1>14, <1>15, <1>16, <1>17 DEF a

-----------------------------------------------------------------------------
(* The invariant holds at first.                                           *)
LEMMA InitIInv == Init => IInv
<1> SUFFICES ASSUME Init PROVE IInv
  OBVIOUS
<1>1. given \in Template /\ todo = Apis /\ failed = FALSE /\ defined = {} /\ resources = <<>>
  BY TemplatesAssumption DEF Init
<1>2. DOMAIN resources = {} /\ resources \in [{} -> [Kinds -> Resource]]
  BY <1>1
<1>3. /\ collected \in Collected
      /\ collected.without = FALSE /\ collected.conditions = {}
      /\ collected.stages = {} /\ collected.keys = {} /\ collected.depends = {}
  BY DEF Init, Collected, Policies
<1>4. TypeOK
  BY <1>1, <1>2, <1>3 DEF TypeOK
<1>5. Seen = {}
  BY <1>1, TemplatesAssumption DEF Seen, UsersOf
<1>6. CollectedIsSeen
  BY <1>1, <1>3, <1>5 DEF CollectedIsSeen, Definition
<1>7. PoliciesAreSeen /\ SharedIsSeen /\ OwnAreSeen
  BY <1>1, <1>2, <1>5 DEF PoliciesAreSeen, SharedIsSeen, OwnAreSeen
<1> QED
  BY <1>4, <1>6, <1>7 DEF IInv

(* A step that fails leaves nothing to show but the types.                 *)
LEMMA FailureKeepsIInv ==
  ASSUME IInv, NEW api \in Apis, SharedRaises(api) \/ TranslateFails(api)
  PROVE  IInv'
<1>1. failed' = TRUE /\ todo' = todo \ {api} /\ UNCHANGED <<given, defined, resources>>
  BY DEF SharedRaises, TranslateFails, Take
<1>2. collected' \in Collected
  <2>1. collected \in Collected /\ given.apis[api] \in Api
    BY DEF IInv, TypeOK, Template
  <2>2. DeletionWith(collected.deletion, given.apis[api].deletion) \in Policies
    BY <2>1 DEF DeletionWith, Collected, Api
  <2>3. UpdateWith(collected.update, given.apis[api].update) \in Policies
    BY <2>1 DEF UpdateWith, Collected, Api
  <2>4. CASE SharedRaises(api)
    BY <2>1, <2>2, <2>3, <2>4 DEF SharedRaises, Collected
  <2>5. CASE TranslateFails(api)
    BY <2>1, <2>5 DEF TranslateFails
  <2> QED
    BY <2>4, <2>5
<1>3. TypeOK'
  BY <1>1, <1>2 DEF IInv, TypeOK
<1>4. CollectedIsSeen' /\ PoliciesAreSeen' /\ SharedIsSeen' /\ OwnAreSeen'
  BY <1>1, Zenon DEF CollectedIsSeen, PoliciesAreSeen, SharedIsSeen, OwnAreSeen
<1> QED
  BY <1>3, <1>4 DEF IInv

(* An API without a shared plan is not among those seen.                   *)
LEMMA NotShared ==
  ASSUME TypeOK, NEW api \in Apis, given.apis[api].usagePlan # "SHARED",
         given' = given, todo' = todo \ {api}
  PROVE  Seen' = Seen
<1>1. api \notin UsersOf(Shared) /\ UsersOf(Shared)' = UsersOf(Shared)
  BY DEF UsersOf
<1> QED
  BY <1>1 DEF Seen

(* An API with NONE, or without a usage plan.                              *)
LEMMA NoneKeepsIInv ==
  ASSUME IInv, NEW api \in Apis, TranslateWithout(api)
  PROVE  IInv'
<1>1. /\ todo' = todo \ {api} /\ UNCHANGED <<given, failed, collected, defined, resources>>
      /\ given.apis[api].usagePlan = "NONE"
  BY DEF TranslateWithout, Take
<1>2. TypeOK'
  BY <1>1 DEF IInv, TypeOK
<1>3. Seen' = Seen
  BY <1>1, NotShared DEF IInv
<1>4. CollectedIsSeen'
  BY <1>1, <1>3 DEF IInv, CollectedIsSeen, Definition
<1>5. PoliciesAreSeen'
  BY <1>1, <1>3 DEF IInv, PoliciesAreSeen, AtLeast, Care
<1>6. SharedIsSeen'
  BY <1>1, <1>3 DEF IInv, SharedIsSeen, Attributes
<1>7. OwnAreSeen'
  BY <1>1 DEF IInv, OwnAreSeen
<1> QED
  BY <1>2, <1>4, <1>5, <1>6, <1>7 DEF IInv

(* An API with a plan of its own.                                          *)
LEMMA PerApiKeepsIInv ==
  ASSUME IInv, NEW api \in Apis, TranslatePerApi(api)
  PROVE  IInv'
<1> DEFINE a == given.apis[api]
           plan == Generated(Passthrough(a), {api}, {api}, a.settings)
           key == Generated(Passthrough(a), {api}, {}, FALSE)
           planKey == Generated(Passthrough(a), {}, {}, FALSE)
<1>1. /\ todo' = todo \ {api} /\ UNCHANGED <<given, failed, collected, defined>>
      /\ a.usagePlan = "PER_API" /\ Put(api, plan, key, planKey)
  BY DEF TranslatePerApi, Take
<1>2. a \in Api /\ a.settings \in BOOLEAN
  BY DEF IInv, TypeOK, Template, Api
<1>3. plan \in Resource /\ key \in Resource /\ planKey \in Resource
  BY <1>2, PassthroughType
<1>4. /\ plan.attributes.condition = a.condition /\ key.attributes.condition = a.condition
      /\ planKey.attributes.condition = a.condition
  BY DEF Generated, Passthrough
<1> HIDE DEF plan, key, planKey
<1>5. /\ DOMAIN resources' = DOMAIN resources \cup {api}
      /\ resources'[api]["UsagePlan"] = plan
      /\ resources'[api]["ApiKey"] = key
      /\ resources'[api]["UsagePlanKey"] = planKey
      /\ \A o \in DOMAIN resources : o # api => resources'[o] = resources[o]
      /\ resources' \in [DOMAIN resources' -> [Kinds -> Resource]]
      /\ DOMAIN resources' \subseteq Apis \cup {Shared}
  BY <1>1, <1>3, PutLeaves DEF IInv
<1>6. TypeOK'
  BY <1>1, <1>5 DEF IInv, TypeOK
<1>7. Seen' = Seen
  BY <1>1, NotShared DEF IInv
<1>8. api # Shared
  BY TemplatesAssumption
<1>9. CollectedIsSeen'
  BY <1>1, <1>7 DEF IInv, CollectedIsSeen, Definition
<1>10. PoliciesAreSeen'
  BY <1>1, <1>7 DEF IInv, PoliciesAreSeen, AtLeast, Care
<1>11. SharedIsSeen'
  BY <1>1, <1>5, <1>7, <1>8 DEF IInv, SharedIsSeen, Attributes
<1>12. OwnAreSeen'
  <2> SUFFICES ASSUME ~failed, NEW o \in Apis
      PROVE  /\ o \in DOMAIN resources' <=> given.apis[o].usagePlan = "PER_API" /\ o \notin todo'
             /\ o \in DOMAIN resources' =>
                  \A kind \in Kinds :
                    resources'[o][kind].attributes.condition = given.apis[o].condition
    BY <1>1 DEF OwnAreSeen
  <2>1. CASE o = api
    BY <2>1, <1>1, <1>4, <1>5 DEF Kinds
  <2>2. CASE o # api
    BY <2>2, <1>1, <1>5 DEF IInv, OwnAreSeen
  <2> QED
    BY <2>1, <2>2
<1> QED
  BY <1>6, <1>9, <1>10, <1>11, <1>12 DEF IInv

(* An API with a shared plan.                                              *)
LEMMA SharedKeepsIInv ==
  ASSUME IInv, NEW api \in Apis, TranslateShared(api)
  PROVE  IInv'
<1> DEFINE a == given.apis[api]
<1>1. /\ todo' = todo \ {api} /\ UNCHANGED <<given, failed>> /\ api \in todo
      /\ a.usagePlan = "SHARED"
  BY DEF TranslateShared, Take
<1>2. TypeOK /\ \A b \in Apis : given.apis[b] \in Api
  BY DEF IInv, TypeOK, Template
<1>3. Seen' = Seen \cup {api}
  <2>1. api \in UsersOf(Shared) /\ UsersOf(Shared)' = UsersOf(Shared)
    BY <1>1 DEF UsersOf
  <2> QED
    BY <2>1, <1>1 DEF Seen
<1>4. Seen \subseteq Apis
  BY TemplatesAssumption DEF Seen, UsersOf
<1>5. api # Shared
  BY TemplatesAssumption
<1>6. TypeOK'
  BY <1>2, SharedStep
<1>7. CollectedIsSeen'
  <2> SUFFICES ASSUME ~failed
      PROVE  /\ collected'.without <=>
                  \E b \in Seen \cup {api} : given.apis[b].condition = NoCondition
             /\ ~collected'.without =>
                  collected'.conditions = {given.apis[b].condition : b \in Seen \cup {api}}
             /\ defined' = Definition(collected')
             /\ collected'.stages = Seen \cup {api}
             /\ collected'.keys = Seen \cup {api}
             /\ collected'.depends = Seen \cup {api}
    BY <1>1, <1>3 DEF CollectedIsSeen, Definition
  <2>1. /\ collected.without <=> \E b \in Seen : given.apis[b].condition = NoCondition
        /\ ~collected.without => collected.conditions = {given.apis[b].condition : b \in Seen}
        /\ collected.stages = Seen /\ collected.keys = Seen /\ collected.depends = Seen
    BY DEF IInv, CollectedIsSeen
  <2>2. /\ collected'.without <=> collected.without \/ a.condition = NoCondition
        /\ ~collected'.without =>
             collected'.conditions = collected.conditions \cup {a.condition}
        /\ defined' = Definition(collected')
        /\ collected'.stages = collected.stages \cup {api}
        /\ collected'.keys = collected.keys \cup {api}
        /\ collected'.depends = collected.depends \cup {api}
    BY <1>2, SharedStep
  <2>3. {given.apis[b].condition : b \in Seen \cup {api}}
          = {given.apis[b].condition : b \in Seen} \cup {a.condition}
    OBVIOUS
  <2> HIDE DEF a
  <2>4. (\E b \in Seen \cup {api} : given.apis[b].condition = NoCondition)
          <=> collected.without \/ a.condition = NoCondition
    BY <2>1 DEF a
  <2> QED
    BY <2>1, <2>2, <2>3, <2>4
<1>8. PoliciesAreSeen'
  <2> SUFFICES ASSUME ~failed, NEW b \in Seen \cup {api}
      PROVE  AtLeast(collected', given.apis[b])
    BY <1>1, <1>3 DEF PoliciesAreSeen, AtLeast, Care
  <2>1. /\ AtLeast(collected', a)
        /\ \A x \in Api : AtLeast(collected, x) => AtLeast(collected', x)
    BY <1>2, SharedStep
  <2>2. CASE b = api
    BY <2>1, <2>2
  <2>3. CASE b \in Seen
    <3>1. AtLeast(collected, given.apis[b])
      BY <2>3 DEF IInv, PoliciesAreSeen
    <3> QED
      BY <3>1, <2>1, <2>3, <1>2, <1>4, Zenon
  <2> QED
    BY <2>2, <2>3
<1>9. SharedIsSeen'
  <2> SUFFICES ASSUME ~failed
      PROVE  /\ Shared \in DOMAIN resources'
             /\ \A kind \in Kinds :
                  resources'[Shared][kind].attributes = Attributes(collected')
             /\ resources'[Shared]["UsagePlan"].apis = Seen \cup {api}
             /\ resources'[Shared]["UsagePlan"].depends = Seen \cup {api}
             /\ resources'[Shared]["ApiKey"].apis = Seen \cup {api}
    BY <1>1, <1>3 DEF SharedIsSeen, Attributes
  <2>1. collected'.stages = Seen \cup {api} /\ collected'.keys = Seen \cup {api}
        /\ collected'.depends = Seen \cup {api}
    BY <1>1, <1>3, <1>7 DEF CollectedIsSeen
  <2> QED
    BY <2>1, <1>2, SharedStep
<1>10. OwnAreSeen'
  <2>1. /\ DOMAIN resources' = DOMAIN resources \cup {Shared}
        /\ \A o \in DOMAIN resources : o # Shared => resources'[o] = resources[o]
    BY <1>2, SharedStep
  <2>2. \A o \in Apis : o # Shared
    BY TemplatesAssumption
  <2> QED
    BY <2>1, <2>2, <1>1 DEF IInv, OwnAreSeen
<1> QED
  BY <1>6, <1>7, <1>8, <1>9, <1>10 DEF IInv

(* Every step keeps the invariant.                                         *)
LEMMA NextIInv == IInv /\ [Next]_vars => IInv'
<1> SUFFICES ASSUME IInv, [Next]_vars PROVE IInv'
  OBVIOUS
<1>1. CASE UNCHANGED vars
  BY <1>1 DEF IInv, TypeOK, CollectedIsSeen, PoliciesAreSeen, SharedIsSeen, OwnAreSeen,
     Seen, UsersOf, Definition, Attributes, AtLeast, Care, vars
<1>2. ASSUME NEW api \in Apis, TranslateWithout(api) PROVE IInv'
  BY <1>2, NoneKeepsIInv
<1>3. ASSUME NEW api \in Apis, TranslatePerApi(api) PROVE IInv'
  BY <1>3, PerApiKeepsIInv
<1>4. ASSUME NEW api \in Apis, TranslateShared(api) PROVE IInv'
  BY <1>4, SharedKeepsIInv
<1>5. ASSUME NEW api \in Apis, SharedRaises(api) \/ TranslateFails(api) PROVE IInv'
  BY <1>5, FailureKeepsIInv
<1> QED
  BY <1>1, <1>2, <1>3, <1>4, <1>5 DEF Next

(* The inductive invariant.                                                *)
THEOREM SpecIInv == Spec => []IInv
  BY InitIInv, NextIInv, PTL DEF Spec

-----------------------------------------------------------------------------
(* What the invariant says once all APIs are translated.                   *)

(* Combined holds when the condition of one of the sharing APIs does.      *)
LEMMA SharedHolds ==
  ASSUME IInv, Returned, NEW truth \in SUBSET Conditions
  PROVE  UsersOf(Shared) # {} =>
           (Holds(truth, Attributes(collected).condition) <=>
              \E b \in UsersOf(Shared) : Holds(truth, given.apis[b].condition))
<1> SUFFICES ASSUME UsersOf(Shared) # {}
    PROVE  Holds(truth, Attributes(collected).condition) <=>
             \E b \in UsersOf(Shared) : Holds(truth, given.apis[b].condition)
  OBVIOUS
<1>1. ~failed /\ Seen = UsersOf(Shared)
  BY DEF Returned, Seen
<1>2. /\ collected.without <=> \E b \in UsersOf(Shared) : given.apis[b].condition = NoCondition
      /\ ~collected.without =>
           collected.conditions = {given.apis[b].condition : b \in UsersOf(Shared)}
      /\ defined = IF collected.without THEN {} ELSE collected.conditions
  BY <1>1 DEF IInv, CollectedIsSeen, Definition
<1>3. \A b \in UsersOf(Shared) : given.apis[b].condition \in Conditions \cup {NoCondition}
  BY TemplatesAssumption DEF IInv, TypeOK, Template, Api, UsersOf
<1>4. NoCondition \notin Conditions /\ Combined \notin Conditions /\ Combined # NoCondition
  BY TemplatesAssumption
<1>5. CASE collected.without
  BY <1>2, <1>5 DEF Attributes, Holds
<1>6. CASE ~collected.without
  <2>1. Attributes(collected).condition = Combined
    BY <1>2, <1>6 DEF Attributes
  <2>2. defined = {given.apis[b].condition : b \in UsersOf(Shared)}
    BY <1>2, <1>6
  <2>3. \A b \in UsersOf(Shared) : given.apis[b].condition \in Conditions
    BY <1>2, <1>3, <1>6
  <2>4. Holds(truth, Combined) <=> defined \cap truth # {}
    BY <1>4 DEF Holds
  <2>5. \A b \in UsersOf(Shared) :
          Holds(truth, given.apis[b].condition) <=> given.apis[b].condition \in truth
    BY <1>4, <2>3 DEF Holds
  <2> QED
    BY <2>1, <2>2, <2>4, <2>5
<1> QED
  BY <1>5, <1>6

(* Plans and keys are created exactly with the APIs they are for.          *)
LEMMA IInvPlanWithApis == IInv => PlanWithApis
<1> SUFFICES ASSUME IInv, Returned, NEW owner \in Apis \cup {Shared}, NEW kind \in Kinds,
                    NEW truth \in SUBSET Conditions
    PROVE  Created(truth, owner, kind) <=>
             \E b \in UsersOf(owner) : Holds(truth, given.apis[b].condition)
  BY DEF PlanWithApis
<1>1. CASE owner = Shared
  <2>1. ~failed /\ Seen = UsersOf(Shared)
    BY DEF Returned, Seen
  <2>2. /\ Shared \in DOMAIN resources <=> UsersOf(Shared) # {}
        /\ UsersOf(Shared) # {} =>
             resources[Shared][kind].attributes = Attributes(collected)
    BY <2>1 DEF IInv, SharedIsSeen
  <2>3. CASE UsersOf(Shared) = {}
    BY <1>1, <2>2, <2>3 DEF Created
  <2>4. CASE UsersOf(Shared) # {}
    BY <1>1, <2>2, <2>4, SharedHolds DEF Created
  <2> QED
    BY <2>3, <2>4
<1>2. CASE owner \in Apis
  <2>1. owner # Shared
    BY <1>2, TemplatesAssumption
  <2>2. UsersOf(owner) = {b \in {owner} : given.apis[b].usagePlan = "PER_API"}
    BY <2>1 DEF UsersOf
  <2>3. ~failed /\ owner \notin todo
    BY DEF Returned
  <2>4. /\ owner \in DOMAIN resources <=> given.apis[owner].usagePlan = "PER_API"
        /\ owner \in DOMAIN resources =>
             resources[owner][kind].attributes.condition = given.apis[owner].condition
    BY <1>2, <2>3 DEF IInv, OwnAreSeen
  <2> QED
    BY <2>2, <2>4 DEF Created
<1> QED
  BY <1>1, <1>2

(* Plans and keys are created exactly with the APIs they are for, for any  *)
(* APIs, conditions and order of translation.                              *)
THEOREM PlansFollowApis == Spec => []PlanWithApis
  BY SpecIInv, IInvPlanWithApis, PTL

(* The shared resources are for all APIs, with the most careful policies.  *)
LEMMA IInvSharedByAll == IInv => SharedByAll
<1> SUFFICES ASSUME IInv, Returned, UsersOf(Shared) # {} PROVE SharedByAll
  BY DEF SharedByAll
<1>1. ~failed /\ Seen = UsersOf(Shared)
  BY DEF Returned, Seen
<1>2. /\ \A kind \in Kinds : resources[Shared][kind].attributes = Attributes(collected)
      /\ resources[Shared]["UsagePlan"].apis = UsersOf(Shared)
      /\ resources[Shared]["UsagePlan"].depends = UsersOf(Shared)
      /\ resources[Shared]["ApiKey"].apis = UsersOf(Shared)
  BY <1>1 DEF IInv, SharedIsSeen
<1>3. \A b \in UsersOf(Shared) : AtLeast(collected, given.apis[b])
  BY <1>1 DEF IInv, PoliciesAreSeen
<1>4. /\ Attributes(collected).deletion = collected.deletion
      /\ Attributes(collected).update = collected.update
  BY DEF Attributes
<1> QED
  BY <1>2, <1>3, <1>4 DEF SharedByAll, AtLeast

(* No API is forgotten and no policy lost, whichever API comes last.       *)
THEOREM NoApiIsForgotten == Spec => []SharedByAll
  BY SpecIInv, IInvSharedByAll, PTL

-----------------------------------------------------------------------------
(* The same with HTTP and WebSocket APIs among the REST APIs.              *)

(* Other APIs leave the usage plans alone, but may fail.                   *)
LEMMA OthersKeepIInv ==
  ASSUME IInv, NEW api \in OtherApis, TranslateHttpApi(api) \/ TranslateWebSocketApi(api)
  PROVE  IInv'
<1>1. /\ UNCHANGED <<given, todo, collected, defined, resources>>
      /\ failed' = failed \/ failed' = TRUE
  <2>1. CASE TranslateHttpApi(api)
    BY <2>1 DEF TranslateHttpApi, TakeOther
  <2>2. CASE TranslateWebSocketApi(api)
    BY <2>2 DEF TranslateWebSocketApi, TakeOther
  <2> QED
    BY <2>1, <2>2
<1>2. CASE failed' = failed
  BY <1>1, <1>2, NextIInv DEF vars
<1>3. CASE failed' = TRUE
  <2>1. TypeOK'
    BY <1>1, <1>3 DEF IInv, TypeOK
  <2>2. CollectedIsSeen' /\ PoliciesAreSeen' /\ SharedIsSeen' /\ OwnAreSeen'
    BY <1>3, Zenon DEF CollectedIsSeen, PoliciesAreSeen, SharedIsSeen, OwnAreSeen
  <2> QED
    BY <2>1, <2>2 DEF IInv
<1> QED
  BY <1>1, <1>2, <1>3

(* The invariant of the usage plans is one of ApiResources.                *)
LEMMA ResourcesIInv == IInv /\ [ResourcesNext]_allVars => IInv'
<1> SUFFICES ASSUME IInv, [ResourcesNext]_allVars PROVE IInv'
  OBVIOUS
<1>1. CASE UNCHANGED allVars
  BY <1>1, NextIInv DEF allVars
<1>2. ASSUME NEW api \in Apis, TranslateRestApi(api) PROVE IInv'
  <2>1. Next
    BY <1>2 DEF TranslateRestApi, Next
  <2> QED
    BY <2>1, NextIInv
<1>3. ASSUME NEW api \in Apis, RestApiFails(api) PROVE IInv'
  BY <1>3, FailureKeepsIInv DEF RestApiFails
<1>4. ASSUME NEW api \in OtherApis, TranslateHttpApi(api) \/ TranslateWebSocketApi(api) PROVE IInv'
  BY <1>4, OthersKeepIInv
<1> QED
  BY <1>1, <1>2, <1>3, <1>4 DEF ResourcesNext

(* Usage plans follow their APIs whatever other APIs the template has.     *)
THEOREM PlansFollowAmongApis == ResourcesSpec => []PlanWithApis
<1>1. ResourcesInit => IInv
  BY InitIInv DEF ResourcesInit
<1> QED
  BY <1>1, ResourcesIInv, IInvPlanWithApis, PTL DEF ResourcesSpec

(* No API is forgotten there either, and no policy is lost.                *)
THEOREM NoApiIsForgottenAmongApis == ResourcesSpec => []SharedByAll
<1>1. ResourcesInit => IInv
  BY InitIInv DEF ResourcesInit
<1> QED
  BY <1>1, ResourcesIInv, IInvSharedByAll, PTL DEF ResourcesSpec

-----------------------------------------------------------------------------
(* What the template under construction holds of the APIs that are done.   *)

(* The domain an API has, its base path mappings, and with its stage what  *)
(* has the API's name in its ids.                                          *)
DomainIdOf(api) ==
  IF KindOf(api) = RestKind /\ ~IsPrivateDomain(DomainFor(api))
    THEN ApiDomainName(DomainFor(api).name) ELSE ApiDomainNameV2(DomainFor(api).name)
DomainOfOwn(api) == DomainResource(AttributesFor(api), DomainFor(api), EndpointOf(DomainFor(api)))

MappingsOf(api) ==
  CASE DomainFor(api) = NoDomain -> <<>>
    [] DomainFor(api) # NoDomain /\ KindOf(api) # RestKind ->
         ApiMappings(api, AttributesFor(api), DomainFor(api))
    [] DomainFor(api) # NoDomain /\ KindOf(api) = RestKind /\ IsPrivateDomain(DomainFor(api)) ->
         RestMappingsV2(api, AttributesFor(api), DomainFor(api))
    [] OTHER -> RestMappings(api, AttributesFor(api), DomainFor(api))

SelfOf(api) ==
  IF KindOf(api) = WebSocketKind
    THEN WebSocketResources(api, AttributesFor(api), custom.webSocket[api])
    ELSE RestStage(api)
OwnOf(api) == SelfOf(api) ++ MappingsOf(api)

(* APIs of the template, and those that were translated.                   *)
Present == {api \in AllApis : api \in OtherApis => custom.kind[api] # Nothing}
Done == Present \ (todo \cup waiting)

(* The group of its records, and where they lead.                          *)
GroupIdOf(api) ==
  IF KindOf(api) = RestKind /\ RouteFor(api).separate
    THEN SeparateGroupId(DomainFor(api), RouteFor(api)) ELSE RecordSetGroupId(RouteFor(api))

TargetOf(api) ==
  CASE EndpointOf(DomainFor(api)) = "PRIVATE" -> "VpcEndpoint"
    [] EndpointOf(DomainFor(api)) = "EDGE" /\ RouteFor(api).distribution # Nothing -> RouteFor(api).distribution
    [] OTHER -> DomainIdOf(api)

(* The template stays, and the Route53 maps but for their distributions.   *)
Frame ==
  /\ given \in Templates /\ custom \in Customs(given)
  /\ todo \subseteq Apis /\ waiting \subseteq {api \in OtherApis : custom.kind[api] # Nothing}
  /\ DOMAIN maps = DOMAIN custom.maps
  /\ \A m \in DOMAIN maps :
       /\ DOMAIN maps[m] = DOMAIN custom.maps[m]
       /\ \A x \in {"zone", "separate", "ipv6"} : maps[m][x] = custom.maps[m][x]

(* What is made for an API alone is there as it was made; its domain was   *)
(* made last for it or for another API of the domain.                      *)
OwnMade == \A api \in Done : \A id \in DOMAIN OwnOf(api) : id \in DOMAIN made /\ made[id] = OwnOf(api)[id]
DomainsMade ==
  \A api \in Done \cap ApisWithDomain :
    /\ DomainIdOf(api) \in DOMAIN made
    /\ \E b \in ApisWithDomain :
         DomainIdOf(b) = DomainIdOf(api) /\ made[DomainIdOf(api)] = DomainOfOwn(b)
WebSocketsValid == \A api \in Done \cap WebSocketApis : ~WebSocketInvalid(custom.webSocket[api], FALSE)

(* A map has the distribution it was given, or that of an EDGE domain; the *)
(* groups that are noted are those made, each with the records of the APIs *)
(* of its zone that are done.                                              *)
RecordsIn(records) == {records[i] : i \in DOMAIN records}
Recorded(records, api) ==
  \A type \in TypesOf(RouteFor(api)) : Record(DomainFor(api).name, type, TargetOf(api)) \in RecordsIn(records)
MapsTold ==
  \A m \in DOMAIN maps :
    \/ maps[m].distribution = custom.maps[m].distribution
    \/ /\ custom.maps[m].distribution = Nothing
       /\ \E b \in ApisWithRecords :
            /\ DomainFor(b).route = m /\ EndpointOf(DomainFor(b)) = "EDGE"
            /\ maps[m].distribution = ApiDomainName(DomainFor(b).name)
GroupsTold ==
  \A id \in DOMAIN groups :
    /\ id \in DOMAIN made /\ made[id] = groups[id]
    /\ groups[id].records \in Seq(RecordsIn(groups[id].records))
    /\ \E b \in ApisWithRecords :
         /\ KindOf(b) # WebSocketKind /\ id = RecordSetGroupId(RouteFor(b))
         /\ groups[id] = RecordSetGroup(ConditionOf(b), RouteFor(b), groups[id].records)
GroupsKept ==
  \A api \in Done \cap ApisWithRecords :
    KindOf(api) # WebSocketKind /\ ~(KindOf(api) = RestKind /\ RouteFor(api).separate) =>
      GroupIdOf(api) \in DOMAIN groups
RecordsTold ==
  \A api \in Done \cap ApisWithRecords :
    /\ GroupIdOf(api) \in DOMAIN made
    /\ \E c \in {NoCondition, ConditionOf(api)} :
         made[GroupIdOf(api)] = RecordSetGroup(c, RouteFor(api), made[GroupIdOf(api)].records)
    /\ Recorded(made[GroupIdOf(api)].records, api)

Agree == ZonesAgree /\ DomainsAgree /\ DistributionsApart
ResourcesMade == OwnMade /\ DomainsMade /\ WebSocketsValid
RecordsMade == MapsTold /\ GroupsTold /\ GroupsKept /\ RecordsTold
ResourcesInv == Frame /\ (~failed => ResourcesMade /\ (Agree => RecordsMade))

-----------------------------------------------------------------------------
(* Resources by id.                                                        *)

LEMMA OnlyOne ==
  ASSUME NEW id, NEW resource
  PROVE  DOMAIN Only(id, resource) = {id} /\ Only(id, resource)[id] = resource
  BY DEF Only

LEMMA Merged ==
  ASSUME NEW f, NEW g
  PROVE  /\ DOMAIN (f ++ g) = DOMAIN f \cup DOMAIN g
         /\ \A id \in DOMAIN f : (f ++ g)[id] = f[id]
         /\ \A id \in DOMAIN g \ DOMAIN f : (f ++ g)[id] = g[id]
  BY DEF ++

(* One more resource over others.                                          *)
LEMMA OneMore ==
  ASSUME NEW id, NEW resource, NEW g
  PROVE  DOMAIN (Only(id, resource) ++ g) = DOMAIN g \cup {id}
  BY DEF ++, Only

(* What ids begin with.                                                    *)
LEMMA IdsBegin ==
  ASSUME NEW api
  PROVE  /\ DomainIdOf(api)[1] \in {"ApiGatewayDomainName", "ApiGatewayDomainNameV2"}
         /\ DomainIdOf(api)[2] = DomainFor(api).name
         /\ GroupIdOf(api)[1] = "RecordSetGroup"
         /\ GroupIdOf(api)[2] = RouteFor(api).zone
         /\ StageOf(api)[1] = api
         /\ \A c : \A id \in DOMAIN AccessAssociation(c, DomainFor(api)) :
              id[1] = "DomainNameAccessAssociation"
<1>1. /\ DomainIdOf(api)[1] \in {"ApiGatewayDomainName", "ApiGatewayDomainNameV2"}
      /\ DomainIdOf(api)[2] = DomainFor(api).name
  BY DEF DomainIdOf, ApiDomainName, ApiDomainNameV2
<1>2. GroupIdOf(api)[1] = "RecordSetGroup" /\ GroupIdOf(api)[2] = RouteFor(api).zone
  BY DEF GroupIdOf, SeparateGroupId, RecordSetGroupId
<1>3. StageOf(api)[1] = api
  BY DEF StageOf
<1>4. ASSUME NEW c, NEW id \in DOMAIN AccessAssociation(c, DomainFor(api))
      PROVE  id[1] = "DomainNameAccessAssociation"
  <2>1. DOMAIN AccessAssociation(c, DomainFor(api)) \subseteq {<<"DomainNameAccessAssociation", DomainFor(api).name>>}
    <3>1. DOMAIN <<>> = {}
      OBVIOUS
    <3>2. CASE DomainFor(api).access
      BY <3>2, OnlyOne DEF AccessAssociation
    <3>3. CASE ~DomainFor(api).access
      BY <3>1, <3>3 DEF AccessAssociation
    <3> QED
      BY <3>2, <3>3
  <2> QED
    BY <2>1
<1> QED
  BY <1>1, <1>2, <1>3, <1>4

LEMMA MappingIds ==
  ASSUME NEW api
  PROVE  \A id \in DOMAIN MappingsOf(api) : id[1] = api
<1> DEFINE d == DomainFor(api)
           A == AttributesFor(api)
<1>1. DOMAIN RestMappings(api, A, d) =
        IF d.paths = <<>> THEN {<<api, NoPath, "BasePathMapping">>}
        ELSE {MappingId(api, d.paths[i]) : i \in DOMAIN d.paths}
  BY OnlyOne DEF RestMappings, Mappings
<1>2. DOMAIN RestMappingsV2(api, A, d) = DOMAIN RestMappings(api, A, d)
  BY <1>1, OnlyOne DEF RestMappingsV2, Mappings
<1>3. DOMAIN ApiMappings(api, A, d) = DOMAIN RestMappings(api, A, d)
  BY <1>1, OnlyOne DEF ApiMappings, Mappings
<1>4. \A p : MappingId(api, p)[1] = api
  BY DEF MappingId
<1>5. \A id \in DOMAIN RestMappings(api, A, d) : id[1] = api
  BY <1>1, <1>4
<1>6. DOMAIN <<>> = {}
  OBVIOUS
<1> HIDE DEF d, A
<1>7. \/ DOMAIN MappingsOf(api) = {}
      \/ DOMAIN MappingsOf(api) = DOMAIN RestMappings(api, A, d)
  BY <1>2, <1>3, <1>6 DEF MappingsOf, d, A
<1> QED
  BY <1>5, <1>7

(* What the template says of an API.                                       *)
LEMMA ApiParts ==
  ASSUME Frame, NEW api \in Present
  PROVE  /\ api \in AllApis /\ api \notin GeneratedNames
         /\ KindOf(api) \in {RestKind, HttpKind, WebSocketKind}
         /\ KindOf(api) = RestKind <=> api \in Apis
         /\ KindOf(api) = WebSocketKind <=> api \in WebSocketApis
         /\ KindOf(api) = WebSocketKind =>
              custom.webSocket[api].routes \in Seq(RoutesOf(custom.webSocket[api]))
         /\ api \in ApisWithDomain <=> DomainFor(api) # NoDomain
         /\ api \in ApisWithDomain => DomainFor(api).paths \in Seq(PathsIn(DomainFor(api)))
         /\ api \in ApisWithRecords => DomainFor(api).route \in DOMAIN maps
<1>1. given \in Templates /\ custom \in Customs(given) /\ DOMAIN maps = DOMAIN custom.maps
  BY DEF Frame
<1>2. /\ api \in OtherApis =>
           /\ custom.kind[api] \in {Nothing, HttpKind, WebSocketKind}
           /\ custom.kind[api] = WebSocketKind =>
                custom.webSocket[api].routes \in Seq(RoutesOf(custom.webSocket[api]))
      /\ WrittenDomain(custom.domain[api], custom.maps)
      /\ api \in AllApis /\ api \notin GeneratedNames /\ (api \in OtherApis => api \notin Apis)
      /\ api \in OtherApis => custom.kind[api] # Nothing
  BY <1>1, ResourcesAssumption DEF Present, AllApis
<1>3. /\ api \in Apis => KindOf(api) = RestKind
      /\ api \in OtherApis => KindOf(api) = custom.kind[api] /\ KindOf(api) \in {HttpKind, WebSocketKind}
      /\ RestKind \notin {HttpKind, WebSocketKind}
      /\ api \in Apis \/ api \in OtherApis
  BY <1>2 DEF KindOf, AllApis, RestKind, HttpKind, WebSocketKind
<1>4. api \in WebSocketApis <=> api \in OtherApis /\ custom.kind[api] = WebSocketKind
  BY DEF WebSocketApis
<1>5. api \in ApisWithDomain <=> DomainFor(api) # NoDomain
  BY <1>2 DEF ApisWithDomain
<1>6. api \in ApisWithDomain =>
        /\ DomainFor(api).paths \in Seq(PathsIn(DomainFor(api)))
        /\ DomainFor(api).route \in DOMAIN maps \cup {NoRoute}
  BY <1>1, <1>2, <1>5 DEF WrittenDomain, DomainFor
<1>7. api \in ApisWithRecords => api \in ApisWithDomain /\ DomainFor(api).route # NoRoute
  BY DEF ApisWithRecords
<1> QED
  BY <1>2, <1>3, <1>4, <1>5, <1>6, <1>7

LEMMA MapParts ==
  ASSUME Frame, NEW m \in DOMAIN maps
  PROVE  /\ m \in DOMAIN custom.maps
         /\ DOMAIN maps[m] = {"zone", "separate", "ipv6", "distribution"}
         /\ maps[m].zone = custom.maps[m].zone
         /\ maps[m].separate = custom.maps[m].separate
         /\ maps[m].ipv6 = custom.maps[m].ipv6
<1>1. given \in Templates /\ custom \in Customs(given) /\ m \in DOMAIN custom.maps
  BY DEF Frame
<1>2. WrittenMap(custom.maps[m])
  BY <1>1, ResourcesAssumption
<1> QED
  BY <1>1, <1>2 DEF Frame, WrittenMap

(* What is there of an API's domain before its records.                    *)
WholeOf(api) ==
  Only(DomainIdOf(api), DomainOfOwn(api))
    ++ (IF KindOf(api) = RestKind /\ IsPrivateDomain(DomainFor(api))
          THEN MappingsOf(api) ++ AccessAssociation(AttributesFor(api), DomainFor(api))
          ELSE MappingsOf(api))

(* What is made of the domain of an API, and with its records.             *)
LEMMA DomainMadeIs ==
  ASSUME Frame, NEW api \in Present, DomainFor(api) # NoDomain, ~DomainMade(api).raised
  PROVE  /\ KindOf(api) = RestKind =>
              DomainMade(api) =
                WithRecords(WholeOf(api), AttributesFor(api), DomainFor(api), DomainIdOf(api), GroupsFor(api), maps)
         /\ KindOf(api) # RestKind =>
              /\ EndpointOf(DomainFor(api)) = "REGIONAL"
              /\ DomainMade(api) =
                   WithApi2Records(WholeOf(api), AttributesFor(api), DomainFor(api), DomainIdOf(api), GroupsFor(api), maps)
         /\ EndpointOf(DomainFor(api)) \in {"EDGE", "REGIONAL", "PRIVATE"}
         /\ KindOf(api) = RestKind =>
              (EndpointOf(DomainFor(api)) = "PRIVATE" <=> IsPrivateDomain(DomainFor(api)))
<1> DEFINE d == DomainFor(api)
           A == AttributesFor(api)
           G == GroupsFor(api)
<1>1. CASE KindOf(api) # RestKind
  <2>1. DomainMade(api) = ConstructApi2Domain(api, A, d, G, maps)
    BY <1>1 DEF DomainMade, DomainOf
  <2>2. EndpointOf(d) = "REGIONAL" /\ d.ok /\ ~InvalidPath(d)
    BY <2>1 DEF ConstructApi2Domain, Raised
  <2>3. WholeOf(api) = Only(ApiDomainNameV2(d.name), DomainResource(A, d, "REGIONAL")) ++ ApiMappings(api, A, d)
    BY <1>1, <2>2 DEF WholeOf, DomainIdOf, DomainOfOwn, MappingsOf
  <2>4. DomainIdOf(api) = ApiDomainNameV2(d.name)
    BY <1>1 DEF DomainIdOf
  <2> QED
    BY <1>1, <2>1, <2>2, <2>3, <2>4 DEF ConstructApi2Domain
<1>2. CASE KindOf(api) = RestKind /\ IsPrivateDomain(d)
  <2>1. DomainMade(api) = ConstructApiDomainV2(api, A, d, G, maps)
    BY <1>2 DEF DomainMade, DomainOf
  <2>2. EndpointOf(d) = "PRIVATE" /\ d.ok
    BY <1>2, <2>1 DEF ConstructApiDomainV2, Raised, IsPrivateDomain, EndpointOf
  <2>3. WholeOf(api) =
          Only(ApiDomainNameV2(d.name), DomainResource(A, d, "PRIVATE"))
            ++ (RestMappingsV2(api, A, d) ++ AccessAssociation(A, d))
    BY <1>2, <2>2 DEF WholeOf, DomainIdOf, DomainOfOwn, MappingsOf
  <2>4. DomainIdOf(api) = ApiDomainNameV2(d.name)
    BY <1>2 DEF DomainIdOf
  <2> QED
    BY <1>2, <2>1, <2>2, <2>3, <2>4 DEF ConstructApiDomainV2
<1>3. CASE KindOf(api) = RestKind /\ ~IsPrivateDomain(d)
  <2>1. DomainMade(api) = ConstructApiDomain(api, A, d, G, maps)
    BY <1>3 DEF DomainMade, DomainOf
  <2>2. EndpointOf(d) \in {"EDGE", "REGIONAL"} /\ d.ok
    BY <2>1 DEF ConstructApiDomain, Raised
  <2>3. WholeOf(api) = Only(ApiDomainName(d.name), DomainResource(A, d, EndpointOf(d))) ++ RestMappings(api, A, d)
    BY <1>3 DEF WholeOf, DomainIdOf, DomainOfOwn, MappingsOf
  <2>4. DomainIdOf(api) = ApiDomainName(d.name)
    BY <1>3 DEF DomainIdOf
  <2> QED
    BY <1>3, <2>1, <2>2, <2>3, <2>4 DEF ConstructApiDomain
<1> QED
  BY <1>1, <1>2, <1>3

(* What the records add to what there is: a group, of the API alone or of  *)
(* its zone.                                                               *)
LEMMA RecordsAre ==
  ASSUME NEW whole, NEW c, NEW d, NEW domain, NEW G, NEW M, d.route # NoRoute,
         ~WithRecords(whole, c, d, domain, G, M).raised
  PROVE  /\ M[d.route].zone # NoZone
         /\ M[d.route].separate =>
              WithRecords(whole, c, d, domain, G, M) =
                Constructed(
                  Only(SeparateGroupId(d, M[d.route]),
                       RecordSetGroup(c, M[d.route],
                         RecordSetsFor(d, AliasTarget(d, domain, NoteDistribution(M, d, domain)), M[d.route])))
                    ++ whole,
                  G, NoteDistribution(M, d, domain))
         /\ ~M[d.route].separate =>
              WithRecords(whole, c, d, domain, G, M) =
                Constructed(
                  Only(RecordSetGroupId(M[d.route]),
                       GroupWith(G, c, M[d.route],
                         RecordSetsFor(d, AliasTarget(d, domain, NoteDistribution(M, d, domain)), M[d.route]))
                           [RecordSetGroupId(M[d.route])])
                    ++ whole,
                  GroupWith(G, c, M[d.route],
                    RecordSetsFor(d, AliasTarget(d, domain, NoteDistribution(M, d, domain)), M[d.route])),
                  NoteDistribution(M, d, domain))
<1>1. Raised(G, M).raised
  BY DEF Raised
<1> QED
  BY <1>1 DEF WithRecords

LEMMA Api2RecordsAre ==
  ASSUME NEW whole, NEW c, NEW d, NEW domain, NEW G, NEW M, d.route # NoRoute,
         ~WithApi2Records(whole, c, d, domain, G, M).raised
  PROVE  /\ M[d.route].zone # NoZone
         /\ WithApi2Records(whole, c, d, domain, G, M) =
              Constructed(
                Only(RecordSetGroupId(M[d.route]),
                     GroupWith(G, c, M[d.route], RecordSetsFor(d, domain, M[d.route]))
                         [RecordSetGroupId(M[d.route])])
                  ++ whole,
                GroupWith(G, c, M[d.route], RecordSetsFor(d, domain, M[d.route])), M)
<1>1. Raised(G, M).raised
  BY DEF Raised
<1> QED
  BY <1>1 DEF WithApi2Records, Api2RecordSets, Api2AliasTarget

(* The maps after an API, its records, and whether its group is its own.   *)
NotedBy(api) ==
  IF KindOf(api) = RestKind /\ api \in ApisWithRecords
    THEN NoteDistribution(maps, DomainFor(api), DomainIdOf(api)) ELSE maps
RecordsOf(api) ==
  RecordSetsFor(DomainFor(api), AliasTarget(DomainFor(api), DomainIdOf(api), NotedBy(api)), RouteFor(api))
Alone(api) == KindOf(api) = RestKind /\ RouteFor(api).separate
GroupsWith(api) == GroupWith(GroupsFor(api), AttributesFor(api), RouteFor(api), RecordsOf(api))

(* Only the distribution of a map differs from what the template says.     *)
LEMMA RouteParts ==
  ASSUME Frame, NEW api \in Present, api \in ApisWithRecords
  PROVE  /\ RecordSetGroupId(maps[DomainFor(api).route]) = RecordSetGroupId(RouteFor(api))
         /\ SeparateGroupId(DomainFor(api), maps[DomainFor(api).route]) = SeparateGroupId(DomainFor(api), RouteFor(api))
         /\ \A c, r : RecordSetGroup(c, maps[DomainFor(api).route], r) = RecordSetGroup(c, RouteFor(api), r)
         /\ \A t : RecordSetsFor(DomainFor(api), t, maps[DomainFor(api).route]) = RecordSetsFor(DomainFor(api), t, RouteFor(api))
         /\ \A G, c, r : GroupWith(G, c, maps[DomainFor(api).route], r) = GroupWith(G, c, RouteFor(api), r)
         /\ maps[DomainFor(api).route].separate = RouteFor(api).separate
<1> DEFINE m == DomainFor(api).route
<1>1. m \in DOMAIN maps
  BY ApiParts
<1>2. /\ maps[m].zone = RouteFor(api).zone
      /\ maps[m].separate = RouteFor(api).separate
      /\ maps[m].ipv6 = RouteFor(api).ipv6
  BY <1>1, MapParts DEF RouteFor
<1> HIDE DEF m
<1>3. RecordSetGroupId(maps[m]) = RecordSetGroupId(RouteFor(api))
  BY <1>2 DEF RecordSetGroupId
<1>4. SeparateGroupId(DomainFor(api), maps[m]) = SeparateGroupId(DomainFor(api), RouteFor(api))
  BY <1>2 DEF SeparateGroupId
<1>5. \A c, r : RecordSetGroup(c, maps[m], r) = RecordSetGroup(c, RouteFor(api), r)
  BY <1>2 DEF RecordSetGroup
<1>6. \A t : RecordSetsFor(DomainFor(api), t, maps[m]) = RecordSetsFor(DomainFor(api), t, RouteFor(api))
  BY <1>2 DEF RecordSetsFor
<1>7. \A G, c, r : GroupWith(G, c, maps[m], r) = GroupWith(G, c, RouteFor(api), r)
  BY <1>3, <1>5 DEF GroupWith
<1> QED
  BY <1>2, <1>3, <1>4, <1>5, <1>6, <1>7 DEF m

LEMMA WholeIs ==
  ASSUME Frame, NEW api \in Present
  PROVE  /\ DomainIdOf(api) \in DOMAIN WholeOf(api)
         /\ WholeOf(api)[DomainIdOf(api)] = DomainOfOwn(api)
         /\ \A id \in DOMAIN MappingsOf(api) :
              id \in DOMAIN WholeOf(api) /\ WholeOf(api)[id] = MappingsOf(api)[id]
         /\ \A id \in DOMAIN WholeOf(api) :
              \/ id = DomainIdOf(api) \/ id \in DOMAIN MappingsOf(api)
              \/ id[1] = "DomainNameAccessAssociation"
<1> DEFINE access == AccessAssociation(AttributesFor(api), DomainFor(api))
           rest == IF KindOf(api) = RestKind /\ IsPrivateDomain(DomainFor(api))
                     THEN MappingsOf(api) ++ access ELSE MappingsOf(api)
<1>1. /\ \A id \in DOMAIN MappingsOf(api) : id \in DOMAIN rest /\ rest[id] = MappingsOf(api)[id]
      /\ \A id \in DOMAIN rest : id \in DOMAIN MappingsOf(api) \/ id[1] = "DomainNameAccessAssociation"
  <2>1. \A id \in DOMAIN access : id[1] = "DomainNameAccessAssociation"
    BY IdsBegin
  <2> HIDE DEF access
  <2>2. /\ DOMAIN (MappingsOf(api) ++ access) = DOMAIN MappingsOf(api) \cup DOMAIN access
        /\ \A id \in DOMAIN MappingsOf(api) : (MappingsOf(api) ++ access)[id] = MappingsOf(api)[id]
    BY Merged
  <2> QED
    BY <2>1, <2>2
<1>2. \A id \in DOMAIN MappingsOf(api) : id # DomainIdOf(api)
  <2>1. api \notin GeneratedNames
    BY ApiParts
  <2> QED
    BY <2>1, MappingIds, IdsBegin DEF GeneratedNames
<1>3. WholeOf(api) = Only(DomainIdOf(api), DomainOfOwn(api)) ++ rest
  BY DEF WholeOf
<1> HIDE DEF rest
<1>4. /\ DOMAIN WholeOf(api) = DOMAIN rest \cup {DomainIdOf(api)}
      /\ WholeOf(api)[DomainIdOf(api)] = DomainOfOwn(api)
      /\ \A id \in DOMAIN rest : id # DomainIdOf(api) => WholeOf(api)[id] = rest[id]
  <2>1. PICK i, d, g : i = DomainIdOf(api) /\ d = DomainOfOwn(api) /\ g = rest
    OBVIOUS
  <2>2. /\ DOMAIN (Only(i, d) ++ g) = DOMAIN g \cup {i}
        /\ (Only(i, d) ++ g)[i] = d
        /\ \A id \in DOMAIN g : id # i => (Only(i, d) ++ g)[id] = g[id]
    BY DEF ++, Only
  <2> QED
    BY <1>3, <2>1, <2>2
<1> QED
  BY <1>1, <1>2, <1>4

(* What the construction of an API's domain leaves.                        *)
LEMMA DomainLeaves ==
  ASSUME Frame, NEW api \in Present, ~DomainMade(api).raised, api \in ApisWithDomain
  PROVE  /\ DomainMade(api).maps = NotedBy(api)
         /\ api \notin ApisWithRecords =>
              DomainMade(api).groups = GroupsFor(api) /\ DomainMade(api).made = WholeOf(api)
         /\ api \in ApisWithRecords =>
              /\ RouteFor(api).zone # NoZone
              /\ Alone(api) =>
                   /\ DomainMade(api).groups = GroupsFor(api)
                   /\ DomainMade(api).made =
                        Only(GroupIdOf(api), RecordSetGroup(AttributesFor(api), RouteFor(api), RecordsOf(api)))
                          ++ WholeOf(api)
              /\ ~Alone(api) =>
                   /\ DomainMade(api).groups = GroupsWith(api)
                   /\ DomainMade(api).made =
                        Only(GroupIdOf(api), GroupsWith(api)[GroupIdOf(api)]) ++ WholeOf(api)
<1> DEFINE d == DomainFor(api)
           A == AttributesFor(api)
           G == GroupsFor(api)
           D == DomainIdOf(api)
           W == WholeOf(api)
<1>1. d # NoDomain
  BY ApiParts
<1>2. /\ KindOf(api) = RestKind => DomainMade(api) = WithRecords(W, A, d, D, G, maps)
      /\ KindOf(api) # RestKind =>
           EndpointOf(d) = "REGIONAL" /\ DomainMade(api) = WithApi2Records(W, A, d, D, G, maps)
  BY <1>1, DomainMadeIs
<1>3. api \in ApisWithRecords <=> d.route # NoRoute
  BY DEF ApisWithRecords
<1>4. ASSUME api \notin ApisWithRecords
      PROVE  DomainMade(api) = Constructed(W, G, maps) /\ NotedBy(api) = maps
  BY <1>2, <1>3, <1>4 DEF WithRecords, WithApi2Records, NotedBy
<1>5. ASSUME api \in ApisWithRecords, KindOf(api) = RestKind
      PROVE  /\ maps[d.route].zone # NoZone
             /\ Alone(api) =>
                  DomainMade(api) =
                    Constructed(Only(GroupIdOf(api), RecordSetGroup(A, RouteFor(api), RecordsOf(api))) ++ W, G, NotedBy(api))
             /\ ~Alone(api) =>
                  DomainMade(api) =
                    Constructed(Only(GroupIdOf(api), GroupsWith(api)[GroupIdOf(api)]) ++ W, GroupsWith(api), NotedBy(api))
  <2>1. NotedBy(api) = NoteDistribution(maps, d, D)
    BY <1>5 DEF NotedBy
  <2>2. RecordsOf(api) = RecordSetsFor(d, AliasTarget(d, D, NoteDistribution(maps, d, D)), maps[d.route])
    BY <2>1, <1>5, RouteParts DEF RecordsOf
  <2>3. GroupIdOf(api) = IF maps[d.route].separate THEN SeparateGroupId(d, maps[d.route]) ELSE RecordSetGroupId(maps[d.route])
    BY <1>5, RouteParts DEF GroupIdOf
  <2>4. maps[d.route].separate <=> Alone(api)
    BY <1>5, RouteParts DEF Alone
  <2>5. /\ RecordSetGroup(A, RouteFor(api), RecordsOf(api)) = RecordSetGroup(A, maps[d.route], RecordsOf(api))
        /\ GroupsWith(api) = GroupWith(G, A, maps[d.route], RecordsOf(api))
    BY <1>5, RouteParts DEF GroupsWith
  <2>6. d.route # NoRoute /\ DomainMade(api) = WithRecords(W, A, d, D, G, maps) /\ ~WithRecords(W, A, d, D, G, maps).raised
    BY <1>2, <1>3, <1>5
  <2>7. maps[d.route].zone # NoZone
    BY <2>6, RecordsAre
  <2>8. ASSUME Alone(api)
         PROVE  DomainMade(api) =
                  Constructed(Only(GroupIdOf(api), RecordSetGroup(A, RouteFor(api), RecordsOf(api))) ++ W, G, NotedBy(api))
    BY <2>1, <2>2, <2>3, <2>4, <2>5, <2>6, <2>8, RecordsAre
  <2>9. ASSUME ~Alone(api)
         PROVE  DomainMade(api) =
                  Constructed(Only(GroupIdOf(api), GroupsWith(api)[GroupIdOf(api)]) ++ W, GroupsWith(api), NotedBy(api))
    BY <2>1, <2>2, <2>3, <2>4, <2>5, <2>6, <2>9, RecordsAre
  <2> QED
    BY <2>7, <2>8, <2>9
<1>6. ASSUME api \in ApisWithRecords, KindOf(api) # RestKind
      PROVE  /\ maps[d.route].zone # NoZone
             /\ ~Alone(api)
             /\ DomainMade(api) =
                  Constructed(Only(GroupIdOf(api), GroupsWith(api)[GroupIdOf(api)]) ++ W, GroupsWith(api), NotedBy(api))
  <2>1. NotedBy(api) = maps /\ ~Alone(api)
    BY <1>6 DEF NotedBy, Alone
  <2>2. AliasTarget(d, D, maps) = D
    BY <1>2, <1>6 DEF AliasTarget
  <2>3. RecordsOf(api) = RecordSetsFor(d, D, maps[d.route])
    BY <2>1, <2>2, <1>6, RouteParts DEF RecordsOf
  <2>4. GroupIdOf(api) = RecordSetGroupId(maps[d.route])
    BY <1>6, RouteParts DEF GroupIdOf
  <2>5. GroupsWith(api) = GroupWith(G, A, maps[d.route], RecordsOf(api))
    BY <1>6, RouteParts DEF GroupsWith
  <2>6. d.route # NoRoute /\ DomainMade(api) = WithApi2Records(W, A, d, D, G, maps) /\ ~WithApi2Records(W, A, d, D, G, maps).raised
    BY <1>2, <1>3, <1>6
  <2> QED
    BY <2>1, <2>3, <2>4, <2>5, <2>6, Api2RecordsAre
<1>7. api \in ApisWithRecords => maps[d.route].zone = RouteFor(api).zone
  BY ApiParts, MapParts DEF RouteFor
<1> QED
  BY <1>4, <1>5, <1>6, <1>7 DEF Constructed

(* What is made of the domain of an API, resource by resource.             *)
LEMMA DomainParts ==
  ASSUME Frame, NEW api \in Present, ~DomainMade(api).raised
  PROVE  /\ DomainMade(api).maps = NotedBy(api)
         /\ api \notin ApisWithRecords \/ Alone(api) => DomainMade(api).groups = GroupsFor(api)
         /\ api \in ApisWithRecords /\ ~Alone(api) => DomainMade(api).groups = GroupsWith(api)
         /\ \A id \in DOMAIN MappingsOf(api) :
              id \in DOMAIN DomainMade(api).made /\ DomainMade(api).made[id] = MappingsOf(api)[id]
         /\ api \in ApisWithDomain =>
              /\ DomainIdOf(api) \in DOMAIN DomainMade(api).made
              /\ DomainMade(api).made[DomainIdOf(api)] = DomainOfOwn(api)
         /\ api \in ApisWithRecords =>
              /\ GroupIdOf(api) \in DOMAIN DomainMade(api).made
              /\ DomainMade(api).made[GroupIdOf(api)] =
                   IF Alone(api) THEN RecordSetGroup(AttributesFor(api), RouteFor(api), RecordsOf(api))
                   ELSE GroupsWith(api)[GroupIdOf(api)]
         /\ \A id \in DOMAIN DomainMade(api).made :
              \/ id \in DOMAIN MappingsOf(api)
              \/ id = DomainIdOf(api) /\ api \in ApisWithDomain
              \/ id = GroupIdOf(api) /\ api \in ApisWithRecords
              \/ id[1] = "DomainNameAccessAssociation"
<1>1. CASE api \notin ApisWithDomain
  <2>1. DomainFor(api) = NoDomain /\ api \notin ApisWithRecords
    BY <1>1, ApiParts DEF ApisWithRecords
  <2>2. DomainMade(api) = Constructed(<<>>, GroupsFor(api), maps)
    BY <2>1 DEF DomainMade, DomainOf
  <2>3. MappingsOf(api) = <<>> /\ DOMAIN <<>> = {}
    BY <2>1 DEF MappingsOf
  <2>4. NotedBy(api) = maps
    BY <2>1 DEF NotedBy
  <2>5. DomainMade(api).made = <<>> /\ DomainMade(api).groups = GroupsFor(api) /\ DomainMade(api).maps = maps
    BY <2>2 DEF Constructed
  <2> QED
    BY <1>1, <2>1, <2>3, <2>4, <2>5
<1>2. CASE api \in ApisWithDomain /\ api \notin ApisWithRecords
  BY <1>2, DomainLeaves, WholeIs
<1>3. CASE api \in ApisWithRecords
  <2>1. api \in ApisWithDomain
    BY <1>3 DEF ApisWithRecords
  <2>2. PICK group : group = IF Alone(api) THEN RecordSetGroup(AttributesFor(api), RouteFor(api), RecordsOf(api))
                             ELSE GroupsWith(api)[GroupIdOf(api)]
    OBVIOUS
  <2>3. DomainMade(api).made = Only(GroupIdOf(api), group) ++ WholeOf(api)
    BY <1>3, <2>1, <2>2, DomainLeaves
  <2>4. /\ DOMAIN DomainMade(api).made = DOMAIN WholeOf(api) \cup {GroupIdOf(api)}
        /\ DomainMade(api).made[GroupIdOf(api)] = group
        /\ \A id \in DOMAIN WholeOf(api) :
             id # GroupIdOf(api) => DomainMade(api).made[id] = WholeOf(api)[id]
    <3>1. PICK i, whole : i = GroupIdOf(api) /\ whole = WholeOf(api)
      OBVIOUS
    <3>2. /\ DOMAIN (Only(i, group) ++ whole) = DOMAIN whole \cup {i}
          /\ (Only(i, group) ++ whole)[i] = group
          /\ \A id \in DOMAIN whole : id # i => (Only(i, group) ++ whole)[id] = whole[id]
      BY DEF ++, Only
    <3> QED
      BY <2>3, <3>1, <3>2
  <2>5. GroupIdOf(api) # DomainIdOf(api) /\ GroupIdOf(api) \notin DOMAIN MappingsOf(api)
    <3>1. api \notin GeneratedNames
      BY ApiParts
    <3> QED
      BY <3>1, MappingIds, IdsBegin DEF GeneratedNames
  <2>6. /\ DomainMade(api).maps = NotedBy(api)
        /\ Alone(api) => DomainMade(api).groups = GroupsFor(api)
        /\ ~Alone(api) => DomainMade(api).groups = GroupsWith(api)
    BY <1>3, <2>1, DomainLeaves
  <2> QED
    BY <1>3, <2>1, <2>2, <2>4, <2>5, <2>6, WholeIs
<1> QED
  BY <1>1, <1>2, <1>3 DEF ApisWithRecords

(* What is made for an API alone has the API's name in its ids.            *)
LEMMA OwnIds ==
  ASSUME Frame, NEW api \in Present
  PROVE  \A id \in DOMAIN OwnOf(api) : id[1] = api
<1>1. DOMAIN OwnOf(api) = DOMAIN SelfOf(api) \cup DOMAIN MappingsOf(api)
  BY Merged DEF OwnOf
<1>2. CASE KindOf(api) # WebSocketKind
  <2>1. SelfOf(api) = RestStage(api)
    BY <1>2 DEF SelfOf
  <2>2. DOMAIN RestStage(api) = {StageOf(api)}
    BY DEF RestStage, Only
  <2> QED
    BY <1>1, <2>1, <2>2, MappingIds, IdsBegin
<1>3. CASE KindOf(api) = WebSocketKind
  <2> DEFINE w == custom.webSocket[api]
             c == AttributesFor(api)
             auth == IF HasAuthorizer(w.auth, RoutesOf(w))
                       THEN Only(AuthorizerId(api), Authorizer(api, c)) ++ AuthorizerPermission(api, c, w.auth)
                       ELSE <<>>
  <2>1. DOMAIN <<>> = {}
    OBVIOUS
  <2>2. \A id \in DOMAIN AuthorizerPermission(api, c, w.auth) : id[1] = api
    <3>1. DOMAIN AuthorizerPermission(api, c, w.auth) \subseteq {<<api, "AuthorizerPermission">>}
      BY <2>1 DEF AuthorizerPermission, Only
    <3> QED
      BY <3>1
  <2>3. AuthorizerId(api)[1] = api /\ StageOf(api)[1] = api
    BY DEF AuthorizerId, StageOf
  <2>4. \A id \in DOMAIN auth : id[1] = api
    <3> DEFINE permission == AuthorizerPermission(api, c, w.auth)
               own == Only(AuthorizerId(api), Authorizer(api, c))
    <3>1. DOMAIN own = {AuthorizerId(api)}
      BY OnlyOne
    <3>2. DOMAIN (own ++ permission) = DOMAIN own \cup DOMAIN permission
      BY Merged
    <3>3. DOMAIN auth = {} \/ DOMAIN auth = DOMAIN (own ++ permission)
      BY <2>1
    <3> HIDE DEF own, auth
    <3> QED
      BY <2>2, <2>3, <3>1, <3>2, <3>3
  <2>5. \A id \in DOMAIN RouteResources(api, c, w) : id[1] = api
    <3>1. \A r : \A kind \in {"route", "integration", "permission"} : RouteIds(api, r)[kind][1] = api
      BY DEF RouteIds
    <3> QED
      BY <3>1 DEF RouteResources
  <2>6. WebSocketResources(api, c, w) =
          Only(<<api, "Api">>, WebSocketApiResource(api, c))
            ++ (RouteResources(api, c, w) ++ (Only(StageOf(api), WebSocketStage(api, c, w)) ++ auth))
    BY DEF WebSocketResources
  <2> HIDE DEF auth, w, c
  <2>7. \A id \in DOMAIN WebSocketResources(api, c, w) : id[1] = api
    <3>1. DOMAIN (Only(StageOf(api), WebSocketStage(api, c, w)) ++ auth) = DOMAIN auth \cup {StageOf(api)}
      BY OneMore
    <3>2. DOMAIN WebSocketResources(api, c, w) =
            {<<api, "Api">>} \cup DOMAIN RouteResources(api, c, w) \cup DOMAIN auth \cup {StageOf(api)}
      <4> DEFINE stage == Only(StageOf(api), WebSocketStage(api, c, w)) ++ auth
                 routes == RouteResources(api, c, w) ++ stage
      <4>1. DOMAIN routes = DOMAIN RouteResources(api, c, w) \cup DOMAIN stage
        BY Merged
      <4>2. DOMAIN (Only(<<api, "Api">>, WebSocketApiResource(api, c)) ++ routes) = DOMAIN routes \cup {<<api, "Api">>}
        BY OneMore
      <4> QED
        BY <2>6, <3>1, <4>1, <4>2
    <3>3. <<api, "Api">>[1] = api
      OBVIOUS
    <3> QED
      BY <2>3, <2>4, <2>5, <3>2, <3>3
  <2>8. SelfOf(api) = WebSocketResources(api, c, w)
    BY <1>3 DEF SelfOf, w, c
  <2> QED
    BY <1>1, <2>7, <2>8, MappingIds
<1> QED
  BY <1>2, <1>3

(* As long as the template stays, what it says of an API does.             *)
LEMMA SameTemplate ==
  ASSUME given' = given, custom' = custom
  PROVE  /\ \A b : KindOf(b)' = KindOf(b) /\ DomainFor(b)' = DomainFor(b) /\ ConditionOf(b)' = ConditionOf(b)
         /\ \A b : AttributesFor(b)' = AttributesFor(b) /\ RouteFor(b)' = RouteFor(b)
         /\ \A b : DomainIdOf(b)' = DomainIdOf(b) /\ DomainOfOwn(b)' = DomainOfOwn(b)
         /\ \A b : GroupIdOf(b)' = GroupIdOf(b) /\ TargetOf(b)' = TargetOf(b) /\ OwnOf(b)' = OwnOf(b)
         /\ ApisWithDomain' = ApisWithDomain /\ ApisWithRecords' = ApisWithRecords
         /\ WebSocketApis' = WebSocketApis /\ Present' = Present
         /\ ZonesAgree' = ZonesAgree /\ DomainsAgree' = DomainsAgree /\ DistributionsApart' = DistributionsApart
<1>1. \A b : KindOf(b)' = KindOf(b) /\ DomainFor(b)' = DomainFor(b) /\ ConditionOf(b)' = ConditionOf(b)
  BY DEF KindOf, DomainFor, ConditionOf
<1>2. \A b : AttributesFor(b)' = AttributesFor(b) /\ RouteFor(b)' = RouteFor(b)
  BY <1>1 DEF AttributesFor, RouteFor
<1>3. \A b : DomainIdOf(b)' = DomainIdOf(b) /\ DomainOfOwn(b)' = DomainOfOwn(b)
  BY <1>1, <1>2 DEF DomainIdOf, DomainOfOwn
<1>4. \A b : GroupIdOf(b)' = GroupIdOf(b) /\ TargetOf(b)' = TargetOf(b)
  BY <1>1, <1>2, <1>3 DEF GroupIdOf, TargetOf
<1>5. \A b : OwnOf(b)' = OwnOf(b)
  BY <1>1, <1>2 DEF OwnOf, SelfOf, MappingsOf, RestStage
<1>6. /\ ApisWithDomain' = ApisWithDomain /\ WebSocketApis' = WebSocketApis /\ Present' = Present
  BY <1>1 DEF ApisWithDomain, WebSocketApis, Present
<1>7. ApisWithRecords' = ApisWithRecords
  BY <1>1, <1>6 DEF ApisWithRecords
<1>8. ZonesAgree' = ZonesAgree /\ DomainsAgree' = DomainsAgree /\ DistributionsApart' = DistributionsApart
  BY <1>1, <1>2, <1>6, <1>7 DEF ZonesAgree, DomainsAgree, DistributionsApart
<1> QED
  BY <1>1, <1>2, <1>3, <1>4, <1>5, <1>6, <1>7, <1>8

(* One API is translated, with all that it makes.                          *)
Translates(api) ==
  /\ given' = given /\ custom' = custom
  /\ api \in Present /\ api \notin Done /\ Done' = Done \cup {api}
  /\ ~DomainMade(api).raised
  /\ made' = SelfOf(api) ++ (DomainMade(api).made ++ made)
  /\ IF KindOf(api) = WebSocketKind
     THEN ~WebSocketInvalid(custom.webSocket[api], FALSE) /\ groups' = groups /\ maps' = maps
     ELSE groups' = DomainMade(api).groups /\ maps' = DomainMade(api).maps

(* The template is the same after a step, and fewer APIs are to translate. *)
LEMMA StepsTake ==
  ASSUME Frame, ResourcesNext
  PROVE  /\ given' = given /\ custom' = custom
         /\ todo' \subseteq todo /\ waiting' \subseteq waiting
         /\ \/ maps' = maps
            \/ \E api \in Present : ~DomainMade(api).raised /\ maps' = DomainMade(api).maps
         /\ ~failed' => ~failed /\ \E api \in Present : Translates(api)
<1>1. /\ todo \subseteq Apis /\ waiting \subseteq {api \in OtherApis : custom.kind[api] # Nothing}
      /\ OtherApis \cap Apis = {} /\ AllApis = Apis \cup OtherApis
  BY ResourcesAssumption DEF Frame, AllApis
<1>2. ASSUME NEW api \in Apis, TranslateRestApi(api)
      PROVE  /\ given' = given /\ custom' = custom
             /\ todo' \subseteq todo /\ waiting' \subseteq waiting
             /\ \E a \in Present : ~DomainMade(a).raised /\ maps' = DomainMade(a).maps
             /\ ~failed' => ~failed /\ \E a \in Present : Translates(a)
  <2>1. /\ api \in todo /\ todo' = todo \ {api} /\ given' = given
        /\ custom' = custom /\ waiting' = waiting
        /\ ~DomainMade(api).raised
        /\ made' = RestStage(api) ++ (DomainMade(api).made ++ made)
        /\ groups' = DomainMade(api).groups /\ maps' = DomainMade(api).maps
        /\ ~failed' => ~failed
    <3>1. /\ ~DomainMade(api).raised
          /\ made' = RestStage(api) ++ (DomainMade(api).made ++ made)
          /\ groups' = DomainMade(api).groups /\ maps' = DomainMade(api).maps
          /\ custom' = custom /\ waiting' = waiting
      BY <1>2 DEF TranslateRestApi
    <3>2. /\ api \in todo /\ todo' = todo \ {api} /\ given' = given
          /\ ~failed' => ~failed
      <4>1. CASE TranslateWithout(api)
        BY <4>1 DEF TranslateWithout, Take
      <4>2. CASE TranslatePerApi(api)
        BY <4>2 DEF TranslatePerApi, Take
      <4>3. CASE TranslateShared(api)
        BY <4>3 DEF TranslateShared, Take
      <4>4. CASE SharedRaises(api)
        BY <4>4 DEF SharedRaises, Take
      <4> QED
        BY <1>2, <4>1, <4>2, <4>3, <4>4 DEF TranslateRestApi
    <3> QED
      BY <3>1, <3>2
  <2>2. KindOf(api) # WebSocketKind
    BY DEF KindOf, RestKind, WebSocketKind
  <2>3. SelfOf(api) = RestStage(api)
    BY <2>2 DEF SelfOf
  <2>4. Present' = Present
    BY <2>1 DEF Present
  <2>5. api \in Present /\ api \notin Done /\ Done' = Done \cup {api}
    BY <1>1, <2>1, <2>4 DEF Present, Done
  <2>6. Translates(api)
    BY <2>1, <2>2, <2>3, <2>5 DEF Translates
  <2> QED
    BY <2>1, <2>5, <2>6
<1>3. ASSUME NEW api \in Apis, RestApiFails(api)
      PROVE  /\ given' = given /\ custom' = custom
             /\ todo' \subseteq todo /\ waiting' \subseteq waiting /\ failed' /\ maps' = maps
  BY <1>3 DEF RestApiFails, TranslateFails, Take, resourceVars
<1>4. ASSUME NEW api \in OtherApis, TakeOther(api)
      PROVE  /\ given' = given /\ custom' = custom /\ todo' = todo /\ waiting' \subseteq waiting
             /\ api \in Present /\ api \notin Done /\ Done' = Done \cup {api}
  <2>1. api \in waiting /\ waiting' = waiting \ {api} /\ given' = given /\ custom' = custom /\ todo' = todo
    BY <1>4 DEF TakeOther
  <2>2. Present' = Present
    BY <2>1 DEF Present
  <2> QED
    BY <1>1, <2>1, <2>2 DEF Present, Done
<1>5. ASSUME NEW api \in OtherApis, TranslateHttpApi(api), ~failed'
      PROVE  ~failed /\ Translates(api)
  <2>1. /\ TakeOther(api) /\ KindOf(api) = HttpKind /\ ~failed
        /\ ~DomainMade(api).raised
        /\ made' = HttpStage(api) ++ (DomainMade(api).made ++ made)
        /\ groups' = DomainMade(api).groups /\ maps' = DomainMade(api).maps
    BY <1>5 DEF TranslateHttpApi
  <2>2. KindOf(api) # WebSocketKind
    BY <2>1 DEF HttpKind, WebSocketKind
  <2>3. SelfOf(api) = HttpStage(api)
    BY <2>2 DEF SelfOf, RestStage, HttpStage
  <2> QED
    BY <1>4, <2>1, <2>2, <2>3 DEF Translates
<1>6. ASSUME NEW api \in OtherApis, TranslateWebSocketApi(api), ~failed'
      PROVE  ~failed /\ Translates(api)
  <2> DEFINE mtls == DomainFor(api) # NoDomain /\ DomainFor(api).mtls
             w == custom.webSocket[api]
  <2>1. /\ TakeOther(api) /\ KindOf(api) = WebSocketKind /\ ~failed
        /\ ~DomainMade(api).raised /\ ~WebSocketInvalid(w, mtls)
        /\ made' = WebSocketResources(api, AttributesFor(api), w) ++ (DomainMade(api).made ++ made)
        /\ groups' = groups /\ maps' = maps
    BY <1>6 DEF TranslateWebSocketApi
  <2>2. ~WebSocketInvalid(w, FALSE)
    <3> HIDE DEF w, mtls
    <3> QED
      BY <2>1 DEF WebSocketInvalid, GeneratorInvalid
  <2>3. SelfOf(api) = WebSocketResources(api, AttributesFor(api), w)
    BY <2>1 DEF SelfOf
  <2> QED
    BY <1>4, <2>1, <2>2, <2>3 DEF Translates
<1>7. ASSUME NEW api \in OtherApis, TranslateHttpApi(api) \/ TranslateWebSocketApi(api)
      PROVE  TakeOther(api) /\ (maps' = maps \/ (~DomainMade(api).raised /\ maps' = DomainMade(api).maps))
  BY <1>7 DEF TranslateHttpApi, TranslateWebSocketApi
<1> QED
  BY <1>2, <1>3, <1>4, <1>5, <1>6, <1>7 DEF ResourcesNext

(* The template under construction when an API has been translated.        *)
LEMMA MadeAfter ==
  ASSUME Frame, NEW api \in Present, Translates(api)
  PROVE  /\ DOMAIN made \subseteq DOMAIN made'
         /\ \A id \in DOMAIN OwnOf(api) : id \in DOMAIN made' /\ made'[id] = OwnOf(api)[id]
         /\ api \in ApisWithDomain =>
              DomainIdOf(api) \in DOMAIN made' /\ made'[DomainIdOf(api)] = DomainOfOwn(api)
         /\ api \in ApisWithRecords =>
              /\ GroupIdOf(api) \in DOMAIN made'
              /\ made'[GroupIdOf(api)] =
                   IF Alone(api) THEN RecordSetGroup(AttributesFor(api), RouteFor(api), RecordsOf(api))
                   ELSE GroupsWith(api)[GroupIdOf(api)]
         /\ \A id \in DOMAIN made :
              \/ made'[id] = made[id]
              \/ id[1] = api
              \/ id = DomainIdOf(api) /\ api \in ApisWithDomain
              \/ id = GroupIdOf(api) /\ api \in ApisWithRecords
              \/ id[1] = "DomainNameAccessAssociation"
<1> DEFINE self == SelfOf(api)
           mappings == MappingsOf(api)
           domain == DomainMade(api).made
           before == domain ++ made
<1>1. ~DomainMade(api).raised /\ made' = self ++ before
  BY DEF Translates
<1>2. /\ OwnOf(api) = self ++ mappings
      /\ DOMAIN OwnOf(api) = DOMAIN self \cup DOMAIN mappings
      /\ \A id \in DOMAIN self : OwnOf(api)[id] = self[id]
      /\ \A id \in DOMAIN mappings \ DOMAIN self : OwnOf(api)[id] = mappings[id]
  BY Merged DEF OwnOf
<1>3. \A id \in DOMAIN OwnOf(api) : id[1] = api
  BY OwnIds
<1>4. /\ \A id \in DOMAIN mappings : id \in DOMAIN domain /\ domain[id] = mappings[id]
      /\ api \in ApisWithDomain =>
           DomainIdOf(api) \in DOMAIN domain /\ domain[DomainIdOf(api)] = DomainOfOwn(api)
      /\ api \in ApisWithRecords =>
           /\ GroupIdOf(api) \in DOMAIN domain
           /\ domain[GroupIdOf(api)] =
                IF Alone(api) THEN RecordSetGroup(AttributesFor(api), RouteFor(api), RecordsOf(api))
                ELSE GroupsWith(api)[GroupIdOf(api)]
      /\ \A id \in DOMAIN domain :
           \/ id \in DOMAIN mappings
           \/ id = DomainIdOf(api) /\ api \in ApisWithDomain
           \/ id = GroupIdOf(api) /\ api \in ApisWithRecords
           \/ id[1] = "DomainNameAccessAssociation"
  BY <1>1, DomainParts
<1>5. api \notin GeneratedNames
  BY ApiParts
<1>6. DomainIdOf(api)[1] # api /\ GroupIdOf(api)[1] # api
  BY <1>5, IdsBegin DEF GeneratedNames
<1> HIDE DEF self, mappings, domain
<1>7. /\ DOMAIN before = DOMAIN domain \cup DOMAIN made
      /\ \A id \in DOMAIN domain : before[id] = domain[id]
      /\ \A id \in DOMAIN made \ DOMAIN domain : before[id] = made[id]
  BY Merged
<1> HIDE DEF before
<1>8. /\ DOMAIN made' = DOMAIN self \cup DOMAIN before
      /\ \A id \in DOMAIN self : made'[id] = self[id]
      /\ \A id \in DOMAIN before \ DOMAIN self : made'[id] = before[id]
  <2>1. /\ DOMAIN (self ++ before) = DOMAIN self \cup DOMAIN before
        /\ \A id \in DOMAIN self : (self ++ before)[id] = self[id]
        /\ \A id \in DOMAIN before \ DOMAIN self : (self ++ before)[id] = before[id]
    BY Merged
  <2> QED
    BY <1>1, <2>1
<1>9. \A id \in DOMAIN domain \ DOMAIN self : id \in DOMAIN made' /\ made'[id] = domain[id]
  BY <1>7, <1>8
<1>10. \A id \in DOMAIN self \cup DOMAIN mappings : id[1] = api
  BY <1>2, <1>3
<1>11. \A id \in DOMAIN OwnOf(api) : id \in DOMAIN made' /\ made'[id] = OwnOf(api)[id]
  BY <1>2, <1>4, <1>8, <1>9
<1>12. api \in ApisWithDomain =>
         DomainIdOf(api) \in DOMAIN made' /\ made'[DomainIdOf(api)] = DomainOfOwn(api)
  BY <1>4, <1>6, <1>9, <1>10
<1>13. api \in ApisWithRecords => GroupIdOf(api) \in DOMAIN made' /\ made'[GroupIdOf(api)] = domain[GroupIdOf(api)]
  BY <1>4, <1>6, <1>9, <1>10
<1>14. ASSUME NEW id \in DOMAIN made
       PROVE  \/ made'[id] = made[id] \/ id[1] = api
              \/ id = DomainIdOf(api) /\ api \in ApisWithDomain
              \/ id = GroupIdOf(api) /\ api \in ApisWithRecords
              \/ id[1] = "DomainNameAccessAssociation"
  <2>1. CASE id \in DOMAIN self
    BY <2>1, <1>10
  <2>2. CASE id \in DOMAIN domain
    BY <2>2, <1>4, <1>10
  <2>3. CASE id \notin DOMAIN self /\ id \notin DOMAIN domain
    BY <2>3, <1>7, <1>8
  <2> QED
    BY <2>1, <2>2, <2>3
<1>15. DOMAIN made \subseteq DOMAIN made'
  BY <1>7, <1>8
<1> QED
  BY <1>4, <1>11, <1>12, <1>13, <1>14, <1>15

(* Only a distribution is ever noted, in the map of the API.               *)
LEMMA NotedParts ==
  ASSUME Frame, NEW api \in Present
  PROVE  /\ DOMAIN NotedBy(api) = DOMAIN maps
         /\ \A m \in DOMAIN maps :
              /\ DOMAIN NotedBy(api)[m] = DOMAIN maps[m]
              /\ \A x \in {"zone", "separate", "ipv6"} : NotedBy(api)[m][x] = maps[m][x]
              /\ \/ NotedBy(api)[m].distribution = maps[m].distribution
                 \/ /\ api \in ApisWithRecords /\ KindOf(api) = RestKind
                    /\ EndpointOf(DomainFor(api)) = "EDGE" /\ m = DomainFor(api).route
                    /\ maps[m].distribution = Nothing
                    /\ NotedBy(api)[m].distribution = DomainIdOf(api)
         /\ api \in ApisWithRecords /\ KindOf(api) = RestKind /\ EndpointOf(DomainFor(api)) = "EDGE" =>
              NotedBy(api)[DomainFor(api).route].distribution =
                IF maps[DomainFor(api).route].distribution = Nothing
                  THEN DomainIdOf(api) ELSE maps[DomainFor(api).route].distribution
<1> DEFINE n == DomainFor(api).route
           writes == /\ api \in ApisWithRecords /\ KindOf(api) = RestKind
                     /\ EndpointOf(DomainFor(api)) = "EDGE" /\ maps[n].distribution = Nothing
<1>1. CASE ~writes
  <2>1. NotedBy(api) = maps
    BY <1>1 DEF NotedBy, NoteDistribution
  <2> QED
    BY <1>1, <2>1
<1>2. CASE writes
  <2>1. NotedBy(api) = [maps EXCEPT ![n].distribution = DomainIdOf(api)]
    BY <1>2 DEF NotedBy, NoteDistribution
  <2>2. n \in DOMAIN maps
    BY <1>2, ApiParts
  <2>3. \A m \in DOMAIN maps : DOMAIN maps[m] = {"zone", "separate", "ipv6", "distribution"}
    BY MapParts
  <2> HIDE DEF n
  <2>4. DOMAIN NotedBy(api) = DOMAIN maps
    BY <2>1
  <2>5. \A m \in DOMAIN maps : m # n => NotedBy(api)[m] = maps[m]
    BY <2>1
  <2>6. NotedBy(api)[n] = [maps[n] EXCEPT !.distribution = DomainIdOf(api)]
    BY <2>1, <2>2
  <2>7. /\ DOMAIN NotedBy(api)[n] = DOMAIN maps[n]
        /\ NotedBy(api)[n].zone = maps[n].zone
        /\ NotedBy(api)[n].separate = maps[n].separate
        /\ NotedBy(api)[n].ipv6 = maps[n].ipv6
        /\ NotedBy(api)[n].distribution = DomainIdOf(api)
    BY <2>2, <2>3, <2>6
  <2> QED
    BY <1>2, <2>4, <2>5, <2>7 DEF n
<1> QED
  BY <1>1, <1>2

(* The template stays.                                                     *)
LEMMA FrameStays == Frame /\ [ResourcesNext]_allVars => Frame'
<1> SUFFICES ASSUME Frame, [ResourcesNext]_allVars PROVE Frame'
  OBVIOUS
<1>1. CASE UNCHANGED allVars
  BY <1>1 DEF allVars, vars, resourceVars, Frame
<1>2. CASE ResourcesNext
  <2>1. /\ given' = given /\ custom' = custom
        /\ todo' \subseteq todo /\ waiting' \subseteq waiting
        /\ \/ maps' = maps
           \/ \E api \in Present : ~DomainMade(api).raised /\ maps' = DomainMade(api).maps
    BY <1>2, StepsTake
  <2>2. /\ DOMAIN maps' = DOMAIN maps
        /\ \A m \in DOMAIN maps :
             /\ DOMAIN maps'[m] = DOMAIN maps[m]
             /\ \A x \in {"zone", "separate", "ipv6"} : maps'[m][x] = maps[m][x]
    <3>1. CASE maps' = maps
      BY <3>1
    <3>2. ASSUME NEW api \in Present, ~DomainMade(api).raised, maps' = DomainMade(api).maps
          PROVE  maps' = NotedBy(api)
      BY <3>2, DomainParts
    <3> QED
      BY <2>1, <3>1, <3>2, NotedParts
  <2>3. /\ given \in Templates /\ custom \in Customs(given)
        /\ todo \subseteq Apis /\ waiting \subseteq {api \in OtherApis : custom.kind[api] # Nothing}
        /\ DOMAIN maps = DOMAIN custom.maps
        /\ \A m \in DOMAIN maps :
             /\ DOMAIN maps[m] = DOMAIN custom.maps[m]
             /\ \A x \in {"zone", "separate", "ipv6"} : maps[m][x] = custom.maps[m][x]
    BY DEF Frame
  <2>4. given' \in Templates /\ custom' \in Customs(given') /\ todo' \subseteq Apis
    BY <2>1, <2>3
  <2>5. waiting' \subseteq {api \in OtherApis : custom'.kind[api] # Nothing}
    BY <2>1, <2>3
  <2>6. /\ DOMAIN maps' = DOMAIN custom'.maps
        /\ \A m \in DOMAIN maps' :
             /\ DOMAIN maps'[m] = DOMAIN custom'.maps[m]
             /\ \A x \in {"zone", "separate", "ipv6"} : maps'[m][x] = custom'.maps[m][x]
    BY <2>1, <2>2, <2>3
  <2> QED
    BY <2>4, <2>5, <2>6 DEF Frame
<1> QED
  BY <1>1, <1>2

-----------------------------------------------------------------------------
(* What is made stays made.                                                *)

LEMMA OwnStaysMade ==
  ASSUME Frame, OwnMade, NEW api \in Present, Translates(api)
  PROVE  OwnMade'
<1>1. given' = given /\ custom' = custom /\ Done' = Done \cup {api} /\ Done \subseteq Present /\ api \notin Done
  BY DEF Translates, Done
<1>2. \A b : OwnOf(b)' = OwnOf(b)
  BY <1>1, SameTemplate
<1>3. ASSUME NEW b \in Done, NEW id \in DOMAIN OwnOf(b)
      PROVE  id \in DOMAIN made' /\ made'[id] = OwnOf(b)[id]
  <2>1. id \in DOMAIN made /\ made[id] = OwnOf(b)[id]
    BY <1>3 DEF OwnMade
  <2>2. id[1] = b /\ b # api /\ b \notin GeneratedNames
    BY <1>1, OwnIds, ApiParts
  <2>3. id # DomainIdOf(api) /\ id # GroupIdOf(api) /\ id[1] # "DomainNameAccessAssociation"
    BY <2>2, IdsBegin DEF GeneratedNames
  <2> QED
    BY <2>1, <2>2, <2>3, MadeAfter
<1>4. \A id \in DOMAIN OwnOf(api) : id \in DOMAIN made' /\ made'[id] = OwnOf(api)[id]
  BY MadeAfter
<1>5. \A b \in Done' : \A id \in DOMAIN OwnOf(b)' : id \in DOMAIN made' /\ made'[id] = OwnOf(b)'[id]
  BY <1>1, <1>2, <1>3, <1>4
<1> QED
  BY <1>5 DEF OwnMade

LEMMA DomainsStayMade ==
  ASSUME Frame, DomainsMade, NEW api \in Present, Translates(api)
  PROVE  DomainsMade'
<1>1. given' = given /\ custom' = custom /\ Done' = Done \cup {api} /\ Done \subseteq Present /\ api \notin Done
  BY DEF Translates, Done
<1>2. /\ \A b : DomainIdOf(b)' = DomainIdOf(b) /\ DomainOfOwn(b)' = DomainOfOwn(b)
      /\ ApisWithDomain' = ApisWithDomain
  BY <1>1, SameTemplate
<1>3. ASSUME NEW b \in (Done \cup {api}) \cap ApisWithDomain
      PROVE  /\ DomainIdOf(b) \in DOMAIN made'
             /\ \E a \in ApisWithDomain :
                  DomainIdOf(a) = DomainIdOf(b) /\ made'[DomainIdOf(b)] = DomainOfOwn(a)
  <2>1. CASE api \in ApisWithDomain /\ DomainIdOf(api) = DomainIdOf(b)
    BY <2>1, MadeAfter
  <2>2. CASE ~(api \in ApisWithDomain /\ DomainIdOf(api) = DomainIdOf(b))
    <3>1. b \in Done
      BY <2>2
    <3>2. PICK a \in ApisWithDomain : /\ DomainIdOf(b) \in DOMAIN made
                                      /\ DomainIdOf(a) = DomainIdOf(b) /\ made[DomainIdOf(b)] = DomainOfOwn(a)
      BY <3>1 DEF DomainsMade
    <3>3. api \notin GeneratedNames
      BY ApiParts
    <3>4. DomainIdOf(b)[1] # api /\ DomainIdOf(b) # GroupIdOf(api) /\ DomainIdOf(b)[1] # "DomainNameAccessAssociation"
      BY <3>3, IdsBegin DEF GeneratedNames
    <3>5. DomainIdOf(b) \in DOMAIN made' /\ made'[DomainIdOf(b)] = made[DomainIdOf(b)]
      BY <2>2, <3>2, <3>4, MadeAfter
    <3> QED
      BY <3>2, <3>5
  <2> QED
    BY <2>1, <2>2
<1>4. \A b \in Done' \cap ApisWithDomain' :
        /\ DomainIdOf(b)' \in DOMAIN made'
        /\ \E a \in ApisWithDomain' :
             DomainIdOf(a)' = DomainIdOf(b)' /\ made'[DomainIdOf(b)'] = DomainOfOwn(a)'
  BY <1>1, <1>2, <1>3
<1> QED
  BY <1>4 DEF DomainsMade

LEMMA WebSocketsStayValid ==
  ASSUME Frame, WebSocketsValid, NEW api \in Present, Translates(api)
  PROVE  WebSocketsValid'
<1>1. given' = given /\ custom' = custom /\ Done' = Done \cup {api}
  BY DEF Translates
<1>2. WebSocketApis' = WebSocketApis
  BY <1>1, SameTemplate
<1>3. api \in WebSocketApis => ~WebSocketInvalid(custom.webSocket[api], FALSE)
  BY ApiParts DEF Translates
<1>4. \A b \in Done' \cap WebSocketApis' : ~WebSocketInvalid(custom'.webSocket[b], FALSE)
  BY <1>1, <1>2, <1>3 DEF WebSocketsValid
<1> QED
  BY <1>4 DEF WebSocketsValid

-----------------------------------------------------------------------------
(* Records.                                                                *)

(* Records that are added leave those that are there.                      *)
LEMMA RecordsJoin ==
  ASSUME NEW s, NEW t, s \in Seq(RecordsIn(s)), t \in Seq(RecordsIn(t))
  PROVE  /\ s \o t \in Seq(RecordsIn(s \o t))
         /\ RecordsIn(s) \subseteq RecordsIn(s \o t)
         /\ RecordsIn(t) \subseteq RecordsIn(s \o t)
<1> DEFINE S == RecordsIn(s) \cup RecordsIn(t)
<1>1. s \in Seq(S) /\ t \in Seq(S)
  OBVIOUS
<1> HIDE DEF S
<1>2. /\ s \o t \in Seq(S) /\ Len(s \o t) = Len(s) + Len(t)
      /\ Len(s) \in Nat /\ Len(t) \in Nat
      /\ DOMAIN s = 1..Len(s) /\ DOMAIN t = 1..Len(t) /\ DOMAIN (s \o t) = 1..Len(s \o t)
      /\ \A i \in 1..Len(s) : (s \o t)[i] = s[i]
      /\ \A i \in 1..Len(t) : (s \o t)[Len(s) + i] = t[i]
  BY <1>1
<1>3. RecordsIn(s) \subseteq RecordsIn(s \o t)
  <2> SUFFICES ASSUME NEW i \in DOMAIN s PROVE \E j \in DOMAIN (s \o t) : (s \o t)[j] = s[i]
    BY DEF RecordsIn
  <2>1. i \in DOMAIN (s \o t) /\ (s \o t)[i] = s[i]
    BY <1>2
  <2> QED
    BY <2>1
<1>4. RecordsIn(t) \subseteq RecordsIn(s \o t)
  <2> SUFFICES ASSUME NEW i \in DOMAIN t PROVE \E j \in DOMAIN (s \o t) : (s \o t)[j] = t[i]
    BY DEF RecordsIn
  <2>1. Len(s) + i \in DOMAIN (s \o t) /\ (s \o t)[Len(s) + i] = t[i]
    BY <1>2
  <2> QED
    BY <2>1
<1>5. \A i \in DOMAIN (s \o t) : (s \o t)[i] \in RecordsIn(s \o t)
  BY DEF RecordsIn
<1>6. s \o t \in Seq(RecordsIn(s \o t))
  <2> DEFINE u == s \o t
  <2>1. u \in Seq(S) /\ Len(u) \in Nat /\ DOMAIN u = 1..Len(u)
    BY <1>2
  <2>2. \A i \in 1..Len(u) : u[i] \in RecordsIn(u)
    BY <1>5, <2>1
  <2> HIDE DEF u
  <2>3. u \in Seq(RecordsIn(u))
    BY <2>1, <2>2
  <2> QED
    BY <2>3 DEF u
<1> QED
  BY <1>3, <1>4, <1>6

(* The record sets of a domain are one for each type.                      *)
LEMMA RecordSetsAre ==
  ASSUME NEW d, NEW t, NEW r
  PROVE  /\ RecordSetsFor(d, t, r) \in Seq(RecordsIn(RecordSetsFor(d, t, r)))
         /\ \A type \in TypesOf(r) : Record(d.name, type, t) \in RecordsIn(RecordSetsFor(d, t, r))
<1> DEFINE a == Record(d.name, "A", t)
           b == Record(d.name, "AAAA", t)
           more == IF r.ipv6 THEN <<b>> ELSE <<>>
<1>1. RecordSetsFor(d, t, r) = <<a>> \o more
  BY DEF RecordSetsFor
<1>2. TypesOf(r) = IF r.ipv6 THEN {"A", "AAAA"} ELSE {"A"}
  BY DEF TypesOf
<1>3. ASSUME NEW x PROVE RecordsIn(<<x>>) = {x} /\ <<x>> \in Seq(RecordsIn(<<x>>))
  <2>1. DOMAIN <<x>> = {1}
    OBVIOUS
  <2>2. RecordsIn(<<x>>) = {x}
    BY <2>1 DEF RecordsIn
  <2> QED
    BY <2>2
<1>4. <<>> \in Seq(RecordsIn(<<>>))
  OBVIOUS
<1>5. more \in Seq(RecordsIn(more)) /\ (r.ipv6 => b \in RecordsIn(more))
  BY <1>3, <1>4
<1>6. <<a>> \in Seq(RecordsIn(<<a>>)) /\ a \in RecordsIn(<<a>>)
  BY <1>3
<1> HIDE DEF more
<1>7. /\ <<a>> \o more \in Seq(RecordsIn(<<a>> \o more))
      /\ RecordsIn(<<a>>) \subseteq RecordsIn(<<a>> \o more)
      /\ RecordsIn(more) \subseteq RecordsIn(<<a>> \o more)
  <2>1. PICK s : s = <<a>>
    OBVIOUS
  <2>2. /\ s \o more \in Seq(RecordsIn(s \o more))
        /\ RecordsIn(s) \subseteq RecordsIn(s \o more)
        /\ RecordsIn(more) \subseteq RecordsIn(s \o more)
    BY <1>5, <1>6, <2>1, RecordsJoin
  <2> QED
    BY <2>1, <2>2
<1>8. \A type \in TypesOf(r) : Record(d.name, type, t) \in RecordsIn(<<a>> \o more)
  BY <1>2, <1>5, <1>6, <1>7
<1> QED
  BY <1>1, <1>7, <1>8

(* Maps: what is noted is the distribution of an EDGE domain, ...          *)
LEMMA MapsStayTold ==
  ASSUME Frame, MapsTold, NEW api \in Present, Translates(api)
  PROVE  MapsTold'
<1>1. given' = given /\ custom' = custom /\ ~DomainMade(api).raised
  BY DEF Translates
<1>2. ApisWithRecords' = ApisWithRecords /\ \A b : DomainFor(b)' = DomainFor(b)
  BY <1>1, SameTemplate
<1>3. maps' = maps \/ maps' = NotedBy(api)
  BY <1>1, DomainParts DEF Translates
<1>4. DOMAIN maps' = DOMAIN maps
  BY <1>3, NotedParts
<1>5. ASSUME NEW m \in DOMAIN maps
      PROVE  \/ maps'[m].distribution = custom.maps[m].distribution
             \/ /\ custom.maps[m].distribution = Nothing
                /\ \E b \in ApisWithRecords :
                     /\ DomainFor(b).route = m /\ EndpointOf(DomainFor(b)) = "EDGE"
                     /\ maps'[m].distribution = ApiDomainName(DomainFor(b).name)
  <2>1. \/ maps[m].distribution = custom.maps[m].distribution
        \/ /\ custom.maps[m].distribution = Nothing
           /\ \E b \in ApisWithRecords :
                /\ DomainFor(b).route = m /\ EndpointOf(DomainFor(b)) = "EDGE"
                /\ maps[m].distribution = ApiDomainName(DomainFor(b).name)
    BY DEF MapsTold
  <2>2. CASE maps'[m].distribution = maps[m].distribution
    BY <2>1, <2>2
  <2>3. CASE maps'[m].distribution # maps[m].distribution
    <3>1. /\ api \in ApisWithRecords /\ KindOf(api) = RestKind
          /\ EndpointOf(DomainFor(api)) = "EDGE" /\ m = DomainFor(api).route
          /\ maps[m].distribution = Nothing /\ maps'[m].distribution = DomainIdOf(api)
      BY <1>3, <2>3, NotedParts
    <3>2. DomainIdOf(api) = ApiDomainName(DomainFor(api).name)
      BY <3>1 DEF DomainIdOf, IsPrivateDomain, EndpointOf
    <3> QED
      BY <2>1, <3>1, <3>2
  <2> QED
    BY <2>2, <2>3
<1>6. \A m \in DOMAIN maps' :
        \/ maps'[m].distribution = custom'.maps[m].distribution
        \/ /\ custom'.maps[m].distribution = Nothing
           /\ \E b \in ApisWithRecords' :
                /\ DomainFor(b)'.route = m /\ EndpointOf(DomainFor(b)') = "EDGE"
                /\ maps'[m].distribution = ApiDomainName(DomainFor(b)'.name)
  BY <1>1, <1>2, <1>4, <1>5
<1> QED
  BY <1>6 DEF MapsTold

(* ... so that records lead where they should.                             *)
LEMMA RecordsLead ==
  ASSUME Frame, MapsTold, DistributionsApart, NEW api \in Present, Translates(api), api \in ApisWithRecords
  PROVE  /\ RecordsOf(api) \in Seq(RecordsIn(RecordsOf(api)))
         /\ Recorded(RecordsOf(api), api)
<1> DEFINE d == DomainFor(api)
           m == DomainFor(api).route
           target == AliasTarget(d, DomainIdOf(api), NotedBy(api))
<1>1. ~DomainMade(api).raised /\ d # NoDomain
  BY ApiParts DEF Translates, ApisWithRecords
<1>2. /\ EndpointOf(d) \in {"EDGE", "REGIONAL", "PRIVATE"}
      /\ KindOf(api) # RestKind => EndpointOf(d) = "REGIONAL"
  BY <1>1, DomainMadeIs
<1>3. target = TargetOf(api)
  <2>1. CASE EndpointOf(d) = "REGIONAL"
    BY <2>1 DEF AliasTarget, TargetOf
  <2>2. CASE EndpointOf(d) = "PRIVATE"
    BY <2>2 DEF AliasTarget, TargetOf
  <2>3. CASE EndpointOf(d) = "EDGE"
    <3>1. KindOf(api) = RestKind /\ m \in DOMAIN maps /\ RouteFor(api) = custom.maps[m]
      BY <1>2, <2>3, ApiParts DEF RouteFor
    <3>2. target = NotedBy(api)[m].distribution
      BY <2>3 DEF AliasTarget
    <3>3. NotedBy(api)[m].distribution = IF maps[m].distribution = Nothing THEN DomainIdOf(api) ELSE maps[m].distribution
      BY <2>3, <3>1, NotedParts
    <3>4. TargetOf(api) = IF custom.maps[m].distribution # Nothing THEN custom.maps[m].distribution ELSE DomainIdOf(api)
      BY <2>3, <3>1 DEF TargetOf
    <3>5. CASE maps[m].distribution = custom.maps[m].distribution
      BY <3>2, <3>3, <3>4, <3>5
    <3>6. CASE maps[m].distribution # custom.maps[m].distribution
      <4>1. PICK b \in ApisWithRecords :
              /\ custom.maps[m].distribution = Nothing
              /\ DomainFor(b).route = m /\ EndpointOf(DomainFor(b)) = "EDGE"
              /\ maps[m].distribution = ApiDomainName(DomainFor(b).name)
        BY <3>1, <3>6 DEF MapsTold
      <4>2. DomainFor(b).name = d.name
        BY <2>3, <3>1, <4>1 DEF DistributionsApart
      <4>3. DomainIdOf(api) = ApiDomainName(d.name)
        BY <2>3, <3>1 DEF DomainIdOf, IsPrivateDomain, EndpointOf
      <4> QED
        BY <3>2, <3>3, <3>4, <4>1, <4>2, <4>3
    <3> QED
      BY <3>5, <3>6
  <2> QED
    BY <1>2, <2>1, <2>2, <2>3
<1>4. RecordsOf(api) = RecordSetsFor(d, TargetOf(api), RouteFor(api))
  BY <1>3 DEF RecordsOf
<1> QED
  BY <1>4, RecordSetsAre DEF Recorded

-----------------------------------------------------------------------------
(* Record set groups.                                                      *)

(* The group of one API and that of a zone differ.                         *)
LEMMA GroupIdsDiffer ==
  /\ \A d, r, s : SeparateGroupId(d, r) # RecordSetGroupId(s)
  /\ \A d, e, r, s : SeparateGroupId(d, r) = SeparateGroupId(e, s) => d.name = e.name /\ r.zone = s.zone
  /\ \A r, s : RecordSetGroupId(r) = RecordSetGroupId(s) <=> r.zone = s.zone
<1>1. ASSUME NEW d, NEW r, NEW s PROVE SeparateGroupId(d, r) # RecordSetGroupId(s)
  <2>1. Len(SeparateGroupId(d, r)) = 3 /\ Len(RecordSetGroupId(s)) = 2
    BY DEF SeparateGroupId, RecordSetGroupId
  <2> QED
    BY <2>1
<1>2. ASSUME NEW d, NEW e, NEW r, NEW s, SeparateGroupId(d, r) = SeparateGroupId(e, s)
      PROVE  d.name = e.name /\ r.zone = s.zone
  <2>1. /\ SeparateGroupId(d, r)[2] = r.zone /\ SeparateGroupId(e, s)[2] = s.zone
        /\ SeparateGroupId(d, r)[3] = d.name /\ SeparateGroupId(e, s)[3] = e.name
    BY DEF SeparateGroupId
  <2> QED
    BY <1>2, <2>1
<1>3. ASSUME NEW r, NEW s PROVE RecordSetGroupId(r) = RecordSetGroupId(s) <=> r.zone = s.zone
  <2>1. RecordSetGroupId(r)[2] = r.zone /\ RecordSetGroupId(s)[2] = s.zone
    BY DEF RecordSetGroupId
  <2>2. r.zone = s.zone => RecordSetGroupId(r) = RecordSetGroupId(s)
    BY DEF RecordSetGroupId
  <2> QED
    BY <2>1, <2>2
<1> QED
  BY <1>1, <1>2, <1>3

(* The group of an API is its own or its zone's, and when that of another  *)
(* one is the same, both are in one zone.                                  *)
LEMMA GroupIds ==
  ASSUME NEW a, NEW b
  PROVE  /\ Alone(a) => GroupIdOf(a) = SeparateGroupId(DomainFor(a), RouteFor(a))
         /\ ~Alone(a) => GroupIdOf(a) = RecordSetGroupId(RouteFor(a))
         /\ GroupIdOf(a) = GroupIdOf(b) =>
              /\ RouteFor(a).zone = RouteFor(b).zone
              /\ Alone(a) <=> Alone(b)
              /\ Alone(a) => DomainFor(a).name = DomainFor(b).name
<1>1. /\ Alone(a) => GroupIdOf(a) = SeparateGroupId(DomainFor(a), RouteFor(a))
      /\ ~Alone(a) => GroupIdOf(a) = RecordSetGroupId(RouteFor(a))
      /\ Alone(b) => GroupIdOf(b) = SeparateGroupId(DomainFor(b), RouteFor(b))
      /\ ~Alone(b) => GroupIdOf(b) = RecordSetGroupId(RouteFor(b))
  BY DEF GroupIdOf, Alone
<1> QED
  BY <1>1, GroupIdsDiffer

(* An API disturbs no group but its own or its zone's.                     *)
LEMMA OtherGroupsStay ==
  ASSUME Frame, NEW api \in Present, Translates(api), NEW id \in DOMAIN made,
         id[1] = "RecordSetGroup", api \in ApisWithRecords => id # GroupIdOf(api)
  PROVE  id \in DOMAIN made' /\ made'[id] = made[id]
<1>1. api \notin GeneratedNames
  BY ApiParts
<1>2. id[1] # api /\ id[1] # "DomainNameAccessAssociation" /\ id # DomainIdOf(api)
  BY <1>1, IdsBegin DEF GeneratedNames
<1> QED
  BY <1>2, MadeAfter

(* What becomes of the groups that are noted.                              *)
LEMMA GroupsAfter ==
  ASSUME Frame, NEW api \in Present, Translates(api)
  PROVE  groups' = IF api \in ApisWithRecords /\ ~Alone(api) /\ KindOf(api) # WebSocketKind
                     THEN GroupWith(groups, ConditionOf(api), RouteFor(api), RecordsOf(api))
                     ELSE groups
<1>1. ~DomainMade(api).raised
  BY DEF Translates
<1>2. CASE KindOf(api) = WebSocketKind
  BY <1>2 DEF Translates
<1>3. CASE KindOf(api) # WebSocketKind
  <2>1. groups' = DomainMade(api).groups
    BY <1>3 DEF Translates
  <2>2. GroupsFor(api) = groups /\ AttributesFor(api) = ConditionOf(api)
    BY <1>3 DEF GroupsFor, AttributesFor
  <2>3. GroupsWith(api) = GroupWith(groups, ConditionOf(api), RouteFor(api), RecordsOf(api))
    BY <2>2 DEF GroupsWith
  <2> QED
    BY <1>1, <1>3, <2>1, <2>2, <2>3, DomainParts
<1> QED
  BY <1>2, <1>3

(* A zone's group gets the records of one more API.                        *)
LEMMA GroupAdded ==
  ASSUME Frame, NEW api \in Present, Translates(api),
         api \in ApisWithRecords, ~Alone(api), KindOf(api) # WebSocketKind
  PROVE  /\ DOMAIN groups' = DOMAIN groups \cup {GroupIdOf(api)}
         /\ \A i \in DOMAIN groups : i # GroupIdOf(api) => groups'[i] = groups[i]
         /\ GroupIdOf(api) \notin DOMAIN groups =>
              groups'[GroupIdOf(api)] = RecordSetGroup(ConditionOf(api), RouteFor(api), RecordsOf(api))
         /\ GroupIdOf(api) \in DOMAIN groups =>
              \A b, r, old : groups[GroupIdOf(api)] = RecordSetGroup(b, r, old) =>
                groups'[GroupIdOf(api)] = RecordSetGroup(b, r, old \o RecordsOf(api))
<1>1. PICK c, route, records : c = ConditionOf(api) /\ route = RouteFor(api) /\ records = RecordsOf(api)
  OBVIOUS
<1> DEFINE id == RecordSetGroupId(route)
<1>2. groups' = GroupWith(groups, c, route, records) /\ GroupIdOf(api) = id
  BY <1>1, GroupsAfter, GroupIds
<1>3. CASE id \notin DOMAIN groups
  <2>1. groups' = Only(id, RecordSetGroup(c, route, records)) ++ groups
    BY <1>2, <1>3 DEF GroupWith
  <2> HIDE DEF id
  <2>2. groups' = [i \in {id} \cup DOMAIN groups |-> IF i \in {id} THEN RecordSetGroup(c, route, records) ELSE groups[i]]
    BY <2>1 DEF ++, Only
  <2> QED
    BY <1>1, <1>2, <1>3, <2>2
<1>4. CASE id \in DOMAIN groups
  <2>1. groups' = [groups EXCEPT ![id].records = @ \o records]
    BY <1>2, <1>4 DEF GroupWith
  <2> HIDE DEF id
  <2>2. DOMAIN groups' = DOMAIN groups /\ \A i \in DOMAIN groups : i # id => groups'[i] = groups[i]
    BY <2>1
  <2>3. groups'[id] = [groups[id] EXCEPT !.records = @ \o records]
    BY <1>4, <2>1
  <2>4. ASSUME NEW b, NEW r, NEW old, groups[id] = RecordSetGroup(b, r, old)
        PROVE  groups'[id] = RecordSetGroup(b, r, old \o records)
    <3>1. groups[id].records = old
      BY <2>4 DEF RecordSetGroup
    <3>2. PICK new : new = old \o records
      OBVIOUS
    <3>3. groups'[id] = [groups[id] EXCEPT !.records = new]
      BY <2>3, <3>1, <3>2
    <3>4. groups'[id] = RecordSetGroup(b, r, new)
      BY <2>4, <3>3 DEF RecordSetGroup
    <3> QED
      BY <3>2, <3>4
  <2> QED
    BY <1>1, <1>2, <1>4, <2>2, <2>4
<1> QED
  BY <1>3, <1>4

(* The APIs of a zone, when they agree.                                    *)
LEMMA ZoneShared ==
  ASSUME Agree, NEW a \in ApisWithRecords, NEW b \in ApisWithRecords, RouteFor(a).zone = RouteFor(b).zone
  PROVE  /\ ConditionOf(a) = ConditionOf(b)
         /\ a # b => KindOf(a) # WebSocketKind /\ KindOf(b) # WebSocketKind
         /\ RouteFor(a).separate /\ RouteFor(b).separate /\ DomainFor(a).name = DomainFor(b).name =>
              RouteFor(a) = RouteFor(b)
<1>1. ZonesAgree
  BY DEF Agree
<1> QED
  BY <1>1 DEF ZonesAgree

(* A group that is noted is the one made, with the condition of an API of  *)
(* its zone.                                                               *)
GroupTold(id, told, group) ==
  /\ group = told
  /\ told.records \in Seq(RecordsIn(told.records))
  /\ \E b \in ApisWithRecords :
       /\ KindOf(b) # WebSocketKind /\ id = RecordSetGroupId(RouteFor(b))
       /\ told = RecordSetGroup(ConditionOf(b), RouteFor(b), told.records)

LEMMA GroupsStayTold ==
  ASSUME Frame, Agree, MapsTold, GroupsTold, NEW api \in Present, Translates(api)
  PROVE  GroupsTold'
<1>1. given' = given /\ custom' = custom
  BY DEF Translates
<1>2. /\ \A b : KindOf(b)' = KindOf(b) /\ ConditionOf(b)' = ConditionOf(b) /\ RouteFor(b)' = RouteFor(b)
      /\ ApisWithRecords' = ApisWithRecords
  BY <1>1, SameTemplate
<1> DEFINE gid == GroupIdOf(api)
           adds == api \in ApisWithRecords /\ ~Alone(api) /\ KindOf(api) # WebSocketKind
<1>3. ASSUME NEW id \in DOMAIN groups, ~(adds /\ id = gid)
      PROVE  groups'[id] = groups[id] /\ id \in DOMAIN groups' /\ id \in DOMAIN made' /\ GroupTold(id, groups[id], made'[id])
  <2>1. id \in DOMAIN made /\ GroupTold(id, groups[id], made[id])
    BY DEF GroupsTold, GroupTold
  <2>2. PICK b \in ApisWithRecords : KindOf(b) # WebSocketKind /\ id = RecordSetGroupId(RouteFor(b))
    BY <2>1 DEF GroupTold
  <2>3. id[1] = "RecordSetGroup"
    BY <2>2 DEF RecordSetGroupId
  <2>4. api \in ApisWithRecords => id # gid
    <3> SUFFICES ASSUME api \in ApisWithRecords, id = gid PROVE FALSE
      OBVIOUS
    <3>1. CASE Alone(api)
      <4>1. id = SeparateGroupId(DomainFor(api), RouteFor(api))
        BY <3>1, GroupIds
      <4> QED
        BY <2>2, <4>1, GroupIdsDiffer
    <3>2. CASE ~Alone(api)
      <4>1. KindOf(api) = WebSocketKind /\ gid = RecordSetGroupId(RouteFor(api))
        BY <1>3, <3>2, GroupIds
      <4>2. RouteFor(api).zone = RouteFor(b).zone /\ api # b
        BY <2>2, <4>1, GroupIdsDiffer
      <4> QED
        BY ZoneShared, <2>2, <4>1, <4>2
    <3> QED
      BY <3>1, <3>2
  <2>5. id \in DOMAIN made' /\ made'[id] = made[id]
    BY <2>1, <2>3, <2>4, OtherGroupsStay
  <2>6. id \in DOMAIN groups' /\ groups'[id] = groups[id]
    <3>1. CASE ~adds
      BY <3>1, GroupsAfter
    <3>2. CASE adds
      BY <1>3, <3>2, GroupAdded
    <3> QED
      BY <3>1, <3>2
  <2> QED
    BY <2>1, <2>5, <2>6
<1>4. ASSUME adds
      PROVE  /\ gid \in DOMAIN groups' /\ DOMAIN groups' = DOMAIN groups \cup {gid}
             /\ gid \in DOMAIN made' /\ GroupTold(gid, groups'[gid], made'[gid])
  <2> DEFINE records == RecordsOf(api)
             c == ConditionOf(api)
             route == RouteFor(api)
  <2>1. gid = RecordSetGroupId(route)
    BY <1>4, GroupIds
  <2>2. groups' = GroupWith(groups, c, route, records)
    BY <1>4, GroupsAfter
  <2>3. GroupsWith(api) = groups'
    BY <1>4, <2>2 DEF GroupsWith, GroupsFor, AttributesFor
  <2>4. gid \in DOMAIN made' /\ made'[gid] = groups'[gid]
    BY <1>4, <2>3, MadeAfter
  <2>5. records \in Seq(RecordsIn(records))
    BY <1>4, RecordsLead DEF Agree
  <2> HIDE DEF records, c, route
  <2>6. DOMAIN groups' = DOMAIN groups \cup {gid}
    BY <1>4, GroupAdded
  <2>7. CASE gid \notin DOMAIN groups
    <3>1. groups'[gid] = RecordSetGroup(c, route, records)
      BY <1>4, <2>7, GroupAdded DEF records, c, route
    <3>2. RecordSetGroup(c, route, records).records = records
      BY DEF RecordSetGroup
    <3>3. GroupTold(gid, groups'[gid], made'[gid])
      BY <1>4, <2>1, <2>4, <2>5, <3>1, <3>2 DEF GroupTold, c, route
    <3> QED
      BY <2>4, <2>6, <3>3
  <2>8. CASE gid \in DOMAIN groups
    <3>1. GroupTold(gid, groups[gid], made[gid])
      BY <2>8 DEF GroupsTold, GroupTold
    <3>2. PICK old : old = groups[gid].records
      OBVIOUS
    <3>3. PICK b \in ApisWithRecords :
            /\ KindOf(b) # WebSocketKind /\ gid = RecordSetGroupId(RouteFor(b))
            /\ groups[gid] = RecordSetGroup(ConditionOf(b), RouteFor(b), old)
      BY <3>1, <3>2 DEF GroupTold
    <3>4. groups'[gid] = RecordSetGroup(ConditionOf(b), RouteFor(b), old \o records)
      BY <1>4, <2>8, <3>3, GroupAdded DEF records
    <3>5. old \in Seq(RecordsIn(old))
      BY <3>1, <3>2 DEF GroupTold
    <3>6. old \o records \in Seq(RecordsIn(old \o records))
      BY <2>5, <3>5, RecordsJoin
    <3>7. groups'[gid].records = old \o records
      BY <3>4 DEF RecordSetGroup
    <3>8. GroupTold(gid, groups'[gid], made'[gid])
      BY <2>4, <3>3, <3>4, <3>6, <3>7 DEF GroupTold
    <3> QED
      BY <2>4, <2>6, <3>8
  <2> QED
    BY <2>7, <2>8
<1>5. \A id \in DOMAIN groups' : id \in DOMAIN made' /\ GroupTold(id, groups'[id], made'[id])
  <2>1. CASE adds
    BY <2>1, <1>3, <1>4
  <2>2. CASE ~adds
    BY <2>2, <1>3, GroupsAfter
  <2> QED
    BY <2>1, <2>2
<1>6. \A id \in DOMAIN groups' :
        /\ id \in DOMAIN made' /\ made'[id] = groups'[id]
        /\ groups'[id].records \in Seq(RecordsIn(groups'[id].records))
        /\ \E b \in ApisWithRecords' :
             /\ KindOf(b)' # WebSocketKind /\ id = RecordSetGroupId(RouteFor(b)')
             /\ groups'[id] = RecordSetGroup(ConditionOf(b)', RouteFor(b)', groups'[id].records)
  BY <1>2, <1>5 DEF GroupTold
<1> QED
  BY <1>6 DEF GroupsTold

(* The group of a zone is noted from its first API on.                     *)
LEMMA GroupsStayKept ==
  ASSUME Frame, GroupsKept, NEW api \in Present, Translates(api)
  PROVE  GroupsKept'
<1>1. given' = given /\ custom' = custom /\ Done' = Done \cup {api}
  BY DEF Translates
<1>2. /\ \A b : KindOf(b)' = KindOf(b) /\ RouteFor(b)' = RouteFor(b) /\ GroupIdOf(b)' = GroupIdOf(b)
      /\ ApisWithRecords' = ApisWithRecords
  BY <1>1, SameTemplate
<1>3. DOMAIN groups \subseteq DOMAIN groups'
  BY GroupsAfter, GroupAdded
<1>4. api \in ApisWithRecords /\ KindOf(api) # WebSocketKind /\ ~(KindOf(api) = RestKind /\ RouteFor(api).separate) =>
        GroupIdOf(api) \in DOMAIN groups'
  BY GroupAdded DEF Alone
<1>5. \A b \in Done' \cap ApisWithRecords' :
        KindOf(b)' # WebSocketKind /\ ~(KindOf(b)' = RestKind /\ RouteFor(b)'.separate) =>
          GroupIdOf(b)' \in DOMAIN groups'
  BY <1>1, <1>2, <1>3, <1>4 DEF GroupsKept
<1> QED
  BY <1>5 DEF GroupsKept

(* The group of an API that is done is that of its zone, created with it   *)
(* or without condition, and has its records.                              *)
RecordTold(b, group) ==
  /\ \E c \in {NoCondition, ConditionOf(b)} : group = RecordSetGroup(c, RouteFor(b), group.records)
  /\ Recorded(group.records, b)

LEMMA NewRecordTold ==
  ASSUME Frame, Agree, MapsTold, GroupsTold, NEW api \in Present, Translates(api), api \in ApisWithRecords
  PROVE  GroupIdOf(api) \in DOMAIN made' /\ RecordTold(api, made'[GroupIdOf(api)])
<1> DEFINE id == GroupIdOf(api)
           route == RouteFor(api)
           records == RecordsOf(api)
<1>1. records \in Seq(RecordsIn(records)) /\ Recorded(records, api)
  BY RecordsLead DEF Agree
<1>2. /\ id \in DOMAIN made'
      /\ made'[id] = IF Alone(api) THEN RecordSetGroup(AttributesFor(api), route, records) ELSE GroupsWith(api)[id]
  BY MadeAfter
<1>3. AttributesFor(api) \in {NoCondition, ConditionOf(api)}
  BY DEF AttributesFor
<1>4. \A c, r : RecordSetGroup(c, route, r).records = r
  BY DEF RecordSetGroup
<1>5. CASE Alone(api)
  <2>1. made'[id] = RecordSetGroup(AttributesFor(api), route, records)
    BY <1>2, <1>5
  <2> HIDE DEF id, route, records
  <2>2. made'[id].records = records
    BY <1>4, <2>1
  <2> QED
    BY <1>1, <1>2, <1>3, <2>1, <2>2 DEF RecordTold, id, route
<1>6. CASE ~Alone(api) /\ KindOf(api) = WebSocketKind
  <2>1. GroupsFor(api) = <<>> /\ DOMAIN <<>> = {}
    BY <1>6 DEF GroupsFor
  <2>2. id = RecordSetGroupId(route)
    BY <1>6, GroupIds
  <2> HIDE DEF id, route, records
  <2>3. GroupsWith(api) = GroupWith(<<>>, AttributesFor(api), route, records)
    BY <2>1 DEF GroupsWith, route, records
  <2>4. GroupsWith(api) = Only(id, RecordSetGroup(AttributesFor(api), route, records)) ++ <<>>
    BY <2>1, <2>2, <2>3 DEF GroupWith
  <2>5. GroupsWith(api)[id] = RecordSetGroup(AttributesFor(api), route, records)
    BY <2>4 DEF ++, Only
  <2>6. made'[id] = RecordSetGroup(AttributesFor(api), route, records)
    BY <1>2, <1>6, <2>5
  <2>7. made'[id].records = records
    BY <1>4, <2>6
  <2> QED
    BY <1>1, <1>2, <1>3, <2>6, <2>7 DEF RecordTold, id, route
<1>7. CASE ~Alone(api) /\ KindOf(api) # WebSocketKind
  <2>1. groups' = GroupsWith(api)
    BY <1>7, GroupsAfter DEF GroupsWith, GroupsFor, AttributesFor
  <2>2. made'[id] = groups'[id]
    BY <1>2, <1>7, <2>1
  <2>3. CASE id \notin DOMAIN groups
    <3>1. made'[id] = RecordSetGroup(ConditionOf(api), route, records)
      BY <1>7, <2>2, <2>3, GroupAdded
    <3> HIDE DEF id, route, records
    <3>2. made'[id].records = records
      BY <1>4, <3>1
    <3> QED
      BY <1>1, <1>2, <3>1, <3>2 DEF RecordTold, id, route
  <2>4. CASE id \in DOMAIN groups
    <3>1. PICK old : old = groups[id].records
      OBVIOUS
    <3>2. PICK b \in ApisWithRecords :
            /\ KindOf(b) # WebSocketKind /\ id = RecordSetGroupId(RouteFor(b))
            /\ groups[id] = RecordSetGroup(ConditionOf(b), RouteFor(b), old)
            /\ old \in Seq(RecordsIn(old))
      BY <2>4, <3>1 DEF GroupsTold
    <3>3. made'[id] = RecordSetGroup(ConditionOf(b), RouteFor(b), old \o records)
      BY <1>7, <2>2, <2>4, <3>2, GroupAdded
    <3>4. id = RecordSetGroupId(route)
      BY <1>7, GroupIds
    <3>5. RouteFor(b).zone = route.zone
      BY <3>2, <3>4, GroupIdsDiffer
    <3>6. ConditionOf(b) = ConditionOf(api)
      BY <3>2, <3>5, ZoneShared
    <3>7. made'[id] = RecordSetGroup(ConditionOf(api), route, old \o records)
      BY <3>3, <3>5, <3>6 DEF RecordSetGroup
    <3>8. RecordsIn(records) \subseteq RecordsIn(old \o records)
      BY <1>1, <3>2, RecordsJoin
    <3> HIDE DEF id, route, records
    <3>9. made'[id].records = old \o records
      BY <1>4, <3>7
    <3>10. Recorded(old \o records, api)
      BY <1>1, <3>8 DEF Recorded
    <3> QED
      BY <1>2, <3>7, <3>9, <3>10 DEF RecordTold, id, route
  <2> QED
    BY <2>3, <2>4
<1> QED
  BY <1>5, <1>6, <1>7

(* APIs that share a group of their own have the same records in it.       *)
LEMMA SameRecords ==
  ASSUME Frame, Agree, NEW a \in Present, NEW b \in Present, a \in ApisWithRecords, b \in ApisWithRecords,
         Alone(a), GroupIdOf(a) = GroupIdOf(b)
  PROVE  /\ ConditionOf(a) = ConditionOf(b) /\ RouteFor(a) = RouteFor(b)
         /\ \A records : Recorded(records, a) => Recorded(records, b)
<1>1. /\ RouteFor(a).zone = RouteFor(b).zone /\ Alone(b)
      /\ DomainFor(a).name = DomainFor(b).name
  BY GroupIds
<1>2. ConditionOf(a) = ConditionOf(b) /\ RouteFor(a) = RouteFor(b)
  BY <1>1, ZoneShared DEF Alone
<1>3. KindOf(a) = RestKind /\ KindOf(b) = RestKind
  BY <1>1 DEF Alone
<1>4. EndpointOf(DomainFor(a)) = EndpointOf(DomainFor(b)) /\ a \in ApisWithDomain /\ b \in ApisWithDomain
  BY <1>1 DEF Agree, DomainsAgree, ApisWithRecords
<1>5. DomainFor(a) # NoDomain /\ DomainFor(b) # NoDomain
  BY <1>4, ApiParts
<1>6. IsPrivateDomain(DomainFor(a)) <=> IsPrivateDomain(DomainFor(b))
  BY <1>4, <1>5 DEF IsPrivateDomain, EndpointOf
<1>7. DomainIdOf(a) = DomainIdOf(b)
  BY <1>1, <1>3, <1>6 DEF DomainIdOf, ApiDomainName, ApiDomainNameV2
<1>8. TargetOf(a) = TargetOf(b)
  BY <1>2, <1>4, <1>7 DEF TargetOf
<1> QED
  BY <1>1, <1>2, <1>8 DEF Recorded

LEMMA OldRecordTold ==
  ASSUME Frame, Agree, RecordsMade, NEW api \in Present, Translates(api), NEW b \in Done \cap ApisWithRecords
  PROVE  GroupIdOf(b) \in DOMAIN made' /\ RecordTold(b, made'[GroupIdOf(b)])
<1> DEFINE id == GroupIdOf(b)
<1>1. MapsTold /\ GroupsTold /\ GroupsKept /\ RecordsTold
  BY DEF RecordsMade
<1>2. id \in DOMAIN made /\ RecordTold(b, made[id])
  BY <1>1 DEF RecordsTold, RecordTold
<1>3. b \in Present /\ api \notin Done /\ b # api
  BY DEF Done, Translates
<1>4. CASE ~(api \in ApisWithRecords /\ id = GroupIdOf(api))
  <2>1. id[1] = "RecordSetGroup"
    BY IdsBegin
  <2>2. id \in DOMAIN made' /\ made'[id] = made[id]
    BY <1>2, <1>4, <2>1, OtherGroupsStay
  <2> QED
    BY <1>2, <2>2
<1>5. CASE api \in ApisWithRecords /\ id = GroupIdOf(api) /\ Alone(api)
  <2>1. id \in DOMAIN made' /\ RecordTold(api, made'[id])
    BY <1>1, <1>5, NewRecordTold
  <2>2. /\ ConditionOf(b) = ConditionOf(api) /\ RouteFor(b) = RouteFor(api)
        /\ \A records : Recorded(records, api) => Recorded(records, b)
    BY <1>3, <1>5, SameRecords
  <2> QED
    BY <2>1, <2>2 DEF RecordTold
<1>6. CASE api \in ApisWithRecords /\ id = GroupIdOf(api) /\ ~Alone(api)
  <2>1. RouteFor(api).zone = RouteFor(b).zone /\ ~Alone(b)
    BY <1>6, GroupIds
  <2>2. KindOf(api) # WebSocketKind /\ KindOf(b) # WebSocketKind
    BY <1>3, <1>6, <2>1, ZoneShared
  <2>3. id \in DOMAIN groups
    BY <1>1, <2>1, <2>2 DEF GroupsKept, Alone
  <2>4. made[id] = groups[id] /\ groups[id].records \in Seq(RecordsIn(groups[id].records))
    BY <1>1, <2>3 DEF GroupsTold
  <2>5. PICK old, c : /\ old = groups[id].records /\ c \in {NoCondition, ConditionOf(b)}
                      /\ groups[id] = RecordSetGroup(c, RouteFor(b), old)
                      /\ Recorded(old, b)
    BY <1>2, <2>4 DEF RecordTold
  <2>6. PICK new : new = RecordsOf(api)
    OBVIOUS
  <2>7. new \in Seq(RecordsIn(new))
    BY <1>1, <1>6, <2>6, RecordsLead DEF Agree
  <2>8. groups' = GroupsWith(api)
    BY <1>6, <2>2, GroupsAfter DEF GroupsWith, GroupsFor, AttributesFor
  <2>9. id \in DOMAIN made' /\ made'[id] = groups'[id]
    BY <1>6, <2>8, MadeAfter
  <2>10. groups'[id] = RecordSetGroup(c, RouteFor(b), old \o new)
    <3>1. \A x, r, was : groups[GroupIdOf(api)] = RecordSetGroup(x, r, was) =>
            groups'[GroupIdOf(api)] = RecordSetGroup(x, r, was \o RecordsOf(api))
      BY <1>6, <2>2, <2>3, GroupAdded
    <3>2. groups[GroupIdOf(api)] = RecordSetGroup(c, RouteFor(b), old)
      BY <1>6, <2>5
    <3>3. groups'[GroupIdOf(api)] = RecordSetGroup(c, RouteFor(b), old \o RecordsOf(api))
      BY <3>1, <3>2
    <3> QED
      BY <1>6, <2>6, <3>3
  <2>11. RecordsIn(old) \subseteq RecordsIn(old \o new)
    BY <2>4, <2>5, <2>7, RecordsJoin
  <2> HIDE DEF id
  <2>12. made'[id].records = old \o new
    BY <2>9, <2>10 DEF RecordSetGroup
  <2>13. Recorded(old \o new, b)
    BY <2>5, <2>11 DEF Recorded
  <2>14. made'[id] = RecordSetGroup(c, RouteFor(b), made'[id].records) /\ Recorded(made'[id].records, b)
    BY <2>9, <2>10, <2>12, <2>13
  <2>15. RecordTold(b, made'[id])
    BY <2>5, <2>14 DEF RecordTold
  <2> QED
    BY <2>9, <2>15 DEF id
<1> QED
  BY <1>4, <1>5, <1>6

LEMMA RecordsStayTold ==
  ASSUME Frame, Agree, RecordsMade, NEW api \in Present, Translates(api)
  PROVE  RecordsTold'
<1>1. given' = given /\ custom' = custom /\ Done' = Done \cup {api}
  BY DEF Translates
<1>2. /\ \A b : DomainFor(b)' = DomainFor(b) /\ ConditionOf(b)' = ConditionOf(b) /\ RouteFor(b)' = RouteFor(b)
      /\ \A b : GroupIdOf(b)' = GroupIdOf(b) /\ TargetOf(b)' = TargetOf(b)
      /\ ApisWithRecords' = ApisWithRecords
  BY <1>1, SameTemplate
<1>3. \A b \in Done' \cap ApisWithRecords' :
        GroupIdOf(b) \in DOMAIN made' /\ RecordTold(b, made'[GroupIdOf(b)])
  BY <1>1, <1>2, NewRecordTold, OldRecordTold DEF RecordsMade
<1>4. ASSUME NEW b \in Done' \cap ApisWithRecords'
      PROVE  /\ GroupIdOf(b)' \in DOMAIN made'
             /\ \E c \in {NoCondition, ConditionOf(b)'} :
                  made'[GroupIdOf(b)'] = RecordSetGroup(c, RouteFor(b)', made'[GroupIdOf(b)'].records)
             /\ \A type \in TypesOf(RouteFor(b)') :
                  Record(DomainFor(b)'.name, type, TargetOf(b)') \in RecordsIn(made'[GroupIdOf(b)'].records)
  <2>1. GroupIdOf(b) \in DOMAIN made' /\ RecordTold(b, made'[GroupIdOf(b)])
    BY <1>3
  <2> QED
    BY <1>2, <2>1 DEF RecordTold, Recorded
<1> QED
  BY <1>4 DEF RecordsTold, Recorded

-----------------------------------------------------------------------------
(* The invariant.                                                          *)

LEMMA InitResourcesInv == ResourcesInit => ResourcesInv
<1> SUFFICES ASSUME ResourcesInit PROVE ResourcesInv
  OBVIOUS
<1>1. /\ given \in Templates /\ todo = Apis /\ failed = FALSE
      /\ custom \in Customs(given)
      /\ waiting = {api \in OtherApis : custom.kind[api] # Nothing}
      /\ maps = custom.maps /\ groups = <<>> /\ made = <<>>
  BY DEF ResourcesInit, Init
<1>2. Frame
  BY <1>1 DEF Frame
<1>3. Done = {}
  BY <1>1 DEF Done, Present, AllApis
<1>4. ResourcesMade
  BY <1>3 DEF ResourcesMade, OwnMade, DomainsMade, WebSocketsValid
<1>5. DOMAIN <<>> = {}
  OBVIOUS
<1>6. RecordsMade
  BY <1>1, <1>3, <1>5 DEF RecordsMade, MapsTold, GroupsTold, GroupsKept, RecordsTold
<1> QED
  BY <1>2, <1>4, <1>6 DEF ResourcesInv

(* When nothing happens nothing changes.                                   *)
LEMMA StutterKeepsInv == ResourcesInv /\ UNCHANGED allVars => ResourcesInv'
<1> SUFFICES ASSUME ResourcesInv, UNCHANGED allVars PROVE ResourcesInv'
  OBVIOUS
<1>1. /\ given' = given /\ custom' = custom /\ todo' = todo /\ waiting' = waiting /\ failed' = failed
      /\ maps' = maps /\ groups' = groups /\ made' = made
  BY DEF allVars, vars, resourceVars
<1>2. /\ \A b : KindOf(b)' = KindOf(b) /\ DomainFor(b)' = DomainFor(b) /\ ConditionOf(b)' = ConditionOf(b)
      /\ \A b : RouteFor(b)' = RouteFor(b) /\ DomainIdOf(b)' = DomainIdOf(b) /\ DomainOfOwn(b)' = DomainOfOwn(b)
      /\ \A b : GroupIdOf(b)' = GroupIdOf(b) /\ TargetOf(b)' = TargetOf(b) /\ OwnOf(b)' = OwnOf(b)
      /\ ApisWithDomain' = ApisWithDomain /\ ApisWithRecords' = ApisWithRecords
      /\ WebSocketApis' = WebSocketApis /\ Present' = Present
      /\ ZonesAgree' = ZonesAgree /\ DomainsAgree' = DomainsAgree /\ DistributionsApart' = DistributionsApart
  BY <1>1, SameTemplate
<1>3. Done' = Done
  BY <1>1, <1>2 DEF Done
<1>4. Frame'
  BY FrameStays DEF ResourcesInv
<1>5. OwnMade' = OwnMade
  BY <1>1, <1>2, <1>3 DEF OwnMade
<1>6. DomainsMade' = DomainsMade
  BY <1>1, <1>2, <1>3 DEF DomainsMade
<1>7. WebSocketsValid' = WebSocketsValid
  BY <1>1, <1>2, <1>3 DEF WebSocketsValid
<1>8. MapsTold' = MapsTold
  BY <1>1, <1>2 DEF MapsTold
<1>9. GroupsTold' = GroupsTold
  BY <1>1, <1>2 DEF GroupsTold
<1>10. GroupsKept' = GroupsKept
  BY <1>1, <1>2, <1>3 DEF GroupsKept
<1>11. RecordsTold' = RecordsTold
  BY <1>1, <1>2, <1>3 DEF RecordsTold, Recorded
<1>12. Agree' = Agree
  BY <1>2 DEF Agree
<1> QED
  BY <1>1, <1>4, <1>5, <1>6, <1>7, <1>8, <1>9, <1>10, <1>11, <1>12 DEF ResourcesInv, ResourcesMade, RecordsMade

LEMMA NextResourcesInv == ResourcesInv /\ [ResourcesNext]_allVars => ResourcesInv'
<1> SUFFICES ASSUME ResourcesInv, [ResourcesNext]_allVars PROVE ResourcesInv'
  OBVIOUS
<1>1. CASE UNCHANGED allVars
  BY <1>1, StutterKeepsInv
<1>2. CASE ResourcesNext
  <2>1. Frame /\ Frame'
    BY FrameStays DEF ResourcesInv
  <2>2. ASSUME ~failed' PROVE ResourcesMade' /\ (Agree' => RecordsMade')
    <3>1. ~failed
      BY <1>2, <2>1, <2>2, StepsTake
    <3>2. PICK api \in Present : Translates(api)
      BY <1>2, <2>1, <2>2, StepsTake
    <3>3. ResourcesMade /\ (Agree => RecordsMade)
      BY <3>1 DEF ResourcesInv
    <3>4. ResourcesMade'
      BY <2>1, <3>2, <3>3, OwnStaysMade, DomainsStayMade, WebSocketsStayValid DEF ResourcesMade
    <3>5. Agree' = Agree
      BY <3>2, SameTemplate DEF Translates, Agree
    <3>6. Agree => RecordsMade'
      BY <2>1, <3>2, <3>3, MapsStayTold, GroupsStayTold, GroupsStayKept, RecordsStayTold DEF RecordsMade
    <3> QED
      BY <3>4, <3>5, <3>6
  <2> QED
    BY <2>1, <2>2 DEF ResourcesInv
<1> QED
  BY <1>1, <1>2

(* Whatever is made for the APIs that are translated stays as it was made, *)
(* is made again alike, or is joined by what other APIs make.              *)
THEOREM SpecResourcesInv == ResourcesSpec => []ResourcesInv
  BY InitResourcesInv, NextResourcesInv, PTL DEF ResourcesSpec

-----------------------------------------------------------------------------
(* Paths and routes: the last of those that have one id is the one made.   *)

(* A nonempty set of indices has a greatest one.                           *)
LEMMA MaxIsIn ==
  ASSUME NEW n \in Nat, NEW I, I \subseteq 1..n, I # {}
  PROVE  \E x \in I : \A y \in I : x >= y
<1> DEFINE Tails == {{j \in I : i <= j} : i \in I}
           R == StrictSubsetOrdering(1..n)
<1>1. IsWellFoundedOn(R, SUBSET (1..n))
  <2>1. IsFiniteSet(1..n)
    BY FS_Interval
  <2>2. IsWellFoundedOn(R, FiniteSubsetsOf(1..n))
    BY FS_StrictSubsetOrderingWellFounded
  <2>3. FiniteSubsetsOf(1..n) = SUBSET (1..n)
    BY <2>1, FS_FiniteSubsetsOfFinite
  <2> QED
    BY <2>2, <2>3
<1>2. Tails \subseteq SUBSET (1..n) /\ Tails # {}
  OBVIOUS
<1>3. PICK tail \in Tails : \A other \in Tails : ~(<<other, tail>> \in R)
  <2> HIDE DEF Tails, R
  <2> QED
    BY <1>1, <1>2, WFMin
<1>4. PICK i \in I : tail = {j \in I : i <= j}
  OBVIOUS
<1>5. ASSUME NEW k \in I PROVE i >= k
  <2> SUFFICES ASSUME k > i PROVE FALSE
    BY <1>4
  <2> DEFINE other == {j \in I : k <= j}
  <2>1. other \in Tails /\ other \in SUBSET (1..n) /\ tail \in SUBSET (1..n)
    BY <1>2
  <2>2. other \subseteq tail /\ i \in tail /\ i \notin other
    <3>1. \A j \in I : j \in Int /\ (k <= j => i <= j)
      OBVIOUS
    <3>2. i \in tail
      BY <1>4
    <3>3. i \notin other
      BY <1>4
    <3>4. other \subseteq tail
      BY <1>4, <3>1
    <3> QED
      BY <3>2, <3>3, <3>4
  <2> HIDE DEF other, Tails
  <2>3. <<other, tail>> \in R
    BY <2>1, <2>2 DEF StrictSubsetOrdering
  <2> QED
    BY <1>3, <2>1, <2>3
<1> QED
  BY <1>5

(* The text of a base path, the last path of an id, and its mapping.       *)
TextOf(api, p) == IF KindOf(api) = RestKind THEN Normalized(DomainFor(api), p) ELSE p.text
LastPath(api, id) == SelectLastInSeq(DomainFor(api).paths, LAMBDA p : MappingId(api, p) = id)
MappingTo(api, text) == BasePathMapping(api, AttributesFor(api), DomainIdOf(api), text)

LEMMA LastPathIsIn ==
  ASSUME NEW api, NEW id, NEW S, DomainFor(api).paths \in Seq(S),
         \E i \in DOMAIN DomainFor(api).paths : MappingId(api, DomainFor(api).paths[i]) = id
  PROVE  LastPath(api, id) \in DOMAIN DomainFor(api).paths /\ MappingId(api, DomainFor(api).paths[LastPath(api, id)]) = id
<1> DEFINE s == DomainFor(api).paths
           I == {i \in 1..Len(s) : MappingId(api, s[i]) = id}
<1>1. Len(s) \in Nat /\ DOMAIN s = 1..Len(s)
  OBVIOUS
<1>2. I \subseteq 1..Len(s) /\ I # {}
  BY <1>1
<1>3. LastPath(api, id) = CHOOSE x \in I : \A y \in I : x >= y
  BY <1>2 DEF LastPath, SelectLastInSeq, Max
<1> HIDE DEF I
<1>4. PICK n, J : n = Len(s) /\ J = I
  OBVIOUS
<1>5. \E x \in J : \A y \in J : x >= y
  BY <1>1, <1>2, <1>4, MaxIsIn
<1>6. LastPath(api, id) \in I
  BY <1>3, <1>4, <1>5
<1> QED
  BY <1>1, <1>6 DEF I

LEMMA MappingsAre ==
  ASSUME NEW api, DomainFor(api) # NoDomain
  PROVE  /\ DomainFor(api).paths = <<>> =>
              MappingsOf(api) = Only(<<api, NoPath, "BasePathMapping">>, MappingTo(api, NoPath))
         /\ DomainFor(api).paths # <<>> =>
              MappingsOf(api) =
                [id \in {MappingId(api, DomainFor(api).paths[i]) : i \in DOMAIN DomainFor(api).paths} |->
                   MappingTo(api, TextOf(api, DomainFor(api).paths[LastPath(api, id)]))]
<1> DEFINE d == DomainFor(api)
           A == AttributesFor(api)
<1>1. CASE KindOf(api) # RestKind
  <2>1. MappingsOf(api) = ApiMappings(api, A, d) /\ DomainIdOf(api) = ApiDomainNameV2(d.name)
    BY <1>1 DEF MappingsOf, DomainIdOf
  <2>2. \A p : TextOf(api, p) = p.text
    BY <1>1 DEF TextOf
  <2> QED
    BY <2>1, <2>2 DEF ApiMappings, Mappings, MappingTo, LastPath
<1>2. CASE KindOf(api) = RestKind /\ IsPrivateDomain(d)
  <2>1. MappingsOf(api) = RestMappingsV2(api, A, d) /\ DomainIdOf(api) = ApiDomainNameV2(d.name)
    BY <1>2 DEF MappingsOf, DomainIdOf
  <2>2. \A p : TextOf(api, p) = Normalized(d, p)
    BY <1>2 DEF TextOf
  <2> QED
    BY <2>1, <2>2 DEF RestMappingsV2, Mappings, MappingTo, LastPath
<1>3. CASE KindOf(api) = RestKind /\ ~IsPrivateDomain(d)
  <2>1. MappingsOf(api) = RestMappings(api, A, d) /\ DomainIdOf(api) = ApiDomainName(d.name)
    BY <1>3 DEF MappingsOf, DomainIdOf
  <2>2. \A p : TextOf(api, p) = Normalized(d, p)
    BY <1>3 DEF TextOf
  <2> QED
    BY <2>1, <2>2 DEF RestMappings, Mappings, MappingTo, LastPath
<1> QED
  BY <1>1, <1>2, <1>3

(* Every base path of an API has a mapping.                                *)
LEMMA PathsAreMapped ==
  ASSUME Frame, PathsApart, NEW api \in Present, api \in ApisWithDomain, NEW path \in PathsOf(api)
  PROVE  \E id \in DOMAIN MappingsOf(api) : MappingsOf(api)[id] = MappingTo(api, path)
<1> DEFINE paths == DomainFor(api).paths
<1>1. DomainFor(api) # NoDomain /\ paths \in Seq(PathsIn(DomainFor(api)))
  BY ApiParts
<1>2. path \in IF paths = <<>> THEN {NoPath} ELSE {TextOf(api, paths[i]) : i \in DOMAIN paths}
  BY DEF PathsOf, TextOf
<1>3. CASE paths = <<>>
  <2>1. PICK id : id = <<api, NoPath, "BasePathMapping">>
    OBVIOUS
  <2>2. MappingsOf(api) = Only(id, MappingTo(api, NoPath)) /\ path = NoPath
    BY <1>1, <1>2, <1>3, <2>1, MappingsAre
  <2>3. id \in DOMAIN MappingsOf(api) /\ MappingsOf(api)[id] = MappingTo(api, path)
    BY <2>2 DEF Only
  <2> QED
    BY <2>3
<1>4. CASE paths # <<>>
  <2>1. PICK i \in DOMAIN paths : path = TextOf(api, paths[i])
    BY <1>2, <1>4
  <2>2. PICK id : id = MappingId(api, paths[i])
    OBVIOUS
  <2>3. PICK j : j = LastPath(api, id)
    OBVIOUS
  <2>4. id \in DOMAIN MappingsOf(api) /\ MappingsOf(api)[id] = MappingTo(api, TextOf(api, paths[j]))
    BY <1>1, <1>4, <2>2, <2>3, MappingsAre
  <2>5. j \in DOMAIN paths /\ MappingId(api, paths[j]) = id
    BY <1>1, <2>1, <2>2, <2>3, LastPathIsIn
  <2>6. paths[j].plain = paths[i].plain
    <3>1. \A p : MappingId(api, p)[2] = p.plain
      BY DEF MappingId
    <3> QED
      BY <2>2, <2>5, <3>1
  <2>7. paths[i] \in PathsIn(DomainFor(api)) /\ paths[j] \in PathsIn(DomainFor(api))
    BY <2>1, <2>5 DEF PathsIn
  <2>8. paths[j].text = paths[i].text
    BY <2>6, <2>7 DEF PathsApart
  <2>9. TextOf(api, paths[j]) = TextOf(api, paths[i])
    BY <2>6, <2>8 DEF TextOf, Normalized
  <2> QED
    BY <2>1, <2>4, <2>9
<1> QED
  BY <1>3, <1>4

(* The resources of a WebSocket API, one by one.                           *)
AuthorizerPermissionId(api) == <<api, "AuthorizerPermission">>
AuthorizerPermitted(api, c) ==
  [type |-> "Permission", condition |-> c, api |-> api,
   invokes |-> "authorizer", stage |-> "*", key |-> "authorizers"]

LEMMA RouteResourceIds ==
  ASSUME NEW api, NEW c, NEW w
  PROVE  \A id \in DOMAIN RouteResources(api, c, w) : Len(id) = 3 /\ id[3] \in {"Route", "Integration", "Permission"}
<1>1. \A r : \A kind \in {"route", "integration", "permission"} :
        Len(RouteIds(api, r)[kind]) = 3 /\ RouteIds(api, r)[kind][3] \in {"Route", "Integration", "Permission"}
  <2> TAKE r
  <2>1. /\ RouteIds(api, r)["route"] = <<api, r.clean, "Route">>
        /\ RouteIds(api, r)["integration"] = <<api, r.clean, "Integration">>
        /\ RouteIds(api, r)["permission"] = <<api, r.clean, "Permission">>
    BY DEF RouteIds
  <2> QED
    BY <2>1
<1>2. DOMAIN RouteResources(api, c, w) =
        UNION {{RouteIds(api, r)[kind] : kind \in {"route", "integration", "permission"}} : r \in RoutesOf(w)}
  BY DEF RouteResources
<1> QED
  BY <1>1, <1>2

LEMMA WebSocketParts ==
  ASSUME NEW api, NEW c, NEW w
  PROVE  /\ StageOf(api) \in DOMAIN WebSocketResources(api, c, w)
         /\ WebSocketResources(api, c, w)[StageOf(api)] = WebSocketStage(api, c, w)
         /\ \A id \in DOMAIN RouteResources(api, c, w) :
              /\ id \in DOMAIN WebSocketResources(api, c, w)
              /\ WebSocketResources(api, c, w)[id] = RouteResources(api, c, w)[id]
         /\ HasAuthorizer(w.auth, RoutesOf(w)) =>
              /\ AuthorizerId(api) \in DOMAIN WebSocketResources(api, c, w)
              /\ WebSocketResources(api, c, w)[AuthorizerId(api)] = Authorizer(api, c)
              /\ ~w.auth.role =>
                   /\ AuthorizerPermissionId(api) \in DOMAIN WebSocketResources(api, c, w)
                   /\ WebSocketResources(api, c, w)[AuthorizerPermissionId(api)] = AuthorizerPermitted(api, c)
         /\ \A id \in DOMAIN WebSocketResources(api, c, w) :
              Len(id) = 2 \/ (Len(id) = 3 /\ id[3] \in {"Route", "Integration", "Permission"})
<1> DEFINE routes == RouteResources(api, c, w)
           has == HasAuthorizer(w.auth, RoutesOf(w))
           permission == AuthorizerPermission(api, c, w.auth)
           auth == IF has THEN Only(AuthorizerId(api), Authorizer(api, c)) ++ permission ELSE <<>>
           stage == Only(StageOf(api), WebSocketStage(api, c, w)) ++ auth
           most == routes ++ stage
           whole == WebSocketResources(api, c, w)
           A == <<api, "Api">>
           S == StageOf(api)
           C == AuthorizerId(api)
           P == AuthorizerPermissionId(api)
<1>1. /\ A # S /\ A # C /\ A # P /\ S # C /\ S # P /\ C # P
      /\ Len(A) = 2 /\ Len(S) = 2 /\ Len(C) = 2 /\ Len(P) = 2
  <2>1. A[2] = "Api" /\ S[2] = "Stage" /\ C[2] = "ConnectAuthorizer" /\ P[2] = "AuthorizerPermission"
    BY DEF StageOf, AuthorizerId, AuthorizerPermissionId
  <2>2. Len(A) = 2 /\ Len(S) = 2 /\ Len(C) = 2 /\ Len(P) = 2
    BY DEF StageOf, AuthorizerId, AuthorizerPermissionId
  <2> QED
    BY <2>1, <2>2
<1>2. \A id \in DOMAIN routes : Len(id) = 3 /\ id[3] \in {"Route", "Integration", "Permission"}
  BY RouteResourceIds
<1>3. /\ DOMAIN permission \subseteq {P}
      /\ ~w.auth.role => P \in DOMAIN permission /\ permission[P] = AuthorizerPermitted(api, c)
  <2>1. DOMAIN <<>> = {}
    OBVIOUS
  <2>2. permission = IF w.auth.role THEN <<>> ELSE Only(P, AuthorizerPermitted(api, c))
    BY DEF AuthorizerPermission, AuthorizerPermissionId, AuthorizerPermitted
  <2> HIDE DEF P
  <2> QED
    BY <2>1, <2>2 DEF Only
<1> HIDE DEF A, S, C, P, permission, routes, has
<1>4. /\ DOMAIN auth \subseteq {C, P}
      /\ has => C \in DOMAIN auth /\ auth[C] = Authorizer(api, c)
      /\ has /\ ~w.auth.role => P \in DOMAIN auth /\ auth[P] = AuthorizerPermitted(api, c)
  <2>1. DOMAIN <<>> = {}
    OBVIOUS
  <2>2. auth = IF has THEN Only(C, Authorizer(api, c)) ++ permission ELSE <<>>
    BY DEF C
  <2> HIDE DEF auth
  <2> QED
    BY <1>1, <1>3, <2>1, <2>2 DEF Only, ++
<1> HIDE DEF auth
<1>5. /\ DOMAIN stage = {S} \cup DOMAIN auth
      /\ stage[S] = WebSocketStage(api, c, w)
      /\ \A id \in DOMAIN auth : id # S => stage[id] = auth[id]
  <2>1. stage = Only(S, WebSocketStage(api, c, w)) ++ auth
    BY DEF S
  <2> HIDE DEF stage
  <2> QED
    BY <2>1 DEF Only, ++
<1> HIDE DEF stage
<1>6. /\ DOMAIN most = DOMAIN routes \cup DOMAIN stage
      /\ \A id \in DOMAIN routes : most[id] = routes[id]
      /\ \A id \in DOMAIN stage : id \notin DOMAIN routes => most[id] = stage[id]
  BY DEF ++
<1> HIDE DEF most
<1>7. /\ DOMAIN whole = {A} \cup DOMAIN most
      /\ \A id \in DOMAIN most : id # A => whole[id] = most[id]
  <2>1. whole = Only(A, WebSocketApiResource(api, c)) ++ most
    BY DEF WebSocketResources, most, routes, stage, auth, has, permission, A
  <2> HIDE DEF whole
  <2> QED
    BY <2>1 DEF Only, ++
<1> HIDE DEF whole
<1>8. \A id \in DOMAIN routes : id # A /\ id # S /\ id # C /\ id # P
  BY <1>1, <1>2
<1>9. S \in DOMAIN whole /\ whole[S] = WebSocketStage(api, c, w)
  BY <1>1, <1>5, <1>6, <1>7, <1>8
<1>10. \A id \in DOMAIN routes : id \in DOMAIN whole /\ whole[id] = routes[id]
  BY <1>6, <1>7, <1>8
<1>11. \A id \in {C, P} : id \in DOMAIN auth => id \in DOMAIN whole /\ whole[id] = auth[id]
  BY <1>1, <1>5, <1>6, <1>7, <1>8
<1>12. \A id \in DOMAIN whole : Len(id) = 2 \/ (Len(id) = 3 /\ id[3] \in {"Route", "Integration", "Permission"})
  BY <1>1, <1>2, <1>4, <1>5, <1>6, <1>7
<1>13. /\ has => C \in DOMAIN whole /\ whole[C] = Authorizer(api, c)
       /\ has /\ ~w.auth.role => P \in DOMAIN whole /\ whole[P] = AuthorizerPermitted(api, c)
  BY <1>4, <1>11
<1> QED
  BY <1>9, <1>10, <1>12, <1>13 DEF whole, routes, has, S, C, P

-----------------------------------------------------------------------------
(* What the invariant says of the APIs that are done.                      *)

LEMMA OwnIsMade ==
  ASSUME Frame, OwnMade, NEW api \in Done
  PROVE  /\ \A id \in DOMAIN SelfOf(api) : id \in DOMAIN made /\ made[id] = SelfOf(api)[id]
         /\ \A id \in DOMAIN MappingsOf(api) : id \in DOMAIN made /\ made[id] = MappingsOf(api)[id]
<1>1. /\ DOMAIN OwnOf(api) = DOMAIN SelfOf(api) \cup DOMAIN MappingsOf(api)
      /\ \A id \in DOMAIN SelfOf(api) : OwnOf(api)[id] = SelfOf(api)[id]
      /\ \A id \in DOMAIN MappingsOf(api) : id \notin DOMAIN SelfOf(api) => OwnOf(api)[id] = MappingsOf(api)[id]
  BY DEF OwnOf, ++
<1>2. \A id \in DOMAIN OwnOf(api) : id \in DOMAIN made /\ made[id] = OwnOf(api)[id]
  BY DEF OwnMade
<1>3. \A id \in DOMAIN MappingsOf(api) : Len(id) = 3 /\ id[3] = "BasePathMapping"
  <2>1. CASE DomainFor(api) = NoDomain
    <3>1. DOMAIN <<>> = {}
      OBVIOUS
    <3> QED
      BY <2>1, <3>1 DEF MappingsOf
  <2>2. CASE DomainFor(api) # NoDomain
    <3>1. \A p : Len(MappingId(api, p)) = 3 /\ MappingId(api, p)[3] = "BasePathMapping"
      BY DEF MappingId
    <3>2. Len(<<api, NoPath, "BasePathMapping">>) = 3 /\ <<api, NoPath, "BasePathMapping">>[3] = "BasePathMapping"
      OBVIOUS
    <3>3. CASE DomainFor(api).paths = <<>>
      <4>1. DOMAIN MappingsOf(api) = {<<api, NoPath, "BasePathMapping">>}
        BY <2>2, <3>3, MappingsAre DEF Only
      <4> QED
        BY <3>2, <4>1
    <3>4. CASE DomainFor(api).paths # <<>>
      <4>1. DOMAIN MappingsOf(api) = {MappingId(api, DomainFor(api).paths[i]) : i \in DOMAIN DomainFor(api).paths}
        BY <2>2, <3>4, MappingsAre
      <4> QED
        BY <3>1, <4>1
    <3> QED
      BY <3>3, <3>4
  <2> QED
    BY <2>1, <2>2
<1>4. \A id \in DOMAIN SelfOf(api) : Len(id) = 2 \/ (Len(id) = 3 /\ id[3] # "BasePathMapping")
  <2>1. CASE KindOf(api) = WebSocketKind
    BY <2>1, WebSocketParts DEF SelfOf
  <2>2. CASE KindOf(api) # WebSocketKind
    <3>1. DOMAIN SelfOf(api) = {StageOf(api)}
      BY <2>2 DEF SelfOf, RestStage, Only
    <3>2. Len(StageOf(api)) = 2
      BY DEF StageOf
    <3> QED
      BY <3>1, <3>2
  <2> QED
    BY <2>1, <2>2
<1> QED
  BY <1>1, <1>2, <1>3, <1>4

LEMMA StageIsMade ==
  ASSUME Frame, OwnMade, NEW api \in Done
  PROVE  StageOf(api) \in DOMAIN made /\ made[StageOf(api)].condition = AttributesFor(api)
<1>1. CASE KindOf(api) = WebSocketKind
  <2>1. /\ StageOf(api) \in DOMAIN SelfOf(api)
        /\ SelfOf(api)[StageOf(api)] = WebSocketStage(api, AttributesFor(api), custom.webSocket[api])
    BY <1>1, WebSocketParts DEF SelfOf
  <2>2. WebSocketStage(api, AttributesFor(api), custom.webSocket[api]).condition = AttributesFor(api)
    BY DEF WebSocketStage
  <2> QED
    BY <2>1, <2>2, OwnIsMade
<1>2. CASE KindOf(api) # WebSocketKind
  <2>1. SelfOf(api) = RestStage(api)
    BY <1>2 DEF SelfOf
  <2>2. StageOf(api) \in DOMAIN RestStage(api) /\ RestStage(api)[StageOf(api)].condition = AttributesFor(api)
    BY <1>2 DEF RestStage, Only, AttributesFor
  <2> QED
    BY <2>1, <2>2, OwnIsMade
<1> QED
  BY <1>1, <1>2

(* The copy of a domain that was made last serves all its APIs.            *)
LEMMA DomainIsFound ==
  ASSUME Frame, DomainsMade, DomainsAgree, NEW api \in Done, api \in ApisWithDomain
  PROVE  /\ DomainIdOf(api) \in DOMAIN made /\ DomainIdOf(api) \in DomainsOf(api)
         /\ made[DomainIdOf(api)].condition \in {NoCondition, ConditionOf(api)}
<1>1. PICK b \in ApisWithDomain :
        /\ DomainIdOf(api) \in DOMAIN made
        /\ DomainIdOf(b) = DomainIdOf(api) /\ made[DomainIdOf(api)] = DomainOfOwn(b)
  BY DEF DomainsMade
<1>2. DomainFor(b).name = DomainFor(api).name
  BY <1>1, IdsBegin
<1>3. ConditionOf(b) = ConditionOf(api) /\ EndpointOf(DomainFor(b)) = EndpointOf(DomainFor(api))
  BY <1>2 DEF DomainsAgree
<1>4. /\ DomainOfOwn(b).type = "DomainName"
      /\ DomainOfOwn(b).name = DomainFor(api).name
      /\ DomainOfOwn(b).endpoint = EndpointOf(DomainFor(api))
      /\ DomainOfOwn(b).condition = AttributesFor(b)
  BY <1>2, <1>3 DEF DomainOfOwn, DomainResource
<1>5. AttributesFor(b) \in {NoCondition, ConditionOf(api)}
  BY <1>3 DEF AttributesFor
<1> QED
  BY <1>1, <1>4, <1>5 DEF DomainsOf

(* In the end every API of the template is done.                           *)
LEMMA AllAreDone ==
  ASSUME ResourcesInv, AllReturned
  PROVE  Done = Present /\ ResourcesMade /\ (Agree => RecordsMade) /\ ApisWithDomain \subseteq Done /\ WebSocketApis \subseteq Done
<1>1. todo = {} /\ waiting = {} /\ ~failed
  BY DEF AllReturned, Returned
<1>2. Done = Present
  BY <1>1 DEF Done
<1>3. ApisWithDomain \subseteq Present
  BY DEF ApisWithDomain, Present
<1>4. WebSocketApis \subseteq Present
  <2>1. given \in Templates /\ custom \in Customs(given)
    BY DEF ResourcesInv, Frame
  <2>2. Nothing # WebSocketKind
    BY ResourcesAssumption
  <2> QED
    BY <2>2 DEF WebSocketApis, Present, AllApis
<1> QED
  BY <1>1, <1>2, <1>3, <1>4 DEF ResourcesInv

-----------------------------------------------------------------------------
(* Domains.                                                                *)

LEMMA InvDomainsServeApis == ResourcesInv => (DomainsAgree /\ PathsApart => DomainsServeApis)
<1> SUFFICES ASSUME ResourcesInv, DomainsAgree, PathsApart, AllReturned,
                    NEW api \in ApisWithDomain, NEW truth \in SUBSET Conditions,
                    Holds(truth, ConditionOf(api)), NEW path \in PathsOf(api)
             PROVE  \E id \in DOMAIN made :
                      /\ Serves(made[id], api, path)
                      /\ Stands(truth, id)
                      /\ Stands(truth, made[id].domain)
                      /\ Stands(truth, made[id].stage)
  BY DEF DomainsServeApis
<1>1. Frame /\ OwnMade /\ DomainsMade /\ api \in Done /\ api \in Present
  BY AllAreDone DEF ResourcesInv, ResourcesMade
<1>2. PICK id \in DOMAIN MappingsOf(api) : MappingsOf(api)[id] = MappingTo(api, path)
  BY <1>1, PathsAreMapped
<1>3. id \in DOMAIN made /\ made[id] = MappingTo(api, path)
  BY <1>1, <1>2, OwnIsMade
<1>4. /\ made[id].type = "BasePathMapping" /\ made[id].api = api /\ made[id].path = path
      /\ made[id].condition = AttributesFor(api)
      /\ made[id].domain = DomainIdOf(api) /\ made[id].stage = StageOf(api)
  BY <1>3 DEF MappingTo, BasePathMapping
<1>5. \A c \in {NoCondition, ConditionOf(api)} : Holds(truth, c)
  BY DEF Holds
<1>6. AttributesFor(api) \in {NoCondition, ConditionOf(api)}
  BY DEF AttributesFor
<1>7. Serves(made[id], api, path)
  BY <1>1, <1>4, DomainIsFound DEF Serves
<1>8. Stands(truth, id)
  BY <1>3, <1>4, <1>5, <1>6 DEF Stands
<1>9. Stands(truth, made[id].domain)
  BY <1>1, <1>4, <1>5, DomainIsFound DEF Stands
<1>10. Stands(truth, made[id].stage)
  BY <1>1, <1>4, <1>5, <1>6, StageIsMade DEF Stands
<1> QED
  BY <1>3, <1>7, <1>8, <1>9, <1>10

(* Every API that is created is reached on all its base paths, through a   *)
(* domain that is created, in any template whose APIs of one domain have   *)
(* one condition and endpoint and whose base paths have ids of their own,  *)
(* in whichever order the APIs are translated.                             *)
THEOREM DomainsServeApisHolds == ResourcesSpec => [](DomainsAgree /\ PathsApart => DomainsServeApis)
  BY SpecResourcesInv, InvDomainsServeApis, PTL

-----------------------------------------------------------------------------
(* Records.                                                                *)

LEMMA InvRecordsReachDomains == ResourcesInv => (Agree => RecordsReachDomains)
<1> SUFFICES ASSUME ResourcesInv, Agree, AllReturned,
                    NEW api \in ApisWithDomain, NEW truth \in SUBSET Conditions,
                    DomainFor(api).route # NoRoute, Holds(truth, ConditionOf(api)),
                    NEW type \in TypesOf(RouteFor(api))
             PROVE  \E id \in DOMAIN made, target \in TargetsOf(api) :
                      /\ made[id].type = "RecordSetGroup"
                      /\ made[id].zone = RouteFor(api).zone
                      /\ Stands(truth, id)
                      /\ Leads(made[id], api, type, target)
  BY DEF RecordsReachDomains, RouteFor
<1>1. /\ Frame /\ DomainsMade /\ RecordsTold /\ DomainsAgree
      /\ api \in Done /\ api \in ApisWithRecords
  BY AllAreDone DEF ResourcesInv, ResourcesMade, RecordsMade, Agree, ApisWithRecords
<1>2. PICK id : id = GroupIdOf(api)
  OBVIOUS
<1>3. /\ id \in DOMAIN made /\ Recorded(made[id].records, api)
      /\ \E c \in {NoCondition, ConditionOf(api)} : made[id] = RecordSetGroup(c, RouteFor(api), made[id].records)
  BY <1>1, <1>2 DEF RecordsTold
<1>4. /\ made[id].type = "RecordSetGroup" /\ made[id].zone = RouteFor(api).zone
      /\ made[id].condition \in {NoCondition, ConditionOf(api)}
  BY <1>3 DEF RecordSetGroup
<1>5. Stands(truth, id)
  BY <1>3, <1>4 DEF Stands, Holds
<1>6. TargetOf(api) \in TargetsOf(api)
  <2>1. DomainIdOf(api) \in DomainsOf(api)
    BY <1>1, DomainIsFound
  <2> QED
    BY <2>1 DEF TargetOf, TargetsOf, RouteFor
<1>7. Leads(made[id], api, type, TargetOf(api))
  <2>1. PICK i \in DOMAIN made[id].records : made[id].records[i] = Record(DomainFor(api).name, type, TargetOf(api))
    BY <1>3 DEF Recorded, RecordsIn
  <2>2. /\ made[id].records[i].name = DomainFor(api).name
        /\ made[id].records[i].type = type
        /\ made[id].records[i].target = TargetOf(api)
    BY <2>1 DEF Record
  <2> QED
    BY <2>2 DEF Leads
<1> QED
  BY <1>3, <1>4, <1>5, <1>6, <1>7

(* The zone of every created API has the records of its domain, leading to *)
(* it, in any template where the APIs of one zone and of one domain agree  *)
(* and EDGE domains of one Route53 map are one, in whichever order the     *)
(* APIs make the zone's group.                                             *)
THEOREM RecordsReachDomainsHolds ==
  ResourcesSpec => [](ZonesAgree /\ DomainsAgree /\ DistributionsApart => RecordsReachDomains)
<1>1. ResourcesInv => (ZonesAgree /\ DomainsAgree /\ DistributionsApart => RecordsReachDomains)
  BY InvRecordsReachDomains DEF Agree
<1> QED
  BY <1>1, SpecResourcesInv, PTL

-----------------------------------------------------------------------------
(* Routes.                                                                 *)

(* A route whose key leaves what no other leaves is the one that is made.  *)
LastRoute(w, clean) == SelectLastInSeq(w.routes, LAMBDA r : r.clean = clean)

LEMMA RouteMade ==
  ASSUME NEW api, NEW c, NEW w, w.routes \in Seq(RoutesOf(w)), RoutesApart(w), NEW r \in RoutesOf(w)
  PROVE  /\ RouteIds(api, r).route \in DOMAIN RouteResources(api, c, w)
         /\ RouteResources(api, c, w)[RouteIds(api, r).route] = Route(api, c, w.auth, r)
         /\ RouteIds(api, r).integration \in DOMAIN RouteResources(api, c, w)
         /\ RouteResources(api, c, w)[RouteIds(api, r).integration] = Integration(api, c, r)
         /\ RouteIds(api, r).permission \in DOMAIN RouteResources(api, c, w)
         /\ RouteResources(api, c, w)[RouteIds(api, r).permission] = Permission(api, c, w.stageName, r)
<1>1. w.routes[LastRoute(w, r.clean)] = r
  <2> DEFINE s == w.routes
             I == {i \in 1..Len(s) : s[i].clean = r.clean}
  <2>1. Len(s) \in Nat /\ DOMAIN s = 1..Len(s)
    OBVIOUS
  <2>2. I \subseteq 1..Len(s) /\ I # {}
    BY <2>1 DEF RoutesOf
  <2>3. LastRoute(w, r.clean) = CHOOSE x \in I : \A y \in I : x >= y
    BY <2>2 DEF LastRoute, SelectLastInSeq, Max
  <2> HIDE DEF I
  <2>4. \E x \in I : \A y \in I : x >= y
    BY <2>1, <2>2, MaxIsIn
  <2>5. LastRoute(w, r.clean) \in I
    BY <2>3, <2>4
  <2>6. /\ LastRoute(w, r.clean) \in DOMAIN w.routes
        /\ w.routes[LastRoute(w, r.clean)].clean = r.clean
    BY <2>1, <2>5 DEF I
  <2>7. w.routes[LastRoute(w, r.clean)] \in RoutesOf(w)
    BY <2>6 DEF RoutesOf
  <2> QED
    BY <2>6, <2>7 DEF RoutesApart
<1> DEFINE ids == UNION {{RouteIds(api, q)[kind] : kind \in {"route", "integration", "permission"}} : q \in RoutesOf(w)}
<1>2. RouteResources(api, c, w) =
        [id \in ids |->
           CASE id[3] = "Route" -> Route(api, c, w.auth, w.routes[LastRoute(w, id[2])])
             [] id[3] = "Integration" -> Integration(api, c, w.routes[LastRoute(w, id[2])])
             [] OTHER -> Permission(api, c, w.stageName, w.routes[LastRoute(w, id[2])])]
  BY DEF RouteResources, LastRoute
<1>3. PICK a, b, p : /\ a = RouteIds(api, r).route /\ b = RouteIds(api, r).integration
                     /\ p = RouteIds(api, r).permission
  OBVIOUS
<1>4. a \in ids /\ b \in ids /\ p \in ids
  BY <1>3
<1>5. a = <<api, r.clean, "Route">> /\ b = <<api, r.clean, "Integration">> /\ p = <<api, r.clean, "Permission">>
  BY <1>3 DEF RouteIds
<1>6. /\ a[2] = r.clean /\ b[2] = r.clean /\ p[2] = r.clean
      /\ a[3] = "Route" /\ b[3] = "Integration" /\ p[3] = "Permission"
  BY <1>5
<1> HIDE DEF ids
<1>7. DOMAIN RouteResources(api, c, w) = ids
  BY <1>2
<1>8. RouteResources(api, c, w)[a] = Route(api, c, w.auth, r)
  BY <1>1, <1>2, <1>4, <1>6
<1>9. RouteResources(api, c, w)[b] = Integration(api, c, r)
  BY <1>1, <1>2, <1>4, <1>6
<1>10. RouteResources(api, c, w)[p] = Permission(api, c, w.stageName, r)
  BY <1>1, <1>2, <1>4, <1>6
<1> QED
  BY <1>3, <1>4, <1>7, <1>8, <1>9, <1>10

(* What the $connect route is authorized with, when types are written in   *)
(* capitals.                                                               *)
LEMMA AuthorizationMade ==
  ASSUME NEW api, NEW w, RoutesApart(w), ~WebSocketInvalid(w, FALSE), NEW r \in RoutesOf(w)
  PROVE  /\ AuthorizationOf(api, w.auth, r) =
              IF w.auth = NoAuth \/ r.key # Connect THEN "unset" ELSE w.auth.type
         /\ AuthorizationOf(api, w.auth, r) = "CUSTOM" => HasAuthorizer(w.auth, RoutesOf(w))
<1>1. CASE w.auth = NoAuth \/ r.key # Connect
  BY <1>1 DEF AuthorizationOf
<1>2. CASE w.auth # NoAuth /\ r.key = Connect
  <2>1. w.auth.capitals /\ w.auth.type \in {"AWS_IAM", "CUSTOM", "NONE"}
    BY <1>2 DEF RoutesApart, WebSocketInvalid, AuthInvalid, AuthTypes
  <2>2. AuthorizationOf(api, w.auth, r) = w.auth.type
    BY <1>2, <2>1 DEF AuthorizationOf, IsType
  <2> QED
    BY <1>2, <2>1, <2>2 DEF HasAuthorizer, IsType
<1> QED
  BY <1>1, <1>2

LEMMA InvRoutesServed ==
  ResourcesInv => ((\A api \in WebSocketApis : RoutesApart(custom.webSocket[api])) => RoutesServed)
<1> SUFFICES ASSUME ResourcesInv, AllReturned, \A a \in WebSocketApis : RoutesApart(custom.webSocket[a]),
                    NEW api \in WebSocketApis,
                    NEW w, w = custom.webSocket[api],
                    NEW r \in RoutesOf(w)
             PROVE  /\ \E id \in DOMAIN made :
                         /\ made[id].type = "Route"
                         /\ made[id].api = api
                         /\ made[id].key = r.key
                         /\ made[made[id].target].type = "Integration"
                         /\ made[made[id].target].invokes = r.function
                         /\ made[id].authorization = IF w.auth = NoAuth \/ r.key # Connect THEN "unset" ELSE w.auth.type
                         /\ made[id].authorization = "CUSTOM" =>
                              /\ \E auth \in DOMAIN made : made[auth].type = "Authorizer" /\ made[auth].api = api
                              /\ w.auth.role \/ \E p \in DOMAIN made : /\ made[p].type = "Permission"
                                                                   /\ made[p].api = api
                                                                   /\ made[p].invokes = "authorizer"
                         /\ w.settings => id \in made[StageOf(api)].dependsOn
                    /\ \E id \in DOMAIN made :
                         /\ made[id].type = "Permission"
                         /\ made[id].api = api
                         /\ made[id].invokes = r.function
                         /\ made[id].stage = made[StageOf(api)].name
                         /\ made[id].key = r.key
  BY DEF RoutesServed
<1> DEFINE c == AttributesFor(api)
           all == WebSocketResources(api, c, w)
           ids == RouteIds(api, r)
<1>1. Frame /\ OwnMade /\ api \in Done /\ api \in Present /\ ~WebSocketInvalid(w, FALSE)
  BY AllAreDone DEF ResourcesInv, ResourcesMade, WebSocketsValid
<1>2. KindOf(api) = WebSocketKind /\ w.routes \in Seq(RoutesOf(w)) /\ RoutesApart(w)
  BY <1>1, ApiParts
<1>3. SelfOf(api) = all
  BY <1>2 DEF SelfOf
<1>4. \A id \in DOMAIN all : id \in DOMAIN made /\ made[id] = all[id]
  BY <1>1, <1>3, OwnIsMade
<1>5. /\ StageOf(api) \in DOMAIN all /\ all[StageOf(api)] = WebSocketStage(api, c, w)
      /\ \A id \in DOMAIN RouteResources(api, c, w) : id \in DOMAIN all /\ all[id] = RouteResources(api, c, w)[id]
      /\ HasAuthorizer(w.auth, RoutesOf(w)) =>
           /\ AuthorizerId(api) \in DOMAIN all /\ all[AuthorizerId(api)] = Authorizer(api, c)
           /\ ~w.auth.role =>
                /\ AuthorizerPermissionId(api) \in DOMAIN all
                /\ all[AuthorizerPermissionId(api)] = AuthorizerPermitted(api, c)
  BY WebSocketParts
<1>6. /\ ids.route \in DOMAIN made /\ made[ids.route] = Route(api, c, w.auth, r)
      /\ ids.integration \in DOMAIN made /\ made[ids.integration] = Integration(api, c, r)
      /\ ids.permission \in DOMAIN made /\ made[ids.permission] = Permission(api, c, w.stageName, r)
  BY <1>2, <1>4, <1>5, RouteMade
<1>7. made[StageOf(api)] = WebSocketStage(api, c, w)
  BY <1>4, <1>5
<1>8. /\ AuthorizationOf(api, w.auth, r) = IF w.auth = NoAuth \/ r.key # Connect THEN "unset" ELSE w.auth.type
      /\ AuthorizationOf(api, w.auth, r) = "CUSTOM" => HasAuthorizer(w.auth, RoutesOf(w))
  BY <1>1, <1>2, AuthorizationMade
<1>9. /\ made[ids.route].type = "Route" /\ made[ids.route].api = api /\ made[ids.route].key = r.key
      /\ made[ids.route].target = ids.integration
      /\ made[ids.route].authorization = AuthorizationOf(api, w.auth, r)
  BY <1>6 DEF Route
<1>10. made[ids.integration].type = "Integration" /\ made[ids.integration].invokes = r.function
  BY <1>6 DEF Integration
<1>11. HasAuthorizer(w.auth, RoutesOf(w)) =>
         /\ \E auth \in DOMAIN made : made[auth].type = "Authorizer" /\ made[auth].api = api
         /\ w.auth.role \/ \E p \in DOMAIN made : /\ made[p].type = "Permission"
                                              /\ made[p].api = api
                                              /\ made[p].invokes = "authorizer"
  <2>1. Authorizer(api, c).type = "Authorizer" /\ Authorizer(api, c).api = api
    BY DEF Authorizer
  <2>2. /\ AuthorizerPermitted(api, c).type = "Permission" /\ AuthorizerPermitted(api, c).api = api
        /\ AuthorizerPermitted(api, c).invokes = "authorizer"
    BY DEF AuthorizerPermitted
  <2> HIDE DEF all
  <2> QED
    BY <1>4, <1>5, <2>1, <2>2
<1>12. w.settings => ids.route \in made[StageOf(api)].dependsOn
  BY <1>7 DEF WebSocketStage
<1>13. made[StageOf(api)].name = w.stageName
  BY <1>7 DEF WebSocketStage
<1>14. /\ made[ids.permission].type = "Permission" /\ made[ids.permission].api = api
       /\ made[ids.permission].invokes = r.function
       /\ made[ids.permission].stage = w.stageName /\ made[ids.permission].key = r.key
  BY <1>6 DEF Permission
<1> HIDE DEF ids, all
<1> QED
  BY <1>6, <1>8, <1>9, <1>10, <1>11, <1>12, <1>13, <1>14

(* Every route of a WebSocket API reaches its function, with the           *)
(* authorization the API asks for, when no two of its route keys leave the *)
(* same for ids and the type of its authorizer is written in capitals.     *)
THEOREM RoutesServedHolds ==
  ResourcesSpec => []((\A api \in WebSocketApis : RoutesApart(custom.webSocket[api])) => RoutesServed)
  BY SpecResourcesInv, InvRoutesServed, PTL
=============================================================================
