-------------------------- MODULE ConnectorsProofs --------------------------
(***************************************************************************)
(* Theorems about Connectors, for any resources, any profile table of      *)
(* roles and references, and any connectors in any order.                  *)
(***************************************************************************)
EXTENDS Connectors, FiniteSetTheorems, SequenceTheorems, TLAPS

(* The connectors that are through, and those that are not.                *)
Left == {todo[i] : i \in DOMAIN todo}
Translated == Connectors \ Left

(* The mappings and state machines that wait for a policy are told by the  *)
(* template alone.                                                         *)
MappingsOf(s, d) == {p \in Plain : TypeOf[p] = "mapping" /\ {s, d} \subseteq RefsOf[p]}
WaitsFor(p, s, d) ==
  \/ DependedBy(TypeOf[s], TypeOf[d]) = "mapping" /\ {s, d} \subseteq Plain /\ MappingsOf(s, d) = {p}
  \/ DependedBy(TypeOf[s], TypeOf[d]) = "source" /\ p = s

(* What is written as ds when the connectors that are through are followed *)
(* to what they became, and the policies p waits for.                      *)
Followed(ds) == {y \in Names(ds) : y[1] \notin Translated} \cup UNION {Becomes(d) : d \in ds \cap Translated}
WaitedBy(p, c) ==
  {Made(c, i) : i \in {j \in Destinations(c) :
     WaitsFor(p, given.connectors[c].source, given.connectors[c].destinations[j])}}
WaitsOf(p) == UNION {WaitedBy(p, c) : c \in Translated}

Resource(type, dependsOn, shared, refs) ==
  [type |-> type, dependsOn |-> dependsOn, shared |-> shared, refs |-> refs]
IsResource(r) == r = Resource(r.type, r.dependsOn, r.shared, r.refs)

(* Connectors are taken in the order of the template.                      *)
Progress ==
  /\ given \in Templates
  /\ todo \in Seq(Connectors)
  /\ \E n \in 0..Len(given.order) :
       /\ Len(todo) = Len(given.order) - n
       /\ \A i \in 1..Len(todo) : todo[i] = given.order[n + i]

DomainIs ==
  DOMAIN template = Names(Plain \cup Left) \cup UNION {Becomes(c) : c \in Translated}
PlainAre ==
  \A p \in Plain :
    template[Name(p)] =
      Resource(TypeOf[p], Followed(given.dependsOn[p]) \cup WaitsOf(p), FALSE, Names(RefsOf[p]))
ConnectorsAre ==
  \A c \in Left : IsResource(template[Name(c)]) /\ template[Name(c)].type = "connector"

(* What a connector made: of one that is Early the DependsOn is followed,  *)
(* of any other it has at least no more than was written.                  *)
MadeBy(c, i) == Construct(given.connectors[c].source, given.connectors[c].destinations[i])
IsMade(r, c, i) ==
  /\ IsResource(r) /\ r.type = MadeBy(c, i).type /\ r.refs = MadeBy(c, i).refs
  /\ \A y \in r.dependsOn : y[1] \in given.connectors[c].dependsOn
  /\ Early(given) => r.dependsOn = Followed(given.connectors[c].dependsOn)
MadeAre == \A c \in Translated : \A i \in Destinations(c) : IsMade(template[Made(c, i)], c, i)

IInv == Progress /\ (failed = {} => DomainIs /\ PlainAre /\ ConnectorsAre /\ MadeAre)

-----------------------------------------------------------------------------
(* Ids.                                                                    *)

LEMMA IdsApart ==
  /\ \A a, b : Name(a) = Name(b) => a = b
  /\ \A a, b, i, j : Made(a, i) = Made(b, j) => a = b /\ i = j
  /\ \A a, b, i : Made(a, i) = Name(b) => a = b /\ i = 0
  /\ \A a, i : Name(a)[1] = a /\ Name(a)[2] = 0 /\ Made(a, i)[1] = a /\ Made(a, i)[2] = i
  BY DEF Name, Made

(* A template's parts.                                                     *)
LEMMA TemplateParts ==
  ASSUME given \in Templates
  PROVE  /\ given.order \in Seq(Connectors)
         /\ \A i, j \in DOMAIN given.order : given.order[i] = given.order[j] => i = j
         /\ \A p \in Plain : given.dependsOn[p] \subseteq Plain \cup Connectors
         /\ \A c \in Connectors :
              /\ given.connectors[c].source \in Ends
              /\ given.connectors[c].destinations \in Seq(Ends)
              /\ Destinations(c) = 1..Len(given.connectors[c].destinations)
              /\ \A i \in Destinations(c) : given.connectors[c].destinations[i] \in Ends /\ i \in Nat /\ i > 0
              /\ given.connectors[c].dependsOn \subseteq Plain \cup Connectors
<1>1. given \in Template /\ \A i, j \in DOMAIN given.order : given.order[i] = given.order[j] => i = j
  BY ConnectorsAssumption
<1>2. /\ given.order \in Seq(Connectors)
      /\ given.dependsOn \in [Plain -> SUBSET (Plain \cup Connectors)]
      /\ given.connectors \in [Connectors ->
           [source : Ends, destinations : Seq(Ends), permissions : SUBSET {"Read", "Write"},
            dependsOn : SUBSET (Plain \cup Connectors)]]
  BY <1>1 DEF Template
<1>3. ASSUME NEW c \in Connectors
      PROVE  /\ given.connectors[c].source \in Ends
             /\ given.connectors[c].destinations \in Seq(Ends)
             /\ given.connectors[c].dependsOn \subseteq Plain \cup Connectors
  BY <1>2
<1>4. ASSUME NEW c \in Connectors
      PROVE  /\ Destinations(c) = 1..Len(given.connectors[c].destinations)
             /\ \A i \in Destinations(c) : given.connectors[c].destinations[i] \in Ends /\ i \in Nat /\ i > 0
  BY <1>3 DEF Destinations
<1> QED
  BY <1>1, <1>2, <1>3, <1>4

LEMMA KindsApart ==
  /\ \A p \in Plain : p \notin Connectors /\ p \notin Outside
  /\ \A c \in Connectors : c \notin Plain /\ c \notin Ends
  /\ \A p \in Plain : TypeOf[p] \in Types /\ RefsOf[p] \subseteq Plain
  BY ConnectorsAssumption DEF Ends

(* What a connector makes is no mapping.                                   *)
LEMMA ConstructParts ==
  ASSUME NEW s, NEW d
  PROVE  /\ Construct(s, d).type \in {"policy", "permission", "topicPolicy", "queuePolicy"}
         /\ \E es \in SUBSET Plain : Construct(s, d).refs = Names(es)
<1>1. CASE ProfileType(TypeOf[s], TypeOf[d]) = "policy"
  <2>1. Construct(s, d) = IAMPolicy(s, d)
    BY <1>1 DEF Construct
  <2> QED
    BY <2>1 DEF IAMPolicy
<1>2. CASE ProfileType(TypeOf[s], TypeOf[d]) = "permission"
  <2>1. Construct(s, d) = LambdaPermission(s, d)
    BY <1>2 DEF Construct
  <2> QED
    BY <2>1 DEF LambdaPermission
<1>3. CASE ProfileType(TypeOf[s], TypeOf[d]) = "topicPolicy"
  <2>1. Construct(s, d) = TopicPolicy(s, d)
    BY <1>3 DEF Construct
  <2> QED
    BY <2>1 DEF TopicPolicy
<1>4. CASE ProfileType(TypeOf[s], TypeOf[d]) \notin {"policy", "permission", "topicPolicy"}
  <2>1. Construct(s, d) = QueuePolicy(s, d)
    BY <1>4 DEF Construct
  <2> QED
    BY <2>1 DEF QueuePolicy
<1> QED
  BY <1>1, <1>2, <1>3, <1>4

-----------------------------------------------------------------------------
(* The order of translation.                                               *)

LEMMA NextTaken ==
  ASSUME Progress, NEW c \in Connectors, todo # <<>>, c = Head(todo), todo' = Tail(todo), given' = given
  PROVE  /\ Progress'
         /\ c \in Left /\ Left' = Left \ {c} /\ Left \subseteq Connectors
         /\ Translated' = Translated \cup {c}
         /\ Early(given) => \A a \in Connectors : a \in given.connectors[c].dependsOn => a \in Left'
<1> DEFINE order == given.order
<1>1. order \in Seq(Connectors) /\ \A i, j \in DOMAIN order : order[i] = order[j] => i = j
  BY TemplateParts DEF Progress
<1>2. PICK n \in 0..Len(order) : Len(todo) = Len(order) - n /\ \A i \in 1..Len(todo) : todo[i] = order[n + i]
  BY DEF Progress
<1>3. /\ todo \in Seq(Connectors)
      /\ Tail(todo) \in Seq(Connectors) /\ Len(Tail(todo)) = Len(todo) - 1
      /\ \A i \in 1..Len(Tail(todo)) : Tail(todo)[i] = todo[i + 1]
      /\ Head(todo) = todo[1]
  BY HeadTailProperties DEF Progress
<1>4. Len(todo) \in Nat /\ Len(order) \in Nat /\ Len(todo) > 0 /\ DOMAIN todo = 1..Len(todo) /\ DOMAIN order = 1..Len(order)
      /\ DOMAIN Tail(todo) = 1..(Len(todo) - 1)
  BY <1>1, <1>3, EmptySeq, LenProperties
<1>5. Progress'
  <2>1. n + 1 \in 0..Len(order) /\ Len(todo') = Len(order) - (n + 1)
    BY <1>2, <1>3, <1>4
  <2>2. ASSUME NEW i \in 1..Len(todo') PROVE todo'[i] = order[(n + 1) + i]
    <3>1. i \in Int /\ i \in 1..Len(Tail(todo)) /\ i + 1 \in 1..Len(todo) /\ n + (i + 1) = (n + 1) + i
      BY <1>3, <1>4
    <3>2. todo'[i] = todo[i + 1] /\ todo[i + 1] = order[n + (i + 1)]
      BY <3>1, <1>2, <1>3
    <3> QED
      BY <3>1, <3>2
  <2> QED
    BY <1>3, <2>1, <2>2 DEF Progress
<1>6. Left = {order[i] : i \in (n + 1)..Len(order)}
  <2>1. ASSUME NEW i \in (n + 1)..Len(order) PROVE order[i] \in Left
    <3>1. i - n \in 1..Len(todo) /\ n + (i - n) = i
      BY <1>2, <1>4
    <3> QED
      BY <3>1, <1>2, <1>4 DEF Left
  <2>2. ASSUME NEW i \in DOMAIN todo PROVE todo[i] \in {order[j] : j \in (n + 1)..Len(order)}
    <3>1. n + i \in (n + 1)..Len(order) /\ todo[i] = order[n + i]
      BY <1>2, <1>4
    <3> QED
      BY <3>1
  <2> QED
    BY <2>1, <2>2 DEF Left
<1>7. Left' = {order[i] : i \in (n + 2)..Len(order)}
  <2>1. ASSUME NEW i \in (n + 2)..Len(order) PROVE order[i] \in Left'
    <3>1. i - n - 1 \in 1..(Len(todo) - 1) /\ n + ((i - n - 1) + 1) = i /\ (i - n - 1) + 1 \in 1..Len(todo)
      BY <1>2, <1>4
    <3>2. Tail(todo)[i - n - 1] = todo[(i - n - 1) + 1]
      BY <3>1, <1>3
    <3> QED
      BY <3>1, <3>2, <1>2, <1>4 DEF Left
  <2>2. ASSUME NEW i \in DOMAIN Tail(todo) PROVE Tail(todo)[i] \in {order[j] : j \in (n + 2)..Len(order)}
    <3>1. i + 1 \in 1..Len(todo) /\ n + (i + 1) \in (n + 2)..Len(order) /\ Tail(todo)[i] = todo[i + 1]
      BY <1>2, <1>3, <1>4
    <3> QED
      BY <3>1, <1>2
  <2> QED
    BY <2>1, <2>2 DEF Left
<1>8. c = order[n + 1] /\ n + 1 \in 1..Len(order) /\ n \in Nat
  BY <1>2, <1>3, <1>4
<1>9. c \in Left /\ Left' = Left \ {c} /\ Left \subseteq Connectors
  <2>1. c \in Left
    BY <1>6, <1>8
  <2>2. Left \subseteq Connectors
    BY <1>6, <1>1, <1>4, <1>2
  <2>3. ASSUME NEW x \in Left, x # c PROVE x \in Left'
    BY <2>3, <1>6, <1>7, <1>8
  <2>4. ASSUME NEW x \in Left' PROVE x \in Left /\ x # c
    BY <2>4, <1>6, <1>7, <1>8, <1>1, <1>4
  <2> QED
    BY <2>1, <2>2, <2>3, <2>4
<1>10. ASSUME Early(given), NEW a \in Connectors, a \in given.connectors[c].dependsOn PROVE a \in Left'
  <2>1. PICK i, j \in DOMAIN order : i < j /\ order[i] = c /\ order[j] = a
    BY <1>10 DEF Early
  <2>2. i = n + 1
    BY <2>1, <1>8, <1>1, <1>4
  <2> QED
    BY <2>1, <2>2, <1>7, <1>4, <1>8
<1> QED
  BY <1>5, <1>9, <1>10 DEF Translated

-----------------------------------------------------------------------------
(* Who waits.                                                              *)

LEMMA PlainParts ==
  ASSUME PlainAre, NEW p \in Plain
  PROVE  /\ template[Name(p)].type = TypeOf[p]
         /\ template[Name(p)].dependsOn = Followed(given.dependsOn[p]) \cup WaitsOf(p)
         /\ template[Name(p)].shared = FALSE
         /\ template[Name(p)].refs = Names(RefsOf[p])
         /\ IsResource(template[Name(p)])
<1>1. template[Name(p)] =
        Resource(TypeOf[p], Followed(given.dependsOn[p]) \cup WaitsOf(p), FALSE, Names(RefsOf[p]))
  BY DEF PlainAre
<1> QED
  BY <1>1 DEF IsResource, Resource

(* Mappings in the template are those among its own resources.             *)
LEMMA MappingsAre ==
  ASSUME given \in Templates, Left \subseteq Connectors, DomainIs, PlainAre, ConnectorsAre, MadeAre, NEW s \in Plain, NEW d \in Plain
  PROVE  Mappings(s, d) = Names(MappingsOf(s, d))
<1>1. ASSUME NEW id \in Mappings(s, d) PROVE id \in Names(MappingsOf(s, d))
  <2>1. id \in DOMAIN template /\ template[id].type = "mapping" /\ Name(s) \in template[id].refs /\ Name(d) \in template[id].refs
    BY <1>1 DEF Mappings
  <2>2. CASE id \in Names(Left)
    <3>1. PICK c \in Left : id = Name(c)
      BY <2>2 DEF Names
    <3> QED
      BY <3>1, <2>1 DEF ConnectorsAre
  <2>3. CASE \E c \in Translated : id \in Becomes(c)
    <3>1. PICK c \in Translated : id \in Becomes(c)
      BY <2>3
    <3>2. PICK i \in Destinations(c) : id = Made(c, i)
      BY <3>1 DEF Becomes, Translated
    <3> QED
      BY <3>1, <3>2, <2>1, ConstructParts DEF MadeAre, IsMade, MadeBy
  <2>4. CASE id \in Names(Plain)
    <3>1. PICK p \in Plain : id = Name(p)
      BY <2>4 DEF Names
    <3>2. TypeOf[p] = "mapping" /\ Name(s) \in Names(RefsOf[p]) /\ Name(d) \in Names(RefsOf[p])
      BY <3>1, <2>1, PlainParts
    <3>3. s \in RefsOf[p] /\ d \in RefsOf[p]
      BY <3>2, IdsApart DEF Names
    <3> QED
      BY <3>1, <3>2, <3>3 DEF Names, MappingsOf
  <2>5. id \in Names(Plain) \cup Names(Left) \cup UNION {Becomes(c) : c \in Translated}
    BY <2>1 DEF DomainIs, Names
  <2> QED
    BY <2>2, <2>3, <2>4, <2>5
<1>2. ASSUME NEW p \in MappingsOf(s, d) PROVE Name(p) \in Mappings(s, d)
  <2>1. p \in Plain /\ TypeOf[p] = "mapping" /\ s \in RefsOf[p] /\ d \in RefsOf[p]
    BY DEF MappingsOf
  <2>2. template[Name(p)].type = "mapping" /\ template[Name(p)].refs = Names(RefsOf[p])
    BY <2>1, PlainParts
  <2>3. Name(p) \in DOMAIN template
    BY <2>1 DEF DomainIs, Names
  <2> QED
    BY <2>1, <2>2, <2>3 DEF Mappings, Names
<1> QED
  BY <1>1, <1>2 DEF Names

(* Whoever waits for the policy is a resource of the template that is to.  *)
LEMMA DependentsAre ==
  ASSUME given \in Templates, Left \subseteq Connectors, DomainIs, PlainAre, ConnectorsAre, MadeAre, NEW s \in Ends, NEW d \in Ends
  PROVE  Dependents(s, d) = Names({p \in Plain : WaitsFor(p, s, d)})
<1> DEFINE by == DependedBy(TypeOf[s], TypeOf[d])
           M == MappingsOf(s, d)
<1>1. CASE by = "mapping" /\ {s, d} \subseteq Plain
  <2>1. Mappings(s, d) = Names(M) /\ M \subseteq Plain /\ IsFiniteSet(M)
    BY <1>1, MappingsAre, ConnectorsAssumption, FS_Subset DEF MappingsOf
  <2>2. IsFiniteSet(Mappings(s, d))
    <3> DEFINE f == [p \in M |-> Name(p)]
    <3>1. f \in Surjection(M, Names(M))
      BY DEF Names, Surjection
    <3> QED
      BY <3>1, <2>1, FS_Surjection
  <2>3. Dependents(s, d) = IF Cardinality(Mappings(s, d)) = 1 THEN Mappings(s, d) ELSE {}
    BY <1>1 DEF Dependents
  <2>4. {p \in Plain : WaitsFor(p, s, d)} = {p \in Plain : M = {p}}
    BY <1>1 DEF WaitsFor
  <2>5. CASE \E p : M = {p}
    <3>1. PICK p : M = {p}
      BY <2>5
    <3>2. Mappings(s, d) = {Name(p)} /\ p \in Plain
      BY <3>1, <2>1 DEF Names
    <3>3. Cardinality(Mappings(s, d)) = 1
      BY <3>2, FS_Singleton
    <3>4. {q \in Plain : M = {q}} = {p}
      BY <3>1, <3>2
    <3> QED
      BY <2>3, <2>4, <3>2, <3>3, <3>4 DEF Names
  <2>6. CASE ~\E p : M = {p}
    <3>1. Cardinality(Mappings(s, d)) # 1
      <4>1. SUFFICES ASSUME Cardinality(Mappings(s, d)) = 1 PROVE FALSE
        OBVIOUS
      <4>2. PICK x : Mappings(s, d) = {x}
        BY <4>1, <2>2, FS_Singleton
      <4>3. PICK p \in M : x = Name(p)
        BY <4>2, <2>1 DEF Names
      <4>4. M = {p}
        BY <4>2, <4>3, <2>1, IdsApart DEF Names
      <4> QED
        BY <4>4, <2>6
    <3> QED
      BY <2>3, <2>4, <2>6, <3>1 DEF Names
  <2> QED
    BY <2>5, <2>6
<1>2. CASE by = "source"
  <2>1. Dependents(s, d) = {Name(s)} \cap DOMAIN template
    BY <1>2 DEF Dependents
  <2>2. {p \in Plain : WaitsFor(p, s, d)} = {s} \cap Plain
    BY <1>2 DEF WaitsFor
  <2>3. CASE s \in Plain
    BY <2>1, <2>2, <2>3 DEF DomainIs, Names
  <2>4. CASE s \notin Plain
    <3>1. Name(s) \notin DOMAIN template
      <4>1. Name(s) \notin Names(Plain \cup Left)
        BY <2>4, IdsApart, KindsApart DEF Names
      <4>2. ASSUME NEW c \in Translated PROVE Name(s) \notin Becomes(c)
        BY IdsApart, KindsApart DEF Becomes, Translated
      <4> QED
        BY <4>1, <4>2 DEF DomainIs
    <3> QED
      BY <3>1, <2>1, <2>2, <2>4 DEF Names
  <2> QED
    BY <2>3, <2>4
<1>3. CASE by # "source" /\ ~(by = "mapping" /\ {s, d} \subseteq Plain)
  <2>1. Dependents(s, d) = {}
    BY <1>3 DEF Dependents
  <2>2. {p \in Plain : WaitsFor(p, s, d)} = {}
    BY <1>3 DEF WaitsFor
  <2> QED
    BY <2>1, <2>2 DEF Names
<1> QED
  BY <1>1, <1>2, <1>3

LEMMA WaitingIs ==
  ASSUME given \in Templates, Left \subseteq Connectors, DomainIs, PlainAre, ConnectorsAre, MadeAre, NEW c \in Connectors
  PROVE  /\ \A p \in Plain : Waiting(c, Name(p)) = WaitedBy(p, c)
         /\ \A id : id \notin Names(Plain) => Waiting(c, id) = {}
<1> DEFINE s == given.connectors[c].source
           d(j) == given.connectors[c].destinations[j]
<1>1. \A j \in Destinations(c) : Dependents(s, d(j)) = Names({p \in Plain : WaitsFor(p, s, d(j))})
  <2>1. s \in Ends /\ \A j \in Destinations(c) : d(j) \in Ends
    BY TemplateParts
  <2> QED
    BY <2>1, DependentsAre
<1>2. ASSUME NEW p \in Plain, NEW j \in Destinations(c)
      PROVE  Name(p) \in Dependents(s, d(j)) <=> WaitsFor(p, s, d(j))
  BY <1>1, IdsApart DEF Names
<1>3. ASSUME NEW id, id \notin Names(Plain), NEW j \in Destinations(c) PROVE id \notin Dependents(s, d(j))
  BY <1>1, <1>3 DEF Names
<1>4. ASSUME NEW p \in Plain PROVE Waiting(c, Name(p)) = WaitedBy(p, c)
  BY <1>2 DEF Waiting, WaitedBy
<1>5. ASSUME NEW id, id \notin Names(Plain) PROVE Waiting(c, id) = {}
  BY <1>3, <1>5 DEF Waiting
<1> QED
  BY <1>4, <1>5

-----------------------------------------------------------------------------
(* What a connector's translation does to the DependsOn of others.         *)

LEMMA FollowedStep ==
  ASSUME NEW c \in Connectors, c \notin Translated, Translated' = Translated \cup {c}, given' = given, NEW ds
  PROVE  /\ c \notin ds => Followed(ds)' = Followed(ds)
         /\ c \in ds => Followed(ds)' = (Followed(ds) \ {Name(c)}) \cup Becomes(c)
<1>1. \A d : Becomes(d)' = Becomes(d)
  BY DEF Becomes, Destinations
<1>2. Followed(ds)' = {y \in Names(ds) : y[1] \notin Translated \cup {c}}
                        \cup UNION {Becomes(d) : d \in ds \cap (Translated \cup {c})}
  BY <1>1 DEF Followed
<1>3. \A y \in Names(ds) : y = Name(y[1]) /\ y[1] \in ds
  BY IdsApart DEF Names
<1>4. CASE c \notin ds
  <2>1. \A y \in Names(ds) : y[1] # c
    BY <1>3, <1>4
  <2>2. ds \cap (Translated \cup {c}) = ds \cap Translated
    BY <1>4
  <2> QED
    BY <1>2, <1>4, <2>1, <2>2 DEF Followed
<1>5. CASE c \in ds
  <2>1. {y \in Names(ds) : y[1] \notin Translated \cup {c}} = {y \in Names(ds) : y[1] \notin Translated} \ {Name(c)}
    BY <1>3, IdsApart
  <2>2. UNION {Becomes(d) : d \in ds \cap (Translated \cup {c})} = (UNION {Becomes(d) : d \in ds \cap Translated}) \cup Becomes(c)
    BY <1>5
  <2>3. ASSUME NEW d \in ds \cap Translated PROVE Name(c) \notin Becomes(d)
    BY <2>3, IdsApart DEF Becomes, Translated
  <2> QED
    BY <1>2, <1>5, <2>1, <2>2, <2>3 DEF Followed
<1> QED
  BY <1>4, <1>5

(* A connector is in what is followed as long as it is not through.        *)
LEMMA FollowedHas ==
  ASSUME NEW c \in Connectors, c \notin Translated, NEW ds
  PROVE  Name(c) \in Followed(ds) <=> c \in ds
<1>1. ASSUME NEW d \in ds \cap Translated PROVE Name(c) \notin Becomes(d)
  BY IdsApart DEF Becomes, Translated
<1>2. \A y : y \in Names(ds) => y[1] \in ds
  BY IdsApart DEF Names
<1> QED
  BY <1>1, <1>2, IdsApart DEF Followed, Names

(* What is followed leads back to what was written.                        *)
LEMMA FollowedFrom ==
  ASSUME NEW ds, NEW y \in Followed(ds)
  PROVE  y[1] \in ds
<1>1. CASE y \in Names(ds)
  BY <1>1, IdsApart DEF Names
<1>2. CASE \E d \in ds \cap Translated : y \in Becomes(d)
  BY <1>2, IdsApart DEF Becomes
<1> QED
  BY <1>1, <1>2 DEF Followed

(* Nothing but DependsOn, and who shares it, is changed in place.          *)
Waiter(w, r, ds) ==
  /\ IsResource(w) /\ w.type = r.type /\ w.refs = r.refs
  /\ w.shared \in {r.shared, FALSE} /\ w.dependsOn = r.dependsOn \cup ds
LEMMA AddedParts ==
  ASSUME NEW c \in Connectors, NEW id, NEW r, IsResource(r), NEW w, w = AddDependsOn(c, id, r)
  PROVE  Waiter(w, r, Waiting(c, id))
<1>1. /\ w = Resource(r.type, r.dependsOn \cup Waiting(c, id), w.shared, r.refs)
      /\ w.shared \in {r.shared, FALSE}
  BY DEF IsResource, Resource, AddDependsOn
<1>2. /\ w.type = r.type /\ w.refs = r.refs /\ w.dependsOn = r.dependsOn \cup Waiting(c, id) /\ IsResource(w)
  BY <1>1 DEF Resource, IsResource
<1> QED
  BY <1>1, <1>2 DEF Waiter

Follower(s, w) == IsResource(s) /\ s.type = w.type /\ s.refs = w.refs /\ s.shared \in {w.shared, FALSE}
LEMMA ReplacedParts ==
  ASSUME NEW c \in Connectors, NEW id, NEW w, IsResource(w), NEW s, s = ReplaceDependsOn(c, id, w)
  PROVE  Follower(s, w)
<1>1. /\ s = Resource(w.type, s.dependsOn, s.shared, w.refs)
      /\ s.shared \in {w.shared, FALSE}
  BY DEF IsResource, Resource, ReplaceDependsOn
<1>2. s.type = w.type /\ s.refs = w.refs
  BY <1>1 DEF Resource
<1>3. IsResource(s)
  BY <1>1, <1>2 DEF IsResource
<1> QED
  BY <1>1, <1>2, <1>3 DEF Follower

(* What becomes of one list that names the connector, and of one that does *)
(* not.                                                                    *)
LEMMA Replaced ==
  ASSUME NEW c \in Connectors, NEW id, NEW w, IsResource(w), NEW s, s = ReplaceDependsOn(c, id, w)
  PROVE  /\ Name(c) \notin w.dependsOn => s = w
         /\ s.dependsOn \subseteq w.dependsOn \cup Becomes(c)
         /\ Name(c) \in w.dependsOn /\ FirstToShare(id, w) => s.dependsOn = (w.dependsOn \ {Name(c)}) \cup Becomes(c)
<1>1. DOMAIN Generated(c) = Becomes(c)
  BY DEF Generated, Becomes
<1> QED
  BY <1>1 DEF ReplaceDependsOn, IsResource, Resource

-----------------------------------------------------------------------------
(* The invariant.                                                          *)

LEMMA InitIInv == Init => IInv
<1> SUFFICES ASSUME Init PROVE IInv
  OBVIOUS
<1>1. given \in Templates /\ todo = given.order
  BY DEF Init
<1>2. given.order \in Seq(Connectors) /\ Connectors \subseteq {given.order[i] : i \in DOMAIN given.order}
  BY <1>1, TemplateParts, ConnectorsAssumption
<1>3. Left = Connectors /\ Translated = {}
  <2>1. \A i \in DOMAIN given.order : given.order[i] \in Connectors
    BY <1>2
  <2> QED
    BY <1>1, <1>2, <2>1 DEF Left, Translated
<1>4. Progress
  <2>1. Len(given.order) \in Nat /\ 0 \in 0..Len(given.order) /\ Len(todo) = Len(given.order) - 0
    BY <1>1, <1>2
  <2>2. \A i \in 1..Len(todo) : todo[i] = given.order[0 + i]
    BY <1>1, <2>1
  <2> QED
    BY <1>1, <1>2, <2>1, <2>2 DEF Progress
<1>5. DomainIs
  BY <1>3 DEF Init, DomainIs
<1>6. \A ds : Followed(ds) = Names(ds)
  BY <1>3 DEF Followed
<1>7. \A p : WaitsOf(p) = {}
  BY <1>3 DEF WaitsOf
<1>8. ASSUME NEW p \in Plain
      PROVE  template[Name(p)] = Resource(TypeOf[p], Names(given.dependsOn[p]), FALSE, Names(RefsOf[p]))
  <2>1. Name(p) \in Names(Plain \cup Connectors) /\ Name(p)[1] = p
    BY IdsApart DEF Names
  <2> QED
    BY <2>1 DEF Init, Resource
<1>9. ASSUME NEW c \in Connectors
      PROVE  template[Name(c)] = Resource("connector", Names(given.connectors[c].dependsOn), FALSE, {})
  <2>1. Name(c) \in Names(Plain \cup Connectors) /\ Name(c)[1] = c /\ c \notin Plain
    BY IdsApart, KindsApart DEF Names
  <2> QED
    BY <2>1 DEF Init, Resource
<1>10. PlainAre
  BY <1>6, <1>7, <1>8 DEF PlainAre
<1>11. ConnectorsAre
  <2>1. ASSUME NEW c \in Left PROVE IsResource(template[Name(c)]) /\ template[Name(c)].type = "connector"
    <3>1. c \in Connectors
      BY <1>3
    <3>2. template[Name(c)] = Resource("connector", Names(given.connectors[c].dependsOn), FALSE, {})
      BY <3>1, <1>9
    <3> QED
      BY <3>2 DEF IsResource, Resource
  <2> QED
    BY <2>1 DEF ConnectorsAre
<1>12. MadeAre
  BY <1>3 DEF MadeAre
<1> QED
  BY <1>4, <1>5, <1>10, <1>11, <1>12 DEF IInv

LEMMA TranslateKeeps ==
  ASSUME Progress, DomainIs, PlainAre, ConnectorsAre, MadeAre, NEW c \in Connectors, TranslateConnector(c)
  PROVE  DomainIs' /\ PlainAre' /\ ConnectorsAre' /\ MadeAre'
<1> DEFINE Changed(id) == ReplaceDependsOn(c, id, AddDependsOn(c, id, template[id]))
<1>1. /\ given \in Templates /\ given' = given /\ todo # <<>> /\ c = Head(todo) /\ todo' = Tail(todo)
      /\ template' = [id \in (DOMAIN template \ {Name(c)}) \cup DOMAIN Generated(c) |->
           IF id \in DOMAIN Generated(c) THEN Generated(c)[id] ELSE Changed(id)]
  BY DEF TranslateConnector, Progress
<1>2. /\ c \in Left /\ Left' = Left \ {c} /\ Left \subseteq Connectors
      /\ Translated' = Translated \cup {c} /\ c \notin Translated /\ Translated \subseteq Connectors
      /\ Early(given) => \A a \in Connectors : a \in given.connectors[c].dependsOn => a \in Left'
  BY <1>1, NextTaken DEF Translated
<1>3. /\ \A d : Becomes(d)' = Becomes(d)
      /\ \A b : Destinations(b)' = Destinations(b)
      /\ \A p, b : WaitedBy(p, b)' = WaitedBy(p, b)
  BY <1>1 DEF Becomes, Destinations, WaitedBy
<1>4. DOMAIN Generated(c) = Becomes(c)
  BY DEF Generated, Becomes
<1>5. DOMAIN template' = (DOMAIN template \ {Name(c)}) \cup Becomes(c)
  <2> HIDE DEF Changed
  <2> QED
    BY <1>1, <1>4
<1>6. \A id \in Becomes(c) : template'[id] = Generated(c)[id]
  <2> HIDE DEF Changed
  <2> QED
    BY <1>1, <1>4
<1>7. \A id \in DOMAIN template \ {Name(c)} : id \notin Becomes(c) => template'[id] = Changed(id)
  <2> HIDE DEF Changed
  <2> QED
    BY <1>1, <1>4
<1>8. \A b : b # c => \A i \in Destinations(b) : Made(b, i) \notin Becomes(c)
  BY IdsApart DEF Becomes
<1>9. \A x : Name(x) \notin Becomes(c)
  <2>1. \A i \in Destinations(c) : i # 0
    BY <1>1, TemplateParts
  <2> QED
    BY <2>1, IdsApart DEF Becomes
<1>10. DomainIs'
  <2>1. DOMAIN template = Names(Plain \cup Left) \cup UNION {Becomes(b) : b \in Translated}
    BY DEF DomainIs
  <2>2. Names(Plain \cup Left') = Names(Plain \cup Left) \ {Name(c)}
    BY <1>2, IdsApart, KindsApart DEF Names
  <2>3. UNION {Becomes(b) : b \in Translated'} = (UNION {Becomes(b) : b \in Translated}) \cup Becomes(c)
    BY <1>2
  <2>4. Name(c) \notin UNION {Becomes(b) : b \in Translated}
    <3>1. ASSUME NEW b \in Translated PROVE Name(c) \notin Becomes(b)
      BY <1>2, IdsApart DEF Becomes
    <3> QED
      BY <3>1
  <2>5. DomainIs' <=> DOMAIN template' = Names(Plain \cup Left') \cup UNION {Becomes(b) : b \in Translated'}
    BY <1>3 DEF DomainIs, Names
  <2> QED
    BY <2>1, <2>2, <2>3, <2>4, <2>5, <1>5
<1>11. PlainAre'
  <2> SUFFICES ASSUME NEW p \in Plain
               PROVE  template'[Name(p)] =
                 Resource(TypeOf[p], Followed(given.dependsOn[p])' \cup WaitsOf(p)', FALSE, Names(RefsOf[p]))
    BY <1>1 DEF PlainAre, Names
  <2> DEFINE ds == given.dependsOn[p]
             r == template[Name(p)]
             w == AddDependsOn(c, Name(p), r)
  <2>1. PICK D : D = ds
    OBVIOUS
  <2>2. /\ r.type = TypeOf[p] /\ r.dependsOn = Followed(D) \cup WaitsOf(p) /\ r.shared = FALSE
        /\ r.refs = Names(RefsOf[p]) /\ IsResource(r)
    BY <2>1, PlainParts
  <2>3. Waiting(c, Name(p)) = WaitedBy(p, c)
    BY <1>1, <1>2, WaitingIs
  <2>4. WaitsOf(p)' = WaitsOf(p) \cup WaitedBy(p, c)
    BY <1>2, <1>3 DEF WaitsOf
  <2>5. p # c /\ Name(p) \in DOMAIN template \ {Name(c)} /\ Name(p) \notin Becomes(c)
    BY <1>9, IdsApart, KindsApart DEF DomainIs, Names
  <2>6. template'[Name(p)] = ReplaceDependsOn(c, Name(p), w)
    BY <2>5, <1>7
  <2>7. /\ IsResource(template'[Name(p)]) /\ template'[Name(p)].type = TypeOf[p]
        /\ template'[Name(p)].refs = Names(RefsOf[p]) /\ template'[Name(p)].shared = FALSE
        /\ IsResource(w) /\ w.shared = FALSE
        /\ w.dependsOn = Followed(D) \cup (WaitsOf(p) \cup WaitedBy(p, c))
    <3>1. PICK W, V : W = w /\ V = template'[Name(p)]
      OBVIOUS
    <3>2. PICK R : R = r
      OBVIOUS
    <3> HIDE DEF r, w
    <3>3. V = ReplaceDependsOn(c, Name(p), W) /\ IsResource(R) /\ W = AddDependsOn(c, Name(p), R)
      BY <2>2, <2>6, <3>1, <3>2 DEF w
    <3>4. /\ IsResource(V) /\ V.type = R.type /\ V.refs = R.refs
          /\ IsResource(W) /\ W.shared \in {R.shared, FALSE} /\ W.dependsOn = R.dependsOn \cup Waiting(c, Name(p))
          /\ W.shared = FALSE => V.shared = FALSE
      <4>1. Waiter(W, R, Waiting(c, Name(p)))
        BY <3>3, AddedParts
      <4>2. Follower(V, W)
        BY <3>3, <4>1, ReplacedParts DEF Waiter
      <4> QED
        BY <4>1, <4>2 DEF Waiter, Follower
    <3> QED
      BY <2>2, <2>3, <3>1, <3>2, <3>4
  <2> HIDE DEF w, r
  <2>8. Name(c) \notin WaitsOf(p) \cup WaitedBy(p, c)
    <3>1. \A b \in Translated \cup {c} : Name(c) \notin WaitedBy(p, b)
      BY <1>1, <1>2, TemplateParts, IdsApart DEF WaitedBy
    <3> QED
      BY <3>1 DEF WaitsOf
  <2>9. Name(c) \in w.dependsOn <=> c \in D
    BY <2>7, <2>8, <1>2, FollowedHas
  <2>10. template'[Name(p)].dependsOn = Followed(D)' \cup WaitsOf(p)'
    <3>1. CASE c \notin D
      <4>1. template'[Name(p)] = w
        BY <3>1, <2>6, <2>7, <2>9, Replaced
      <4>2. Followed(D)' = Followed(D)
        BY <3>1, <1>1, <1>2, FollowedStep
      <4> QED
        BY <4>1, <4>2, <2>4, <2>7
    <3>2. CASE c \in D
      <4>1. FirstToShare(Name(p), w)
        BY <2>7 DEF FirstToShare
      <4>3. template'[Name(p)].dependsOn = (w.dependsOn \ {Name(c)}) \cup Becomes(c)
        BY <3>2, <4>1, <2>6, <2>7, <2>9, Replaced
      <4>4. Followed(D)' = (Followed(D) \ {Name(c)}) \cup Becomes(c)
        BY <3>2, <1>1, <1>2, FollowedStep
      <4> QED
        BY <4>3, <4>4, <2>4, <2>7, <2>8
    <3> QED
      BY <3>1, <3>2
  <2>11. Followed(given.dependsOn[p])' = Followed(D)'
    BY <2>1, <1>1 DEF Followed
  <2> QED
    BY <2>7, <2>10, <2>11 DEF IsResource, Resource
<1>12. ConnectorsAre'
  <2> SUFFICES ASSUME NEW b \in Left'
               PROVE  IsResource(template'[Name(b)]) /\ template'[Name(b)].type = "connector"
    BY DEF ConnectorsAre, IsResource, Resource
  <2>1. b \in Left /\ b # c
    BY <1>2
  <2>2. IsResource(template[Name(b)]) /\ template[Name(b)].type = "connector"
    BY <2>1 DEF ConnectorsAre
  <2>3. Name(b) \in DOMAIN template \ {Name(c)} /\ Name(b) \notin Becomes(c)
    BY <2>1, <1>9, IdsApart DEF DomainIs, Names
  <2>4. template'[Name(b)] = Changed(Name(b))
    BY <2>3, <1>7
  <2>5. PICK R, W, V : R = template[Name(b)] /\ W = AddDependsOn(c, Name(b), R) /\ V = ReplaceDependsOn(c, Name(b), W)
    OBVIOUS
  <2>6. IsResource(W) /\ W.type = R.type
    <3>1. Waiter(W, R, Waiting(c, Name(b)))
      BY <2>2, <2>5, AddedParts
    <3> QED
      BY <3>1 DEF Waiter
  <2>7. IsResource(V) /\ V.type = W.type
    <3>1. Follower(V, W)
      BY <2>5, <2>6, ReplacedParts
    <3> QED
      BY <3>1 DEF Follower
  <2> QED
    BY <2>2, <2>4, <2>5, <2>6, <2>7
<1>13. MadeAre'
  <2> SUFFICES ASSUME NEW b \in Translated', NEW i \in Destinations(b)
               PROVE  IsMade(template[Made(b, i)], b, i)'
    BY <1>3 DEF MadeAre
  <2> DEFINE k == given.connectors[b]
             id == Made(b, i)
             m == MadeBy(b, i)
  <2>4. IsMade(template[Made(b, i)], b, i)' <=>
          /\ IsResource(template'[id]) /\ template'[id].type = m.type /\ template'[id].refs = m.refs
          /\ \A y \in template'[id].dependsOn : y[1] \in k.dependsOn
          /\ Early(given) => template'[id].dependsOn = Followed(k.dependsOn)'
    <3>1. m' = m /\ k' = k /\ (Early(given)' <=> Early(given))
      BY <1>1 DEF MadeBy, Early
    <3> QED
      BY <3>1, <1>1 DEF IsMade, IsResource, Resource
  <2>1. PICK D : D = k.dependsOn
    OBVIOUS
  <2>2. CASE b = c
    <3>1. id \in Becomes(c) /\ id[2] = i
      BY <2>2, IdsApart DEF Becomes
    <3>2. template'[id] = Resource(m.type, Names(D), TRUE, m.refs)
      BY <3>1, <1>6, <1>4, <2>2, <2>1 DEF Generated, Resource, Becomes, MadeBy
    <3>3. IsResource(template'[id]) /\ template'[id].type = m.type /\ template'[id].refs = m.refs /\ template'[id].dependsOn = Names(D)
      BY <3>2 DEF IsResource, Resource
    <3>4. \A y \in Names(D) : y[1] \in D
      BY IdsApart DEF Names
    <3>5. ASSUME Early(given) PROVE Names(D) = Followed(D)'
      <4>1. D \subseteq Plain \cup Connectors
        BY <2>1, <2>2, <1>1, TemplateParts
      <4>2. \A a \in D : a \notin Translated'
        BY <4>1, <3>5, <1>2, <2>1, <2>2, KindsApart DEF Translated
      <4>3. Followed(D)' = {y \in Names(D) : y[1] \notin Translated'} \cup UNION {Becomes(d)' : d \in D \cap Translated'}
        BY DEF Followed, Names
      <4> QED
        BY <4>2, <4>3, <3>4
    <3>6. Followed(k.dependsOn)' = Followed(D)'
      BY <2>1, <1>1 DEF Followed
    <3> QED
      BY <3>3, <3>4, <3>5, <3>6, <2>1, <2>4
  <2>3. CASE b # c
    <3> DEFINE r == template[id]
               w == AddDependsOn(c, id, r)
    <3>1. b \in Translated /\ b \in Connectors
      BY <2>3, <1>2
    <3>2. /\ IsResource(r) /\ r.type = m.type /\ r.refs = m.refs
          /\ \A y \in r.dependsOn : y[1] \in D
          /\ Early(given) => r.dependsOn = Followed(D)
      BY <3>1, <2>1 DEF MadeAre, IsMade
    <3>3. i \in Nat /\ i > 0
      BY <3>1, <1>1, TemplateParts
    <3>4. id \notin Names(Plain) /\ id # Name(c) /\ id \notin Becomes(c) /\ id \in DOMAIN template
      BY <3>1, <3>3, <2>3, <1>8, IdsApart DEF Names, Becomes, DomainIs
    <3>5. Waiting(c, id) = {}
      BY <3>4, <1>1, <1>2, WaitingIs
    <3>6. template'[id] = ReplaceDependsOn(c, id, w)
      BY <3>4, <1>7
    <3>7. /\ IsResource(template'[id]) /\ template'[id].type = m.type /\ template'[id].refs = m.refs
          /\ IsResource(w) /\ w.dependsOn = r.dependsOn /\ w.shared \in {r.shared, FALSE}
      <4>1. PICK W, V, R : W = w /\ V = template'[id] /\ R = r
        OBVIOUS
      <4> HIDE DEF r, w
      <4>2. V = ReplaceDependsOn(c, id, W) /\ IsResource(R) /\ W = AddDependsOn(c, id, R)
        BY <3>2, <3>6, <4>1 DEF w
      <4>3. /\ IsResource(V) /\ V.type = R.type /\ V.refs = R.refs
            /\ IsResource(W) /\ W.shared \in {R.shared, FALSE} /\ W.dependsOn = R.dependsOn \cup Waiting(c, id)
        <5>1. Waiter(W, R, Waiting(c, id))
          BY <4>2, AddedParts
        <5>2. Follower(V, W)
          BY <4>2, <5>1, ReplacedParts DEF Waiter
        <5> QED
          BY <5>1, <5>2 DEF Waiter, Follower
      <4> QED
        BY <3>2, <3>5, <4>1, <4>3
    <3> HIDE DEF w, r, m, id
    <3>8. CASE Name(c) \notin w.dependsOn
      <4>1. template'[id] = w
        BY <3>8, <3>6, <3>7, Replaced
      <4>2. Early(given) => Followed(D)' = Followed(D)
        BY <3>8, <3>7, <3>2, <1>1, <1>2, FollowedStep, FollowedHas
      <4>3. Followed(k.dependsOn)' = Followed(D)'
        BY <2>1, <1>1 DEF Followed
      <4> QED
        BY <4>1, <4>2, <4>3, <3>2, <3>7, <2>1, <2>4 DEF m, id
    <3>9. CASE Name(c) \in w.dependsOn
      <4>1. c \in D
        BY <3>9, <3>7, <3>2, IdsApart
      <4>2. \A y \in Becomes(c) : y[1] \in D
        BY <4>1, IdsApart DEF Becomes
      <4>3. template'[id].dependsOn \subseteq w.dependsOn \cup Becomes(c)
        BY <3>6, <3>7, Replaced
      <4>4. \A y \in template'[id].dependsOn : y[1] \in D
        BY <4>2, <4>3, <3>7, <3>2
      <4>5. ASSUME Early(given) PROVE template'[id].dependsOn = Followed(D)'
        <5>1. Len(k.destinations) <= 1
          BY <4>5, <4>1, <2>1, <3>1 DEF Early
        <5>2. Destinations(b) = 1..Len(k.destinations) /\ k.destinations \in Seq(Ends)
          BY <3>1, <1>1, TemplateParts
        <5>3. \A j \in Destinations(b) : j = i
          BY <5>1, <5>2
        <5>4. FirstToShare(id, w)
          <6>1. ASSUME NEW other \in DOMAIN template, other[1] = id[1], other[2] > 0 PROVE other[2] >= id[2]
            <7>1. id[1] = b /\ id[2] = i
              BY IdsApart DEF id
            <7>2. other \in Names(Plain \cup Left) \cup UNION {Becomes(x) : x \in Translated}
              BY DEF DomainIs
            <7>3. other \notin Names(Plain \cup Left)
              BY <6>1, IdsApart DEF Names
            <7>4. PICK x \in Translated : other \in Becomes(x)
              BY <7>2, <7>3
            <7>5. PICK j \in Destinations(x) : other = Made(x, j)
              BY <7>4, <1>2 DEF Becomes
            <7>6. x = b /\ other[2] = j
              BY <7>5, <7>1, <6>1, IdsApart
            <7> QED
              BY <7>5, <7>6, <7>1, <5>3, <3>3
          <6> QED
            BY <6>1 DEF FirstToShare
        <5>5. template'[id].dependsOn = (w.dependsOn \ {Name(c)}) \cup Becomes(c)
          BY <5>4, <3>6, <3>7, <3>9, Replaced
        <5> QED
          BY <5>5, <4>1, <4>5, <3>2, <3>7, <1>1, <1>2, FollowedStep
      <4>6. Followed(k.dependsOn)' = Followed(D)'
        BY <2>1, <1>1 DEF Followed
      <4> QED
        BY <4>4, <4>5, <4>6, <3>7, <2>1, <2>4 DEF m, id
    <3> QED
      BY <3>8, <3>9
  <2> QED
    BY <2>2, <2>3
<1> QED
  BY <1>10, <1>11, <1>12, <1>13

LEMMA NextIInv == IInv /\ [Next]_vars => IInv'
<1> SUFFICES ASSUME IInv, [Next]_vars PROVE IInv'
  OBVIOUS
<1>1. ASSUME NEW c \in Connectors, TranslateConnector(c) PROVE IInv'
  <2>1. todo # <<>> /\ c = Head(todo) /\ todo' = Tail(todo) /\ given' = given /\ failed' = failed
    BY <1>1 DEF TranslateConnector
  <2>2. Progress'
    BY <2>1, NextTaken DEF IInv
  <2>3. failed = {} => DomainIs' /\ PlainAre' /\ ConnectorsAre' /\ MadeAre'
    BY <1>1, TranslateKeeps DEF IInv
  <2> QED
    BY <2>1, <2>2, <2>3 DEF IInv
<1>2. ASSUME NEW c \in Connectors, RefuseConnector(c) PROVE IInv'
  <2>1. todo # <<>> /\ c = Head(todo) /\ todo' = Tail(todo) /\ given' = given /\ failed' # {}
    BY <1>2 DEF RefuseConnector
  <2>2. Progress'
    BY <2>1, NextTaken DEF IInv
  <2> QED
    BY <2>1, <2>2 DEF IInv
<1>3. CASE UNCHANGED vars
  <2>1. given' = given /\ todo' = todo /\ template' = template /\ failed' = failed
    BY <1>3 DEF vars
  <2>2. Progress'
    BY <2>1 DEF IInv, Progress
  <2>3. /\ Left' = Left /\ Translated' = Translated
        /\ \A d : Becomes(d)' = Becomes(d)
        /\ \A c : Destinations(c)' = Destinations(c)
    BY <2>1 DEF Left, Translated, Becomes, Destinations
  <2>4. DomainIs' <=> DomainIs
    BY <2>1, <2>3 DEF DomainIs
  <2>5. PlainAre' <=> PlainAre
    <3>1. \A ds : Followed(ds)' = Followed(ds)
      BY <2>3 DEF Followed
    <3>2. \A p, c : WaitedBy(p, c)' = WaitedBy(p, c)
      BY <2>1, <2>3 DEF WaitedBy
    <3>3. \A p : WaitsOf(p)' = WaitsOf(p)
      BY <2>3, <3>2 DEF WaitsOf
    <3> QED
      BY <2>1, <3>1, <3>3 DEF PlainAre
  <2>6. ConnectorsAre' <=> ConnectorsAre
    BY <2>1, <2>3 DEF ConnectorsAre
  <2>7. MadeAre' <=> MadeAre
    BY <2>1, <2>3 DEF MadeAre, IsMade, MadeBy, Followed, Early
  <2> QED
    BY <2>1, <2>2, <2>4, <2>5, <2>6, <2>7 DEF IInv
<1> QED
  BY <1>1, <1>2, <1>3 DEF Next

(* The inductive invariant: the template is, at any time, what the author  *)
(* wrote with the connectors that are through followed to what they became *)
(* and what is to wait for their policies waiting.                         *)
THEOREM SpecIInv == Spec => []IInv
  BY InitIInv, NextIInv, PTL DEF Spec

-----------------------------------------------------------------------------
(* What the invariant says of a template that is returned.                 *)

LEMMA AllThrough ==
  ASSUME IInv, Returned
  PROVE  /\ given \in Templates /\ Left = {} /\ Translated = Connectors
         /\ DomainIs /\ PlainAre /\ MadeAre
         /\ \A ds \in SUBSET (Plain \cup Connectors) : Followed(ds) = AllOf(ds)
<1>1. given \in Templates /\ Left = {} /\ Translated = Connectors /\ DomainIs /\ PlainAre /\ MadeAre
  BY DEF IInv, Returned, Progress, Left, Translated
<1>2. ASSUME NEW ds \in SUBSET (Plain \cup Connectors) PROVE Followed(ds) = AllOf(ds)
  <2>1. Followed(ds) = {y \in Names(ds) : y[1] \notin Connectors} \cup UNION {Becomes(d) : d \in ds \cap Connectors}
    BY <1>1 DEF Followed
  <2>2. ASSUME NEW y \in Names(ds), y[1] \notin Connectors PROVE y \in AllOf(ds)
    <3>1. y = Name(y[1]) /\ y[1] \in ds
      BY IdsApart DEF Names
    <3> QED
      BY <3>1, <2>2 DEF AllOf, Becomes
  <2>3. ASSUME NEW y \in AllOf(ds) PROVE y \in Followed(ds)
    <3>1. PICK d \in ds : y \in Becomes(d)
      BY DEF AllOf
    <3>2. CASE d \in Connectors
      BY <3>1, <3>2, <2>1
    <3>3. CASE d \notin Connectors
      <4>1. y = Name(d)
        BY <3>1, <3>3 DEF Becomes
      <4> QED
        BY <4>1, <3>1, <3>3, <2>1, IdsApart DEF Names
    <3> QED
      BY <3>2, <3>3
  <2> QED
    BY <2>1, <2>2, <2>3 DEF AllOf
<1> QED
  BY <1>1, <1>2

(* What is written is there, as it was written or as what it became.       *)
LEMMA AllThere ==
  ASSUME IInv, Returned, NEW ds \in SUBSET (Plain \cup Connectors)
  PROVE  AllOf(ds) \subseteq DOMAIN template
<1> SUFFICES ASSUME NEW d \in ds PROVE Becomes(d) \subseteq DOMAIN template
  BY DEF AllOf
<1>1. Translated = Connectors /\ DomainIs
  BY AllThrough
<1>2. CASE d \in Connectors
  BY <1>1, <1>2 DEF DomainIs
<1>3. CASE d \notin Connectors
  <2>1. d \in Plain /\ Becomes(d) = {Name(d)}
    BY <1>3 DEF Becomes
  <2> QED
    BY <2>1, <1>1 DEF DomainIs, Names
<1> QED
  BY <1>2, <1>3

LEMMA WaitsThere ==
  ASSUME IInv, Returned, NEW p \in Plain
  PROVE  WaitsOf(p) \subseteq DOMAIN template
<1>1. Translated = Connectors /\ DomainIs
  BY AllThrough
<1>2. ASSUME NEW c \in Connectors PROVE WaitedBy(p, c) \subseteq Becomes(c)
  BY DEF WaitedBy, Becomes
<1> QED
  BY <1>1, <1>2 DEF WaitsOf, DomainIs

LEMMA IInvOrderKept == IInv => (Early(given) => OrderKept)
<1> SUFFICES ASSUME IInv, Early(given), Returned
             PROVE  /\ \A p \in Plain : AllOf(given.dependsOn[p]) \subseteq DependsOn(Name(p))
                    /\ \A c \in Connectors : \A id \in Becomes(c) :
                         AllOf(given.connectors[c].dependsOn) \subseteq DependsOn(id)
                    /\ \A id \in DOMAIN template : DependsOn(id) \subseteq DOMAIN template
  BY DEF OrderKept
<1>1. /\ given \in Templates /\ Left = {} /\ Translated = Connectors
      /\ DomainIs /\ PlainAre /\ MadeAre
      /\ \A ds \in SUBSET (Plain \cup Connectors) : Followed(ds) = AllOf(ds)
  BY AllThrough
<1>2. /\ \A p \in Plain : given.dependsOn[p] \in SUBSET (Plain \cup Connectors)
      /\ \A c \in Connectors : given.connectors[c].dependsOn \in SUBSET (Plain \cup Connectors)
  BY <1>1, TemplateParts
<1>3. ASSUME NEW p \in Plain PROVE DependsOn(Name(p)) = AllOf(given.dependsOn[p]) \cup WaitsOf(p)
  BY <1>1, <1>2, PlainParts DEF DependsOn
<1>4. ASSUME NEW c \in Connectors, NEW id \in Becomes(c)
      PROVE  DependsOn(id) = AllOf(given.connectors[c].dependsOn)
  <2>1. PICK i \in Destinations(c) : id = Made(c, i)
    BY DEF Becomes
  <2>2. IsMade(template[Made(c, i)], c, i)
    BY <1>1 DEF MadeAre
  <2>3. template[id].dependsOn = Followed(given.connectors[c].dependsOn)
    BY <2>1, <2>2 DEF IsMade
  <2> QED
    BY <2>3, <1>1, <1>2 DEF DependsOn
<1>5. ASSUME NEW id \in DOMAIN template PROVE DependsOn(id) \subseteq DOMAIN template
  <2>1. id \in Names(Plain) \/ \E c \in Connectors : id \in Becomes(c)
    BY <1>1 DEF DomainIs
  <2>2. CASE id \in Names(Plain)
    <3>1. PICK p \in Plain : id = Name(p)
      BY <2>2 DEF Names
    <3> QED
      BY <3>1, <1>2, <1>3, AllThere, WaitsThere
  <2>3. CASE \E c \in Connectors : id \in Becomes(c)
    <3>1. PICK c \in Connectors : id \in Becomes(c)
      BY <2>3
    <3> QED
      BY <3>1, <1>2, <1>4, AllThere
  <2> QED
    BY <2>1, <2>2, <2>3
<1> QED
  BY <1>3, <1>4, <1>5

(* What the author wrote a resource or a connector depends on, it or what  *)
(* became of it depends on, and nothing depends on what is not there, in   *)
(* any template whose connectors that depend on connectors are Early.      *)
THEOREM OrderKeptHolds == Spec => [](Early(given) => OrderKept)
  BY SpecIInv, IInvOrderKept, PTL

LEMMA IInvWaitForPolicies == IInv => WaitForPolicies
<1> SUFFICES ASSUME IInv, Returned, NEW c \in Connectors, NEW i \in Destinations(c), NEW id \in Names(Plain)
             PROVE  Made(c, i) \in DependsOn(id) <=>
                      \/ /\ DependedBy(TypeOf[given.connectors[c].source], TypeOf[given.connectors[c].destinations[i]]) = "mapping"
                         /\ {given.connectors[c].source, given.connectors[c].destinations[i]} \subseteq Plain
                         /\ Mappings(given.connectors[c].source, given.connectors[c].destinations[i]) = {id}
                      \/ /\ DependedBy(TypeOf[given.connectors[c].source], TypeOf[given.connectors[c].destinations[i]]) = "source"
                         /\ id = Name(given.connectors[c].source)
                      \/ c \in given.dependsOn[id[1]]
  BY DEF WaitForPolicies
<1> DEFINE s == given.connectors[c].source
           d == given.connectors[c].destinations[i]
           by == DependedBy(TypeOf[s], TypeOf[d])
<1>1. /\ given \in Templates /\ Left = {} /\ Translated = Connectors
      /\ DomainIs /\ PlainAre /\ MadeAre
      /\ \A ds \in SUBSET (Plain \cup Connectors) : Followed(ds) = AllOf(ds)
  BY AllThrough
<1>2. PICK p \in Plain : id = Name(p) /\ id[1] = p
  BY IdsApart DEF Names
<1>3. DependsOn(id) = AllOf(given.dependsOn[p]) \cup WaitsOf(p)
  <2>1. given.dependsOn[p] \in SUBSET (Plain \cup Connectors)
    BY <1>1, TemplateParts
  <2>2. Followed(given.dependsOn[p]) = AllOf(given.dependsOn[p])
    BY <1>1, <2>1
  <2>3. template[Name(p)].dependsOn = Followed(given.dependsOn[p]) \cup WaitsOf(p)
    BY <1>1, PlainParts
  <2> QED
    BY <1>2, <2>2, <2>3 DEF DependsOn
<1>4. i # 0
  BY <1>1, TemplateParts
<1>5. Made(c, i) \in AllOf(given.dependsOn[p]) <=> c \in given.dependsOn[p]
  <2>1. ASSUME NEW e, Made(c, i) \in Becomes(e) PROVE e = c
    BY <2>1, <1>4, IdsApart DEF Becomes
  <2>2. Made(c, i) \in Becomes(c)
    BY DEF Becomes
  <2> QED
    BY <2>1, <2>2 DEF AllOf
<1>6. Made(c, i) \in WaitsOf(p) <=> WaitsFor(p, s, d)
  <2>1. ASSUME NEW b, Made(c, i) \in WaitedBy(p, b) PROVE b = c /\ WaitsFor(p, s, d)
    BY <2>1, IdsApart DEF WaitedBy
  <2>2. WaitsFor(p, s, d) => Made(c, i) \in WaitedBy(p, c)
    BY DEF WaitedBy
  <2> QED
    BY <2>1, <2>2, <1>1 DEF WaitsOf
<1>7. {s, d} \subseteq Plain => (Mappings(s, d) = {id} <=> MappingsOf(s, d) = {p})
  <2> SUFFICES ASSUME {s, d} \subseteq Plain PROVE Mappings(s, d) = {id} <=> MappingsOf(s, d) = {p}
    OBVIOUS
  <2>1. Mappings(s, d) = Names(MappingsOf(s, d))
    <3>1. ConnectorsAre
      BY <1>1 DEF ConnectorsAre
    <3> QED
      BY <1>1, <3>1, MappingsAre
  <2>2. ASSUME MappingsOf(s, d) = {p} PROVE Mappings(s, d) = {id}
    BY <2>1, <2>2, <1>2 DEF Names
  <2>3. ASSUME Mappings(s, d) = {id} PROVE MappingsOf(s, d) = {p}
    <3>1. \A q \in MappingsOf(s, d) : q = p
      BY <2>1, <2>3, <1>2, IdsApart DEF Names
    <3>2. \E q : q \in MappingsOf(s, d)
      BY <2>1, <2>3 DEF Names
    <3> QED
      BY <3>1, <3>2
  <2> QED
    BY <2>2, <2>3
<1>8. id = Name(s) <=> p = s
  BY <1>2, IdsApart
<1> QED
  BY <1>2, <1>3, <1>5, <1>6, <1>7, <1>8 DEF WaitsFor

(* The one mapping between the ends of a connector, or the state machine   *)
(* that starts another, waits for its policies, and no other resource does *)
(* that does not depend on the connector.                                  *)
THEOREM WaitForPoliciesHolds == Spec => []WaitForPolicies
  BY SpecIInv, IInvWaitForPolicies, PTL

-----------------------------------------------------------------------------
(* Circles.                                                                *)

(* What one resource of the template needs of another, the author wrote    *)
(* that it, or the connector it was made for, needs of the other or of the *)
(* connector that was made for.                                            *)
LEMMA EdgesWritten ==
  ASSUME IInv, Returned, NEW x \in DOMAIN template, NEW y \in DOMAIN template, <<x, y>> \in Edges
  PROVE  x[1] \in Plain \cup Connectors /\ y[1] \in Plain \cup Connectors /\ <<x[1], y[1]>> \in WrittenEdges
<1>1. /\ given \in Templates /\ Left = {} /\ Translated = Connectors
      /\ DomainIs /\ PlainAre /\ MadeAre
      /\ \A ds \in SUBSET (Plain \cup Connectors) : Followed(ds) = AllOf(ds)
  BY AllThrough
<1>2. y \in template[x].refs \cup template[x].dependsOn
  BY DEF Edges, DependsOn
<1>3. ASSUME NEW z \in DOMAIN template
      PROVE  \/ \E p \in Plain : z = Name(p) /\ z[1] = p
             \/ \E c \in Connectors : \E i \in Destinations(c) : z = Made(c, i) /\ z[1] = c
  BY <1>1, IdsApart DEF DomainIs, Names, Becomes
<1>4. x[1] \in Plain \cup Connectors /\ y[1] \in Plain \cup Connectors
  BY <1>3
<1>5. ASSUME NEW p \in Plain, x = Name(p), x[1] = p PROVE <<x[1], y[1]>> \in WrittenEdges
  <2>1. template[x].refs = Names(RefsOf[p]) /\ template[x].dependsOn = Followed(given.dependsOn[p]) \cup WaitsOf(p)
    BY <1>1, <1>5, PlainParts
  <2>2. y[1] \in RefsOf[p] \/ y[1] \in given.dependsOn[p] \/ (y[1] \in Connectors /\ ToWait(p, y[1]))
    <3>1. CASE y \in Names(RefsOf[p])
      BY <3>1, IdsApart DEF Names
    <3>2. CASE y \in Followed(given.dependsOn[p])
      BY <3>2, FollowedFrom
    <3>3. CASE y \in WaitsOf(p)
      <4>1. PICK c \in Connectors : y \in WaitedBy(p, c)
        BY <3>3, <1>1 DEF WaitsOf
      <4>2. PICK i \in Destinations(c) :
              y = Made(c, i) /\ WaitsFor(p, given.connectors[c].source, given.connectors[c].destinations[i])
        BY <4>1 DEF WaitedBy
      <4>3. y[1] = c
        BY <4>2, IdsApart
      <4>4. ToWait(p, c)
        <5> DEFINE s == given.connectors[c].source
                   d == given.connectors[c].destinations[i]
        <5>1. CASE DependedBy(TypeOf[s], TypeOf[d]) = "mapping" /\ MappingsOf(s, d) = {p}
          <6>1. TypeOf[p] = "mapping" /\ {s, d} \subseteq RefsOf[p]
            BY <5>1 DEF MappingsOf
          <6> QED
            BY <5>1, <6>1 DEF ToWait
        <5>2. CASE DependedBy(TypeOf[s], TypeOf[d]) = "source" /\ p = s
          BY <5>2 DEF ToWait
        <5> QED
          BY <4>2, <5>1, <5>2 DEF WaitsFor
      <4> QED
        BY <4>3, <4>4
    <3> QED
      BY <2>1, <1>2, <3>1, <3>2, <3>3
  <2> QED
    BY <2>2, <1>5 DEF WrittenEdges
<1>6. ASSUME NEW c \in Connectors, NEW i \in Destinations(c), x = Made(c, i), x[1] = c
      PROVE  <<x[1], y[1]>> \in WrittenEdges
  <2>1. IsMade(template[x], c, i)
    BY <1>1, <1>6 DEF MadeAre
  <2>2. template[x].refs = MadeBy(c, i).refs /\ \A z \in template[x].dependsOn : z[1] \in given.connectors[c].dependsOn
    BY <2>1 DEF IsMade
  <2>3. CASE y \in template[x].dependsOn
    BY <2>2, <2>3, <1>4, <1>6 DEF WrittenEdges, Joined
  <2>4. CASE y \in template[x].refs
    <3>1. PICK es \in SUBSET Plain : MadeBy(c, i).refs = Names(es)
      BY ConstructParts DEF MadeBy
    <3>2. y = Name(y[1])
      BY <3>1, <2>2, <2>4, IdsApart DEF Names
    <3>3. Joined(c, y[1])
      BY <3>2, <2>2, <2>4 DEF Joined, MadeBy
    <3> QED
      BY <3>3, <1>4, <1>6 DEF WrittenEdges
  <2> QED
    BY <1>2, <2>3, <2>4
<1> QED
  BY <1>3, <1>4, <1>5, <1>6

LEMMA IInvNoNewCircle == IInv => NoNewCircle
<1> SUFFICES ASSUME IInv, Returned, Acyclic(Plain \cup Connectors, WrittenEdges),
                    NEW some \in SUBSET DOMAIN template, some # {},
                    \A x \in some : \E y \in some : <<x, y>> \in Edges
             PROVE  FALSE
  BY DEF NoNewCircle, Acyclic
<1> DEFINE written == {x[1] : x \in some}
<1>1. ASSUME NEW x \in some
      PROVE  x[1] \in Plain \cup Connectors /\ \E z \in written : z \in Plain \cup Connectors /\ <<x[1], z>> \in WrittenEdges
  <2>1. PICK y \in some : <<x, y>> \in Edges
    OBVIOUS
  <2> QED
    BY <2>1, EdgesWritten
<1>2. written # {}
  OBVIOUS
<1>3. written \subseteq {n \in Plain \cup Connectors : \E m \in Plain \cup Connectors : <<n, m>> \in WrittenEdges}
  BY <1>1
<1>4. PICK z \in written : \A v \in written : <<z, v>> \notin WrittenEdges
  BY <1>2, <1>3 DEF Acyclic
<1>5. PICK x \in some : z = x[1]
  OBVIOUS
<1> QED
  BY <1>1, <1>4, <1>5

(* Connectors bring no circle about that the author did not write.         *)
THEOREM NoNewCircleHolds == Spec => []NoNewCircle
  BY SpecIInv, IInvNoNewCircle, PTL
=============================================================================
