----------------------------- MODULE Connectors -----------------------------
(***************************************************************************)
(* AWS::Serverless::Connector: what is made of it from the profile of its  *)
(* ends, and what its translation changes in place in resources that are   *)
(* in the template already: the DependsOn of event source mappings and of  *)
(* state machines, and every DependsOn that names the connector.           *)
(*                                                                         *)
(* Connectors are the last resources to be translated: the others, Plain,  *)
(* are there as CloudFormation resources.  All that a connector makes has  *)
(* one list as its DependsOn, until one of them gets a list of its own.    *)
(***************************************************************************)
EXTENDS Integers, Sequences, FiniteSets

CONSTANTS
  Plain,       \* resources in the template that are no connectors
  Outside,     \* ends that are given by type and properties, not by Id
  Connectors,
  TypeOf,      \* [Plain \cup Outside -> Types]
  RoleOf,      \* [Plain \X (Plain \cup Outside) -> role of the first end, or NoRole]
  Known,       \* [Outside -> properties that are given]
  RefsOf,      \* [Plain -> what their properties refer to]
  NoRole,
  Templates

Types ==
  {"function", "machine", "queue", "table", "topic", "bucket", "rule", "mapping", "role", "other"}
Properties == {"Arn", "RoleName", "QueueUrl"}
Ends == Plain \cup Outside

(* order is that of the template, of its connectors.                       *)
Template ==
  [order : Seq(Connectors), dependsOn : [Plain -> SUBSET (Plain \cup Connectors)],
   connectors : [Connectors ->
     [source : Ends, destinations : Seq(Ends), permissions : SUBSET {"Read", "Write"},
      dependsOn : SUBSET (Plain \cup Connectors)]]]

(* Resources and connectors are the keys of one finite map.                *)
ASSUME ConnectorsAssumption ==
  /\ IsFiniteSet(Plain)
  /\ Plain \cap Outside = {}
  /\ Connectors \cap Ends = {}
  /\ TypeOf \in [Ends -> Types]
  /\ Known \in [Outside -> SUBSET Properties]
  /\ RefsOf \in [Plain -> SUBSET Plain]
  /\ RoleOf \in [Plain \X Ends -> Plain \cup {NoRole}]
  /\ Templates \subseteq Template
  /\ \A t \in Templates :
       /\ \A i, j \in DOMAIN t.order : t.order[i] = t.order[j] => i = j
       /\ Connectors \subseteq {t.order[i] : i \in DOMAIN t.order}

VARIABLES
  given,    \* the template, as its author wrote it
  todo,     \* connectors still to translate, in order
  template, \* [id -> [type, dependsOn, shared, refs]], the resources so far
  failed    \* connectors that were refused

vars == <<given, todo, template, failed>>

(* Resources of the template and connectors have ids that end in 0, what   *)
(* the connector c makes for its i-th destination is <<c, i>>.             *)
Name(id) == <<id, 0>>
Made(c, i) == <<c, i>>
Names(ids) == {Name(id) : id \in ids}

Init ==
  /\ given \in Templates
  /\ todo = given.order
  /\ template = [id \in Names(Plain \cup Connectors) |->
       IF id[1] \in Plain
         THEN [type |-> TypeOf[id[1]], dependsOn |-> Names(given.dependsOn[id[1]]), shared |-> FALSE,
               refs |-> Names(RefsOf[id[1]])]
         ELSE [type |-> "connector", dependsOn |-> Names(given.connectors[id[1]].dependsOn),
               shared |-> FALSE, refs |-> {}]]
  /\ failed = {}

-----------------------------------------------------------------------------
(* profiles.json: what may be done between ends of two types, in which     *)
(* combinations, and what is made for it.                                  *)
AccessCategories(s, t) ==
  CASE <<s, t>> \in {"function", "machine"} \X {"table", "bucket"} -> {"Read", "Write"}
    [] <<s, t>> \in {<<"function", "queue">>, <<"function", "machine">>,
                     <<"machine", "machine">>, <<"queue", "function">>} -> {"Read", "Write"}
    [] <<s, t>> = <<"table", "function">> -> {"Read"}
    [] <<s, t>> \in {"function", "machine"} \X {"function", "topic"} -> {"Write"}
    [] <<s, t>> \in {"rule"} \X {"topic", "machine", "function", "queue"} -> {"Write"}
    [] <<s, t>> \in {"topic"} \X {"queue", "function"} -> {"Write"}
    [] <<s, t>> \in {<<"machine", "queue">>, <<"bucket", "function">>} -> {"Write"}
    [] OTHER -> {}

ValidCombinations(s, t) ==
  CASE <<s, t>> = <<"queue", "function">> -> {{"Read", "Write"}}
    [] <<s, t>> = <<"machine", "machine">> -> {{"Read"}, {"Read", "Write"}}
    [] OTHER -> SUBSET AccessCategories(s, t) \ {{}}

ProfileType(s, t) ==
  CASE s \in {"topic", "rule"} /\ t = "queue" -> "queuePolicy"
    [] s = "rule" /\ t = "topic" -> "topicPolicy"
    [] s \in {"rule", "topic", "bucket"} /\ t = "function" -> "permission"
    [] OTHER -> "policy"

(* The role that gets the policy is the source's or the destination's.     *)
SourcePolicy(s, t) == t # "function" \/ s \in {"function", "machine"}

DependedBy(s, t) ==
  CASE s \in {"queue", "table"} /\ t = "function" -> "mapping"
    [] s = "machine" /\ t = "machine" -> "source"
    [] OTHER -> "none"

(* get_resource_reference: what is known of an end, of one with an Id by   *)
(* its type and what it is connected to.                                   *)
RoleName(e, other) == IF e \in Plain THEN RoleOf[<<e, other>>] ELSE NoRole
Tells(e, other) ==
  IF e \in Outside THEN Known[e]
    ELSE {"Arn"} \cup (IF TypeOf[e] = "queue" THEN {"QueueUrl"} ELSE {})
                 \cup (IF RoleName(e, other) # NoRole THEN {"RoleName"} ELSE {})

Needs(s, t) ==
  CASE ProfileType(s, t) = "policy" -> IF SourcePolicy(s, t) THEN {"DestinationArn", "Role"}
                                                              ELSE {"SourceArn", "Role"}
    [] ProfileType(s, t) = "permission" -> {"SourceArn", "DestinationArn"}
    [] ProfileType(s, t) = "queuePolicy" -> {"SourceArn", "DestinationArn", "QueueUrl"}
    [] OTHER -> {"SourceArn", "DestinationArn"}

Told(s, d) ==
  (IF "Arn" \in Tells(s, d) THEN {"SourceArn"} ELSE {})
    \cup (IF "Arn" \in Tells(d, s) THEN {"DestinationArn"} ELSE {})
    \cup (IF "QueueUrl" \in Tells(d, s) THEN {"QueueUrl"} ELSE {})
    \cup (IF "RoleName" \in IF SourcePolicy(TypeOf[s], TypeOf[d]) THEN Tells(s, d) ELSE Tells(d, s)
            THEN {"Role"} ELSE {})

Supported(s, t, permissions) ==
  /\ permissions # {}
  /\ permissions \subseteq AccessCategories(s, t)
  /\ permissions \in ValidCombinations(s, t)

(* generate_resources refuses a destination.                               *)
RefusedFor(c, i) ==
  LET k == given.connectors[c]
      d == k.destinations[i]
      s == TypeOf[k.source]
      t == TypeOf[d] IN
  ~Supported(s, t, k.permissions) \/ ~(Needs(s, t) \subseteq Told(k.source, d))

Destinations(c) == DOMAIN given.connectors[c].destinations
Refused(c) == Destinations(c) = {} \/ \E i \in Destinations(c) : RefusedFor(c, i)

-----------------------------------------------------------------------------
(* What is made refers to the ends that are resources of the template, and *)
(* a policy to its role and to the other end.                              *)
PolicyRole(s, d) == IF SourcePolicy(TypeOf[s], TypeOf[d]) THEN RoleName(s, d) ELSE RoleName(d, s)
IAMPolicy(s, d) ==
  [type |-> "policy",
   refs |-> Names({PolicyRole(s, d), IF SourcePolicy(TypeOf[s], TypeOf[d]) THEN d ELSE s} \cap Plain)]
LambdaPermission(s, d) == [type |-> "permission", refs |-> Names({s, d} \cap Plain)]
TopicPolicy(s, d) == [type |-> "topicPolicy", refs |-> Names({s, d} \cap Plain)]
QueuePolicy(s, d) == [type |-> "queuePolicy", refs |-> Names({s, d} \cap Plain)]

Construct(s, d) ==
  CASE ProfileType(TypeOf[s], TypeOf[d]) = "policy" -> IAMPolicy(s, d)
    [] ProfileType(TypeOf[s], TypeOf[d]) = "permission" -> LambdaPermission(s, d)
    [] ProfileType(TypeOf[s], TypeOf[d]) = "topicPolicy" -> TopicPolicy(s, d)
    [] OTHER -> QueuePolicy(s, d)

(* All of them get one list: the connector's own, as the author wrote it.  *)
Generated(c) ==
  [id \in {Made(c, i) : i \in Destinations(c)} |->
     LET k == given.connectors[c]
         made == Construct(k.source, k.destinations[id[2]]) IN
     [type |-> made.type, dependsOn |-> Names(k.dependsOn), shared |-> TRUE, refs |-> made.refs]]

(* get_event_source_mappings, among what has been generated.               *)
Mappings(s, d) ==
  {id \in DOMAIN template : template[id].type = "mapping" /\ {Name(s), Name(d)} \subseteq template[id].refs}

(* Whose DependsOn gets the new resource.                                  *)
Dependents_AnyMapping(s, d) ==
  CASE DependedBy(TypeOf[s], TypeOf[d]) = "mapping" ->
         {id \in DOMAIN template : template[id].type = "mapping" /\ Name(d) \in template[id].refs}
    [] DependedBy(TypeOf[s], TypeOf[d]) = "source" -> {Name(s)} \cap DOMAIN template
    [] OTHER -> {}
Dependents_Swapped(s, d) ==
  CASE DependedBy(TypeOf[s], TypeOf[d]) = "mapping" /\ {s, d} \subseteq Plain ->
         IF Cardinality(Mappings(s, d)) = 1 THEN Mappings(s, d) ELSE {}
    [] DependedBy(TypeOf[s], TypeOf[d]) = "source" -> {Name(d)} \cap DOMAIN template
    [] OTHER -> {}
Dependents(s, d) ==
  CASE DependedBy(TypeOf[s], TypeOf[d]) = "mapping" /\ {s, d} \subseteq Plain ->
         IF Cardinality(Mappings(s, d)) = 1 THEN Mappings(s, d) ELSE {}
    [] DependedBy(TypeOf[s], TypeOf[d]) = "source" -> {Name(s)} \cap DOMAIN template
    [] OTHER -> {}

Waiting(c, id) ==
  {Made(c, i) : i \in {j \in Destinations(c) :
     id \in Dependents(given.connectors[c].source, given.connectors[c].destinations[j])}}

(* add_depends_on: a resource that is to wait gets a list of its own.      *)
AddDependsOn(c, id, r) ==
  IF Waiting(c, id) = {} THEN r
    ELSE [r EXCEPT !.dependsOn = @ \cup Waiting(c, id), !.shared = FALSE]

(* replace_depends_on_logical_id takes the connector out of the list and   *)
(* gives its holder a list of its own with the replacement.  Of those that *)
(* share the list that is the first; the others no longer find it there.   *)
FirstToShare(id, r) ==
  r.shared => \A other \in DOMAIN template :
    other[1] = id[1] /\ other[2] > 0 /\ template[other].shared => other[2] >= id[2]
ReplaceDependsOn_Never(c, id, r) == r
ReplaceDependsOn(c, id, r) ==
  IF Name(c) \notin r.dependsOn THEN r
  ELSE IF FirstToShare(id, r)
  THEN [r EXCEPT !.dependsOn = (@ \ {Name(c)}) \cup DOMAIN Generated(c), !.shared = FALSE]
  ELSE [r EXCEPT !.dependsOn = @ \ {Name(c)}]

TranslateConnector(c) ==
  /\ todo # <<>> /\ c = Head(todo)
  /\ ~Refused(c)
  /\ todo' = Tail(todo)
  /\ template' = [id \in (DOMAIN template \ {Name(c)}) \cup DOMAIN Generated(c) |->
       IF id \in DOMAIN Generated(c) THEN Generated(c)[id]
         ELSE ReplaceDependsOn(c, id, AddDependsOn(c, id, template[id]))]
  /\ UNCHANGED <<given, failed>>

(* An error is collected; what was changed by then is never returned.      *)
RefuseConnector(c) ==
  /\ todo # <<>> /\ c = Head(todo)
  /\ Refused(c)
  /\ todo' = Tail(todo)
  /\ failed' = failed \cup {c}
  /\ UNCHANGED <<given, template>>

Next == \E c \in Connectors : TranslateConnector(c) \/ RefuseConnector(c)

Spec == Init /\ [][Next]_vars
-----------------------------------------------------------------------------
Returned == todo = <<>> /\ failed = {}
DependsOn(id) == template[id].dependsOn

TypeOK ==
  /\ \A i \in DOMAIN todo : todo[i] \in Connectors
  /\ failed \subseteq Connectors
  /\ \A id \in DOMAIN template :
       /\ template[id].type \in Types \cup {"connector", "policy", "permission", "queuePolicy", "topicPolicy"}
       /\ template[id].shared => id[1] \in Connectors

Becomes(d) == IF d \in Connectors THEN {Made(d, i) : i \in Destinations(d)} ELSE {Name(d)}
AllOf(ds) == UNION {Becomes(d) : d \in ds}

(* Connectors that depend on connectors do not always come out well: they  *)
(* do when they are translated before them and are for one destination.    *)
Early(t) ==
  \A a, b \in Connectors : a \in t.connectors[b].dependsOn =>
    /\ \E i, j \in DOMAIN t.order : i < j /\ t.order[i] = b /\ t.order[j] = a
    /\ Len(t.connectors[b].destinations) <= 1

(* 'For every resource's DependsOn, replace logical_id by replacement':    *)
(* what the author wrote a resource or a connector depends on, it or what  *)
(* became of it depends on, and on nothing that is not in the template.    *)
OrderKept ==
  Returned =>
    /\ \A p \in Plain : AllOf(given.dependsOn[p]) \subseteq DependsOn(Name(p))
    /\ \A c \in Connectors : \A id \in Becomes(c) :
         AllOf(given.connectors[c].dependsOn) \subseteq DependsOn(id)
    /\ \A id \in DOMAIN template : DependsOn(id) \subseteq DOMAIN template

(* The function may read from the source when the mapping is made, and a   *)
(* state machine may start another before it is made; the policies of      *)
(* other connectors are no reason to wait.                                 *)
WaitForPolicies ==
  Returned =>
    \A c \in Connectors : \A i \in Destinations(c) :
      LET k == given.connectors[c]
          d == k.destinations[i] IN
      \A id \in Names(Plain) :
        Made(c, i) \in DependsOn(id) <=>
          \/ /\ DependedBy(TypeOf[k.source], TypeOf[d]) = "mapping"
             /\ {k.source, d} \subseteq Plain
             /\ Mappings(k.source, d) = {id}
          \/ DependedBy(TypeOf[k.source], TypeOf[d]) = "source" /\ id = Name(k.source)
          \/ c \in given.dependsOn[id[1]]

(* Of any nodes that need others, one needs none of them.                  *)
Acyclic(nodes, edges) ==
  LET needing == {x \in nodes : \E y \in nodes : <<x, y>> \in edges}
  IN \A some \in SUBSET needing \ {{}} : \E x \in some : \A y \in some : <<x, y>> \notin edges

(* The template as written, a connector being what its two ends are joined *)
(* by: it needs them, and those that are to wait for it need it.           *)
Joined(c, e) ==
  \/ e \in given.connectors[c].dependsOn
  \/ \E i \in Destinations(c) :
       Name(e) \in Construct(given.connectors[c].source, given.connectors[c].destinations[i]).refs
ToWait(p, c) ==
  \E i \in Destinations(c) :
    LET s == given.connectors[c].source
        d == given.connectors[c].destinations[i] IN
    CASE DependedBy(TypeOf[s], TypeOf[d]) = "source" -> p = s
      [] DependedBy(TypeOf[s], TypeOf[d]) = "mapping" -> TypeOf[p] = "mapping" /\ {s, d} \subseteq RefsOf[p]
      [] OTHER -> FALSE
WrittenEdges ==
  (UNION {{p} \X (RefsOf[p] \cup given.dependsOn[p] \cup {c \in Connectors : ToWait(p, c)}) : p \in Plain})
    \cup (UNION {{c} \X {e \in Plain \cup Connectors : Joined(c, e)} : c \in Connectors})
Edges == UNION {{x} \X ((template[x].refs \cup DependsOn(x)) \cap DOMAIN template) : x \in DOMAIN template}

(* CloudFormation refuses a template whose resources need one another in a *)
(* circle: connectors bring no circle about that was not asked for.        *)
NoNewCircle ==
  Returned /\ Acyclic(Plain \cup Connectors, WrittenEdges) => Acyclic(DOMAIN template, Edges)
=============================================================================
