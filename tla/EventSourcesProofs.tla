------------------------- MODULE EventSourcesProofs -------------------------
(***************************************************************************)
(* What is proved of the events of functions and state machines.           *)
(*                                                                         *)
(* What an event becomes has ids of its own, so that nothing of it is lost *)
(* when more is put in the template: what the events that were processed   *)
(* add is there (AddsThere), it refers to what is there (RefsThere), and   *)
(* what they changed in buckets, pools, APIs and roles tells what is there *)
(* (BucketsTell, PoolsTell, RoutesTell, RolesTell).                        *)
(***************************************************************************)
EXTENDS EventSources, TLAPS

(* What an event adds, but for the permissions of user pools, which events *)
(* share, and for those of routes, which they may do without.              *)
Adds(o, i) ==
  LET e == EventOf(o, i) IN
  CASE e.kind \in SnsKinds -> SnsResources(o, i)
    [] e.kind \in PullKinds -> {Resource(o, Id(o, i), "mapping", e.source, {Target(o)})}
    [] e.kind = "S3" -> {Permission(o, i, e.source)}
    [] e.kind \in RuleKinds \cup PlainKinds \cup {"ScheduleV2", "Api"} -> Resources(o, i)
    [] OTHER -> {}

(* Events of owners that are through, and of the current one so far.       *)
Numbers(o) == DOMAIN given.owners[o].events
Processed(o, i) == o \in Owners \ todo /\ i \in Numbers(o) /\ ~(o \in current /\ i \in left)

(* Where what an owner's events add is found.                              *)
There(o) == IF o \in current THEN made ELSE resources

Shape ==
  /\ given \in Templates
  /\ todo \subseteq Owners
  /\ \/ current = {} /\ left = {}
     \/ \E o \in Owners \ todo : current = {o} /\ left \subseteq Numbers(o)
  /\ buckets = [s \in Sources |-> [notifications |-> buckets[s].notifications,
                                   dependsOn |-> buckets[s].dependsOn, tags |-> buckets[s].tags]]
  /\ pools = [s \in Sources |-> [t \in DOMAIN pools[s] |-> pools[s][t]]]
  /\ roles = [f \in Functions |-> [managed |-> roles[f].managed, policies |-> roles[f].policies]]

(* Ids tell the owner and the event; what is being made is the current     *)
(* owner's, of the events that were processed.                             *)
Belongs(r, o) == r.id[1] = o /\ r.condition = ConditionOf(o)
IdsTell ==
  /\ \A r \in resources : \E o \in Owners \ (todo \cup current) : Belongs(r, o)
  /\ \A o \in current : \A r \in made : Belongs(r, o) /\ r.id[2] \notin left

(* An owner's resources refer to it, and to one another.                   *)
Closed(S) == \A r \in S : r.refs \subseteq {Target(r.id[1])} \cup {q.id : q \in {p \in S : p.id[1] = r.id[1]}}
RefsThere == Closed(resources) /\ (current # {} => Closed(made))

AddsThere == \A o \in Owners : \A i \in Numbers(o) : Processed(o, i) => Adds(o, i) \subseteq There(o)

(* The permission a bucket waits for, and the notification it has, of an   *)
(* event that was processed.                                               *)
WaitsFor(s, x, c) ==
  \E o \in Functions : \E i \in Numbers(o) :
    /\ Processed(o, i) /\ EventOf(o, i).kind = "S3" /\ EventOf(o, i).source = s
    /\ x = IdWith(o, i, "Permission") /\ c = ConditionOf(o)
FromEvent(s, n) ==
  \E o \in Functions : \E i \in Numbers(o) :
    /\ Processed(o, i) /\ EventOf(o, i).kind = "S3" /\ EventOf(o, i).source = s
    /\ n = Notification(o, EventOf(o, i))
BucketTells(s, b) ==
  /\ \A x \in b.dependsOn : WaitsFor(s, x, NoCondition)
  /\ \A t \in b.tags : WaitsFor(s, t.id, t.condition)
  /\ \A n \in b.notifications : FromEvent(s, n)
BucketsTell == \A s \in Sources : BucketTells(s, buckets[s])
Notified(o, i, s) ==
  /\ Notification(o, EventOf(o, i)) \in buckets[s].notifications
  /\ IF ConditionOf(o) = NoCondition
       THEN IdWith(o, i, "Permission") \in buckets[s].dependsOn
       ELSE [id |-> IdWith(o, i, "Permission"), condition |-> ConditionOf(o)] \in buckets[s].tags
BucketsTold ==
  \A o \in Owners : \A i \in Numbers(o) :
    Processed(o, i) /\ EventOf(o, i).kind = "S3" => Notified(o, i, EventOf(o, i).source)

(* A trigger is a function's with an event of a pool, and one of an event  *)
(* has its permission unless the function has two pools.                   *)
TriggerOfOne(target) ==
  \E o \in Functions : target = Target(o) /\ \E e \in EventsOf(given.owners[o]) : e.kind = "Cognito"
TriggerTold(o, e) ==
  /\ e.detail \in DOMAIN pools[e.source] /\ pools[e.source][e.detail] = Target(o)
  /\ ~TwoPools(given.owners[o]) => CognitoPermission(o, e) \in There(o)
PoolsTell ==
  /\ \A s \in Sources : \A t \in DOMAIN pools[s] : TriggerOfOne(pools[s][t])
  /\ \A o \in Owners : \A i \in Numbers(o) :
       Processed(o, i) /\ EventOf(o, i).kind = "Cognito" => TriggerTold(o, EventOf(o, i))

(* Routes are those of events, and the $default route of a function has    *)
(* its permission, which serves other routes too.                          *)
RoutePermitted(o, api, paths) ==
  \E path \in paths : \E j \in Numbers(o) : Permission(o, j, <<api, path>>) \in There(o)
RouteOfOne(r) ==
  \E o \in Functions : \E i \in Numbers(o) :
    Processed(o, i) /\ EventOf(o, i).kind = "HttpApi" /\ r = Route(o, EventOf(o, i))
RouteTold(o, e) ==
  /\ RoutePermitted(o, e.source, {e.detail, DefaultPath})
  /\ ~OwnPathTwice(given) => \E r \in routes : r.api = e.source /\ r.path = e.detail /\ r.function = o
RoutesTell ==
  /\ \A r \in routes : RouteOfOne(r) /\ (r.path = DefaultPath => RoutePermitted(r.function, r.api, {DefaultPath}))
  /\ \A o \in Owners : \A i \in Numbers(o) :
       Processed(o, i) /\ EventOf(o, i).kind = "HttpApi" => RouteTold(o, EventOf(o, i))

(* Policies of a role are those of events, and hold what they need.        *)
PolicyOf(f, i, p) ==
  \/ EventOf(f, i).kind \in PullKinds \cup SnsKinds /\ Statements(EventOf(f, i)) # {}
     /\ p = [name |-> PolicyName(f, i), grants |-> Statements(EventOf(f, i))]
  \/ p = [name |-> IdWith(f, i, "SendPolicy"), grants |-> SendsTo(EventOf(f, i))]
Grants(f) == UNION {p.grants : p \in roles[f].policies}
RolesTell ==
  \A f \in Functions :
    /\ \A p \in roles[f].policies : \E i \in Numbers(f) : PolicyOf(f, i, p)
    /\ \A i \in Numbers(f) :
         LET e == EventOf(f, i) IN
         Processed(f, i) /\ given.owners[f].role /\ e.kind \in PullKinds \cup SnsKinds =>
           /\ Managed(e.kind) \subseteq roles[f].managed
           /\ Statements(e) \cup SendsTo(e) \subseteq Grants(f)

Tell == AddsThere /\ IdsTell /\ RefsThere /\ BucketsTell /\ BucketsTold /\ PoolsTell /\ RoutesTell /\ RolesTell
IInv == Shape /\ (failed = {} => Tell)

-----------------------------------------------------------------------------
(* Templates.                                                              *)

(* The parts of the template: owners of the events, kinds, and numbers     *)
(* that count from 1.                                                      *)
LEMMA TemplateParts ==
  ASSUME given \in Templates, NEW o \in Owners
  PROVE  /\ given.owners[o] \in Owner
         /\ Numbers(o) \subseteq Nat \ {0}
         /\ \A i \in Numbers(o) :
              /\ EventOf(o, i) \in Event
              /\ EventOf(o, i).kind \in IF o \in Functions THEN FunctionKinds ELSE MachineKinds
              /\ EventOf(o, i).kind \in {"S3", "Cognito", "HttpApi"} => EventOf(o, i).source \in Sources
<1>1. given \in Template
  BY EventsAssumption
<1>2. given.owners[o] \in Owner
  BY <1>1 DEF Template
<1>3. given.owners[o].events \in Seq(Event)
  BY <1>2 DEF Owner
<1>4. Numbers(o) \subseteq Nat \ {0} /\ \A i \in Numbers(o) : EventOf(o, i) \in Event
  BY <1>3 DEF Numbers, EventOf
<1>5. \A i \in Numbers(o) :
        /\ EventOf(o, i).kind \in IF o \in Functions THEN FunctionKinds ELSE MachineKinds
        /\ EventOf(o, i).kind \in {"S3", "Cognito", "HttpApi"} => EventOf(o, i).source \in Sources
  BY EventsAssumption DEF Numbers, EventOf
<1> QED BY <1>2, <1>4, <1>5

(* A kind is handled in one way.                                           *)
LEMMA KindsApart ==
  /\ FunctionKinds \cup MachineKinds =
       SnsKinds \cup PullKinds \cup {"S3", "Cognito", "HttpApi"}
         \cup (RuleKinds \cup PlainKinds \cup {"ScheduleV2", "Api"})
  /\ SnsKinds \cap PullKinds = {}
  /\ (SnsKinds \cup PullKinds) \cap {"S3", "Cognito", "HttpApi"} = {}
  /\ (SnsKinds \cup PullKinds \cup {"S3", "Cognito", "HttpApi"})
       \cap (RuleKinds \cup PlainKinds \cup {"ScheduleV2", "Api"}) = {}
  /\ (SnsKinds \cup PullKinds \cup {"S3", "Cognito", "HttpApi"}) \cap MachineKinds = {}
  /\ "ScheduleV2" \notin RuleKinds \cup PlainKinds /\ RuleKinds \cap PlainKinds = {}
  /\ "Api" \notin RuleKinds \cup PlainKinds
BY DEF FunctionKinds, MachineKinds, SnsKinds, PullKinds, RuleKinds, PlainKinds

(* Events that are linked, that send or that are mapped are functions'.    *)
LEMMA FunctionEvents ==
  ASSUME given \in Templates, NEW o \in Owners, NEW i \in Numbers(o),
         EventOf(o, i).kind \in SnsKinds \cup PullKinds \cup {"S3", "Cognito", "HttpApi"}
  PROVE  o \in Functions
BY TemplateParts, KindsApart DEF Owners

(* Nothing that is told of an event changes while the template does not.   *)
LEMMA SameGiven ==
  ASSUME given' = given
  PROVE  /\ \A o : Numbers(o)' = Numbers(o) /\ ConditionOf(o)' = ConditionOf(o) /\ Target(o)' = Target(o)
         /\ \A o, i : EventOf(o, i)' = EventOf(o, i) /\ QueueIds(o, i)' = QueueIds(o, i)
         /\ \A e : QueueType(e)' = QueueType(e)
         /\ \A o, id, type, source, refs :
              Resource(o, id, type, source, refs)' = Resource(o, id, type, source, refs)
<1>1. /\ \A o : Numbers(o)' = Numbers(o) /\ ConditionOf(o)' = ConditionOf(o) /\ Target(o)' = Target(o)
      /\ \A o, i : EventOf(o, i)' = EventOf(o, i)
      /\ \A e : QueueType(e)' = QueueType(e)
  BY DEF Numbers, ConditionOf, Target, EventOf, QueueType
<1>2. \A o, i : QueueIds(o, i)' = QueueIds(o, i)
  BY <1>1 DEF QueueIds
<1>3. \A o, id, type, source, refs :
        Resource(o, id, type, source, refs)' = Resource(o, id, type, source, refs)
  BY <1>1 DEF Resource
<1> QED BY <1>1, <1>2, <1>3

(* Nor does what it adds.                                                  *)
LEMMA SameAdds ==
  ASSUME given' = given
  PROVE  /\ \A o, i : Adds(o, i)' = Adds(o, i)
         /\ \A o, i, source : Permission(o, i, source)' = Permission(o, i, source)
         /\ \A o, e : /\ CognitoPermission(o, e)' = CognitoPermission(o, e)
                      /\ Notification(o, e)' = Notification(o, e)
                      /\ Route(o, e)' = Route(o, e)
         /\ \A f, i, p : PolicyOf(f, i, p)' <=> PolicyOf(f, i, p)
<1>1. /\ \A o, i, source : Permission(o, i, source)' = Permission(o, i, source)
      /\ \A o, e : CognitoPermission(o, e)' = CognitoPermission(o, e)
  BY SameGiven DEF Permission, CognitoPermission, Resource
<1>2. \A o, e : Notification(o, e)' = Notification(o, e) /\ Route(o, e)' = Route(o, e)
  BY SameGiven DEF Notification, Route
<1>3. \A o, i : PolicyName(o, i)' = PolicyName(o, i)
  BY SameGiven DEF PolicyName
<1>4. \A f, i, p : PolicyOf(f, i, p)' <=> PolicyOf(f, i, p)
  BY <1>3, SameGiven DEF PolicyOf
<1>5. \A o, i : Queues(o, i)' = Queues(o, i) /\ DeadLetter(o, i)' = DeadLetter(o, i)
  BY SameGiven DEF Queues, DeadLetter, Resource
<1>6. \A o, i : MachineRole(o, i)' = MachineRole(o, i) /\ SchedulerResources(o, i)' = SchedulerResources(o, i)
  BY <1>5, SameGiven DEF MachineRole, SchedulerResources, Resource
<1>7. \A o, i : FunctionRule(o, i)' = FunctionRule(o, i)
  <2> SUFFICES ASSUME NEW o, NEW i PROVE FunctionRule(o, i)' = FunctionRule(o, i)
    OBVIOUS
  <2>1. Permission(o, i, Id(o, i))' = Permission(o, i, Id(o, i))
    BY <1>1
  <2>2. Resource(o, Id(o, i), "rule", NoSource, {Target(o)} \cup QueueIds(o, i))'
          = Resource(o, Id(o, i), "rule", NoSource, {Target(o)} \cup QueueIds(o, i))
    BY SameGiven DEF Resource
  <2> QED BY <1>5, <2>1, <2>2 DEF FunctionRule
<1>8. \A o, i : PlainResources(o, i)' = PlainResources(o, i)
  <2> SUFFICES ASSUME NEW o, NEW i PROVE PlainResources(o, i)' = PlainResources(o, i)
    OBVIOUS
  <2> DEFINE permission == Permission(o, i, IF EventOf(o, i).kind = "IoTRule" THEN Id(o, i) ELSE EventOf(o, i).source)
             rule == Resource(o, Id(o, i), "topicRule", NoSource, {Target(o)})
             filter == Resource(o, Id(o, i), "filter", EventOf(o, i).source, {Target(o), permission.id})
             AsKind == CASE EventOf(o, i).kind = "IoTRule" -> {permission, rule}
                         [] EventOf(o, i).kind = "CloudWatchLogs" -> {permission, filter}
                         [] OTHER -> {permission}
  <2>1. permission' = permission
    BY SameGiven DEF Permission, Resource
  <2>2. rule' = rule /\ filter' = filter
    BY <2>1, SameGiven DEF Resource
  <2>3. PlainResources(o, i) = AsKind
    BY DEF PlainResources
  <2>4. PlainResources(o, i)' = AsKind'
    BY DEF PlainResources
  <2>5. AsKind' = AsKind
    <3> HIDE DEF permission, rule, filter
    <3> QED BY <2>1, <2>2, SameGiven
  <2> QED BY <2>3, <2>4, <2>5
<1>9. \A o, i, role : MachineRule(o, i, role)' = MachineRule(o, i, role)
  BY <1>5, SameGiven DEF MachineRule, Resource
<1>10. \A o, i : Resources(o, i)' = Resources(o, i)
  <2> SUFFICES ASSUME NEW o, NEW i PROVE Resources(o, i)' = Resources(o, i)
    OBVIOUS
  <2>1. (IF Has(EventOf(o, i), "ownRole") THEN {} ELSE {MachineRole(o, i)})'
          = IF Has(EventOf(o, i), "ownRole") THEN {} ELSE {MachineRole(o, i)}
    BY <1>6, SameGiven
  <2>2. ScheduleOfMachine(o, i)' = ScheduleOfMachine(o, i)
    BY <1>5, <2>1, SameGiven DEF ScheduleOfMachine, MachineRule, Resource
  <2>3. EventBridgeRuleOfMachine(o, i)' = EventBridgeRuleOfMachine(o, i)
    BY <1>5, <1>6, SameGiven DEF EventBridgeRuleOfMachine, MachineRule, Resource
  <2>4. ScheduleOfFunction(o, i)' = ScheduleOfFunction(o, i)
        /\ EventBridgeRuleOfFunction(o, i)' = EventBridgeRuleOfFunction(o, i)
    BY <1>7 DEF ScheduleOfFunction, EventBridgeRuleOfFunction
  <2> QED BY <1>6, <1>8, <2>2, <2>3, <2>4, SameGiven DEF Resources
<1>11. \A o, i : QueueOf(o, i)' = QueueOf(o, i)
  BY SameGiven DEF QueueOf, Resource
<1>12. \A o, i : SnsResources(o, i)' = SnsResources(o, i)
  <2> SUFFICES ASSUME NEW o, NEW i PROVE SnsResources(o, i)' = SnsResources(o, i)
    OBVIOUS
  <2>1. \A source : Permission(o, i, source)' = Permission(o, i, source)
    BY <1>1
  <2>2. \A ids : Subscription(o, i, ids)' = Subscription(o, i, ids)
    BY SameGiven DEF Subscription, Resource
  <2>3. {q.id : q \in QueueOf(o, i)}' = {q.id : q \in QueueOf(o, i)}
    BY <1>11
  <2>4. Subscription(o, i, {q.id : q \in QueueOf(o, i)})' = Subscription(o, i, {q.id : q \in QueueOf(o, i)})
    BY <2>3, SameGiven DEF Subscription, Resource
  <2>5. Subscription(o, i, {Target(o)})' = Subscription(o, i, {Target(o)})
    BY SameGiven DEF Subscription, Resource
  <2> QED BY <1>11, <2>1, <2>3, <2>4, <2>5, SameGiven DEF SnsResources, Resource
<1>13. \A o, i : Adds(o, i)' = Adds(o, i)
  BY <1>1, <1>10, <1>12, SameGiven DEF Adds, Resource, Permission
<1> QED BY <1>1, <1>2, <1>4, <1>13

-----------------------------------------------------------------------------
(* What an event adds is its own.                                          *)

(* What is made of event i of o, or with i = 0 of o itself, whole: its ids *)
(* are the owner's and the event's, and it refers to itself and the owner. *)
Own(o, i, S) ==
  \A r \in S : /\ Belongs(r, o) /\ r.id[2] = i
               /\ r.refs \subseteq {Target(o)} \cup {q.id : q \in S}

(* What a resource tells.                                                  *)
LEMMA ResourceFields ==
  ASSUME NEW o, NEW id, NEW type, NEW source, NEW refs
  PROVE  LET r == Resource(o, id, type, source, refs) IN
         /\ r.id = id /\ r.type = type /\ r.source = source /\ r.refs = refs
         /\ r.condition = ConditionOf(o)
BY DEF Resource

(* Ids tell owner, event and suffix.                                       *)
LEMMA IdFields ==
  ASSUME NEW o, NEW i, NEW suffix
  PROVE  /\ IdWith(o, i, suffix)[1] = o /\ IdWith(o, i, suffix)[2] = i /\ IdWith(o, i, suffix)[3] = suffix
         /\ Id(o, i) = IdWith(o, i, "")
BY DEF Id, IdWith

(* Equal ids with a suffix are of the same event and suffix.               *)
LEMMA IdsEqual ==
  ASSUME NEW o, NEW i, NEW s, NEW p, NEW j, NEW t, IdWith(o, i, s) = IdWith(p, j, t)
  PROVE  o = p /\ i = j /\ s = t
BY DEF IdWith

(* A resource with an id of the event is its own.                          *)
LEMMA EventResource ==
  ASSUME NEW o, NEW i, NEW suffix, NEW type, NEW source, NEW refs
  PROVE  LET r == Resource(o, IdWith(o, i, suffix), type, source, refs) IN
         /\ r.id = IdWith(o, i, suffix) /\ r.refs = refs
         /\ Belongs(r, o) /\ r.id[2] = i
<1> DEFINE r == Resource(o, IdWith(o, i, suffix), type, source, refs)
<1>1. r.id = IdWith(o, i, suffix) /\ r.refs = refs /\ r.condition = ConditionOf(o)
  BY ResourceFields
<1>2. IdWith(o, i, suffix)[1] = o /\ IdWith(o, i, suffix)[2] = i
  BY DEF IdWith
<1> QED BY <1>1, <1>2 DEF Belongs

(* Whole sets together are whole.                                          *)
LEMMA OwnTogether ==
  ASSUME NEW o, NEW i, NEW S, NEW T, Own(o, i, S), Own(o, i, T)
  PROVE  Own(o, i, S \cup T)
BY DEF Own

(* A resource that refers to the owner and to what is whole joins it.      *)
LEMMA OwnJoins ==
  ASSUME NEW o, NEW i, NEW S, Own(o, i, S), NEW suffix, NEW type, NEW source, NEW refs,
         refs \subseteq {Target(o), IdWith(o, i, suffix)} \cup {q.id : q \in S}
  PROVE  Own(o, i, S \cup {Resource(o, IdWith(o, i, suffix), type, source, refs)})
<1> DEFINE r == Resource(o, IdWith(o, i, suffix), type, source, refs)
<1>1. r.id = IdWith(o, i, suffix) /\ r.refs = refs /\ Belongs(r, o) /\ r.id[2] = i
  BY EventResource
<1>2. {q.id : q \in S \cup {r}} = {q.id : q \in S} \cup {r.id}
  OBVIOUS
<1> HIDE DEF r
<1> QED BY <1>1, <1>2 DEF Own, r

(* Nothing at all is whole.                                                *)
LEMMA OwnNothing == \A o, i : Own(o, i, {})
BY DEF Own

(* A permission is whole.                                                  *)
LEMMA OwnPermission ==
  ASSUME NEW o, NEW i, NEW source
  PROVE  Own(o, i, {Permission(o, i, source)})
BY OwnNothing, OwnJoins DEF Permission

(* The queue of an event, and with its policy and the rule.                *)
LEMMA OwnQueues ==
  ASSUME NEW o, NEW i
  PROVE  /\ Own(o, i, Queues(o, i))
         /\ QueueIds(o, i) = {q.id : q \in Queues(o, i)}
         /\ QueueIds(o, i) \subseteq {IdWith(o, i, "Queue")}
<1>1. QueueIds(o, i) \subseteq {IdWith(o, i, "Queue")}
  BY DEF QueueIds
<1>2. \A q \in Queues(o, i) : q = Resource(o, IdWith(o, i, "Queue"), "queue", NoSource, {})
  BY <1>1 DEF Queues
<1>3. \A id \in QueueIds(o, i) : Resource(o, id, "queue", NoSource, {}).id = id
  BY ResourceFields
<1>4. QueueIds(o, i) = {q.id : q \in Queues(o, i)}
  BY <1>3 DEF Queues
<1> QED BY <1>1, <1>2, <1>4, EventResource DEF Own

(* A dead-letter queue with its policy, but for the rule that it names.    *)
LEMMA OwnDeadLetter ==
  ASSUME NEW o, NEW i, NEW S, Own(o, i, S), IdWith(o, i, "") \in {q.id : q \in S},
         Queues(o, i) \subseteq S
  PROVE  Own(o, i, S \cup DeadLetter(o, i))
<1>1. CASE QueueIds(o, i) = {}
  BY <1>1, OwnQueues DEF DeadLetter, Queues
<1>2. CASE QueueIds(o, i) # {}
  <2> DEFINE policy == Resource(o, IdWith(o, i, "QueuePolicy"), "queuePolicy", Id(o, i),
                                {IdWith(o, i, "Queue"), Id(o, i)})
  <2>1. QueueIds(o, i) = {IdWith(o, i, "Queue")}
    BY <1>2, OwnQueues
  <2>2. DeadLetter(o, i) = Queues(o, i) \cup {policy}
    BY <2>1 DEF DeadLetter
  <2>3. {IdWith(o, i, "Queue"), Id(o, i)} \subseteq {q.id : q \in S}
    <3>1. IdWith(o, i, "Queue") \in {q.id : q \in Queues(o, i)}
      BY <2>1, OwnQueues
    <3>2. Id(o, i) = IdWith(o, i, "")
      BY IdFields
    <3> QED BY <3>1, <3>2
  <2>4. Own(o, i, S \cup {policy})
    BY <2>3, OwnJoins
  <2>5. S \cup DeadLetter(o, i) = S \cup {policy}
    BY <2>2
  <2> QED BY <2>4, <2>5
<1> QED BY <1>1, <1>2

(* A rule of a function, the permission and the queue.                     *)
LEMMA OwnFunctionRule ==
  ASSUME NEW o, NEW i
  PROVE  Own(o, i, FunctionRule(o, i))
<1> DEFINE rule == Resource(o, Id(o, i), "rule", NoSource, {Target(o)} \cup QueueIds(o, i))
           S == (Queues(o, i) \cup {rule}) \cup {Permission(o, i, Id(o, i))}
<1>1. rule = Resource(o, IdWith(o, i, ""), "rule", NoSource, {Target(o)} \cup QueueIds(o, i))
  BY IdFields
<1>2. Own(o, i, Queues(o, i) \cup {rule})
  <2>1. {Target(o)} \cup QueueIds(o, i)
          \subseteq {Target(o), IdWith(o, i, "")} \cup {q.id : q \in Queues(o, i)}
    BY OwnQueues
  <2>2. Own(o, i, Queues(o, i) \cup
          {Resource(o, IdWith(o, i, ""), "rule", NoSource, {Target(o)} \cup QueueIds(o, i))})
    BY <2>1, OwnQueues, OwnJoins
  <2> QED BY <1>1, <2>2
<1>3. Own(o, i, S)
  BY <1>2, OwnPermission, OwnTogether
<1>4. IdWith(o, i, "") \in {q.id : q \in S}
  <2>1. rule \in S
    OBVIOUS
  <2>2. rule.id = IdWith(o, i, "")
    BY IdFields DEF Resource
  <2> HIDE DEF rule, S
  <2> QED BY <2>1, <2>2
<1>5. Own(o, i, S \cup DeadLetter(o, i))
  BY <1>3, <1>4, OwnDeadLetter
<1>6. FunctionRule(o, i) = S \cup DeadLetter(o, i)
  BY DEF FunctionRule, DeadLetter
<1> QED BY <1>5, <1>6

(* A rule of a state machine, its role and the queue.                      *)
LEMMA OwnMachineRule ==
  ASSUME NEW o, NEW i, NEW role, role \in {{}, {MachineRole(o, i)}}
  PROVE  Own(o, i, MachineRule(o, i, role))
<1> DEFINE rule == Resource(o, Id(o, i), "rule", NoSource, {Target(o)} \cup QueueIds(o, i) \cup {r.id : r \in role})
           S == (Queues(o, i) \cup role) \cup {rule}
<1>1. rule = Resource(o, IdWith(o, i, ""), "rule", NoSource,
                      {Target(o)} \cup QueueIds(o, i) \cup {r.id : r \in role})
  BY IdFields
<1>2. Own(o, i, {MachineRole(o, i)})
  BY OwnNothing, OwnJoins DEF MachineRole
<1>3. Own(o, i, Queues(o, i) \cup role)
  BY <1>2, OwnNothing, OwnQueues, OwnTogether
<1>4. Own(o, i, S)
  <2>1. {Target(o)} \cup QueueIds(o, i) \cup {r.id : r \in role}
          \subseteq {Target(o), IdWith(o, i, "")} \cup {q.id : q \in Queues(o, i) \cup role}
    <3>1. QueueIds(o, i) = {q.id : q \in Queues(o, i)}
      BY OwnQueues
    <3>2. {q.id : q \in Queues(o, i) \cup role} = {q.id : q \in Queues(o, i)} \cup {q.id : q \in role}
      OBVIOUS
    <3> QED BY <3>1, <3>2
  <2> QED BY <1>1, <1>3, <2>1, OwnJoins
<1>5. IdWith(o, i, "") \in {q.id : q \in S}
  <2>1. rule \in S
    OBVIOUS
  <2>2. rule.id = IdWith(o, i, "")
    BY IdFields DEF Resource
  <2> HIDE DEF rule, S
  <2> QED BY <2>1, <2>2
<1>6. Own(o, i, S \cup DeadLetter(o, i))
  BY <1>4, <1>5, OwnDeadLetter
<1>7. MachineRule(o, i, role) = S \cup DeadLetter(o, i)
  BY DEF MachineRule, DeadLetter
<1> QED BY <1>6, <1>7

(* A schedule, its role and the queue.                                     *)
LEMMA OwnSchedule ==
  ASSUME NEW o, NEW i
  PROVE  Own(o, i, SchedulerResources(o, i))
<1> DEFINE role == Resource(o, IdWith(o, i, "Role"), "role", Id(o, i), {Target(o)} \cup QueueIds(o, i))
           own == IF Has(EventOf(o, i), "ownRole") THEN {} ELSE {role}
           refs == {Target(o)} \cup QueueIds(o, i) \cup {r.id : r \in own}
           S == Queues(o, i) \cup own
<1>1. Own(o, i, Queues(o, i) \cup {role})
  <2>1. {Target(o)} \cup QueueIds(o, i)
          \subseteq {Target(o), IdWith(o, i, "Role")} \cup {q.id : q \in Queues(o, i)}
    BY OwnQueues
  <2> QED BY <2>1, OwnQueues, OwnJoins
<1>2. Own(o, i, S)
  <2>1. S = Queues(o, i) \/ S = Queues(o, i) \cup {role}
    OBVIOUS
  <2> HIDE DEF S, role
  <2> QED BY <1>1, <2>1, OwnQueues
<1>3. refs \subseteq {Target(o), IdWith(o, i, "")} \cup {q.id : q \in S}
  <2>1. {q.id : q \in S} = {q.id : q \in Queues(o, i)} \cup {q.id : q \in own}
    <3> HIDE DEF own
    <3> QED OBVIOUS
  <2> HIDE DEF S, own
  <2> QED BY <2>1, OwnQueues
<1>4. Own(o, i, S \cup {Resource(o, IdWith(o, i, ""), "schedule", NoSource, refs)})
  <2> HIDE DEF S, refs
  <2> QED BY <1>2, <1>3, OwnJoins
<1>5. SchedulerResources(o, i) = S \cup {Resource(o, IdWith(o, i, ""), "schedule", NoSource, refs)}
  BY IdFields DEF SchedulerResources
<1> QED BY <1>4, <1>5

(* What the other sources of functions have besides the permission.        *)
LEMMA OwnPlain ==
  ASSUME NEW o, NEW i
  PROVE  Own(o, i, PlainResources(o, i))
<1> DEFINE permission == Permission(o, i, IF EventOf(o, i).kind = "IoTRule" THEN Id(o, i) ELSE EventOf(o, i).source)
           rule == Resource(o, Id(o, i), "topicRule", NoSource, {Target(o)})
           filter == Resource(o, Id(o, i), "filter", EventOf(o, i).source, {Target(o), permission.id})
<1>1. PlainResources(o, i) \in {{permission}, {permission} \cup {rule}, {permission} \cup {filter}}
  BY DEF PlainResources
<1>2. Own(o, i, {permission})
  BY OwnPermission
<1>3. Own(o, i, {permission} \cup {rule})
  <2>1. rule = Resource(o, IdWith(o, i, ""), "topicRule", NoSource, {Target(o)})
    BY IdFields
  <2> HIDE DEF permission, rule
  <2> QED BY <1>2, <2>1, OwnJoins
<1>4. Own(o, i, {permission} \cup {filter})
  <2>1. filter = Resource(o, IdWith(o, i, ""), "filter", EventOf(o, i).source, {Target(o), permission.id})
    BY IdFields
  <2>2. permission.id \in {q.id : q \in {permission}}
    OBVIOUS
  <2> HIDE DEF permission, filter
  <2> QED BY <1>2, <2>1, <2>2, OwnJoins
<1> HIDE DEF permission, rule, filter
<1> QED BY <1>1, <1>2, <1>3, <1>4

(* A subscription, the queue in between, its policy and the mapping.       *)
LEMMA OwnSns ==
  ASSUME NEW o, NEW i
  PROVE  Own(o, i, SnsResources(o, i))
<1> DEFINE e == EventOf(o, i)
           queues == {q.id : q \in QueueOf(o, i)}
           policy == Resource(o, IdWith(o, i, "QueuePolicy"), "queuePolicy", e.source, queues)
           subscription == Resource(o, IdWith(o, i, ""), "subscription", e.source, queues)
           mapping == Resource(o, IdWith(o, i, "EventSourceMapping"), "mapping", NoSource, queues \cup {Target(o)})
<1>1. CASE e.kind = "SNS"
  <2> DEFINE permission == Permission(o, i, e.source)
             direct == Resource(o, IdWith(o, i, ""), "subscription", e.source, {Target(o)})
  <2>1. SnsResources(o, i) = {permission} \cup {direct}
    BY <1>1, IdFields DEF SnsResources, Subscription
  <2>2. Own(o, i, {permission})
    BY OwnPermission
  <2>3. Own(o, i, {permission} \cup {direct})
    <3> HIDE DEF permission
    <3> QED BY <2>2, OwnJoins
  <2> QED BY <2>1, <2>3
<1>2. CASE e.kind # "SNS"
  <2>1. Own(o, i, QueueOf(o, i))
    <3>1. QueueOf(o, i) \in {{}, {} \cup {Resource(o, IdWith(o, i, "Queue"), QueueType(e), NoSource, {})}}
      BY DEF QueueOf
    <3>2. Own(o, i, {} \cup {Resource(o, IdWith(o, i, "Queue"), QueueType(e), NoSource, {})})
      BY OwnNothing, OwnJoins
    <3> QED BY <3>1, <3>2, OwnNothing
  <2> HIDE DEF e
  <2>2. Own(o, i, QueueOf(o, i) \cup {policy})
    BY <2>1, OwnJoins
  <2>3. Own(o, i, QueueOf(o, i) \cup {subscription})
    BY <2>1, OwnJoins
  <2>4. Own(o, i, QueueOf(o, i) \cup {mapping})
    BY <2>1, OwnJoins
  <2>5. SnsResources(o, i) = QueueOf(o, i) \cup {policy, subscription, mapping}
    <3>1. Subscription(o, i, queues) = subscription
      BY IdFields DEF Subscription, e
    <3> QED BY <1>2, <3>1 DEF SnsResources, e
  <2> HIDE DEF policy, subscription, mapping
  <2>6. Own(o, i, (QueueOf(o, i) \cup {subscription}) \cup (QueueOf(o, i) \cup {mapping}))
    BY <2>3, <2>4, OwnTogether
  <2>7. Own(o, i, (QueueOf(o, i) \cup {policy})
                    \cup ((QueueOf(o, i) \cup {subscription}) \cup (QueueOf(o, i) \cup {mapping})))
    BY <2>2, <2>6, OwnTogether
  <2>8. SnsResources(o, i) = (QueueOf(o, i) \cup {policy})
                    \cup ((QueueOf(o, i) \cup {subscription}) \cup (QueueOf(o, i) \cup {mapping}))
    BY <2>5
  <2> QED BY <2>7, <2>8
<1> QED BY <1>1, <1>2

(* What events add is whole.                                               *)
LEMMA AddsOwn ==
  ASSUME given \in Templates, NEW o \in Owners, NEW i \in Numbers(o)
  PROVE  Own(o, i, Adds(o, i))
<1> DEFINE e == EventOf(o, i)
           mapping == Resource(o, IdWith(o, i, ""), "mapping", e.source, {Target(o)})
<1>1. CASE e.kind \in SnsKinds
  <2>1. Adds(o, i) = SnsResources(o, i)
    BY <1>1, KindsApart DEF Adds
  <2> QED BY <2>1, OwnSns
<1>2. CASE e.kind \in PullKinds
  <2>1. Adds(o, i) = {} \cup {mapping}
    <3>1. Adds(o, i) = {Resource(o, Id(o, i), "mapping", e.source, {Target(o)})}
      BY <1>2, KindsApart DEF Adds
    <3> QED BY <3>1, IdFields
  <2>2. Own(o, i, {} \cup {mapping})
    BY OwnNothing, OwnJoins
  <2> QED BY <2>1, <2>2
<1>3. CASE e.kind = "S3"
  <2>1. Adds(o, i) = {Permission(o, i, e.source)}
    BY <1>3, KindsApart DEF Adds
  <2> QED BY <2>1, OwnPermission
<1>4. CASE e.kind \in RuleKinds \cup PlainKinds \cup {"ScheduleV2", "Api"}
  <2>1. Adds(o, i) = Resources(o, i)
    BY <1>4, KindsApart DEF Adds
  <2>2. Resources(o, i) \in {FunctionRule(o, i), MachineRule(o, i, {}), MachineRule(o, i, {MachineRole(o, i)}),
                             SchedulerResources(o, i), PlainResources(o, i), {MachineRole(o, i)}}
    <3>1. ScheduleOfMachine(o, i) \in {MachineRule(o, i, {}), MachineRule(o, i, {MachineRole(o, i)})}
      BY DEF ScheduleOfMachine
    <3> QED BY <3>1 DEF Resources, ScheduleOfFunction, EventBridgeRuleOfFunction, EventBridgeRuleOfMachine
  <2>3. Own(o, i, MachineRule(o, i, {})) /\ Own(o, i, MachineRule(o, i, {MachineRole(o, i)}))
    BY OwnMachineRule
  <2>4. Own(o, i, {} \cup {MachineRole(o, i)})
    BY OwnNothing, OwnJoins DEF MachineRole
  <2>5. {} \cup {MachineRole(o, i)} = {MachineRole(o, i)}
    OBVIOUS
  <2> QED BY <2>1, <2>2, <2>3, <2>4, <2>5, OwnFunctionRule, OwnSchedule, OwnPlain
<1>5. CASE e.kind \notin SnsKinds \cup PullKinds \cup {"S3"} \cup RuleKinds \cup PlainKinds \cup {"ScheduleV2", "Api"}
  <2>1. Adds(o, i) = {}
    BY <1>5 DEF Adds
  <2> QED BY <2>1, OwnNothing
<1> QED BY <1>1, <1>2, <1>3, <1>4, <1>5

(* So are the permissions of user pools and of routes.                     *)
LEMMA PermissionsOwn ==
  ASSUME NEW o, NEW i, NEW e
  PROVE  /\ Own(o, 0, {CognitoPermission(o, e)})
         /\ Own(o, i, RoutePermissions(o, i))
<1>1. CognitoPermission(o, e) = Resource(o, IdWith(o, 0, "CognitoPermission"), "permission", e.source, {Target(o)})
  BY DEF CognitoPermission, IdWith
<1>2. Own(o, 0, {} \cup {CognitoPermission(o, e)})
  BY <1>1, OwnNothing, OwnJoins
<1>3. RoutePermissions(o, i) \in {{}, {Permission(o, i, <<EventOf(o, i).source, EventOf(o, i).detail>>)}}
  BY DEF RoutePermissions
<1>4. {} \cup {CognitoPermission(o, e)} = {CognitoPermission(o, e)}
  OBVIOUS
<1> QED BY <1>2, <1>3, <1>4, OwnNothing, OwnPermission

-----------------------------------------------------------------------------
(* Steps.                                                                  *)

(* A bucket that is edited is a bucket.                                    *)
LEMMA NotifyParts ==
  ASSUME NEW b, b = [notifications |-> b.notifications, dependsOn |-> b.dependsOn, tags |-> b.tags],
         NEW o, NEW i
  PROVE  Notify(b, o, i) =
           [notifications |-> b.notifications \cup {Notification(o, EventOf(o, i))},
            dependsOn |-> IF ConditionOf(o) = NoCondition
                            THEN b.dependsOn \cup {IdWith(o, i, "Permission")} ELSE b.dependsOn,
            tags |-> IF ConditionOf(o) = NoCondition THEN b.tags
                       ELSE b.tags \cup {[id |-> IdWith(o, i, "Permission"), condition |-> ConditionOf(o)]}]
<1> DEFINE id == IdWith(o, i, "Permission")
           d == DependOn(b, Permission(o, i, EventOf(o, i).source))
<1>1. d = IF ConditionOf(o) = NoCondition
            THEN [notifications |-> b.notifications, dependsOn |-> b.dependsOn \cup {id}, tags |-> b.tags]
            ELSE [notifications |-> b.notifications, dependsOn |-> b.dependsOn,
                  tags |-> b.tags \cup {[id |-> id, condition |-> ConditionOf(o)]}]
  BY DEF DependOn, Permission, Resource
<1>2. Notify(b, o, i) = [d EXCEPT !.notifications = @ \cup {Notification(o, EventOf(o, i))}]
  BY DEF Notify
<1> HIDE DEF id, d
<1>3. CASE ConditionOf(o) = NoCondition
  BY <1>1, <1>2, <1>3 DEF id
<1>4. CASE ConditionOf(o) # NoCondition
  BY <1>1, <1>2, <1>4 DEF id
<1> QED BY <1>3, <1>4

(* What a step does to its role is to link a policy.                       *)
LEMMA LinkRoleParts ==
  ASSUME Shape, NEW o \in Functions, NEW i, LinkRole(o, i)
  PROVE  /\ roles' = [f \in Functions |-> [managed |-> roles'[f].managed, policies |-> roles'[f].policies]]
         /\ \A f \in Functions : f # o \/ ~given.owners[o].role => roles'[f] = roles[f]
         /\ given.owners[o].role =>
              /\ roles'[o].managed = roles[o].managed \cup Managed(EventOf(o, i).kind)
              /\ roles'[o].policies =
                   AddPolicy(AddPolicy(roles[o].policies, PolicyName(o, i), Statements(EventOf(o, i))),
                             IdWith(o, i, "SendPolicy"), SendsTo(EventOf(o, i)))
<1>1. roles = [f \in Functions |-> [managed |-> roles[f].managed, policies |-> roles[f].policies]]
  BY DEF Shape
<1>2. CASE given.owners[o].role
  <2>1. roles' = [roles EXCEPT ![o] = LinkPolicy(@, o, i)]
    BY <1>2 DEF LinkRole
  <2>2. roles' = [f \in Functions |-> IF f = o THEN LinkPolicy(roles[o], o, i) ELSE roles[f]]
    BY <1>1, <2>1
  <2> QED BY <1>1, <1>2, <2>2 DEF LinkPolicy
<1>3. CASE ~given.owners[o].role
  <2>1. roles' = roles
    BY <1>3 DEF LinkRole
  <2> QED BY <1>1, <1>3, <2>1
<1> QED BY <1>2, <1>3

(* The event that is next is one of the current owner, which is through    *)
(* with it once it is produced.                                            *)
LEMMA NextParts ==
  ASSUME Shape, NEW o, NEW i, NextEvent(o, i)
  PROVE  /\ o \in Owners \ todo /\ current = {o} /\ left \subseteq Numbers(o)
         /\ i \in left /\ i \in Numbers(o) /\ i \in Nat \ {0}
<1>1. current = {o} /\ i \in left
  BY DEF NextEvent
<1>2. PICK p \in Owners \ todo : current = {p} /\ left \subseteq Numbers(p)
  BY <1>1 DEF Shape
<1>3. p = o
  BY <1>1, <1>2
<1>4. Numbers(o) \subseteq Nat \ {0}
  BY <1>2, <1>3, TemplateParts DEF Shape
<1> QED BY <1>1, <1>2, <1>3, <1>4

(* The shape is kept.                                                      *)
LEMMA ShapeStep == Shape /\ [Next]_vars => Shape'
<1> SUFFICES ASSUME Shape, [Next]_vars PROVE Shape'
  OBVIOUS
<1> DEFINE Buckets == buckets = [s \in Sources |-> [notifications |-> buckets[s].notifications,
                                   dependsOn |-> buckets[s].dependsOn, tags |-> buckets[s].tags]]
           Pools == pools = [s \in Sources |-> [t \in DOMAIN pools[s] |-> pools[s][t]]]
           Roles == roles = [f \in Functions |-> [managed |-> roles[f].managed, policies |-> roles[f].policies]]
           Current == \/ current = {} /\ left = {}
                      \/ \E o \in Owners \ todo : current = {o} /\ left \subseteq Numbers(o)
<1>a. given \in Templates /\ todo \subseteq Owners /\ Current /\ Buckets /\ Pools /\ Roles
  BY DEF Shape
<1>b. ASSUME given' = given, todo' \subseteq todo, Current', Buckets', Pools', Roles'
      PROVE  Shape'
  BY <1>a, <1>b DEF Shape
<1>s. UNCHANGED buckets => Buckets'
  BY <1>a
<1>p. UNCHANGED pools => Pools'
  BY <1>a
<1>r. UNCHANGED roles => Roles'
  BY <1>a
<1> HIDE DEF Buckets, Pools, Roles
<1>n. ASSUME given' = given PROVE \A o : Numbers(o)' = Numbers(o)
  BY <1>n DEF Numbers
<1>c. ASSUME NEW o, NEW i, NextEvent(o, i), given' = given, todo' = todo, current' = current,
             left' = left \ {i}
      PROVE  Current'
  <2>1. o \in Owners \ todo' /\ current' = {o} /\ left' \subseteq Numbers(o)'
    BY <1>c, <1>n, NextParts
  <2> QED BY <2>1
<1>1. CASE UNCHANGED vars
  <2>1. UNCHANGED <<given, todo, current, left, buckets, pools, roles>>
    BY <1>1 DEF vars, shared
  <2>2. Current'
    BY <1>a, <1>n, <2>1
  <2> QED BY <1>b, <1>s, <1>p, <1>r, <2>1, <2>2
<1>2. ASSUME NEW o \in Owners, Begin(o) PROVE Shape'
  <2>1. /\ UNCHANGED <<given, buckets, pools, roles>> /\ todo' = todo \ {o}
        /\ \/ UNCHANGED <<current, left>>
           \/ current' = {o} /\ left' = DOMAIN given.owners[o].events
        /\ current = {}
    BY <1>2 DEF Begin, shared
  <2>2. Current'
    <3>1. CASE UNCHANGED <<current, left>>
      BY <1>a, <2>1, <3>1
    <3>2. CASE current' = {o} /\ left' = DOMAIN given.owners[o].events
      BY <1>n, <2>1, <3>2 DEF Numbers
    <3> QED BY <2>1, <3>1, <3>2
  <2> QED BY <1>b, <1>s, <1>p, <1>r, <2>1, <2>2
<1>3. ASSUME NEW o \in Owners, Finish(o) PROVE Shape'
  <2>1. UNCHANGED <<given, todo, left, buckets, pools, roles>> /\ current' = {} /\ left = {}
    BY <1>3 DEF Finish, shared
  <2> QED BY <1>b, <1>s, <1>p, <1>r, <2>1
<1>4. ASSUME NEW o, NEW i, RefuseEvent(o, i) PROVE Shape'
  <2>1. UNCHANGED <<given, todo, buckets, pools, roles>> /\ current' = {} /\ left' = {}
    BY <1>4 DEF RefuseEvent, shared
  <2> QED BY <1>b, <1>s, <1>p, <1>r, <2>1
<1>5. ASSUME NEW o, NEW i, AddResources(o, i) PROVE Shape'
  <2>1. NextEvent(o, i) /\ UNCHANGED <<given, todo, current, buckets, pools, roles>> /\ left' = left \ {i}
    BY <1>5 DEF AddResources, Produce, shared
  <2> QED BY <1>b, <1>c, <1>s, <1>p, <1>r, <2>1
<1>6. ASSUME NEW o, NEW i, Subscribe(o, i) \/ Map(o, i) PROVE Shape'
  <2>1. /\ NextEvent(o, i) /\ UNCHANGED <<given, todo, current, buckets, pools>> /\ left' = left \ {i}
        /\ LinkRole(o, i) /\ EventOf(o, i).kind \in SnsKinds \cup PullKinds
    BY <1>6 DEF Subscribe, Map, Produce
  <2>2. o \in Functions
    BY <1>a, <2>1, NextParts, FunctionEvents
  <2>3. Roles'
    BY <2>1, <2>2, LinkRoleParts DEF Roles
  <2> QED BY <1>b, <1>c, <1>s, <1>p, <2>1, <2>3
<1>7. ASSUME NEW o, NEW i, NotifyFromBucket(o, i) PROVE Shape'
  <2> DEFINE e == EventOf(o, i)
             b == buckets[e.source]
  <2>1. /\ NextEvent(o, i) /\ UNCHANGED <<given, todo, current, pools, roles>> /\ left' = left \ {i}
        /\ e.kind = "S3" /\ buckets' = [buckets EXCEPT ![e.source] = Notify(@, o, i)]
    BY <1>7 DEF NotifyFromBucket, Produce
  <2>2. e.source \in Sources
    BY <1>a, <2>1, NextParts, TemplateParts
  <2>3. buckets' = [s \in Sources |-> IF s = e.source THEN Notify(b, o, i) ELSE buckets[s]]
    BY <1>a, <2>1 DEF Buckets
  <2>4. \A s \in Sources : buckets[s] = [notifications |-> buckets[s].notifications,
                                         dependsOn |-> buckets[s].dependsOn, tags |-> buckets[s].tags]
    BY <1>a DEF Buckets
  <2>5. PICK n : n = Notify(b, o, i)
    OBVIOUS
  <2>6. n = [notifications |-> n.notifications, dependsOn |-> n.dependsOn, tags |-> n.tags]
    <3>1. PICK c : c = b
      OBVIOUS
    <3>2. c = [notifications |-> c.notifications, dependsOn |-> c.dependsOn, tags |-> c.tags]
      BY <2>2, <2>4, <3>1
    <3>3. n = Notify(c, o, i)
      BY <2>5, <3>1
    <3> QED BY <3>2, <3>3, NotifyParts
  <2>7. Buckets'
    <3> HIDE DEF e, b
    <3> QED BY <2>3, <2>4, <2>5, <2>6 DEF Buckets
  <2> QED BY <1>b, <1>c, <1>p, <1>r, <2>1, <2>7
<1>8. ASSUME NEW o, NEW i, Trigger(o, i) PROVE Shape'
  <2> DEFINE e == EventOf(o, i)
             g == [t \in DOMAIN pools[e.source] \cup {e.detail} |->
                     IF t = e.detail THEN Target(o) ELSE pools[e.source][t]]
  <2>1. /\ NextEvent(o, i) /\ UNCHANGED <<given, todo, current, buckets, roles>> /\ left' = left \ {i}
        /\ e.kind = "Cognito"
        /\ pools' = [pools EXCEPT ![e.source] = [t \in DOMAIN @ \cup {e.detail} |->
                                                   IF t = e.detail THEN Target(o) ELSE @[t]]]
    BY <1>8 DEF Trigger, Produce
  <2>2. pools' = [s \in Sources |-> IF s = e.source THEN g ELSE pools[s]]
    BY <1>a, <2>1 DEF Pools
  <2>3. \A s \in Sources : pools[s] = [t \in DOMAIN pools[s] |-> pools[s][t]]
    BY <1>a DEF Pools
  <2>4. g = [t \in DOMAIN g |-> g[t]]
    OBVIOUS
  <2>5. Pools'
    <3> HIDE DEF e, g
    <3> QED BY <2>2, <2>3, <2>4 DEF Pools
  <2> QED BY <1>b, <1>c, <1>s, <1>r, <2>1, <2>5
<1>9. ASSUME NEW o, NEW i, AddRoute(o, i) PROVE Shape'
  <2>1. NextEvent(o, i) /\ UNCHANGED <<given, todo, current, buckets, pools, roles>> /\ left' = left \ {i}
    BY <1>9 DEF AddRoute, Produce
  <2> QED BY <1>b, <1>c, <1>s, <1>p, <1>r, <2>1
<1> QED BY <1>1, <1>2, <1>3, <1>4, <1>5, <1>6, <1>7, <1>8, <1>9 DEF Next

(* Put loses no id, and nothing whose id is not among the new ones.        *)
LEMMA PutParts ==
  ASSUME NEW there, NEW new
  PROVE  /\ {r.id : r \in Put(there, new)} = {r.id : r \in there} \cup {r.id : r \in new}
         /\ new \subseteq Put(there, new) /\ Put(there, new) \subseteq there \cup new
         /\ \A r \in there : (\A n \in new : n.id # r.id) => r \in Put(there, new)
BY DEF Put

(* What is put stays whole.                                                *)
LEMMA PutClosed ==
  ASSUME NEW o, NEW k, NEW there, NEW new, Own(o, k, new), Closed(there),
         \A r \in there : r.id[1] = o
  PROVE  Closed(Put(there, new))
<1> DEFINE ids == {Target(o)} \cup {q.id : q \in Put(there, new)}
<1>1. \A r \in Put(there, new) : r.id[1] = o
  BY PutParts DEF Own, Belongs
<1>2. {q.id : q \in {p \in Put(there, new) : p.id[1] = o}} = {q.id : q \in Put(there, new)}
  BY <1>1
<1>3. \A r \in new : r.refs \subseteq ids
  BY PutParts DEF Own
<1>4. \A r \in there : r.refs \subseteq ids
  <2>1. {q.id : q \in {p \in there : p.id[1] = o}} = {q.id : q \in there}
    OBVIOUS
  <2>2. \A r \in there : r.refs \subseteq {Target(o)} \cup {q.id : q \in there}
    BY <2>1 DEF Closed
  <2> QED BY <2>2, PutParts
<1>5. \A r \in Put(there, new) : r.refs \subseteq ids
  BY <1>3, <1>4, PutParts
<1> QED BY <1>1, <1>2, <1>5 DEF Closed

(* While the template does not change neither does what is told of it.     *)
LEMMA SameTold ==
  ASSUME given' = given
  PROVE  /\ \A r, o : Belongs(r, o)' <=> Belongs(r, o)
         /\ \A S : Closed(S)' <=> Closed(S)
BY SameGiven DEF Belongs, Closed

(* A step that produces an event: what it makes is there, what was there   *)
(* stays, but for the one permission of user pools, which may be replaced. *)
LEMMA MakeStep ==
  ASSUME Shape, IdsTell, RefsThere, NEW o, NEW i, NextEvent(o, i),
         NEW k \in {0, i}, NEW new, Own(o, k, new), Produce(i, new),
         UNCHANGED <<given, todo, current, resources>>
  PROVE  /\ IdsTell' /\ RefsThere'
         /\ \A p \in Owners : \A j : Processed(p, j)' <=> Processed(p, j) \/ (p = o /\ j = i)
         /\ \A p : p # o => There(p)' = There(p)
         /\ There(o)' = Put(There(o), new)
         /\ \A r \in There(o) : r.id[2] # k => r \in There(o)'
         /\ k = i => There(o) \subseteq There(o)'
<1>1. /\ o \in Owners \ todo /\ current = {o} /\ left \subseteq Numbers(o)
      /\ i \in left /\ i \in Numbers(o) /\ i \in Nat \ {0}
  BY NextParts
<1>2. made' = Put(made, new) /\ left' = left \ {i}
  BY DEF Produce
<1>3. \A r \in made : Belongs(r, o) /\ r.id[2] \notin left
  BY <1>1 DEF IdsTell
<1>4. \A r \in new : Belongs(r, o) /\ r.id[2] = k /\ k \notin left'
  <2>1. k \notin left'
    BY <1>1, <1>2, TemplateParts DEF Shape
  <2> QED BY <2>1 DEF Own
<1>5. IdsTell'
  <2>1. \A r \in made' : Belongs(r, o)' /\ r.id[2] \notin left'
    BY <1>2, <1>3, <1>4, PutParts, SameTold
  <2>2. \A r \in resources' : \E p \in Owners \ (todo' \cup current') : Belongs(r, p)'
    BY SameTold DEF IdsTell
  <2> QED BY <1>1, <2>1, <2>2 DEF IdsTell
<1>6. RefsThere'
  <2>1. Closed(resources)'
    BY SameTold DEF RefsThere, Closed
  <2>2. Closed(made)
    BY <1>1 DEF RefsThere
  <2>3. PICK S : S = made
    OBVIOUS
  <2>4. \A r \in S : r.id[1] = o
    BY <1>3, <2>3 DEF Belongs
  <2>5. Closed(Put(S, new))
    BY <2>2, <2>3, <2>4, PutClosed
  <2>6. PICK T : T = made'
    OBVIOUS
  <2>7. Closed(T)'
    BY <1>2, <2>3, <2>5, <2>6, SameTold
  <2>8. Closed(made)'
    BY <2>6, <2>7 DEF Closed
  <2> QED BY <2>1, <2>8 DEF RefsThere
<1>7. \A p \in Owners : \A j : Processed(p, j)' <=> Processed(p, j) \/ (p = o /\ j = i)
  BY <1>1, <1>2, SameGiven DEF Processed
<1>8. /\ \A p : p # o => There(p)' = There(p)
      /\ There(o)' = Put(There(o), new) /\ There(o) = made
  BY <1>1, <1>2 DEF There
<1>9. \A r \in There(o) : r.id[2] # k => r \in There(o)'
  BY <1>4, <1>8, PutParts
<1>10. k = i => There(o) \subseteq There(o)'
  BY <1>1, <1>3, <1>8, <1>9
<1> QED BY <1>5, <1>6, <1>7, <1>8, <1>9, <1>10

(* A step to another owner: the resources of one that is through are put   *)
(* with the others, or one is taken up.  Nothing is produced or lost.      *)
LEMMA SettleStep ==
  ASSUME Shape, IdsTell, RefsThere, NEW o \in Owners,
         Finish(o) \/ (Begin(o) /\ failed' = {})
  PROVE  /\ IdsTell' /\ RefsThere'
         /\ \A p \in Owners : \A j : Processed(p, j)' <=> Processed(p, j)
         /\ \A p \in Owners : \A r \in There(p) :
              r.id[1] = p /\ (\E j : Processed(p, j)) => r \in There(p)'
         /\ UNCHANGED <<given, buckets, pools, routes, roles>>
<1>1. CASE Finish(o)
  <2>1. /\ current = {o} /\ left = {} /\ resources' = Put(resources, made) /\ current' = {}
        /\ UNCHANGED <<given, todo, left, made, buckets, pools, routes, roles>>
    BY <1>1 DEF Finish, shared
  <2>2. o \in Owners \ todo
    BY <2>1 DEF Shape
  <2>3. \A r \in made : Belongs(r, o)
    BY <2>1 DEF IdsTell
  <2>4. \A r \in resources : \E p \in Owners \ (todo \cup current) : Belongs(r, p)
    BY DEF IdsTell
  <2>5. \A r \in resources : r.id[1] # o
    BY <2>1, <2>4 DEF Belongs
  <2>6. \A r \in resources' : r \in resources \/ r \in made
    BY <2>1, PutParts
  <2>7. resources \subseteq resources' /\ made \subseteq resources'
    BY <2>1, <2>3, <2>5, PutParts DEF Belongs
  <2>8. IdsTell'
    <3>1. \A r \in resources' : \E p \in Owners \ todo : Belongs(r, p)
      BY <2>2, <2>3, <2>4, <2>6
    <3> QED BY <2>1, <3>1, SameTold DEF IdsTell
  <2>9. RefsThere'
    <3>1. Closed(resources) /\ Closed(made)
      BY <2>1 DEF RefsThere
    <3>2. \A r \in resources' : r.refs \subseteq {Target(r.id[1])} \cup {q.id : q \in {p \in resources' : p.id[1] = r.id[1]}}
      BY <2>6, <2>7, <3>1 DEF Closed
    <3>3. Closed(resources)'
      BY <2>1, <3>2, SameGiven DEF Closed
    <3> QED BY <2>1, <3>3 DEF RefsThere
  <2>10. \A p \in Owners : \A j : Processed(p, j)' <=> Processed(p, j)
    BY <2>1, SameGiven DEF Processed
  <2>11. \A p : There(p) \subseteq There(p)'
    BY <2>1, <2>7 DEF There
  <2> QED BY <2>1, <2>8, <2>9, <2>10, <2>11
<1>2. CASE Begin(o) /\ failed' = {}
  <2>1. /\ current = {} /\ o \in todo /\ todo' = todo \ {o} /\ made' = {} /\ current' = {o}
        /\ left' = Numbers(o)
        /\ UNCHANGED <<given, resources, buckets, pools, routes, roles>>
    BY <1>2 DEF Begin, shared, Numbers
  <2>2. IdsTell'
    <3>1. \A r \in resources : \E p \in Owners \ todo : Belongs(r, p)
      BY <2>1 DEF IdsTell
    <3>2. \A r \in resources' : \E p \in Owners \ (todo' \cup current') : Belongs(r, p)'
      BY <2>1, <3>1, SameTold
    <3> QED BY <2>1, <3>2 DEF IdsTell
  <2>3. RefsThere'
    <3>1. Closed(resources)'
      BY <2>1, SameTold DEF RefsThere, Closed
    <3>2. Closed(made)'
      BY <2>1 DEF Closed
    <3> QED BY <3>1, <3>2 DEF RefsThere
  <2>4. \A p \in Owners : \A j : Processed(p, j)' <=> Processed(p, j)
    BY <2>1, SameGiven DEF Processed
  <2>5. \A p \in Owners : (\E j : Processed(p, j)) => There(p)' = There(p)
    BY <2>1 DEF There, Processed
  <2> QED BY <2>1, <2>2, <2>3, <2>4, <2>5
<1> QED BY <1>1, <1>2

(* A step in which the events of processed are processed, whose owners'    *)
(* resources stay but for those of the numbers in lost.                    *)
Goes(processed, lost) ==
  /\ given \in Templates /\ given' = given
  /\ \A p \in Owners : \A j \in Numbers(p) : Processed(p, j)' <=> Processed(p, j) \/ <<p, j>> \in processed
  /\ \A p \in Owners : \A j \in Numbers(p) : Processed(p, j) =>
       \A r \in There(p) : Belongs(r, p) /\ r.id[2] \notin lost => r \in There(p)'

(* Both sorts of steps are of this kind.                                   *)
LEMMA SettleGoes ==
  ASSUME Shape, IdsTell, RefsThere, NEW o \in Owners,
         Finish(o) \/ (Begin(o) /\ failed' = {})
  PROVE  Goes({}, {})
<1>1. \A p \in Owners : \A j : Processed(p, j)' <=> Processed(p, j)
  BY SettleStep
<1>2. \A p \in Owners : \A r \in There(p) :
        r.id[1] = p /\ (\E j : Processed(p, j)) => r \in There(p)'
  BY SettleStep
<1>3. given' = given /\ given \in Templates
  BY SettleStep DEF Shape
<1>4. \A p \in Owners : \A j \in Numbers(p) : Processed(p, j) =>
       \A r \in There(p) : Belongs(r, p) => r \in There(p)'
  BY <1>2 DEF Belongs
<1> QED BY <1>1, <1>3, <1>4 DEF Goes

(* An event that is produced with its own id loses nothing.                *)
LEMMA MakeGoes ==
  ASSUME Shape, IdsTell, RefsThere, NEW o, NEW i, NextEvent(o, i),
         NEW k \in {0, i}, NEW new, Own(o, k, new), Produce(i, new),
         UNCHANGED <<given, todo, current, resources>>
  PROVE  /\ Goes({<<o, i>>}, {0} \cap {k})
         /\ new \subseteq There(o)' /\ There(o)' \subseteq There(o) \cup new
         /\ o \in Owners /\ i \in Numbers(o) /\ i # 0
         /\ ~Processed(o, i)
<1>1. /\ o \in Owners \ todo /\ current = {o} /\ left \subseteq Numbers(o)
      /\ i \in left /\ i \in Numbers(o) /\ i \in Nat \ {0}
  BY NextParts
<1>2. \A p \in Owners : \A j : Processed(p, j)' <=> Processed(p, j) \/ (p = o /\ j = i)
  BY MakeStep
<1>3. /\ \A p : p # o => There(p)' = There(p)
      /\ There(o)' = Put(There(o), new)
      /\ \A r \in There(o) : r.id[2] # k => r \in There(o)'
      /\ k = i => There(o) \subseteq There(o)'
  BY MakeStep
<1>4. \A p \in Owners : \A r \in There(p) : r.id[2] \notin {0} \cap {k} => r \in There(p)'
  BY <1>1, <1>3
<1>5. Goes({<<o, i>>}, {0} \cap {k})
  BY <1>2, <1>4 DEF Goes, Shape
<1>6. new \subseteq There(o)' /\ There(o)' \subseteq There(o) \cup new
  BY <1>3, PutParts
<1> QED BY <1>1, <1>5, <1>6 DEF Processed

(* What the events add stays there.                                        *)
LEMMA AddsStep ==
  ASSUME NEW processed, NEW lost \in SUBSET {0}, Goes(processed, lost), AddsThere,
         \A p \in Owners : \A j \in Numbers(p) : <<p, j>> \in processed => Adds(p, j) \subseteq There(p)'
  PROVE  AddsThere'
<1>1. given' = given /\ given \in Templates
  BY DEF Goes
<1>2. ASSUME NEW p \in Owners, NEW j \in Numbers(p), Processed(p, j)
      PROVE  Adds(p, j) \subseteq There(p)'
  <2>1. Own(p, j, Adds(p, j)) /\ j # 0
    BY <1>1, AddsOwn, TemplateParts
  <2>2. Adds(p, j) \subseteq There(p)
    BY <1>2 DEF AddsThere
  <2>3. j \notin lost
    BY <2>1
  <2>4. \A r \in Adds(p, j) : Belongs(r, p) /\ r.id[2] = j
    BY <2>1 DEF Own
  <2> QED BY <1>2, <2>2, <2>3, <2>4 DEF Goes
<1>3. ASSUME NEW p \in Owners, NEW j \in Numbers(p), Processed(p, j)'
      PROVE  Adds(p, j)' \subseteq There(p)'
  <2>1. Processed(p, j) \/ <<p, j>> \in processed
    BY <1>3 DEF Goes
  <2>2. Adds(p, j)' = Adds(p, j)
    BY <1>1, SameAdds
  <2> QED BY <1>2, <2>1, <2>2
<1>4. \A p : Numbers(p)' = Numbers(p)
  BY <1>1, SameGiven
<1> QED BY <1>3, <1>4 DEF AddsThere

(* An event that was processed stays so.                                   *)
LEMMA TellGrows ==
  ASSUME NEW processed, NEW lost, Goes(processed, lost)
  PROVE  /\ \A s, x, c : WaitsFor(s, x, c) => WaitsFor(s, x, c)'
         /\ \A s, n : FromEvent(s, n) => FromEvent(s, n)'
         /\ \A s, b : BucketTells(s, b) => BucketTells(s, b)'
<1>1. given' = given /\ \A p \in Functions : \A j \in Numbers(p) : Processed(p, j) => Processed(p, j)'
  BY DEF Goes, Owners
<1>2. \A s, x, c : WaitsFor(s, x, c) => WaitsFor(s, x, c)'
  BY <1>1, SameGiven DEF WaitsFor
<1>3. \A s, n : FromEvent(s, n) => FromEvent(s, n)'
  BY <1>1, SameGiven, SameAdds DEF FromEvent
<1>4. \A s, b : BucketTells(s, b) => BucketTells(s, b)'
  BY <1>2, <1>3 DEF BucketTells
<1> QED BY <1>2, <1>3, <1>4

(* Buckets that are not edited tell what they told.                        *)
LEMMA BucketsSame ==
  ASSUME NEW processed, NEW lost, Goes(processed, lost), BucketsTell, BucketsTold, buckets' = buckets,
         \A p \in Owners : \A j \in Numbers(p) : <<p, j>> \in processed => EventOf(p, j).kind # "S3"
  PROVE  BucketsTell' /\ BucketsTold'
<1>1. given' = given
  BY DEF Goes
<1>2. BucketsTell'
  <2>1. ASSUME NEW s \in Sources PROVE BucketTells(s, buckets[s])'
    <3>1. PICK b : b = buckets[s]
      OBVIOUS
    <3>2. BucketTells(s, b)'
      BY <3>1, TellGrows DEF BucketsTell
    <3> QED BY <3>1, <3>2 DEF BucketTells
  <2> QED BY <2>1 DEF BucketsTell
<1>3. BucketsTold'
  <2>1. \A o, i, s : Notified(o, i, s)' <=> Notified(o, i, s)
    BY <1>1, SameGiven, SameAdds DEF Notified
  <2>2. ASSUME NEW o \in Owners, NEW i \in Numbers(o), Processed(o, i)', EventOf(o, i).kind = "S3"
        PROVE  Notified(o, i, EventOf(o, i).source)
    BY <2>2 DEF Goes, BucketsTold
  <2>3. /\ \A o : Numbers(o)' = Numbers(o)
        /\ \A o, i : EventOf(o, i)' = EventOf(o, i)
    BY <1>1, SameGiven
  <2>4. ASSUME NEW o \in Owners, NEW i \in Numbers(o), Processed(o, i)', EventOf(o, i).kind = "S3"
        PROVE  Notified(o, i, EventOf(o, i).source)'
    <3>1. PICK s : s = EventOf(o, i).source
      OBVIOUS
    <3>2. Notified(o, i, s)'
      BY <2>1, <2>2, <2>4, <3>1
    <3>3. s = EventOf(o, i).source'
      BY <2>3, <3>1
    <3> QED BY <3>2, <3>3 DEF Notified
  <2> QED BY <2>3, <2>4 DEF BucketsTold
<1> QED BY <1>2, <1>3

(* Pools that are not edited tell what they told.                          *)
LEMMA PoolsSame ==
  ASSUME NEW processed, Goes(processed, {}), PoolsTell, pools' = pools,
         \A p \in Owners : \A j \in Numbers(p) : <<p, j>> \in processed => EventOf(p, j).kind # "Cognito"
  PROVE  PoolsTell'
<1>1. given' = given
  BY DEF Goes
<1>2. /\ \A o : Numbers(o)' = Numbers(o)
      /\ \A o, i : EventOf(o, i)' = EventOf(o, i)
  BY <1>1, SameGiven
<1>3. \A target : TriggerOfOne(target)' <=> TriggerOfOne(target)
  BY <1>1, SameGiven DEF TriggerOfOne
<1>4. ASSUME NEW o \in Owners, NEW i \in Numbers(o), Processed(o, i)', EventOf(o, i).kind = "Cognito"
      PROVE  TriggerTold(o, EventOf(o, i))'
  <2>1. PICK e : e = EventOf(o, i)
    OBVIOUS
  <2>2. Processed(o, i) /\ TriggerTold(o, e)
    BY <1>4, <2>1 DEF Goes, PoolsTell
  <2>3. PICK c : c = CognitoPermission(o, e)
    OBVIOUS
  <2>4. Belongs(c, o)
    BY <2>3, PermissionsOwn DEF Own
  <2>5. c \in There(o) => c \in There(o)'
    BY <2>2, <2>4 DEF Goes
  <2>6. TriggerTold(o, e)'
    BY <1>1, <2>2, <2>3, <2>5, SameGiven, SameAdds DEF TriggerTold
  <2>7. e = EventOf(o, i)'
    BY <1>2, <2>1
  <2> QED BY <2>6, <2>7 DEF TriggerTold
<1>5. \A s \in Sources : \A t \in DOMAIN pools'[s] : TriggerOfOne(pools[s][t])'
  <2> SUFFICES ASSUME NEW s \in Sources, NEW t \in DOMAIN pools[s] PROVE TriggerOfOne(pools[s][t])'
    OBVIOUS
  <2>1. PICK target : target = pools[s][t]
    OBVIOUS
  <2>2. TriggerOfOne(target)'
    BY <1>3, <2>1 DEF PoolsTell
  <2> QED BY <2>1, <2>2 DEF TriggerOfOne
<1> QED BY <1>2, <1>4, <1>5 DEF PoolsTell

(* A permission for a route stays, when events of its function were        *)
(* processed.                                                              *)
LEMMA PermittedStays ==
  ASSUME NEW processed, NEW lost \in SUBSET {0}, Goes(processed, lost), NEW o \in Owners, NEW api, NEW paths,
         RoutePermitted(o, api, paths), \E i \in Numbers(o) : Processed(o, i)
  PROVE  RoutePermitted(o, api, paths)'
<1>1. given' = given /\ given \in Templates
  BY DEF Goes
<1>2. PICK path \in paths, j \in Numbers(o) : Permission(o, j, <<api, path>>) \in There(o)
  BY DEF RoutePermitted
<1>3. PICK p : p = Permission(o, j, <<api, path>>)
  OBVIOUS
<1>4. Belongs(p, o) /\ p.id[2] = j
  BY <1>3, OwnPermission DEF Own
<1>5. j \notin lost
  BY <1>1, TemplateParts
<1>6. p \in There(o)'
  BY <1>2, <1>3, <1>4, <1>5 DEF Goes
<1>7. p = Permission(o, j, <<api, path>>)' /\ j \in Numbers(o)'
  BY <1>1, <1>3, SameAdds, SameGiven
<1> QED BY <1>6, <1>7 DEF RoutePermitted

(* What is told of a route stays true.                                     *)
LEMMA RouteStays ==
  ASSUME NEW processed, NEW lost \in SUBSET {0}, Goes(processed, lost)
  PROVE  /\ \A r : RouteOfOne(r) => RouteOfOne(r)'
         /\ \A r : RouteOfOne(r) /\ RoutePermitted(r.function, r.api, {DefaultPath})
                     => RoutePermitted(r.function, r.api, {DefaultPath})'
         /\ \A o \in Owners : \A i \in Numbers(o) : \A e :
              Processed(o, i) /\ RouteTold(o, e) /\ routes \subseteq routes' => RouteTold(o, e)'
<1>1. given' = given /\ \A p \in Functions : \A j \in Numbers(p) : Processed(p, j) => Processed(p, j)'
  BY DEF Goes, Owners
<1>2. \A r : RouteOfOne(r) => RouteOfOne(r)'
  BY <1>1, SameGiven, SameAdds DEF RouteOfOne
<1>3. ASSUME NEW r, RouteOfOne(r), RoutePermitted(r.function, r.api, {DefaultPath})
      PROVE  RoutePermitted(r.function, r.api, {DefaultPath})'
  <2>1. PICK o \in Functions : r.function = o /\ \E i \in Numbers(o) : Processed(o, i)
    BY <1>3 DEF RouteOfOne, Route
  <2>2. RoutePermitted(o, r.api, {DefaultPath})'
    BY <1>3, <2>1, PermittedStays DEF Owners
  <2> QED BY <2>1, <2>2
<1>4. ASSUME NEW o \in Owners, NEW i \in Numbers(o), NEW e,
             Processed(o, i), RouteTold(o, e), routes \subseteq routes'
      PROVE  RouteTold(o, e)'
  <2>1. RoutePermitted(o, e.source, {e.detail, DefaultPath})'
    BY <1>4, PermittedStays DEF RouteTold
  <2> QED BY <1>1, <1>4, <2>1 DEF RouteTold
<1> QED BY <1>2, <1>3, <1>4

(* What a route is told of, once an event of its kind is processed.        *)
LEMMA RoutesGrow ==
  ASSUME NEW processed, NEW lost \in SUBSET {0}, Goes(processed, lost), RoutesTell, routes \subseteq routes',
         \A r \in routes' \ routes :
           RouteOfOne(r)' /\ (r.path = DefaultPath => RoutePermitted(r.function, r.api, {DefaultPath})'),
         \A p \in Owners : \A j \in Numbers(p) :
           <<p, j>> \in processed /\ EventOf(p, j).kind = "HttpApi" => RouteTold(p, EventOf(p, j))'
  PROVE  RoutesTell'
<1>1. given' = given
  BY DEF Goes
<1>2. /\ \A o : Numbers(o)' = Numbers(o)
      /\ \A o, i : EventOf(o, i)' = EventOf(o, i)
  BY <1>1, SameGiven
<1>3. ASSUME NEW r \in routes'
      PROVE  RouteOfOne(r)' /\ (r.path = DefaultPath => RoutePermitted(r.function, r.api, {DefaultPath})')
  BY RouteStays DEF RoutesTell
<1>4. ASSUME NEW o \in Owners, NEW i \in Numbers(o), Processed(o, i)', EventOf(o, i).kind = "HttpApi"
      PROVE  RouteTold(o, EventOf(o, i))'
  <2>1. CASE <<o, i>> \in processed
    BY <1>4, <2>1
  <2>2. CASE Processed(o, i)
    <3>1. PICK e : e = EventOf(o, i)
      OBVIOUS
    <3>2. RouteTold(o, e)'
      BY <1>4, <2>2, <3>1, RouteStays DEF RoutesTell
    <3>3. e = EventOf(o, i)'
      BY <1>2, <3>1
    <3> QED BY <3>2, <3>3 DEF RouteTold
  <2> QED BY <1>4, <2>1, <2>2 DEF Goes
<1>5. \A r \in routes' :
        RouteOfOne(r)' /\ (r.path = DefaultPath => RoutePermitted(r.function, r.api, {DefaultPath})')
  BY <1>3
<1>6. \A o \in Owners : \A i \in Numbers(o) :
        Processed(o, i)' /\ EventOf(o, i).kind = "HttpApi" => RouteTold(o, EventOf(o, i))'
  BY <1>4
<1> QED BY <1>2, <1>5, <1>6 DEF RoutesTell

(* Routes that stay tell what they told.                                   *)
LEMMA RoutesSame ==
  ASSUME NEW processed, NEW lost \in SUBSET {0}, Goes(processed, lost), RoutesTell, routes' = routes,
         \A p \in Owners : \A j \in Numbers(p) : <<p, j>> \in processed => EventOf(p, j).kind # "HttpApi"
  PROVE  RoutesTell'
BY RoutesGrow

(* So do roles.                                                            *)
LEMMA RolesSame ==
  ASSUME NEW processed, NEW lost, Goes(processed, lost), RolesTell, roles' = roles,
         \A p \in Owners : \A j \in Numbers(p) :
           <<p, j>> \in processed => EventOf(p, j).kind \notin PullKinds \cup SnsKinds
  PROVE  RolesTell'
<1>1. given' = given
  BY DEF Goes
<1>2. /\ \A o : Numbers(o)' = Numbers(o)
      /\ \A o, i : EventOf(o, i)' = EventOf(o, i)
      /\ \A f, i, p : PolicyOf(f, i, p)' <=> PolicyOf(f, i, p)
  BY <1>1, SameGiven, SameAdds
<1>3. \A f : Grants(f)' = Grants(f)
  BY DEF Grants
<1>4. \A f \in Functions : \A i \in Numbers(f) :
        Processed(f, i)' /\ EventOf(f, i).kind \in PullKinds \cup SnsKinds => Processed(f, i)
  BY DEF Goes, Owners
<1>5. \A f \in Functions : \A p \in roles[f].policies : \E i \in Numbers(f) : PolicyOf(f, i, p)
  BY DEF RolesTell
<1>6. \A f \in Functions : \A i \in Numbers(f) :
        Processed(f, i)' /\ given.owners[f].role /\ EventOf(f, i).kind \in PullKinds \cup SnsKinds =>
           /\ Managed(EventOf(f, i).kind) \subseteq roles[f].managed
           /\ Statements(EventOf(f, i)) \cup SendsTo(EventOf(f, i)) \subseteq Grants(f)
  BY <1>4 DEF RolesTell
<1> QED BY <1>1, <1>2, <1>3, <1>5, <1>6 DEF RolesTell

(* A policy that is added is held, by itself or by one that says the same. *)
LEMMA AddPolicyParts ==
  ASSUME NEW policies, NEW name, NEW grants
  PROVE  /\ policies \subseteq AddPolicy(policies, name, grants)
         /\ \A p \in AddPolicy(policies, name, grants) :
              p \in policies \/ (p = [name |-> name, grants |-> grants] /\ grants # {})
         /\ grants \subseteq UNION {p.grants : p \in AddPolicy(policies, name, grants)}
<1>1. CASE grants = {}
  BY <1>1 DEF AddPolicy
<1>2. CASE grants # {} /\ \E p \in policies : p.grants = grants
  BY <1>2 DEF AddPolicy
<1>3. CASE grants # {} /\ ~\E p \in policies : p.grants = grants
  <2> DEFINE policy == [name |-> name, grants |-> grants]
  <2>1. AddPolicy(policies, name, grants) = policies \cup {policy}
    BY <1>3 DEF AddPolicy
  <2>2. policy.grants = grants
    OBVIOUS
  <2> HIDE DEF policy
  <2>3. grants \subseteq UNION {p.grants : p \in policies \cup {policy}}
    BY <2>2
  <2> QED BY <1>3, <2>1, <2>3 DEF policy
<1> QED BY <1>1, <1>2, <1>3

(* What a role may do, once an event linked its policies.                  *)
LEMMA RolesStep ==
  ASSUME Shape, RolesTell, NEW o \in Functions, NEW i \in Numbers(o), LinkRole(o, i),
         Goes({<<o, i>>}, {}), EventOf(o, i).kind \in PullKinds \cup SnsKinds
  PROVE  RolesTell'
<1> DEFINE e == EventOf(o, i)
           first == AddPolicy(roles[o].policies, PolicyName(o, i), Statements(e))
           both == AddPolicy(first, IdWith(o, i, "SendPolicy"), SendsTo(e))
<1>1. given' = given
  BY DEF Goes
<1>2. /\ \A f : Numbers(f)' = Numbers(f)
      /\ \A f, j : EventOf(f, j)' = EventOf(f, j)
      /\ \A f, j, p : PolicyOf(f, j, p)' <=> PolicyOf(f, j, p)
  BY <1>1, SameGiven, SameAdds
<1>3. /\ \A f \in Functions : f # o \/ ~given.owners[o].role => roles'[f] = roles[f]
      /\ given.owners[o].role =>
              /\ roles'[o].managed = roles[o].managed \cup Managed(e.kind)
              /\ roles'[o].policies = both
  BY LinkRoleParts
<1>4. /\ roles[o].policies \subseteq first /\ first \subseteq both
      /\ \A p \in both : p \in roles[o].policies \/ PolicyOf(o, i, p)
      /\ Statements(e) \cup SendsTo(e) \subseteq UNION {p.grants : p \in both}
  <2>1. /\ roles[o].policies \subseteq first /\ Statements(e) \subseteq UNION {p.grants : p \in first}
        /\ \A p \in first : \/ p \in roles[o].policies
                            \/ p = [name |-> PolicyName(o, i), grants |-> Statements(e)] /\ Statements(e) # {}
    BY AddPolicyParts
  <2> HIDE DEF first
  <2>2. /\ first \subseteq both /\ SendsTo(e) \subseteq UNION {p.grants : p \in both}
        /\ \A p \in both : \/ p \in first
                           \/ p = [name |-> IdWith(o, i, "SendPolicy"), grants |-> SendsTo(e)]
    BY AddPolicyParts
  <2> HIDE DEF both
  <2>3. \A p \in both : p \in roles[o].policies \/ PolicyOf(o, i, p)
    BY <2>1, <2>2 DEF PolicyOf
  <2> QED BY <2>1, <2>2, <2>3
<1> HIDE DEF first, both
<1>5. ASSUME NEW f \in Functions
      PROVE  /\ \A p \in roles'[f].policies : p \in roles[f].policies \/ (f = o /\ PolicyOf(o, i, p))
             /\ Grants(f) \subseteq Grants(f)' /\ roles[f].managed \subseteq roles'[f].managed
  <2>1. CASE f = o /\ given.owners[o].role
    BY <1>3, <1>4, <2>1 DEF Grants
  <2>2. CASE f # o \/ ~given.owners[o].role
    BY <1>3, <2>2 DEF Grants
  <2> QED BY <2>1, <2>2
<1>6. \A f \in Functions : \A p \in roles'[f].policies : \E j \in Numbers(f) : PolicyOf(f, j, p)
  BY <1>5 DEF RolesTell
<1>7. ASSUME NEW f \in Functions, NEW j \in Numbers(f), Processed(f, j)', given.owners[f].role,
             EventOf(f, j).kind \in PullKinds \cup SnsKinds
      PROVE  /\ Managed(EventOf(f, j).kind) \subseteq roles'[f].managed
             /\ Statements(EventOf(f, j)) \cup SendsTo(EventOf(f, j)) \subseteq Grants(f)'
  <2>1. CASE Processed(f, j)
    BY <1>5, <1>7, <2>1 DEF RolesTell
  <2>2. CASE f = o /\ j = i
    <3>1. Grants(o)' = UNION {p.grants : p \in both}
      BY <1>3, <1>7, <2>2 DEF Grants
    <3> QED BY <1>3, <1>4, <1>7, <2>2, <3>1
  <2>3. Processed(f, j) \/ (f = o /\ j = i)
    BY <1>7 DEF Goes, Owners
  <2> QED BY <2>1, <2>2, <2>3
<1>8. \A f \in Functions : \A j \in Numbers(f) :
        Processed(f, j)' /\ given.owners[f].role /\ EventOf(f, j).kind \in PullKinds \cup SnsKinds =>
           /\ Managed(EventOf(f, j).kind) \subseteq roles'[f].managed
           /\ Statements(EventOf(f, j)) \cup SendsTo(EventOf(f, j)) \subseteq Grants(f)'
  BY <1>7
<1> QED BY <1>1, <1>2, <1>6, <1>8 DEF RolesTell

(* What buckets tell, once one more notifies a function.                   *)
LEMMA BucketsStep ==
  ASSUME Shape, BucketsTell, BucketsTold, NEW o \in Functions, NEW i \in Numbers(o),
         EventOf(o, i).kind = "S3", EventOf(o, i).source \in Sources,
         buckets' = [buckets EXCEPT ![EventOf(o, i).source] = Notify(@, o, i)],
         Goes({<<o, i>>}, {})
  PROVE  BucketsTell' /\ BucketsTold'
<1> DEFINE e == EventOf(o, i)
<1>0. PICK id, c : id = IdWith(o, i, "Permission") /\ c = ConditionOf(o)
  OBVIOUS
<1>1. given' = given
  BY DEF Goes
<1>2. /\ \A f : Numbers(f)' = Numbers(f)
      /\ \A f, j : EventOf(f, j)' = EventOf(f, j)
  BY <1>1, SameGiven
<1>3. PICK source, b : source = e.source /\ b = buckets[source]
  OBVIOUS
<1>4. PICK n : n = Notify(b, o, i)
  OBVIOUS
<1>5. b = [notifications |-> b.notifications, dependsOn |-> b.dependsOn, tags |-> b.tags]
  BY <1>3 DEF Shape
<1>6. /\ n.notifications = b.notifications \cup {Notification(o, e)}
      /\ n.dependsOn = IF c = NoCondition THEN b.dependsOn \cup {id} ELSE b.dependsOn
      /\ n.tags = IF c = NoCondition THEN b.tags ELSE b.tags \cup {[id |-> id, condition |-> c]}
  <2>1. PICK m : m = Notification(o, e)
    OBVIOUS
  <2>2. n = [notifications |-> b.notifications \cup {m},
             dependsOn |-> IF c = NoCondition THEN b.dependsOn \cup {id} ELSE b.dependsOn,
             tags |-> IF c = NoCondition THEN b.tags ELSE b.tags \cup {[id |-> id, condition |-> c]}]
    BY <1>0, <1>4, <1>5, <2>1, NotifyParts
  <2> QED BY <2>1, <2>2
<1>7. /\ buckets'[source] = n
      /\ \A s \in Sources : s # source => buckets'[s] = buckets[s]
  BY <1>3, <1>4 DEF Shape
<1>8. Processed(o, i)'
  BY DEF Goes, Owners
<1>9. BucketTells(source, n)'
  <2>1. BucketTells(source, b)'
    BY <1>3, TellGrows DEF BucketsTell
  <2>2. WaitsFor(source, id, c)'
    BY <1>0, <1>1, <1>3, <1>8, SameGiven DEF WaitsFor
  <2>3. PICK m : m = Notification(o, e)
    OBVIOUS
  <2>4. FromEvent(source, m)'
    BY <1>1, <1>3, <1>8, <2>3, SameGiven, SameAdds DEF FromEvent
  <2>5. \A x \in n.notifications : x \in b.notifications \/ x = m
    BY <1>6, <2>3
  <2>6. \A x \in n.dependsOn : x \in b.dependsOn \/ (x = id /\ c = NoCondition)
    BY <1>6
  <2>7. \A t \in n.tags : t \in b.tags \/ (t.id = id /\ t.condition = c)
    BY <1>6
  <2>8. \A x \in n.dependsOn : WaitsFor(source, x, NoCondition)'
    BY <2>1, <2>2, <2>6 DEF BucketTells
  <2>9. \A t \in n.tags : WaitsFor(source, t.id, t.condition)'
    BY <2>1, <2>2, <2>7 DEF BucketTells
  <2>10. \A x \in n.notifications : FromEvent(source, x)'
    BY <2>1, <2>4, <2>5 DEF BucketTells
  <2> QED BY <2>8, <2>9, <2>10 DEF BucketTells
<1>10. BucketsTell'
  <2>1. ASSUME NEW s \in Sources PROVE BucketTells(s, buckets[s])'
    <3>1. CASE s = source
      BY <1>7, <1>9, <3>1 DEF BucketTells
    <3>2. CASE s # source
      <4>1. PICK a : a = buckets[s]
        OBVIOUS
      <4>2. BucketTells(s, a)'
        BY <4>1, TellGrows DEF BucketsTell
      <4>3. buckets'[s] = a
        BY <1>7, <3>2, <4>1
      <4> QED BY <4>2, <4>3 DEF BucketTells
    <3> QED BY <3>1, <3>2
  <2> QED BY <2>1 DEF BucketsTell
<1>11. BucketsTold'
  <2>1. ASSUME NEW f, NEW j, NEW s \in Sources, Notified(f, j, s) PROVE Notified(f, j, s)'
    <3>1. /\ buckets[s].notifications \subseteq buckets'[s].notifications
          /\ buckets[s].dependsOn \subseteq buckets'[s].dependsOn
          /\ buckets[s].tags \subseteq buckets'[s].tags
      BY <1>3, <1>6, <1>7
    <3> QED BY <1>1, <2>1, <3>1, SameGiven, SameAdds DEF Notified
  <2>2. Notified(o, i, source)'
    <3>1. /\ Notification(o, e) \in n.notifications
          /\ IF c = NoCondition THEN id \in n.dependsOn ELSE [id |-> id, condition |-> c] \in n.tags
      BY <1>6
    <3> QED BY <1>0, <1>1, <1>7, <3>1, SameGiven, SameAdds DEF Notified
  <2>3. ASSUME NEW p \in Owners, NEW j \in Numbers(p), Processed(p, j)', EventOf(p, j).kind = "S3"
        PROVE  Notified(p, j, EventOf(p, j).source)'
    <3>1. PICK s : s = EventOf(p, j).source
      OBVIOUS
    <3>2. Processed(p, j) \/ (p = o /\ j = i)
      BY <2>3 DEF Goes
    <3>3. s \in Sources
      BY <2>3, <3>1, TemplateParts DEF Shape
    <3>4. Notified(p, j, s)'
      BY <1>3, <2>1, <2>2, <2>3, <3>1, <3>2, <3>3 DEF BucketsTold
    <3>5. s = EventOf(p, j).source'
      BY <1>2, <3>1
    <3> QED BY <3>4, <3>5 DEF Notified
  <2> QED BY <1>2, <2>3 DEF BucketsTold
<1> QED BY <1>10, <1>11

(* What pools tell, once one more triggers a function: if the permission   *)
(* of the function for another pool is replaced, it has two pools.         *)
LEMMA PoolsStep ==
  ASSUME Shape, PoolsTell, NEW o \in Functions, NEW i \in Numbers(o), NEW e, e = EventOf(o, i),
         e.kind = "Cognito", e.source \in Sources, ~TriggerTaken(e),
         pools' = [pools EXCEPT ![e.source] =
                     [t \in DOMAIN @ \cup {e.detail} |-> IF t = e.detail THEN Target(o) ELSE @[t]]],
         Goes({<<o, i>>}, {0}), CognitoPermission(o, e) \in There(o)',
         \A p : p # o => There(p)' = There(p)
  PROVE  PoolsTell'
<1>1. given' = given
  BY DEF Goes
<1>2. /\ \A p : Numbers(p)' = Numbers(p)
      /\ \A p, j : EventOf(p, j)' = EventOf(p, j)
  BY <1>1, SameGiven
<1>3. PICK target : target = Target(o)
  OBVIOUS
<1>4. /\ \A s \in Sources : s # e.source => pools'[s] = pools[s]
      /\ DOMAIN pools'[e.source] = DOMAIN pools[e.source] \cup {e.detail}
      /\ pools'[e.source][e.detail] = target
      /\ \A t \in DOMAIN pools[e.source] : pools'[e.source][t] = pools[e.source][t]
      /\ e.detail \notin DOMAIN pools[e.source]
  BY <1>3 DEF Shape, TriggerTaken
<1>5. ASSUME NEW s \in Sources, NEW t \in DOMAIN pools'[s] PROVE TriggerOfOne(pools[s][t])'
  <2>1. \A x : TriggerOfOne(x)' <=> TriggerOfOne(x)
    BY <1>1, SameGiven DEF TriggerOfOne
  <2>2. TriggerOfOne(target)
    BY <1>3 DEF TriggerOfOne, EventsOf, EventOf, Numbers
  <2>3. PICK x : x = pools'[s][t]
    OBVIOUS
  <2>4. x = target \/ (t \in DOMAIN pools[s] /\ x = pools[s][t])
    BY <1>4, <2>3
  <2>5. TriggerOfOne(x)'
    BY <2>1, <2>2, <2>4 DEF PoolsTell
  <2> QED BY <2>3, <2>5 DEF TriggerOfOne
<1>6. ASSUME NEW p \in Owners, NEW j \in Numbers(p), Processed(p, j)', NEW d, d = EventOf(p, j),
             d.kind = "Cognito"
      PROVE  TriggerTold(p, d)'
  <2>1. d.source \in Sources
    BY <1>6, TemplateParts DEF Shape
  <2>2. Processed(p, j) \/ (p = o /\ j = i)
    BY <1>6 DEF Goes
  <2>3. d.detail \in DOMAIN pools'[d.source] /\ pools'[d.source][d.detail] = Target(p)
    <3>1. CASE Processed(p, j)
      <4>1. d.detail \in DOMAIN pools[d.source] /\ pools[d.source][d.detail] = Target(p)
        BY <1>6, <3>1 DEF PoolsTell, TriggerTold
      <4> QED BY <1>4, <2>1, <4>1
    <3>2. CASE p = o /\ j = i
      BY <1>3, <1>4, <1>6, <3>2
    <3> QED BY <2>2, <3>1, <3>2
  <2>4. ASSUME ~TwoPools(given.owners[p]) PROVE CognitoPermission(p, d) \in There(p)'
    <3>1. CASE p = o
      <4>1. d \in EventsOf(given.owners[o]) /\ e \in EventsOf(given.owners[o])
        BY <1>6, <3>1 DEF EventsOf, EventOf, Numbers
      <4>2. d.source = e.source
        BY <1>6, <2>4, <3>1, <4>1 DEF TwoPools
      <4>3. CognitoPermission(p, d) = CognitoPermission(o, e)
        BY <3>1, <4>2 DEF CognitoPermission
      <4> QED BY <3>1, <4>3
    <3>2. CASE p # o
      <4>1. CognitoPermission(p, d) \in There(p)
        BY <1>6, <2>2, <2>4, <3>2 DEF PoolsTell, TriggerTold
      <4> QED BY <3>2, <4>1
    <3> QED BY <3>1, <3>2
  <2> QED BY <1>1, <2>3, <2>4, SameGiven, SameAdds DEF TriggerTold
<1>7. ASSUME NEW p \in Owners, NEW j \in Numbers(p), Processed(p, j)', EventOf(p, j).kind = "Cognito"
      PROVE  TriggerTold(p, EventOf(p, j))'
  <2>1. PICK d : d = EventOf(p, j)
    OBVIOUS
  <2>2. TriggerTold(p, d)' /\ d = EventOf(p, j)'
    BY <1>2, <1>6, <1>7, <2>1
  <2> QED BY <2>2 DEF TriggerTold
<1> QED BY <1>2, <1>5, <1>7 DEF PoolsTell

(* What routes tell, once a path has one more or one of its own.           *)
LEMMA RouteStep ==
  ASSUME Shape, RoutesTell, NEW o \in Functions, NEW i \in Numbers(o), NEW e, e = EventOf(o, i),
         e.kind = "HttpApi", ~BadRoute(e),
         routes' = IF HasIntegration(e) THEN routes ELSE routes \cup {Route(o, e)},
         Goes({<<o, i>>}, {}), RoutePermissions(o, i) \subseteq There(o)'
  PROVE  RoutesTell'
<1>0. PICK processed, lost : processed = {<<o, i>>} /\ lost = {} /\ lost \in SUBSET {0} /\ Goes(processed, lost)
  OBVIOUS
<1>1. given' = given
  BY DEF Goes
<1>2. Processed(o, i)' /\ i \in Numbers(o)' /\ e = EventOf(o, i)'
  BY <1>1, SameGiven DEF Goes, Owners
<1>3. PICK route, api, path : route = Route(o, e) /\ api = e.source /\ path = e.detail
  OBVIOUS
<1>4. /\ route.api = api /\ route.path = path /\ route.function = o
      /\ \A r \in routes' \ routes : r = route
  BY <1>3 DEF Route
<1>5. ~ServedByDefault(o, e) => RoutePermitted(o, api, {path})'
  <2> SUFFICES ASSUME ~ServedByDefault(o, e) PROVE RoutePermitted(o, api, {path})'
    OBVIOUS
  <2>1. PICK p : p = Permission(o, i, <<api, path>>)
    OBVIOUS
  <2>2. p \in There(o)'
    BY <1>3, <2>1 DEF RoutePermissions
  <2>3. p = Permission(o, i, <<api, path>>)'
    BY <1>1, <2>1, SameAdds
  <2> QED BY <1>2, <2>2, <2>3 DEF RoutePermitted
<1>6. RouteOfOne(route)'
  <2>1. route = Route(o, e)'
    BY <1>1, <1>3, SameAdds
  <2> QED BY <1>2, <2>1 DEF RouteOfOne, Route
<1>7. route.path = DefaultPath => RoutePermitted(o, api, {DefaultPath})'
  BY <1>3, <1>4, <1>5 DEF ServedByDefault
<1>8. RoutePermitted(o, api, {path, DefaultPath})'
  <2>1. CASE ~ServedByDefault(o, e)
    BY <1>5, <2>1 DEF RoutePermitted
  <2>2. CASE ServedByDefault(o, e)
    <3>1. PICK r \in routes : r.api = api /\ r.path = DefaultPath /\ r.function = o
      BY <1>3, <2>2 DEF ServedByDefault
    <3>2. RoutePermitted(r.function, r.api, {DefaultPath})'
      BY <1>0, <3>1, RouteStays DEF RoutesTell
    <3>3. RoutePermitted(o, api, {DefaultPath})'
      BY <3>1, <3>2
    <3> QED BY <3>3 DEF RoutePermitted
  <2> QED BY <2>1, <2>2
<1>9. ASSUME ~OwnPathTwice(given)
      PROVE  \E r \in routes' : r.api = api /\ r.path = path /\ r.function = o
  <2>1. CASE ~HasIntegration(e)
    BY <1>3, <1>4, <2>1
  <2>2. CASE HasIntegration(e)
    <3>1. PICK r \in routes : r.api = api /\ r.path = path
      BY <1>3, <2>2 DEF HasIntegration
    <3>2. PICK f \in Functions : \E j \in Numbers(f) :
            EventOf(f, j).kind = "HttpApi" /\ r = Route(f, EventOf(f, j))
      BY DEF RoutesTell, RouteOfOne
    <3>3. PICK d, j : /\ j \in Numbers(f) /\ d = EventOf(f, j)
                      /\ d.kind = "HttpApi" /\ r = Route(f, d)
      BY <3>2
    <3>4. d.source = api /\ d.detail = path /\ r.function = f
      BY <3>1, <3>3 DEF Route
    <3>5. d \in EventsOf(given.owners[f]) /\ e \in EventsOf(given.owners[o])
      BY <3>3 DEF EventsOf, EventOf, Numbers
    <3>6. d.source \notin given.managed
      BY <1>3, <2>2, <3>4 DEF BadRoute, IsManaged
    <3>7. f = o
      BY <1>3, <1>9, <3>2, <3>3, <3>4, <3>5, <3>6 DEF OwnPathTwice
    <3>8. r \in routes'
      BY <2>2
    <3> QED BY <3>1, <3>4, <3>7, <3>8
  <2> QED BY <2>1, <2>2
<1>10. RouteTold(o, e)'
  BY <1>1, <1>3, <1>8, <1>9 DEF RouteTold
<1>11. RouteTold(o, EventOf(o, i))'
  BY <1>2, <1>10 DEF RouteTold
<1>12. routes \subseteq routes'
  OBVIOUS
<1>13. \A r \in routes' \ routes :
         RouteOfOne(r)' /\ (r.path = DefaultPath => RoutePermitted(r.function, r.api, {DefaultPath})')
  BY <1>4, <1>6, <1>7
<1>14. \A p \in Owners : \A j \in Numbers(p) :
         <<p, j>> \in processed /\ EventOf(p, j).kind = "HttpApi" => RouteTold(p, EventOf(p, j))'
  BY <1>0, <1>11
<1> QED BY <1>0, <1>12, <1>13, <1>14, RoutesGrow

(* An event that is produced with ids of its own: nothing is lost.         *)
LEMMA EventStep ==
  ASSUME Shape, Tell, NEW o, NEW i, NextEvent(o, i), NEW new, Own(o, i, new), Adds(o, i) \subseteq new,
         Produce(i, new), UNCHANGED <<given, todo, current, resources>>
  PROVE  /\ IdsTell' /\ RefsThere' /\ AddsThere'
         /\ Goes({<<o, i>>}, {}) /\ new \subseteq There(o)'
<1>1. /\ IdsTell /\ RefsThere /\ AddsThere /\ i \in {0, i}
  BY DEF Tell
<1>2. IdsTell' /\ RefsThere'
  BY <1>1, MakeStep
<1>3. /\ Goes({<<o, i>>}, {0} \cap {i}) /\ new \subseteq There(o)' /\ i # 0
      /\ o \in Owners /\ i \in Numbers(o)
  BY <1>1, MakeGoes
<1>4. {0} \cap {i} = {}
  BY <1>3
<1>5. PICK processed, lost : processed = {<<o, i>>} /\ lost = {} /\ lost \in SUBSET {0} /\ Goes(processed, lost)
  BY <1>3, <1>4
<1>6. \A p \in Owners : \A j \in Numbers(p) : <<p, j>> \in processed => Adds(p, j) \subseteq There(p)'
  BY <1>3, <1>5
<1>7. AddsThere'
  BY <1>1, <1>5, <1>6, AddsStep
<1> QED BY <1>2, <1>3, <1>4, <1>7

(* Events that change nothing but what they add.                           *)
LEMMA AddResourcesTells ==
  ASSUME Shape, Tell, NEW o, NEW i, AddResources(o, i)
  PROVE  Tell'
<1>1. /\ NextEvent(o, i) /\ Produce(i, Resources(o, i))
      /\ EventOf(o, i).kind \in RuleKinds \cup PlainKinds \cup {"ScheduleV2", "Api"}
      /\ UNCHANGED <<given, todo, current, resources, buckets, pools, routes, roles>>
  BY DEF AddResources, shared
<1>2. o \in Owners /\ i \in Numbers(o) /\ given \in Templates
  BY <1>1, NextParts DEF Shape
<1>3. PICK new : new = Adds(o, i)
  OBVIOUS
<1>4. new = Resources(o, i)
  BY <1>1, <1>3, KindsApart DEF Adds
<1>5. Own(o, i, new) /\ Produce(i, new) /\ Adds(o, i) \subseteq new
  BY <1>1, <1>2, <1>3, <1>4, AddsOwn DEF Produce
<1>6. IdsTell' /\ RefsThere' /\ AddsThere' /\ Goes({<<o, i>>}, {})
  BY <1>1, <1>5, EventStep
<1>7. PICK processed, lost : processed = {<<o, i>>} /\ lost = {} /\ lost \in SUBSET {0} /\ Goes(processed, lost)
  BY <1>6
<1>8. \A p \in Owners : \A j \in Numbers(p) : <<p, j>> \in processed =>
        EventOf(p, j).kind \notin PullKinds \cup SnsKinds \cup {"S3", "Cognito", "HttpApi"}
  BY <1>1, <1>7, KindsApart
<1>9. BucketsTell' /\ BucketsTold'
  BY <1>1, <1>7, <1>8, BucketsSame DEF Tell
<1>10. PoolsTell'
  BY <1>1, <1>7, <1>8, PoolsSame DEF Tell
<1>11. RoutesTell'
  BY <1>1, <1>7, <1>8, RoutesSame DEF Tell
<1>12. RolesTell'
  BY <1>1, <1>7, <1>8, RolesSame DEF Tell
<1> QED BY <1>6, <1>9, <1>10, <1>11, <1>12 DEF Tell

(* Events that are mapped, or subscribed with or without a mapping.        *)
LEMMA MapTells ==
  ASSUME Shape, Tell, NEW o, NEW i, Map(o, i) \/ Subscribe(o, i)
  PROVE  Tell'
<1>1. /\ NextEvent(o, i) /\ LinkRole(o, i)
      /\ EventOf(o, i).kind \in PullKinds \cup SnsKinds
      /\ UNCHANGED <<given, todo, current, resources, buckets, pools, routes>>
  BY DEF Map, Subscribe
<1>2. Produce(i, Adds(o, i))
  <2>1. CASE Map(o, i)
    <3>1. EventOf(o, i).kind \in PullKinds /\ EventOf(o, i).kind \notin SnsKinds
      BY <2>1, KindsApart DEF Map
    <3>2. Adds(o, i) = {Resource(o, Id(o, i), "mapping", EventOf(o, i).source, {Target(o)})}
      BY <3>1, KindsApart DEF Adds
    <3> QED BY <2>1, <3>2 DEF Map
  <2>2. CASE Subscribe(o, i)
    <3>1. EventOf(o, i).kind \in SnsKinds /\ EventOf(o, i).kind \notin PullKinds
      BY <2>2, KindsApart DEF Subscribe
    <3>2. Adds(o, i) = SnsResources(o, i)
      BY <3>1, KindsApart DEF Adds
    <3> QED BY <2>2, <3>2 DEF Subscribe
  <2> QED BY <2>1, <2>2
<1>3. o \in Owners /\ i \in Numbers(o) /\ given \in Templates
  BY <1>1, NextParts DEF Shape
<1>4. o \in Functions
  BY <1>1, <1>3, FunctionEvents
<1>5. PICK new : new = Adds(o, i)
  OBVIOUS
<1>6. Own(o, i, new) /\ Produce(i, new) /\ Adds(o, i) \subseteq new
  BY <1>2, <1>3, <1>5, AddsOwn DEF Produce
<1>7. IdsTell' /\ RefsThere' /\ AddsThere' /\ Goes({<<o, i>>}, {})
  BY <1>1, <1>6, EventStep
<1>8. PICK processed, lost : processed = {<<o, i>>} /\ lost = {} /\ lost \in SUBSET {0} /\ Goes(processed, lost)
  BY <1>7
<1>9. \A p \in Owners : \A j \in Numbers(p) : <<p, j>> \in processed =>
        EventOf(p, j).kind \notin {"S3", "Cognito", "HttpApi"}
  BY <1>1, <1>8, KindsApart
<1>10. BucketsTell' /\ BucketsTold'
  BY <1>1, <1>8, <1>9, BucketsSame DEF Tell
<1>11. PoolsTell'
  BY <1>1, <1>8, <1>9, PoolsSame DEF Tell
<1>12. RoutesTell'
  BY <1>1, <1>8, <1>9, RoutesSame DEF Tell
<1>13. RolesTell'
  BY <1>1, <1>3, <1>4, <1>7, RolesStep DEF Tell
<1> QED BY <1>7, <1>10, <1>11, <1>12, <1>13 DEF Tell

(* Events of a bucket.                                                     *)
LEMMA NotifyTells ==
  ASSUME Shape, Tell, NEW o, NEW i, NotifyFromBucket(o, i)
  PROVE  Tell'
<1>1. /\ NextEvent(o, i) /\ EventOf(o, i).kind = "S3"
      /\ Produce(i, {Permission(o, i, EventOf(o, i).source)})
      /\ buckets' = [buckets EXCEPT ![EventOf(o, i).source] = Notify(@, o, i)]
      /\ UNCHANGED <<given, todo, current, resources, pools, routes, roles>>
  BY DEF NotifyFromBucket
<1>2. o \in Owners /\ i \in Numbers(o) /\ given \in Templates
  BY <1>1, NextParts DEF Shape
<1>3. o \in Functions /\ EventOf(o, i).source \in Sources
  BY <1>1, <1>2, FunctionEvents, TemplateParts
<1>4. PICK new : new = Adds(o, i)
  OBVIOUS
<1>5. new = {Permission(o, i, EventOf(o, i).source)}
  BY <1>1, <1>4, KindsApart DEF Adds
<1>6. Own(o, i, new) /\ Produce(i, new) /\ Adds(o, i) \subseteq new
  BY <1>1, <1>2, <1>4, <1>5, AddsOwn DEF Produce
<1>7. IdsTell' /\ RefsThere' /\ AddsThere' /\ Goes({<<o, i>>}, {})
  BY <1>1, <1>6, EventStep
<1>8. PICK processed, lost : processed = {<<o, i>>} /\ lost = {} /\ lost \in SUBSET {0} /\ Goes(processed, lost)
  BY <1>7
<1>9. \A p \in Owners : \A j \in Numbers(p) : <<p, j>> \in processed =>
        EventOf(p, j).kind \notin PullKinds \cup SnsKinds \cup {"Cognito", "HttpApi"}
  BY <1>1, <1>8, KindsApart
<1>10. BucketsTell' /\ BucketsTold'
  BY <1>1, <1>2, <1>3, <1>7, BucketsStep DEF Tell
<1>11. PoolsTell'
  BY <1>1, <1>8, <1>9, PoolsSame DEF Tell
<1>12. RoutesTell'
  BY <1>1, <1>8, <1>9, RoutesSame DEF Tell
<1>13. RolesTell'
  BY <1>1, <1>8, <1>9, RolesSame DEF Tell
<1> QED BY <1>7, <1>10, <1>11, <1>12, <1>13 DEF Tell

(* Triggers of a user pool.                                                *)
LEMMA TriggerTells ==
  ASSUME Shape, Tell, NEW o, NEW i, Trigger(o, i)
  PROVE  Tell'
<1>1. PICK e : e = EventOf(o, i)
  OBVIOUS
<1>2. /\ NextEvent(o, i) /\ e.kind = "Cognito" /\ ~TriggerTaken(e)
      /\ Produce(i, {CognitoPermission(o, e)})
      /\ pools' = [pools EXCEPT ![e.source] =
                     [t \in DOMAIN @ \cup {e.detail} |-> IF t = e.detail THEN Target(o) ELSE @[t]]]
      /\ UNCHANGED <<given, todo, current, resources, buckets, routes, roles>>
  BY <1>1 DEF Trigger, Refused
<1>3. o \in Owners /\ i \in Numbers(o) /\ given \in Templates
  BY <1>2, NextParts DEF Shape
<1>4. o \in Functions /\ e.source \in Sources
  BY <1>1, <1>2, <1>3, FunctionEvents, TemplateParts
<1>5. PICK new, k : new = {CognitoPermission(o, e)} /\ k = 0
  OBVIOUS
<1>6. Own(o, k, new) /\ Produce(i, new) /\ k \in {0, i}
  BY <1>2, <1>5, PermissionsOwn DEF Produce
<1>7. IdsTell /\ RefsThere /\ AddsThere
  BY DEF Tell
<1>8. /\ IdsTell' /\ RefsThere'
      /\ \A p : p # o => There(p)' = There(p)
  BY <1>2, <1>6, <1>7, MakeStep
<1>9. Goes({<<o, i>>}, {0} \cap {k}) /\ new \subseteq There(o)'
  BY <1>2, <1>6, <1>7, MakeGoes
<1>10. PICK processed, lost :
         processed = {<<o, i>>} /\ lost = {0} /\ lost \in SUBSET {0} /\ Goes(processed, lost)
  <2>1. {0} \cap {k} = {0}
    BY <1>5
  <2> QED BY <1>9, <2>1
<1>11. \A p \in Owners : \A j \in Numbers(p) : <<p, j>> \in processed =>
        EventOf(p, j).kind \notin PullKinds \cup SnsKinds \cup {"S3", "HttpApi"}
  BY <1>1, <1>2, <1>10, KindsApart
<1>12. AddsThere'
  <2>1. Adds(o, i) = {}
    BY <1>1, <1>2, KindsApart DEF Adds
  <2>2. \A p \in Owners : \A j \in Numbers(p) : <<p, j>> \in processed => Adds(p, j) \subseteq There(p)'
    BY <1>10, <2>1
  <2> QED BY <1>7, <1>10, <2>2, AddsStep
<1>13. BucketsTell' /\ BucketsTold'
  BY <1>2, <1>10, <1>11, BucketsSame DEF Tell
<1>14. PoolsTell'
  <2>1. CognitoPermission(o, e) \in There(o)'
    BY <1>5, <1>9
  <2>2. Goes({<<o, i>>}, {0})
    BY <1>10
  <2> QED BY <1>1, <1>2, <1>3, <1>4, <1>8, <2>1, <2>2, PoolsStep DEF Tell
<1>15. RoutesTell'
  BY <1>2, <1>10, <1>11, RoutesSame DEF Tell
<1>16. RolesTell'
  BY <1>2, <1>10, <1>11, RolesSame DEF Tell
<1> QED BY <1>8, <1>12, <1>13, <1>14, <1>15, <1>16 DEF Tell

(* Routes of an API.                                                       *)
LEMMA AddRouteTells ==
  ASSUME Shape, Tell, NEW o, NEW i, AddRoute(o, i)
  PROVE  Tell'
<1>1. PICK e : e = EventOf(o, i)
  OBVIOUS
<1>2. /\ NextEvent(o, i) /\ e.kind = "HttpApi" /\ ~BadRoute(e)
      /\ Produce(i, RoutePermissions(o, i))
      /\ routes' = IF HasIntegration(e) THEN routes ELSE routes \cup {Route(o, e)}
      /\ UNCHANGED <<given, todo, current, resources, buckets, pools, roles>>
  BY <1>1 DEF AddRoute, Refused
<1>3. o \in Owners /\ i \in Numbers(o) /\ given \in Templates
  BY <1>2, NextParts DEF Shape
<1>4. o \in Functions
  BY <1>1, <1>2, <1>3, FunctionEvents
<1>5. PICK new : new = RoutePermissions(o, i)
  OBVIOUS
<1>6. Own(o, i, new) /\ Produce(i, new)
  BY <1>2, <1>5, PermissionsOwn DEF Produce
<1>7. Adds(o, i) \subseteq new
  BY <1>1, <1>2, KindsApart DEF Adds
<1>8. IdsTell' /\ RefsThere' /\ AddsThere' /\ Goes({<<o, i>>}, {}) /\ new \subseteq There(o)'
  BY <1>2, <1>6, <1>7, EventStep
<1>9. PICK processed, lost : processed = {<<o, i>>} /\ lost = {} /\ lost \in SUBSET {0} /\ Goes(processed, lost)
  BY <1>8
<1>10. \A p \in Owners : \A j \in Numbers(p) : <<p, j>> \in processed =>
        EventOf(p, j).kind \notin PullKinds \cup SnsKinds \cup {"S3", "Cognito"}
  BY <1>1, <1>2, <1>9, KindsApart
<1>11. BucketsTell' /\ BucketsTold'
  BY <1>2, <1>9, <1>10, BucketsSame DEF Tell
<1>12. PoolsTell'
  BY <1>2, <1>9, <1>10, PoolsSame DEF Tell
<1>13. RoutesTell'
  <2>1. RoutePermissions(o, i) \subseteq There(o)'
    BY <1>5, <1>8
  <2> QED BY <1>1, <1>2, <1>3, <1>4, <1>8, <2>1, RouteStep DEF Tell
<1>14. RolesTell'
  BY <1>2, <1>9, <1>10, RolesSame DEF Tell
<1> QED BY <1>8, <1>11, <1>12, <1>13, <1>14 DEF Tell

(* A step to another owner, unless it is refused.                          *)
LEMMA SettleTells ==
  ASSUME Shape, Tell, NEW o \in Owners, Finish(o) \/ (Begin(o) /\ failed' = {})
  PROVE  Tell'
<1>1. IdsTell /\ RefsThere /\ AddsThere
  BY DEF Tell
<1>2. Goes({}, {})
  BY <1>1, SettleGoes
<1>3. IdsTell' /\ RefsThere' /\ UNCHANGED <<given, buckets, pools, routes, roles>>
  BY <1>1, SettleStep
<1>4. PICK processed, lost : processed = {} /\ lost = {} /\ lost \in SUBSET {0} /\ Goes(processed, lost)
  BY <1>2
<1>5. \A p \in Owners : \A j \in Numbers(p) : <<p, j>> \notin processed
  BY <1>4
<1>6. AddsThere'
  BY <1>1, <1>4, <1>5, AddsStep
<1>7. BucketsTell' /\ BucketsTold'
  BY <1>3, <1>4, <1>5, BucketsSame DEF Tell
<1>8. PoolsTell'
  BY <1>3, <1>4, <1>5, PoolsSame DEF Tell
<1>9. RoutesTell'
  BY <1>3, <1>4, <1>5, RoutesSame DEF Tell
<1>10. RolesTell'
  BY <1>3, <1>4, <1>5, RolesSame DEF Tell
<1> QED BY <1>3, <1>6, <1>7, <1>8, <1>9, <1>10 DEF Tell

(* It holds at first, when nothing is processed.                           *)
LEMMA InitIInv == Init => IInv
<1> SUFFICES ASSUME Init PROVE IInv
  OBVIOUS
<1>1. Shape
  BY DEF Init, Shape, Untouched
<1>2. \A o, i : ~Processed(o, i)
  BY DEF Init, Processed
<1>3. AddsThere /\ BucketsTold
  BY <1>2 DEF AddsThere, BucketsTold
<1>4. IdsTell /\ RefsThere
  BY DEF Init, IdsTell, RefsThere, Closed
<1>5. BucketsTell
  BY DEF Init, BucketsTell, BucketTells, Untouched
<1>6. PoolsTell /\ RoutesTell
  <2>1. \A s \in Sources : DOMAIN pools[s] = {}
    BY DEF Init
  <2> QED BY <1>2, <2>1 DEF Init, PoolsTell, RoutesTell
<1>7. RolesTell
  BY <1>2 DEF Init, RolesTell
<1> QED BY <1>1, <1>3, <1>4, <1>5, <1>6, <1>7 DEF IInv, Tell

(* Every step keeps it; a refusal keeps nothing but the shape.             *)
LEMMA NextIInv == IInv /\ [Next]_vars => IInv'
<1> SUFFICES ASSUME IInv, [Next]_vars PROVE IInv'
  OBVIOUS
<1>1. Shape /\ Shape'
  BY ShapeStep DEF IInv
<1>2. CASE UNCHANGED vars
  <2>1. failed' = failed /\ (Tell => Tell')
    <3>1. UNCHANGED <<given, todo, current, left, made, buckets, pools, routes, roles, resources, failed>>
      BY <1>2 DEF vars, shared
    <3>2. \A p \in Owners : \A j : Processed(p, j)' <=> Processed(p, j)
      BY <3>1, SameGiven DEF Processed
    <3>3. \A p : There(p)' = There(p)
      BY <3>1 DEF There
    <3>a. Goes({}, {})
      BY <1>1, <3>1, <3>2, <3>3 DEF Goes, Shape
    <3>4. PICK processed, lost : processed = {} /\ lost = {} /\ lost \in SUBSET {0} /\ Goes(processed, lost)
      BY <3>a
    <3>5. \A p \in Owners : \A j \in Numbers(p) : <<p, j>> \notin processed
      BY <3>4
    <3>6. Tell => AddsThere'
      BY <3>4, <3>5, AddsStep DEF Tell
    <3>7. Tell => BucketsTell' /\ BucketsTold'
      BY <3>1, <3>4, <3>5, BucketsSame DEF Tell
    <3>8. Tell => PoolsTell' /\ RoutesTell' /\ RolesTell'
      BY <3>1, <3>4, <3>5, PoolsSame, RoutesSame, RolesSame DEF Tell
    <3>9. Tell => IdsTell'
      BY <3>1, SameTold DEF Tell, IdsTell
    <3>10. Tell => RefsThere'
      <4>1. Closed(resources)' <=> Closed(resources)
        BY <3>1, SameGiven DEF Closed
      <4>2. Closed(made)' <=> Closed(made)
        BY <3>1, SameGiven DEF Closed
      <4> QED BY <3>1, <4>1, <4>2 DEF Tell, RefsThere
    <3> QED BY <3>1, <3>6, <3>7, <3>8, <3>9, <3>10 DEF Tell
  <2> QED BY <1>1, <2>1 DEF IInv
<1>3. ASSUME NEW o \in Owners, Begin(o) PROVE IInv'
  <2>1. failed \subseteq failed'
    BY <1>3 DEF Begin
  <2>2. failed' = {} => Tell'
    BY <1>1, <1>3, <2>1, SettleTells DEF IInv
  <2> QED BY <1>1, <2>2 DEF IInv
<1>4. ASSUME NEW o \in Owners, Finish(o) PROVE IInv'
  <2>1. failed' = failed
    BY <1>4 DEF Finish
  <2> QED BY <1>1, <1>4, <2>1, SettleTells DEF IInv
<1>5. ASSUME NEW o, NEW i, RefuseEvent(o, i) PROVE IInv'
  BY <1>1, <1>5 DEF RefuseEvent, IInv
<1>6. ASSUME NEW o, NEW i, AddResources(o, i) PROVE IInv'
  <2>1. failed' = failed
    BY <1>6 DEF AddResources
  <2> QED BY <1>1, <1>6, <2>1, AddResourcesTells DEF IInv
<1>7. ASSUME NEW o, NEW i, Subscribe(o, i) \/ Map(o, i) PROVE IInv'
  <2>1. failed' = failed
    BY <1>7 DEF Subscribe, Map
  <2> QED BY <1>1, <1>7, <2>1, MapTells DEF IInv
<1>8. ASSUME NEW o, NEW i, NotifyFromBucket(o, i) PROVE IInv'
  <2>1. failed' = failed
    BY <1>8 DEF NotifyFromBucket
  <2> QED BY <1>1, <1>8, <2>1, NotifyTells DEF IInv
<1>9. ASSUME NEW o, NEW i, Trigger(o, i) PROVE IInv'
  <2>1. failed' = failed
    BY <1>9 DEF Trigger
  <2> QED BY <1>1, <1>9, <2>1, TriggerTells DEF IInv
<1>10. ASSUME NEW o, NEW i, AddRoute(o, i) PROVE IInv'
  <2>1. failed' = failed
    BY <1>10 DEF AddRoute
  <2> QED BY <1>1, <1>10, <2>1, AddRouteTells DEF IInv
<1> QED BY <1>2, <1>3, <1>4, <1>5, <1>6, <1>7, <1>8, <1>9, <1>10 DEF Next

(* What the events that were processed add is there and refers to what is  *)
(* there, and buckets, pools, APIs and roles tell of them, as long as      *)
(* none was refused.                                                       *)
THEOREM EventsInvariant == Spec => []IInv
BY InitIInv, NextIInv, PTL DEF Spec

-----------------------------------------------------------------------------
(* What follows when the translation returned.                             *)

(* All events were processed, and what they add is in the template.        *)
LEMMA AllDone ==
  ASSUME IInv, Returned
  PROVE  /\ Tell /\ given \in Templates
         /\ \A o \in Owners : \A i \in Numbers(o) :
              Processed(o, i) /\ There(o) = resources /\ Adds(o, i) \subseteq resources
<1>1. Tell /\ given \in Templates
  BY DEF IInv, Returned, Shape
<1>2. \A o \in Owners : \A i \in Numbers(o) : Processed(o, i) /\ There(o) = resources
  BY DEF Returned, Processed, There
<1> QED BY <1>1, <1>2 DEF Tell, AddsThere

(* What is added of an owner that is created is created.                   *)
LEMMA CreatedWith ==
  ASSUME NEW o, NEW i, NEW S, Own(o, i, S), NEW truth, Holds(ConditionOf(o), truth)
  PROVE  \A r \in S : r \in resources => r \in Created(truth)
BY DEF Own, Belongs, Created

(* The permission that an event of a bucket adds.                          *)
LEMMA BucketPermission ==
  ASSUME IInv, Returned, NEW o \in Functions, NEW i \in Numbers(o), EventOf(o, i).kind = "S3",
         NEW truth, Holds(ConditionOf(o), truth)
  PROVE  LET p == Permission(o, i, EventOf(o, i).source) IN
         /\ p \in Created(truth) /\ p.id = IdWith(o, i, "Permission")
         /\ p.type = "permission" /\ p.source = EventOf(o, i).source /\ Target(o) \in p.refs
<1> DEFINE p == Permission(o, i, EventOf(o, i).source)
<1>1. /\ p.id = IdWith(o, i, "Permission") /\ p.condition = ConditionOf(o)
      /\ p.type = "permission" /\ p.source = EventOf(o, i).source /\ Target(o) \in p.refs
  BY DEF Permission, Resource
<1>2. p \in Adds(o, i)
  BY KindsApart DEF Adds
<1>3. p \in resources
  BY <1>2, AllDone DEF Owners
<1> HIDE DEF p
<1>4. p \in Created(truth)
  BY <1>1, <1>3 DEF Created
<1> QED BY <1>1, <1>4 DEF p

(* A bucket waits for the permission of each of its notifications.         *)
LEMMA BucketsWaitFromInvariant == IInv => BucketsWait
<1> SUFFICES ASSUME IInv, Returned, NEW truth \in Truths, NEW s \in Sources, NEW n \in Notifying(s, truth)
             PROVE  \E p \in Created(truth) :
                      p.type = "permission" /\ p.source = s /\ n.target \in p.refs /\ p.id \in Waits(s, truth)
  BY DEF BucketsWait
<1>1. n \in buckets[s].notifications /\ Holds(n.condition, truth)
  BY DEF Notifying
<1>2. FromEvent(s, n)
  BY <1>1, AllDone DEF Tell, BucketsTell, BucketTells
<1>3. PICK o \in Functions : \E i \in Numbers(o) :
        /\ EventOf(o, i).kind = "S3" /\ EventOf(o, i).source = s
        /\ n = Notification(o, EventOf(o, i))
  BY <1>2 DEF FromEvent
<1>4. PICK i \in Numbers(o) :
        /\ EventOf(o, i).kind = "S3" /\ EventOf(o, i).source = s
        /\ n = Notification(o, EventOf(o, i))
  BY <1>3
<1>5. n.target = Target(o) /\ n.condition = ConditionOf(o)
  BY <1>4 DEF Notification
<1>6. PICK p : p = Permission(o, i, s)
  OBVIOUS
<1>7. /\ p \in Created(truth) /\ p.id = IdWith(o, i, "Permission")
      /\ p.type = "permission" /\ p.source = s /\ Target(o) \in p.refs
  BY <1>1, <1>4, <1>5, <1>6, BucketPermission
<1>8. p.id \in Waits(s, truth)
  <2>1. Notified(o, i, s)
    BY <1>4, AllDone DEF Tell, BucketsTold, Owners
  <2>2. CASE ConditionOf(o) = NoCondition
    BY <1>7, <2>1, <2>2 DEF Notified, Waits
  <2>3. CASE ConditionOf(o) # NoCondition
    <3>1. PICK t : t = [id |-> IdWith(o, i, "Permission"), condition |-> ConditionOf(o)]
      OBVIOUS
    <3>2. t \in buckets[s].tags /\ t.id = p.id /\ Holds(t.condition, truth)
      BY <1>1, <1>5, <1>7, <2>1, <2>3, <3>1 DEF Notified
    <3> QED BY <3>2 DEF Waits
  <2> QED BY <2>2, <2>3
<1> QED BY <1>5, <1>7, <1>8

(* S3 may invoke the function before it is told of the notification.       *)
THEOREM BucketsWaitHolds == Spec => []BucketsWait
BY EventsInvariant, BucketsWaitFromInvariant, PTL

(* What is in the template is of an owner and refers to what is there with *)
(* the same condition.                                                     *)
LEMMA ReferencesOwned ==
  ASSUME IInv, Returned, NEW truth, NEW r \in Created(truth)
  PROVE  r.refs \subseteq Ids(truth)
<1>1. IdsTell /\ RefsThere
  BY AllDone DEF Tell
<1>2. r \in resources /\ Holds(r.condition, truth)
  BY DEF Created
<1>3. PICK o \in Owners : Belongs(r, o)
  BY <1>1, <1>2 DEF IdsTell
<1>4. r.refs \subseteq {Target(o)} \cup {q.id : q \in {p \in resources : p.id[1] = o}}
  BY <1>1, <1>2, <1>3 DEF RefsThere, Closed, Belongs
<1>5. Holds(ConditionOf(o), truth)
  BY <1>2, <1>3 DEF Belongs
<1>6. Target(o) \in Ids(truth)
  BY <1>5 DEF Ids, OwnerIds
<1>7. ASSUME NEW q \in resources, q.id[1] = o PROVE q.id \in Ids(truth)
  <2>1. Belongs(q, o)
    BY <1>1, <1>7 DEF IdsTell, Belongs
  <2>2. q \in Created(truth)
    BY <1>5, <2>1 DEF Belongs, Created
  <2> QED BY <2>2 DEF Ids
<1> QED BY <1>4, <1>6, <1>7

(* The owner of what is created is created.                                *)
LEMMA TargetFound ==
  ASSUME NEW o \in Owners, NEW truth, Holds(ConditionOf(o), truth)
  PROVE  Target(o) \in Ids(truth)
BY DEF Ids, OwnerIds

(* What buckets wait for is there.                                         *)
LEMMA WaitsFound ==
  ASSUME IInv, Returned, NEW truth, NEW s \in Sources, NEW x \in Waits(s, truth)
  PROVE  x \in Ids(truth)
<1>1. BucketTells(s, buckets[s])
  BY AllDone DEF Tell, BucketsTell
<1>2. PICK c : WaitsFor(s, x, c) /\ Holds(c, truth)
  <2>1. CASE x \in buckets[s].dependsOn
    BY <1>1, <2>1 DEF BucketTells, Holds
  <2>2. CASE x \notin buckets[s].dependsOn
    BY <1>1, <2>2 DEF BucketTells, Waits
  <2> QED BY <2>1, <2>2
<1>3. PICK o \in Functions : \E i \in Numbers(o) :
        /\ EventOf(o, i).kind = "S3" /\ x = IdWith(o, i, "Permission") /\ c = ConditionOf(o)
  BY <1>2 DEF WaitsFor
<1>4. PICK i \in Numbers(o) :
        /\ EventOf(o, i).kind = "S3" /\ x = IdWith(o, i, "Permission") /\ c = ConditionOf(o)
  BY <1>3
<1>5. PICK p : p = Permission(o, i, EventOf(o, i).source)
  OBVIOUS
<1>6. p \in Created(truth) /\ p.id = x
  BY <1>2, <1>4, <1>5, BucketPermission
<1> QED BY <1>6 DEF Ids

(* Nothing dangles, if no function with a condition triggers on a pool.    *)
LEMMA NothingDanglesFromInvariant ==
  ASSUME IInv, \A f \in Functions : ~ConditionalTrigger(given.owners[f])
  PROVE  NothingDangles
<1> SUFFICES ASSUME Returned, NEW truth \in Truths
             PROVE  /\ \A r \in Created(truth) : r.refs \subseteq Ids(truth)
                    /\ \A s \in Sources :
                         /\ {n.target : n \in Notifying(s, truth)} \cup Waits(s, truth) \subseteq Ids(truth)
                         /\ {pools[s][t] : t \in DOMAIN pools[s]} \subseteq Ids(truth)
                    /\ \A r \in routes : Holds(r.condition, truth) => Target(r.function) \in Ids(truth)
  BY DEF NothingDangles
<1>1. Tell
  BY AllDone
<1>2. ASSUME NEW s \in Sources, NEW n \in Notifying(s, truth) PROVE n.target \in Ids(truth)
  <2>1. FromEvent(s, n) /\ Holds(n.condition, truth)
    BY <1>1 DEF Notifying, Tell, BucketsTell, BucketTells
  <2>2. PICK o \in Functions : n.target = Target(o) /\ n.condition = ConditionOf(o)
    BY <2>1 DEF FromEvent, Notification
  <2> QED BY <2>1, <2>2, TargetFound DEF Owners
<1>3. ASSUME NEW s \in Sources, NEW t \in DOMAIN pools[s] PROVE pools[s][t] \in Ids(truth)
  <2>1. TriggerOfOne(pools[s][t])
    BY <1>1 DEF Tell, PoolsTell
  <2>2. PICK o \in Functions : pools[s][t] = Target(o) /\ \E e \in EventsOf(given.owners[o]) : e.kind = "Cognito"
    BY <2>1 DEF TriggerOfOne
  <2>3. ConditionOf(o) = NoCondition
    BY <2>2 DEF ConditionalTrigger, ConditionOf
  <2> QED BY <2>2, <2>3, TargetFound DEF Owners, Holds
<1>4. ASSUME NEW r \in routes, Holds(r.condition, truth) PROVE Target(r.function) \in Ids(truth)
  <2>1. RouteOfOne(r)
    BY <1>1 DEF Tell, RoutesTell
  <2>2. PICK o \in Functions : r.function = o /\ r.condition = ConditionOf(o)
    BY <2>1 DEF RouteOfOne, Route
  <2> QED BY <1>4, <2>2, TargetFound DEF Owners
<1>5. \A s \in Sources : /\ {n.target : n \in Notifying(s, truth)} \cup Waits(s, truth) \subseteq Ids(truth)
                         /\ {pools[s][t] : t \in DOMAIN pools[s]} \subseteq Ids(truth)
  BY <1>2, <1>3, WaitsFound
<1> QED BY <1>4, <1>5, ReferencesOwned

(* Rules, mappings, notifications, triggers and routes refer to what is    *)
(* created with them.                                                      *)
THEOREM NothingDanglesHolds ==
  Spec => []((\A f \in Functions : ~ConditionalTrigger(given.owners[f])) => NothingDangles)
<1>1. IInv => ((\A f \in Functions : ~ConditionalTrigger(given.owners[f])) => NothingDangles)
  BY NothingDanglesFromInvariant
<1> QED BY <1>1, EventsInvariant, PTL

(* A dead-letter queue is there, and the rule or the role may send to it.  *)
LEMMA DeadLettersFromInvariant == IInv => DeadLettersArrive
<1> SUFFICES ASSUME IInv, Returned, NEW truth \in Truths, NEW o \in Owners, Holds(ConditionOf(o), truth),
                    NEW i \in Numbers(o), NEW e, e = EventOf(o, i),
                    e.kind \in RuleKinds \cup {"ScheduleV2"}, MakesQueue(e)
             PROVE  \E r, q \in Created(truth) :
                      /\ r.id = Id(o, i) /\ q.type = "queue" /\ q.id \in r.refs
                      /\ IF e.kind = "ScheduleV2"
                           THEN Has(e, "ownRole") \/ \E p \in Created(truth) :
                                  p.type = "role" /\ p.id \in r.refs /\ q.id \in p.refs
                           ELSE \E p \in Created(truth) :
                                  p.type = "queuePolicy" /\ p.source = r.id /\ q.id \in p.refs
  BY DEF DeadLettersArrive, Numbers
<1>1. Adds(o, i) \subseteq resources /\ Own(o, i, Adds(o, i)) /\ Adds(o, i) = Resources(o, i)
  BY AllDone, AddsOwn, KindsApart DEF Adds
<1>2. \A r \in Resources(o, i) : r \in Created(truth)
  BY <1>1, CreatedWith
<1>3. PICK id : id = IdWith(o, i, "Queue") /\ QueueIds(o, i) = {id}
  BY DEF QueueIds
<1>4. PICK q : q = Resource(o, id, "queue", NoSource, {}) /\ Queues(o, i) = {q}
  BY <1>3 DEF Queues
<1>5. q.id = id /\ q.type = "queue"
  BY <1>4, ResourceFields
<1>6. CASE e.kind = "ScheduleV2"
  <2> DEFINE role == Resource(o, IdWith(o, i, "Role"), "role", Id(o, i), {Target(o)} \cup QueueIds(o, i))
             own == IF Has(e, "ownRole") THEN {} ELSE {role}
             r == Resource(o, Id(o, i), "schedule", NoSource, {Target(o)} \cup QueueIds(o, i) \cup {x.id : x \in own})
  <2>1. Resources(o, i) = {r} \cup Queues(o, i) \cup own
    BY <1>6, KindsApart DEF Resources, SchedulerResources
  <2>2. r.id = Id(o, i) /\ r.refs = {Target(o)} \cup QueueIds(o, i) \cup {x.id : x \in own}
    BY ResourceFields
  <2>3. role.type = "role" /\ role.refs = {Target(o)} \cup QueueIds(o, i)
    BY ResourceFields
  <2>4. ~Has(e, "ownRole") => own = {role}
    OBVIOUS
  <2> HIDE DEF role, own, r
  <2>5. r \in Created(truth) /\ q \in Created(truth) /\ own \subseteq Created(truth)
    BY <1>2, <1>4, <2>1
  <2>6. q.id \in r.refs
    BY <1>3, <1>5, <2>2
  <2>7. ~Has(e, "ownRole") => role \in Created(truth) /\ role.id \in r.refs /\ q.id \in role.refs
    BY <1>3, <1>5, <2>2, <2>3, <2>4, <2>5
  <2> QED BY <1>5, <1>6, <2>2, <2>3, <2>5, <2>6, <2>7
<1>7. CASE e.kind \in RuleKinds
  <2>1. PICK role : Resources(o, i) = FunctionRule(o, i) \/ Resources(o, i) = MachineRule(o, i, role)
    BY <1>7, KindsApart
       DEF Resources, ScheduleOfFunction, ScheduleOfMachine, EventBridgeRuleOfFunction, EventBridgeRuleOfMachine, RuleKinds
  <2>2. DeadLetter(o, i) \subseteq Resources(o, i)
    BY <2>1 DEF FunctionRule, MachineRule
  <2>3. PICK refs : QueueIds(o, i) \subseteq refs /\ Resource(o, Id(o, i), "rule", NoSource, refs) \in Resources(o, i)
    BY <2>1 DEF FunctionRule, MachineRule
  <2>4. PICK r : r = Resource(o, Id(o, i), "rule", NoSource, refs)
    OBVIOUS
  <2>5. PICK p : p = Resource(o, IdWith(o, i, "QueuePolicy"), "queuePolicy", Id(o, i), {id, Id(o, i)})
    OBVIOUS
  <2>6. p \in DeadLetter(o, i) /\ q \in DeadLetter(o, i)
    BY <1>3, <1>4, <2>5 DEF DeadLetter
  <2>7. r.id = Id(o, i) /\ q.id \in r.refs
    BY <1>3, <1>5, <2>3, <2>4, ResourceFields
  <2>8. p.type = "queuePolicy" /\ p.source = r.id /\ q.id \in p.refs
    BY <1>5, <2>5, <2>7, ResourceFields
  <2>9. r \in Created(truth) /\ p \in Created(truth) /\ q \in Created(truth)
    BY <1>2, <2>2, <2>3, <2>4, <2>6
  <2>10. e.kind # "ScheduleV2"
    BY <1>7, KindsApart
  <2> QED BY <1>5, <2>7, <2>8, <2>9, <2>10
<1> QED BY <1>6, <1>7

(* Whatever asked for a dead-letter queue may send to it.                  *)
THEOREM DeadLettersArriveHolds == Spec => []DeadLettersArrive
BY EventsInvariant, DeadLettersFromInvariant, PTL

(* A permission that is created permits what it is for.                    *)
LEMMA PermissionPermits ==
  ASSUME NEW o, NEW i, NEW source, NEW truth, Permission(o, i, source) \in Created(truth)
  PROVE  Permitted(source, Target(o), truth)
<1>1. PICK p : p = Permission(o, i, source)
  OBVIOUS
<1>2. p.type = "permission" /\ p.source = source /\ Target(o) \in p.refs
  BY <1>1 DEF Permission, Resource
<1> QED BY <1>1, <1>2 DEF Permitted

(* So does a resource that is created and refers to its target.            *)
LEMMA ResourceTriggers ==
  ASSUME NEW o, NEW id, NEW type, NEW source, NEW refs, NEW target \in refs, NEW truth,
         Resource(o, id, type, source, refs) \in Created(truth)
  PROVE  Triggers(id, type, target, truth)
<1>1. PICK r : r = Resource(o, id, type, source, refs)
  OBVIOUS
<1>2. r.id = id /\ r.type = type /\ r.refs = refs
  BY <1>1, ResourceFields
<1> QED BY <1>1, <1>2 DEF Triggers

(* And one that works with a role.                                         *)
LEMMA RoleStarts ==
  ASSUME NEW o, NEW id, NEW type, NEW source, NEW refs, NEW target \in refs, NEW truth,
         Resource(o, id, type, source, refs) \in Created(truth),
         NEW role \in Created(truth), role.type = "role", role.id \in refs, target \in role.refs
  PROVE  StartedByRole(id, type, target, truth)
<1>1. PICK r : r = Resource(o, id, type, source, refs)
  OBVIOUS
<1>2. r.id = id /\ r.type = type /\ r.refs = refs
  BY <1>1, ResourceFields
<1> QED BY <1>1, <1>2 DEF StartedByRole

(* A schedule or rule of a function, and one of a state machine.           *)
LEMMA RulesInvoke ==
  ASSUME NEW o \in Owners, NEW i, NEW e, e = EventOf(o, i), e.kind \in RuleKinds, NEW truth,
         \A r \in Resources(o, i) : r \in Created(truth)
  PROVE  Invokes(o, i, truth)
<1>1. CASE o \in Functions
  <2>1. Resources(o, i) = FunctionRule(o, i)
    BY <1>1, KindsApart DEF Resources, ScheduleOfFunction, EventBridgeRuleOfFunction, RuleKinds
  <2>2. Permission(o, i, Id(o, i)) \in Created(truth)
    BY <2>1 DEF FunctionRule
  <2>3. PICK refs : /\ Target(o) \in refs
                    /\ Resource(o, Id(o, i), "rule", NoSource, refs) \in Created(truth)
    BY <2>1 DEF FunctionRule
  <2>4. Triggers(Id(o, i), "rule", Target(o), truth)
    BY <2>3, ResourceTriggers
  <2>5. Permitted(Id(o, i), Target(o), truth)
    BY <2>2, PermissionPermits
  <2>6. o \notin Machines
    BY <1>1, EventsAssumption
  <2> QED BY <1>1, <2>4, <2>5, <2>6, KindsApart DEF Invokes, RuleKinds
<1>2. CASE o \in Machines /\ o \notin Functions
  <2> DEFINE isGiven == e.kind = "Schedule" /\ Has(e, "ownRole")
  <2>1. PICK role : role = (IF isGiven THEN {} ELSE {MachineRole(o, i)}) /\ Resources(o, i) = MachineRule(o, i, role)
    BY <1>2, KindsApart DEF Resources, ScheduleOfMachine, EventBridgeRuleOfMachine, RuleKinds
  <2>2. PICK refs : /\ refs = {Target(o)} \cup QueueIds(o, i) \cup {r.id : r \in role}
                    /\ Resource(o, Id(o, i), "rule", NoSource, refs) \in Created(truth)
    BY <2>1 DEF MachineRule
  <2>3. role \subseteq Created(truth)
    BY <2>1 DEF MachineRule
  <2>4. Triggers(Id(o, i), "rule", Target(o), truth)
    BY <2>2, ResourceTriggers
  <2>5. ASSUME ~isGiven PROVE StartedByRole(Id(o, i), "rule", Target(o), truth)
    <3>1. PICK r : r = MachineRole(o, i)
      OBVIOUS
    <3>2. r.type = "role" /\ r.refs = {Target(o)}
      BY <3>1 DEF MachineRole, Resource
    <3>3. role = {r}
      BY <2>1, <2>5, <3>1
    <3>4. r \in Created(truth) /\ r.id \in refs /\ Target(o) \in r.refs /\ Target(o) \in refs
      BY <2>2, <2>3, <3>2, <3>3
    <3> QED BY <2>2, <3>2, <3>4, RoleStarts
  <2>6. isGiven => Invokes(o, i, truth) = Triggers(Id(o, i), "rule", Target(o), truth)
    BY <1>2, KindsApart DEF Invokes, RuleKinds
  <2>7. ~isGiven => Invokes(o, i, truth) = StartedByRole(Id(o, i), "rule", Target(o), truth)
    BY <1>2, KindsApart DEF Invokes, RuleKinds
  <2> QED BY <2>4, <2>5, <2>6, <2>7
<1> QED BY <1>1, <1>2 DEF Owners

(* A schedule of either.                                                   *)
LEMMA SchedulesInvoke ==
  ASSUME NEW o \in Owners, NEW i, NEW e, e = EventOf(o, i), e.kind = "ScheduleV2", NEW truth,
         \A r \in Resources(o, i) : r \in Created(truth)
  PROVE  Invokes(o, i, truth)
<1> DEFINE role == Resource(o, IdWith(o, i, "Role"), "role", Id(o, i), {Target(o)} \cup QueueIds(o, i))
           own == IF Has(e, "ownRole") THEN {} ELSE {role}
           refs == {Target(o)} \cup QueueIds(o, i) \cup {x.id : x \in own}
           r == Resource(o, Id(o, i), "schedule", NoSource, refs)
<1>1. Resources(o, i) = {r} \cup Queues(o, i) \cup own
  BY KindsApart DEF Resources, SchedulerResources
<1>2. role.type = "role" /\ role.refs = {Target(o)} \cup QueueIds(o, i)
  BY ResourceFields
<1>3. ~Has(e, "ownRole") => own = {role}
  OBVIOUS
<1>4. r = Resource(o, Id(o, i), "schedule", NoSource, refs)
  OBVIOUS
<1>5. refs = {Target(o)} \cup QueueIds(o, i) \cup {x.id : x \in own}
  OBVIOUS
<1> HIDE DEF role, own, refs, r
<1>6. r \in Created(truth) /\ own \subseteq Created(truth)
  BY <1>1
<1>7. Triggers(Id(o, i), "schedule", Target(o), truth)
  BY <1>4, <1>5, <1>6, ResourceTriggers
<1>8. ASSUME ~Has(e, "ownRole") PROVE StartedByRole(Id(o, i), "schedule", Target(o), truth)
  <2>1. role \in Created(truth) /\ role.id \in refs /\ Target(o) \in role.refs /\ Target(o) \in refs
    BY <1>2, <1>3, <1>5, <1>6, <1>8
  <2> QED BY <1>2, <1>4, <1>6, <2>1, RoleStarts
<1> QED BY <1>7, <1>8, KindsApart DEF Invokes, RuleKinds

(* A subscription, with the queue in between if there is one.              *)
LEMMA TopicsInvoke ==
  ASSUME NEW o \in Owners, NEW i, NEW e, e = EventOf(o, i), e.kind \in SnsKinds, NEW truth,
         \A r \in SnsResources(o, i) : r \in Created(truth)
  PROVE  Invokes(o, i, truth)
<1>1. CASE e.kind = "SNS"
  <2>1. /\ Permission(o, i, e.source) \in Created(truth)
        /\ Resource(o, Id(o, i), "subscription", e.source, {Target(o)}) \in Created(truth)
    BY <1>1 DEF SnsResources, Subscription
  <2>2. Permitted(e.source, Target(o), truth)
    BY <2>1, PermissionPermits
  <2>3. Target(o) \in {Target(o)}
    OBVIOUS
  <2>4. Triggers(Id(o, i), "subscription", Target(o), truth)
    BY <2>1, <2>3, ResourceTriggers
  <2> QED BY <1>1, <2>2, <2>4, KindsApart DEF Invokes, RuleKinds, SnsKinds
<1>2. CASE e.kind = "SNSQueue"
  <2>1. PICK q : q = Resource(o, IdWith(o, i, "Queue"), QueueType(e), NoSource, {})
    OBVIOUS
  <2>2. QueueOf(o, i) = {q} /\ q.type = QueueType(e)
    BY <1>2, <2>1, ResourceFields DEF QueueOf
  <2>3. PICK queues : queues = {q.id} /\ queues = {x.id : x \in QueueOf(o, i)}
    BY <2>2
  <2>4. PICK policy, subscription, mapping :
          /\ policy = Resource(o, IdWith(o, i, "QueuePolicy"), "queuePolicy", e.source, queues)
          /\ subscription = Resource(o, Id(o, i), "subscription", e.source, queues)
          /\ mapping = Resource(o, IdWith(o, i, "EventSourceMapping"), "mapping", NoSource, queues \cup {Target(o)})
    OBVIOUS
  <2>5. SnsResources(o, i) = QueueOf(o, i) \cup {policy, subscription, mapping}
    BY <1>2, <2>3, <2>4 DEF SnsResources, Subscription
  <2>6. {q, policy, subscription, mapping} \subseteq Created(truth)
    BY <2>2, <2>5
  <2>7. policy.type = "queuePolicy" /\ policy.source = e.source /\ policy.refs = queues
    BY <2>4, ResourceFields
  <2>8. mapping.type = "mapping" /\ mapping.refs = queues \cup {Target(o)}
    BY <2>4, ResourceFields
  <2>9. Triggers(Id(o, i), "subscription", q.id, truth)
    BY <2>3, <2>4, <2>6, ResourceTriggers
  <2>10. \E x, m \in Created(truth) :
           /\ x.type = QueueType(e)
           /\ Triggers(Id(o, i), "subscription", x.id, truth)
           /\ \E p \in Created(truth) : p.type = "queuePolicy" /\ p.source = e.source /\ x.id \in p.refs
           /\ m.type = "mapping" /\ {x.id, Target(o)} \subseteq m.refs
    BY <2>2, <2>3, <2>6, <2>7, <2>8, <2>9
  <2> QED BY <1>2, <2>10, KindsApart DEF Invokes, RuleKinds, SnsKinds
<1>3. CASE e.kind = "SNSOwnQueue"
  BY <1>3 DEF Invokes, RuleKinds
<1> QED BY <1>1, <1>2, <1>3 DEF SnsKinds

(* An IoT rule, a subscription filter or an Alexa skill.                   *)
LEMMA PlainInvoke ==
  ASSUME NEW o \in Owners, NEW i, NEW e, e = EventOf(o, i), e.kind \in PlainKinds, NEW truth,
         \A r \in PlainResources(o, i) : r \in Created(truth)
  PROVE  Invokes(o, i, truth)
<1>1. CASE e.kind = "IoTRule"
  <2>1. /\ Permission(o, i, Id(o, i)) \in Created(truth)
        /\ Resource(o, Id(o, i), "topicRule", NoSource, {Target(o)}) \in Created(truth)
    BY <1>1 DEF PlainResources
  <2>2. Target(o) \in {Target(o)}
    OBVIOUS
  <2>3. Permitted(Id(o, i), Target(o), truth)
    BY <2>1, PermissionPermits
  <2>4. Triggers(Id(o, i), "topicRule", Target(o), truth)
    BY <2>1, <2>2, ResourceTriggers
  <2> QED BY <1>1, <2>3, <2>4 DEF Invokes, RuleKinds
<1>2. CASE e.kind = "CloudWatchLogs"
  <2>1. PICK refs :
          /\ Target(o) \in refs
          /\ Permission(o, i, e.source) \in Created(truth)
          /\ Resource(o, Id(o, i), "filter", e.source, refs) \in Created(truth)
    BY <1>2 DEF PlainResources
  <2>2. Permitted(e.source, Target(o), truth)
    BY <2>1, PermissionPermits
  <2>3. Triggers(Id(o, i), "filter", Target(o), truth)
    BY <2>1, ResourceTriggers
  <2> QED BY <1>2, <2>2, <2>3 DEF Invokes, RuleKinds
<1>3. CASE e.kind = "AlexaSkill"
  <2>1. Permission(o, i, e.source) \in Created(truth)
    BY <1>3 DEF PlainResources
  <2>2. Permitted(e.source, Target(o), truth)
    BY <2>1, PermissionPermits
  <2> QED BY <1>3, <2>2 DEF Invokes, RuleKinds
<1> QED BY <1>1, <1>2, <1>3 DEF PlainKinds

(* A notification of a bucket.                                             *)
LEMMA BucketsInvoke ==
  ASSUME IInv, Returned, NEW o \in Functions, NEW i \in Numbers(o), NEW e, e = EventOf(o, i), e.kind = "S3",
         NEW truth, Holds(ConditionOf(o), truth)
  PROVE  Invokes(o, i, truth)
<1>1. PICK n : n = Notification(o, e)
  OBVIOUS
<1>2. Notified(o, i, e.source)
  BY AllDone DEF Tell, BucketsTold, Owners
<1>3. n \in buckets[e.source].notifications
  BY <1>1, <1>2 DEF Notified
<1>4. n.target = Target(o) /\ n.event = e.detail /\ n.condition = ConditionOf(o)
  BY <1>1 DEF Notification
<1>5. n \in Notifying(e.source, truth)
  BY <1>3, <1>4 DEF Notifying
<1>6. Permitted(e.source, Target(o), truth)
  BY BucketPermission DEF Permitted
<1> QED BY <1>4, <1>5, <1>6 DEF Invokes, RuleKinds

(* A trigger of a user pool, if the function has but one.                  *)
LEMMA PoolsInvoke ==
  ASSUME IInv, Returned, NEW o \in Functions, NEW i \in Numbers(o), NEW e, e = EventOf(o, i), e.kind = "Cognito",
         NEW truth, Holds(ConditionOf(o), truth), ~TwoPools(given.owners[o])
  PROVE  Invokes(o, i, truth)
<1>1. TriggerTold(o, e) /\ There(o) = resources
  BY AllDone DEF Tell, PoolsTell, Owners
<1>2. PICK p : p = CognitoPermission(o, e)
  OBVIOUS
<1>3. /\ p.type = "permission" /\ p.source = e.source /\ Target(o) \in p.refs
      /\ p.condition = ConditionOf(o)
  BY <1>2 DEF CognitoPermission, Resource
<1>4. p \in Created(truth)
  BY <1>1, <1>2, <1>3 DEF TriggerTold, Created
<1>5. Permitted(e.source, Target(o), truth)
  BY <1>3, <1>4 DEF Permitted
<1>6. pools[e.source][e.detail] = Target(o)
  BY <1>1 DEF TriggerTold
<1> QED BY <1>5, <1>6 DEF Invokes, RuleKinds

(* A route, if no two functions claim one path of a definition of one's    *)
(* own.                                                                    *)
LEMMA RoutesInvoke ==
  ASSUME IInv, Returned, NEW o \in Functions, NEW i \in Numbers(o), NEW e, e = EventOf(o, i), e.kind = "HttpApi",
         NEW truth, Holds(ConditionOf(o), truth), ~OwnPathTwice(given)
  PROVE  Invokes(o, i, truth)
<1>1. RouteTold(o, e) /\ There(o) = resources
  BY AllDone DEF Tell, RoutesTell, Owners
<1>2. \E r \in routes : r.api = e.source /\ r.path = e.detail /\ r.function = o
  BY <1>1 DEF RouteTold
<1>3. PICK path \in {e.detail, DefaultPath} : \E j \in Numbers(o) : Permission(o, j, <<e.source, path>>) \in resources
  BY <1>1 DEF RouteTold, RoutePermitted
<1>4. PICK j \in Numbers(o) : Permission(o, j, <<e.source, path>>) \in resources
  BY <1>3
<1>5. Permission(o, j, <<e.source, path>>).condition = ConditionOf(o)
  BY DEF Permission, Resource
<1>6. Permission(o, j, <<e.source, path>>) \in Created(truth)
  BY <1>4, <1>5 DEF Created
<1>7. Permitted(<<e.source, path>>, Target(o), truth)
  BY <1>6, PermissionPermits
<1> QED BY <1>2, <1>7 DEF Invokes, RuleKinds

(* Every event does what it says.                                          *)
LEMMA SourcesFromInvariant ==
  ASSUME IInv, \A f \in Functions : ~TwoPools(given.owners[f]), ~OwnPathTwice(given)
  PROVE  SourcesMayInvoke
<1> SUFFICES ASSUME Returned, NEW truth \in Truths, NEW o \in Owners, Holds(ConditionOf(o), truth),
                    NEW i \in Numbers(o)
             PROVE  Invokes(o, i, truth)
  BY DEF SourcesMayInvoke, Numbers
<1>1. PICK e : e = EventOf(o, i)
  OBVIOUS
<1>2. given \in Templates /\ Adds(o, i) \subseteq resources /\ Own(o, i, Adds(o, i))
  BY AllDone, AddsOwn
<1>3. \A r \in Adds(o, i) : r \in Created(truth)
  BY <1>2, CreatedWith
<1>4. e.kind \in FunctionKinds \cup MachineKinds
  BY <1>1, <1>2, TemplateParts
<1>5. e.kind \in SnsKinds \cup PullKinds \cup {"S3", "Cognito", "HttpApi"} => o \in Functions
  BY <1>1, <1>2, FunctionEvents
<1>6. CASE e.kind \in SnsKinds
  <2>1. Adds(o, i) = SnsResources(o, i)
    BY <1>1, <1>6, KindsApart DEF Adds
  <2> QED BY <1>1, <1>3, <1>6, <2>1, TopicsInvoke
<1>7. CASE e.kind \in PullKinds
  BY <1>1, <1>7 DEF Invokes, PullKinds, RuleKinds
<1>8. CASE e.kind = "S3"
  BY <1>1, <1>5, <1>8, BucketsInvoke
<1>9. CASE e.kind = "Cognito"
  BY <1>1, <1>5, <1>9, PoolsInvoke
<1>10. CASE e.kind = "HttpApi"
  BY <1>1, <1>5, <1>10, RoutesInvoke
<1>11. CASE e.kind \in RuleKinds \cup PlainKinds \cup {"ScheduleV2", "Api"}
  <2>1. Adds(o, i) = Resources(o, i)
    BY <1>1, <1>11, KindsApart DEF Adds
  <2>2. CASE e.kind \in RuleKinds
    BY <1>1, <1>3, <2>1, <2>2, RulesInvoke
  <2>3. CASE e.kind = "ScheduleV2"
    BY <1>1, <1>3, <2>1, <2>3, SchedulesInvoke
  <2>4. CASE e.kind \in PlainKinds
    <3>1. Resources(o, i) = PlainResources(o, i)
      BY <1>1, <2>4, KindsApart DEF Resources, RuleKinds
    <3> QED BY <1>1, <1>3, <2>1, <2>4, <3>1, PlainInvoke
  <2>5. CASE e.kind = "Api"
    BY <1>1, <2>5 DEF Invokes, RuleKinds
  <2> QED BY <1>11, <2>2, <2>3, <2>4, <2>5
<1> QED BY <1>4, <1>6, <1>7, <1>8, <1>9, <1>10, <1>11, KindsApart

(* What triggers a function or a state machine is there and may do so.     *)
THEOREM SourcesMayInvokeHolds ==
  Spec => []((\A f \in Functions : ~TwoPools(given.owners[f])) /\ ~OwnPathTwice(given) => SourcesMayInvoke)
<1>1. IInv => ((\A f \in Functions : ~TwoPools(given.owners[f])) /\ ~OwnPathTwice(given) => SourcesMayInvoke)
  BY SourcesFromInvariant
<1> QED BY <1>1, EventsInvariant, PTL

(* What a mapping needs is what its statements and its destination grant,  *)
(* but for the root certificate.                                           *)
LEMMA NeedsGranted ==
  ASSUME NEW owner, NEW e \in EventsOf(owner), ~RootCertificate(owner),
         e.kind \in PullKinds \cup {"SNSQueue", "SNSOwnQueue"}
  PROVE  Needs(e) \subseteq Statements(e) \cup SendsTo(e)
<1>1. {Secret(uri) : uri \in Uris(e, SecretTypes(e.kind))} \subseteq Statements(e)
  <2>1. CASE e.kind = "MSK"
    BY <2>1 DEF SecretTypes, Statements, MSKStatements
  <2>2. CASE e.kind = "MQ"
    BY <2>2 DEF SecretTypes, Statements, MQStatements
  <2>3. CASE e.kind = "DocumentDB"
    BY <2>3 DEF SecretTypes, Statements, DocumentDBStatements
  <2>4. CASE e.kind = "SelfManagedKafka"
    <3>1. Uris(e, {"SERVER_ROOT_CA_CERTIFICATE"}) \subseteq Uris(e, AuthTypes)
      BY <2>4 DEF RootCertificate
    <3>2. Uris(e, AuthTypes \cup {"SERVER_ROOT_CA_CERTIFICATE"})
            = Uris(e, AuthTypes) \cup Uris(e, {"SERVER_ROOT_CA_CERTIFICATE"})
      BY DEF Uris
    <3>3. SecretTypes(e.kind) = AuthTypes \cup {"SERVER_ROOT_CA_CERTIFICATE"}
      BY <2>4 DEF SecretTypes
    <3>4. {Secret(uri) : uri \in Uris(e, AuthTypes)} \subseteq Statements(e)
      BY <2>4 DEF Statements, KafkaStatements
    <3> QED BY <3>1, <3>2, <3>3, <3>4
  <2>5. CASE e.kind \notin {"MSK", "MQ", "DocumentDB", "SelfManagedKafka"}
    <3>1. Uris(e, SecretTypes(e.kind)) = {}
      BY <2>5 DEF SecretTypes, Uris
    <3> QED BY <3>1
  <2> QED BY <2>1, <2>2, <2>3, <2>4, <2>5
<1>2. e.kind \in {"MQ", "SelfManagedKafka", "DocumentDB"} => Key(e) \subseteq Statements(e)
  BY DEF Statements, MQStatements, KafkaStatements, DocumentDBStatements
<1>3. (IF Has(e, "toQueue") THEN {<<"send", e.source>>} ELSE {}) = SendsTo(e)
  BY DEF SendsTo
<1> QED BY <1>1, <1>2, <1>3 DEF Needs

(* Policies that grant something and have one name are of one event, or of *)
(* events whose policies have that name whatever they grant.               *)
LEMMA NamesTell ==
  ASSUME NEW f \in Functions, NEW i \in Numbers(f), NEW j \in Numbers(f),
         ~PolicyNamesClash(given.owners[f]),
         PolicyName(f, i) = PolicyName(f, j),
         Statements(EventOf(f, i)) # {}, Statements(EventOf(f, j)) # {}
  PROVE  Statements(EventOf(f, i)) = Statements(EventOf(f, j))
<1> DEFINE Kinds == {"MSK", "MQ", "SelfManagedKafka", "DocumentDB"}
<1>1. PICK d, e : d = EventOf(f, i) /\ e = EventOf(f, j)
  OBVIOUS
<1>2. d.kind \in Kinds /\ e.kind \in Kinds
  BY <1>1 DEF Statements
<1>3. d \in EventsOf(given.owners[f]) /\ e \in EventsOf(given.owners[f])
  BY <1>1 DEF EventsOf, EventOf, Numbers
<1>4. CASE d.kind = "MQ" /\ Has(d, "dynamicName")
  <2>1. PolicyName(f, i) = <<f, i, "AMQPolicy">>
    BY <1>1, <1>4 DEF PolicyName, IdWith
  <2>2. e.kind = "MQ" /\ Has(e, "dynamicName")
    BY <1>1, <1>2, <2>1 DEF PolicyName
  <2>3. PolicyName(f, j) = <<f, j, "AMQPolicy">>
    BY <1>1, <2>2 DEF PolicyName, IdWith
  <2>4. IdWith(f, i, "AMQPolicy") = IdWith(f, j, "AMQPolicy")
    BY <2>1, <2>3 DEF IdWith
  <2>5. i = j
    BY <2>4, IdsEqual
  <2> QED BY <2>5
<1>5. CASE e.kind = "MQ" /\ Has(e, "dynamicName")
  <2>1. PolicyName(f, j) = <<f, j, "AMQPolicy">>
    BY <1>1, <1>5 DEF PolicyName, IdWith
  <2>2. d.kind = "MQ" /\ Has(d, "dynamicName")
    BY <1>1, <1>2, <2>1 DEF PolicyName
  <2>3. PolicyName(f, i) = <<f, i, "AMQPolicy">>
    BY <1>1, <2>2 DEF PolicyName, IdWith
  <2>4. IdWith(f, i, "AMQPolicy") = IdWith(f, j, "AMQPolicy")
    BY <2>1, <2>3 DEF IdWith
  <2>5. i = j
    BY <2>4, IdsEqual
  <2> QED BY <2>5
<1>6. CASE /\ ~(d.kind = "MQ" /\ Has(d, "dynamicName"))
           /\ ~(e.kind = "MQ" /\ Has(e, "dynamicName"))
  <2>1. d.kind = e.kind
    BY <1>1, <1>2, <1>6 DEF PolicyName
  <2>2. Statements(d) # Statements(e) => PolicyNamesClash(given.owners[f])
    BY <1>2, <1>3, <1>6, <2>1 DEF PolicyNamesClash
  <2>3. Statements(d) = Statements(e)
    BY <2>2
  <2> QED BY <1>1, <2>3
<1> QED BY <1>4, <1>5, <1>6

(* No policy of an event has the name of one that sends.                   *)
LEMMA SendNames ==
  ASSUME NEW f, NEW i, NEW j
  PROVE  PolicyName(f, i) # IdWith(f, j, "SendPolicy")
<1>1. PolicyName(f, i) \in {<<"MSKExecutionRolePolicy">>, <<f, i, "AMQPolicy">>, <<"SamAutoGeneratedAMQPolicy">>,
                            <<"SelfManagedKafkaExecutionRolePolicy">>, <<"SamAutoGeneratedDocumentDBPolicy">>}
  BY DEF PolicyName, IdWith
<1>2. IdWith(f, j, "SendPolicy") = <<f, j, "SendPolicy">>
  BY DEF IdWith
<1> QED BY <1>1, <1>2

(* A role serves the mappings of its function, unless two policies of one  *)
(* name clash or there is a root certificate.                              *)
LEMMA RolesFromInvariant ==
  ASSUME IInv, \A f \in Functions : ~PolicyNamesClash(given.owners[f]) /\ ~RootCertificate(given.owners[f])
  PROVE  RolesServeMappings
<1> SUFFICES ASSUME Returned, NEW f \in Functions, given.owners[f].role
             PROVE  /\ \A i \in Numbers(f) :
                         EventOf(f, i).kind \in PullKinds \cup {"SNSQueue", "SNSOwnQueue"} =>
                           /\ Managed(EventOf(f, i).kind) \subseteq roles[f].managed
                           /\ Needs(EventOf(f, i)) \subseteq Grants(f)
                    /\ \A p, q \in roles[f].policies : p.name = q.name => p = q
  BY DEF RolesServeMappings, Numbers, Grants
<1>1. RolesTell
  BY AllDone DEF Tell
<1>2. ASSUME NEW i \in Numbers(f), NEW e, e = EventOf(f, i),
             e.kind \in PullKinds \cup {"SNSQueue", "SNSOwnQueue"}
      PROVE  Managed(e.kind) \subseteq roles[f].managed /\ Needs(e) \subseteq Grants(f)
  <2>1. Processed(f, i)
    BY AllDone DEF Owners
  <2>2. e.kind \in PullKinds \cup SnsKinds
    BY <1>2 DEF SnsKinds
  <2>3. Managed(e.kind) \subseteq roles[f].managed /\ Statements(e) \cup SendsTo(e) \subseteq Grants(f)
    BY <1>1, <1>2, <2>1, <2>2 DEF RolesTell
  <2>4. e \in EventsOf(given.owners[f]) /\ ~RootCertificate(given.owners[f])
    BY <1>2 DEF EventsOf, EventOf, Numbers
  <2>5. Needs(e) \subseteq Statements(e) \cup SendsTo(e)
    BY <1>2, <2>4, NeedsGranted
  <2> QED BY <2>3, <2>5
<1>3. ASSUME NEW p \in roles[f].policies, NEW q \in roles[f].policies, p.name = q.name
      PROVE  p = q
  <2>1. PICK i \in Numbers(f), j \in Numbers(f) : PolicyOf(f, i, p) /\ PolicyOf(f, j, q)
    BY <1>1 DEF RolesTell
  <2> DEFINE Sends(k, r) == r = [name |-> IdWith(f, k, "SendPolicy"), grants |-> SendsTo(EventOf(f, k))]
             Reads(k, r) == /\ r = [name |-> PolicyName(f, k), grants |-> Statements(EventOf(f, k))]
                            /\ Statements(EventOf(f, k)) # {}
  <2>2. (Sends(i, p) \/ Reads(i, p)) /\ (Sends(j, q) \/ Reads(j, q))
    BY <2>1 DEF PolicyOf
  <2>3. CASE Sends(i, p) /\ Sends(j, q)
    <3>1. IdWith(f, i, "SendPolicy") = IdWith(f, j, "SendPolicy")
      BY <1>3, <2>3
    <3>2. i = j
      BY <3>1, IdsEqual
    <3> QED BY <2>3, <3>2
  <2>4. CASE Reads(i, p) /\ Reads(j, q)
    <3>1. PolicyName(f, i) = PolicyName(f, j)
      BY <1>3, <2>4
    <3>2. Statements(EventOf(f, i)) = Statements(EventOf(f, j))
      BY <2>4, <3>1, NamesTell
    <3> QED BY <2>4, <3>1, <3>2
  <2>5. CASE Reads(i, p) /\ Sends(j, q)
    BY <1>3, <2>5, SendNames
  <2>6. CASE Sends(i, p) /\ Reads(j, q)
    BY <1>3, <2>6, SendNames
  <2> QED BY <2>2, <2>3, <2>4, <2>5, <2>6
<1> QED BY <1>2, <1>3

(* The execution role of a function may do what its mappings need.         *)
THEOREM RolesServeMappingsHolds ==
  Spec => []((\A f \in Functions : ~PolicyNamesClash(given.owners[f]) /\ ~RootCertificate(given.owners[f]))
               => RolesServeMappings)
<1>1. IInv => ((\A f \in Functions : ~PolicyNamesClash(given.owners[f]) /\ ~RootCertificate(given.owners[f]))
                 => RolesServeMappings)
  BY RolesFromInvariant
<1> QED BY <1>1, EventsInvariant, PTL
=============================================================================
