----------------------------- MODULE EventSources -----------------------------
(***************************************************************************)
(* What the events of functions and state machines become: rules,          *)
(* schedules, subscriptions and mappings, the permission or the role each  *)
(* of them works with, the queues SAM makes for them, and what they change *)
(* in resources of the template: buckets, user pools, HTTP APIs and the    *)
(* execution role of the function.                                         *)
(*                                                                         *)
(* A resource is what other resources can tell of it: its id, type and     *)
(* condition, the source a permission is for, and the ids it refers to.    *)
(***************************************************************************)
EXTENDS Integers, Sequences, FiniteSets

CONSTANTS
  Functions, Machines,     \* owners of events: functions and state machines
  Conditions,              \* conditions of the template
  Sources,                 \* buckets, user pools, topics, queues, streams, APIs...
  Secrets,                 \* URIs of secrets
  NoCondition, NoSource,
  Templates                \* the templates considered, see Template

Owners == Functions \cup Machines

RuleKinds == {"Schedule", "EventBridgeRule"}  \* CloudWatchEvent is an EventBridgeRule
SnsKinds == {"SNS", "SNSQueue", "SNSOwnQueue"}
PlainKinds == {"AlexaSkill", "IoTRule", "CloudWatchLogs"}
PullKinds == {"Kinesis", "DynamoDB", "SQS", "MSK", "MQ", "SelfManagedKafka", "DocumentDB"}
FunctionKinds ==
  RuleKinds \cup SnsKinds \cup PlainKinds \cup PullKinds \cup {"ScheduleV2", "S3", "Cognito", "HttpApi"}
MachineKinds == RuleKinds \cup {"ScheduleV2", "Api"}

Options ==
  {"state", "enabled", "name", "omitName", "ownRole",
   "dlqArn", "dlqType", "dlqOtherType", "dlqEmpty",      \* keys of DeadLetterConfig
   "noQueueUrl",                                         \* of SqsSubscription
   "consumerGroup", "badFilter", "registry", "dynamicName", "kms", "noServers",
   "toQueue", "toKafka", "toLambda", "noOnFailure"}      \* DestinationConfig

AuthTypes == {"BASIC_AUTH", "SASL_SCRAM_512_AUTH", "CLIENT_CERTIFICATE_TLS_AUTH"}
AccessTypes ==
  AuthTypes \cup {"VIRTUAL_HOST", "VPC_SUBNET", "VPC_SECURITY_GROUP", "SERVER_ROOT_CA_CERTIFICATE"}

(* detail tells events of one source apart: the S3 event, the trigger of a *)
(* user pool, the path of an HTTP API.                                     *)
Event ==
  [kind : FunctionKinds \cup MachineKinds, source : Sources \cup {NoSource}, detail : STRING,
   options : SUBSET Options, access : SUBSET (AccessTypes \X Secrets)]

Owner ==
  [condition : Conditions \cup {NoCondition}, alias : BOOLEAN, role : BOOLEAN, events : Seq(Event)]

(* absent: sources events name that the template does not have; fifo:      *)
(* topics that are FIFO; managed: HTTP APIs whose definition SAM makes.    *)
Template ==
  [owners : [Owners -> Owner], absent : SUBSET Sources, fifo : SUBSET Sources, managed : SUBSET Sources]

(* The bucket, pool or API of an event of these kinds is always known.     *)
ASSUME EventsAssumption ==
  /\ Functions \cap Machines = {}
  /\ NoCondition \notin Conditions /\ NoSource \notin Sources
  /\ \A t \in Templates :
       /\ t \in Template
       /\ \A o \in Owners : \A i \in DOMAIN t.owners[o].events :
            LET e == t.owners[o].events[i] IN
            /\ e.kind \in IF o \in Functions THEN FunctionKinds ELSE MachineKinds
            /\ e.kind \in {"S3", "Cognito", "HttpApi"} => e.source \in Sources

VARIABLES
  given,     \* the template
  todo,      \* owners still to translate
  current,   \* the owner that is translated, {} or {owner}
  left,      \* its events still to translate
  made,      \* resources of its events so far
  buckets,   \* [source -> [notifications, dependsOn, tags]], changed in place
  pools,     \* [source -> [trigger -> target]], changed in place
  routes,    \* integrations of HTTP APIs, changed in place
  roles,     \* what the execution roles may do
  resources, \* what is in the template already
  failed     \* owners that were refused

vars == <<given, todo, current, left, made, buckets, pools, routes, roles, resources, failed>>
shared == <<buckets, pools, routes, roles>>

Untouched == [notifications |-> {}, dependsOn |-> {}, tags |-> {}]

Init ==
  /\ given \in Templates
  /\ todo = Owners
  /\ current = {} /\ left = {} /\ made = {}
  /\ buckets = [s \in Sources |-> Untouched]
  /\ pools = [s \in Sources |-> [t \in {} |-> {}]]
  /\ routes = {}
  /\ roles = [f \in Functions |-> [managed |-> {}, policies |-> {}]]
  /\ resources = {}
  /\ failed = {}

EventOf(o, i) == given.owners[o].events[i]
Has(e, option) == option \in e.options

(* Events are attached to the alias of a function that has one.  An alias  *)
(* has the condition of its function.                                      *)
ConditionOf(o) == given.owners[o].condition
Target(o) == IF given.owners[o].alias THEN <<o, 0, "Alias">> ELSE <<o>>

(* Logical ids: the owner's, the event's and a suffix.                     *)
Id(o, i) == <<o, i, "">>
IdWith(o, i, suffix) == <<o, i, suffix>>

Resource(o, id, type, source, refs) ==
  [id |-> id, type |-> type, condition |-> ConditionOf(o), source |-> source, refs |-> refs]

(* _construct_permission                                                   *)
Permission(o, i, source) ==
  Resource(o, IdWith(o, i, "Permission"), "permission", source, {Target(o)})

-----------------------------------------------------------------------------
(* Dead-letter queues of rules and schedules.                              *)
HasDeadLetter(e) == e.options \cap {"dlqArn", "dlqType", "dlqOtherType", "dlqEmpty"} # {}
BadDeadLetter(e) ==
  /\ HasDeadLetter(e)
  /\ \/ Has(e, "dlqArn") /\ e.options \cap {"dlqType", "dlqOtherType"} # {}
     \/ Has(e, "dlqOtherType")
     \/ Has(e, "dlqEmpty")
MakesQueue(e) == HasDeadLetter(e) /\ ~Has(e, "dlqArn")

QueueIds(o, i) == IF MakesQueue(EventOf(o, i)) THEN {IdWith(o, i, "Queue")} ELSE {}
Queues(o, i) == {Resource(o, id, "queue", NoSource, {}) : id \in QueueIds(o, i)}

DeadLetter_NoPolicy(o, i) == Queues(o, i)
DeadLetter(o, i) ==
  Queues(o, i) \cup
  {Resource(o, IdWith(o, i, "QueuePolicy"), "queuePolicy", Id(o, i), {id, Id(o, i)}) : id \in QueueIds(o, i)}

(* The role of an event of a state machine, which may start it.            *)
MachineRole(o, i) == Resource(o, IdWith(o, i, "Role"), "role", Id(o, i), {Target(o)})

(* Schedule and EventBridgeRule: a function is invoked by permission, a    *)
(* state machine is started by a role, its own or, for a Schedule, given.  *)
BadRule(e) == Has(e, "state") /\ Has(e, "enabled")
FunctionRule(o, i) ==
  {Resource(o, Id(o, i), "rule", NoSource, {Target(o)} \cup QueueIds(o, i)), Permission(o, i, Id(o, i))}
    \cup DeadLetter(o, i)
ScheduleOfFunction(o, i) == FunctionRule(o, i)
EventBridgeRuleOfFunction(o, i) == FunctionRule(o, i)

MachineRule(o, i, role) ==
  {Resource(o, Id(o, i), "rule", NoSource, {Target(o)} \cup QueueIds(o, i) \cup {r.id : r \in role})}
    \cup DeadLetter(o, i) \cup role
ScheduleOfMachine(o, i) ==
  MachineRule(o, i, IF Has(EventOf(o, i), "ownRole") THEN {} ELSE {MachineRole(o, i)})
EventBridgeRuleOfMachine(o, i) == MachineRule(o, i, {MachineRole(o, i)})

(* ScheduleV2 works with a role for functions too, which may also send to  *)
(* the dead-letter queue: there is no queue policy.                        *)
BadSchedule(e) == Has(e, "omitName") /\ Has(e, "name")

SchedulerResources(o, i) ==
  LET e == EventOf(o, i)
      role == Resource(o, IdWith(o, i, "Role"), "role", Id(o, i), {Target(o)} \cup QueueIds(o, i))
      own == IF Has(e, "ownRole") THEN {} ELSE {role} IN
  {Resource(o, Id(o, i), "schedule", NoSource, {Target(o)} \cup QueueIds(o, i) \cup {r.id : r \in own})}
    \cup Queues(o, i) \cup own

(* AlexaSkill has nothing but the permission; a subscription filter also   *)
(* waits for it.                                                           *)
PlainResources(o, i) ==
  LET e == EventOf(o, i)
      permission == Permission(o, i, IF e.kind = "IoTRule" THEN Id(o, i) ELSE e.source) IN
  CASE e.kind = "IoTRule" ->
         {permission, Resource(o, Id(o, i), "topicRule", NoSource, {Target(o)})}
    [] e.kind = "CloudWatchLogs" ->
         {permission, Resource(o, Id(o, i), "filter", e.source, {Target(o), permission.id})}
    [] OTHER -> {permission}

-----------------------------------------------------------------------------
(* SNS: to the function, to a queue that is made, or to one that is there. *)
(* A queue needs a policy, a mapping and a role that reads from it.        *)
BadSubscription(e) == e.kind = "SNSOwnQueue" /\ Has(e, "noQueueUrl")

Subscription(o, i, endpoints) == Resource(o, Id(o, i), "subscription", EventOf(o, i).source, endpoints)

QueueType(e) == IF e.source \in given.fifo THEN "fifoQueue" ELSE "queue"
QueueOf(o, i) ==
  IF EventOf(o, i).kind = "SNSQueue"
    THEN {Resource(o, IdWith(o, i, "Queue"), QueueType(EventOf(o, i)), NoSource, {})}
    ELSE {}

SnsResources(o, i) ==
  LET e == EventOf(o, i)
      queues == {q.id : q \in QueueOf(o, i)} IN
  IF e.kind = "SNS"
    THEN {Permission(o, i, e.source), Subscription(o, i, {Target(o)})}
    ELSE QueueOf(o, i) \cup
         {Resource(o, IdWith(o, i, "QueuePolicy"), "queuePolicy", e.source, queues),
          Subscription(o, i, queues),
          Resource(o, IdWith(o, i, "EventSourceMapping"), "mapping", NoSource, queues \cup {Target(o)})}

-----------------------------------------------------------------------------
(* Event source mappings.  What get_policy_arn and get_policy_statements   *)
(* give the execution role: managed policies by the kind, and policies     *)
(* with the secrets, brokers, keys and queues the mapping names.           *)
Secret(uri) == <<"secret", uri>>
Uris(e, types) == {a[2] : a \in {b \in e.access : b[1] \in types}}

Managed(kind) ==
  CASE kind = "Kinesis" -> {"AWSLambdaKinesisExecutionRole"}
    [] kind = "DynamoDB" -> {"AWSLambdaDynamoDBExecutionRole"}
    [] kind \in {"SQS", "SNSQueue", "SNSOwnQueue"} -> {"AWSLambdaSQSQueueExecutionRole"}
    [] kind = "MSK" -> {"AWSLambdaMSKExecutionRole"}
    [] OTHER -> {}

Registry(e) == IF Has(e, "registry") THEN {<<"glue", e.source>>} ELSE {}
Key(e) == IF Has(e, "kms") THEN {<<"kms", e.source>>} ELSE {}

(* _validate_source_access_configurations and get_secret_key               *)
Sole(e, supported, required) ==
  /\ \A a \in e.access : a[1] \in supported
  /\ Cardinality(Uris(e, {required})) = 1

BadKafka(e) ==
  \/ Has(e, "noServers")
  \/ e.access = {}
  \/ \E a \in e.access : a[1] = "VIRTUAL_HOST"
  \/ Cardinality({a \in e.access : a[1] \in AuthTypes}) > 1
  \/ (Uris(e, {"VPC_SUBNET"}) = {}) # (Uris(e, {"VPC_SECURITY_GROUP"}) = {})

BadAccess(e) ==
  \/ e.kind = "MQ" /\ ~Sole(e, {"BASIC_AUTH", "VIRTUAL_HOST"}, "BASIC_AUTH")
  \/ e.kind = "DocumentDB" /\ ~Sole(e, {"BASIC_AUTH"}, "BASIC_AUTH")
  \/ e.kind = "SelfManagedKafka" /\ BadKafka(e)

NetworkAccess == <<"network", NoSource>>

MSKStatements(e) ==
  Registry(e) \cup {Secret(uri) : uri \in Uris(e, {"CLIENT_CERTIFICATE_TLS_AUTH"})}
MQStatements(e) ==
  {Secret(uri) : uri \in Uris(e, {"BASIC_AUTH"})} \cup {<<"mq", e.source>>} \cup Key(e)
(* For a root certificate the secret of the login is granted once more,    *)
(* whether there is one or not.                                            *)
KafkaStatements(e) ==
  {Secret(uri) : uri \in Uris(e, AuthTypes)}
    \cup (IF Uris(e, AuthTypes) = {} /\ Uris(e, {"SERVER_ROOT_CA_CERTIFICATE"}) # {}
            THEN {Secret(NoSource)} ELSE {})
    \cup (IF Uris(e, {"VPC_SUBNET"}) # {} THEN {NetworkAccess} ELSE {})
    \cup Key(e) \cup Registry(e)
DocumentDBStatements(e) ==
  {Secret(uri) : uri \in Uris(e, {"BASIC_AUTH"})} \cup {<<"rds", e.source>>, NetworkAccess} \cup Key(e)

Statements(e) ==
  CASE e.kind = "MSK" -> MSKStatements(e)
    [] e.kind = "MQ" -> MQStatements(e)
    [] e.kind = "SelfManagedKafka" -> KafkaStatements(e)
    [] e.kind = "DocumentDB" -> DocumentDBStatements(e)
    [] OTHER -> {}

PolicyName(o, i) ==
  LET e == EventOf(o, i) IN
  CASE e.kind = "MSK" -> <<"MSKExecutionRolePolicy">>
    [] e.kind = "MQ" ->
         IF Has(e, "dynamicName") THEN IdWith(o, i, "AMQPolicy") ELSE <<"SamAutoGeneratedAMQPolicy">>
    [] e.kind = "SelfManagedKafka" -> <<"SelfManagedKafkaExecutionRolePolicy">>
    [] OTHER -> <<"SamAutoGeneratedDocumentDBPolicy">>

(* DestinationConfig: an OnFailure queue, topic or bucket with a Type is   *)
(* one the role may send to, a Kafka topic needs no policy.                *)
BadDestination(e) == Has(e, "noOnFailure") \/ Has(e, "toLambda")
SendsTo(e) == IF Has(e, "toQueue") THEN {<<"send", e.source>>} ELSE {}

BadMapping(e) ==
  \/ Has(e, "badFilter")
  \/ Has(e, "consumerGroup") /\ e.kind \notin {"MSK", "SelfManagedKafka"}
  \/ BadDestination(e)
  \/ BadAccess(e)

(* _link_policy: a policy that says what another one says is not added.    *)
AddPolicy_ByName(policies, name, grants) ==
  IF \E p \in policies : p.name = name
    THEN policies ELSE policies \cup {[name |-> name, grants |-> grants]}
AddPolicy(policies, name, grants) ==
  IF grants = {} \/ \E p \in policies : p.grants = grants
    THEN policies ELSE policies \cup {[name |-> name, grants |-> grants]}

LinkPolicy(role, o, i) ==
  LET e == EventOf(o, i) IN
  [managed |-> role.managed \cup Managed(e.kind),
   policies |-> AddPolicy(AddPolicy(role.policies, PolicyName(o, i), Statements(e)),
                          IdWith(o, i, "SendPolicy"), SendsTo(e))]

LinkRole(o, i) ==
  roles' = IF given.owners[o].role
             THEN [roles EXCEPT ![o] = LinkPolicy(@, o, i)]
             ELSE roles  \* a Role was given

-----------------------------------------------------------------------------
(* S3 and Cognito change resources of the template in place.  A bucket     *)
(* must wait for permissions: DependsOn cannot be conditional, so that one *)
(* that is gets a tag that refers to it under its condition.               *)
Linked(kind) == kind \in {"S3", "Cognito"}
Missing(e) == Linked(e.kind) /\ e.source \in given.absent

Notification(o, e) == [target |-> Target(o), event |-> e.detail, condition |-> ConditionOf(o)]

DependOn_Plain(bucket, permission) == [bucket EXCEPT !.dependsOn = @ \cup {permission.id}]
DependOn_Unconditional(bucket, permission) ==
  IF permission.condition = NoCondition
    THEN [bucket EXCEPT !.dependsOn = @ \cup {permission.id}]
    ELSE bucket
DependOn(bucket, permission) ==
  IF permission.condition = NoCondition
    THEN [bucket EXCEPT !.dependsOn = @ \cup {permission.id}]
    ELSE [bucket EXCEPT !.tags = @ \cup {[id |-> permission.id, condition |-> permission.condition]}]

Notify(bucket, o, i) ==
  LET e == EventOf(o, i) IN
  [DependOn(bucket, Permission(o, i, e.source)) EXCEPT
     !.notifications = @ \cup {Notification(o, e)}]

(* A function has one permission for its user pools, whatever their number.*)
CognitoPermission(o, e) ==
  Resource(o, <<o, 0, "CognitoPermission">>, "permission", e.source, {Target(o)})
TriggerTaken(e) == e.detail \in DOMAIN pools[e.source]

-----------------------------------------------------------------------------
(* HttpApi.  The event on $default comes first and its permission, for all *)
(* paths, serves the function's other events on that API too.              *)
Route(o, e) == [api |-> e.source, path |-> e.detail, function |-> o, condition |-> ConditionOf(o)]
HasIntegration(e) == \E r \in routes : r.api = e.source /\ r.path = e.detail
IsManaged(e) == e.source \in given.managed
BadRoute(e) == IsManaged(e) /\ HasIntegration(e)

DefaultPath == "$default"
(* The route to an alias is not recognised as one to the function.         *)
ServedByDefault_AnyFunction(o, e) ==
  e.detail # DefaultPath /\ \E r \in routes : r.api = e.source /\ r.path = DefaultPath
ServedByDefault(o, e) ==
  /\ e.detail # DefaultPath
  /\ ~given.owners[o].alias
  /\ \E r \in routes : r.api = e.source /\ r.path = DefaultPath /\ r.function = o

RoutePermissions(o, i) ==
  LET e == EventOf(o, i) IN
  IF ServedByDefault(o, e) THEN {} ELSE {Permission(o, i, <<e.source, e.detail>>)}

-----------------------------------------------------------------------------
(* Translation of an owner: its events are linked to resources of the      *)
(* template first, all of them, then translated one by one.  Functions     *)
(* come before state machines.                                             *)
Begin(o) ==
  /\ current = {} /\ o \in todo
  /\ o \in Machines => todo \cap Functions = {}
  /\ todo' = todo \ {o}
  /\ made' = {}
  /\ IF \E i \in DOMAIN given.owners[o].events : Missing(EventOf(o, i))
       THEN failed' = failed \cup {o} /\ UNCHANGED <<current, left>>
       ELSE /\ current' = {o}
            /\ left' = DOMAIN given.owners[o].events
            /\ UNCHANGED failed
  /\ UNCHANGED <<given, shared, resources>>

(* sorted(..., key=order_events): paths come before names of events, and   *)
(* $default before other paths.                                            *)
Rank(e) == IF e.kind = "HttpApi" THEN IF e.detail = DefaultPath THEN 0 ELSE 1 ELSE 2
Before(o, i, j) ==
  LET a == Rank(EventOf(o, i))
      b == Rank(EventOf(o, j)) IN
  (o \in Functions /\ a < b) \/ ((o \in Machines \/ a = b) /\ i < j)
NextEvent(o, i) == current = {o} /\ i \in left /\ \A j \in left \ {i} : Before(o, i, j)

(* What an event becomes replaces what had its ids.                        *)
Put(there, new) == {r \in there : \A n \in new : n.id # r.id} \cup new
Produce(i, new) == made' = Put(made, new) /\ left' = left \ {i}

Refused(o, e) ==
  \/ e.kind \in RuleKinds /\ (BadRule(e) \/ BadDeadLetter(e))
  \/ e.kind = "ScheduleV2" /\ (BadSchedule(e) \/ BadDeadLetter(e))
  \/ e.kind \in SnsKinds /\ BadSubscription(e)
  \/ e.kind \in PullKinds /\ BadMapping(e)
  \/ e.kind = "Cognito" /\ TriggerTaken(e)
  \/ e.kind = "HttpApi" /\ BadRoute(e)

RefuseEvent(o, i) ==
  /\ NextEvent(o, i)
  /\ Refused(o, EventOf(o, i))
  /\ failed' = failed \cup {o}
  /\ current' = {} /\ left' = {}
  /\ UNCHANGED <<given, todo, made, shared, resources>>

(* Events that change nothing but what they add.                           *)
Resources(o, i) ==
  LET kind == EventOf(o, i).kind IN
  CASE kind = "Schedule" ->
         IF o \in Functions THEN ScheduleOfFunction(o, i) ELSE ScheduleOfMachine(o, i)
    [] kind = "EventBridgeRule" ->
         IF o \in Functions THEN EventBridgeRuleOfFunction(o, i) ELSE EventBridgeRuleOfMachine(o, i)
    [] kind = "ScheduleV2" -> SchedulerResources(o, i)
    [] kind \in PlainKinds -> PlainResources(o, i)
    [] OTHER -> {MachineRole(o, i)}  \* Api, of a state machine

AddResources(o, i) ==
  /\ NextEvent(o, i)
  /\ EventOf(o, i).kind \in RuleKinds \cup PlainKinds \cup {"ScheduleV2", "Api"}
  /\ ~Refused(o, EventOf(o, i))
  /\ Produce(i, Resources(o, i))
  /\ UNCHANGED <<given, todo, current, shared, resources, failed>>

Subscribe(o, i) ==
  /\ NextEvent(o, i)
  /\ EventOf(o, i).kind \in SnsKinds
  /\ ~Refused(o, EventOf(o, i))
  /\ Produce(i, SnsResources(o, i))
  /\ LinkRole(o, i)
  /\ UNCHANGED <<given, todo, current, buckets, pools, routes, resources, failed>>

Map(o, i) ==
  /\ NextEvent(o, i)
  /\ EventOf(o, i).kind \in PullKinds
  /\ ~Refused(o, EventOf(o, i))
  /\ Produce(i, {Resource(o, Id(o, i), "mapping", EventOf(o, i).source, {Target(o)})})
  /\ LinkRole(o, i)
  /\ UNCHANGED <<given, todo, current, buckets, pools, routes, resources, failed>>

NotifyFromBucket(o, i) ==
  LET e == EventOf(o, i) IN
  /\ NextEvent(o, i)
  /\ e.kind = "S3"
  /\ Produce(i, {Permission(o, i, e.source)})
  /\ buckets' = [buckets EXCEPT ![e.source] = Notify(@, o, i)]
  /\ UNCHANGED <<given, todo, current, pools, routes, roles, resources, failed>>

Trigger(o, i) ==
  LET e == EventOf(o, i) IN
  /\ NextEvent(o, i)
  /\ e.kind = "Cognito" /\ ~Refused(o, e)
  /\ Produce(i, {CognitoPermission(o, e)})
  /\ pools' = [pools EXCEPT ![e.source] =
                 [t \in DOMAIN @ \cup {e.detail} |-> IF t = e.detail THEN Target(o) ELSE @[t]]]
  /\ UNCHANGED <<given, todo, current, buckets, routes, roles, resources, failed>>

(* An integration that is there already stays, in a definition of one's    *)
(* own.                                                                    *)
AddRoute(o, i) ==
  LET e == EventOf(o, i) IN
  /\ NextEvent(o, i)
  /\ e.kind = "HttpApi" /\ ~Refused(o, e)
  /\ Produce(i, RoutePermissions(o, i))
  /\ routes' = IF HasIntegration(e) THEN routes ELSE routes \cup {Route(o, e)}
  /\ UNCHANGED <<given, todo, current, buckets, pools, roles, resources, failed>>

Finish(o) ==
  /\ current = {o} /\ left = {}
  /\ resources' = Put(resources, made)
  /\ current' = {}
  /\ UNCHANGED <<given, todo, left, made, shared, failed>>

Next ==
  \E o \in Owners :
    \/ Begin(o) \/ Finish(o)
    \/ \E i \in left :
         \/ RefuseEvent(o, i) \/ AddResources(o, i) \/ Subscribe(o, i) \/ Map(o, i)
         \/ NotifyFromBucket(o, i) \/ Trigger(o, i) \/ AddRoute(o, i)

Spec == Init /\ [][Next]_vars
-----------------------------------------------------------------------------
ResourceTypes ==
  {"rule", "schedule", "permission", "role", "queue", "fifoQueue", "queuePolicy", "subscription",
   "mapping", "filter", "topicRule"}

TypeOK ==
  /\ todo \subseteq Owners /\ failed \subseteq Owners
  /\ current \subseteq Owners /\ Cardinality(current) <= 1
  /\ left \subseteq Nat
  /\ \A r \in made \cup resources :
       /\ r.type \in ResourceTypes
       /\ r.condition \in Conditions \cup {NoCondition}
       /\ r.id[1] \in Owners
       /\ \A q \in made : q.id = r.id => q = r \/ r \in resources
  /\ \A s \in Sources : \A t \in DOMAIN pools[s] : pools[s][t] \in {Target(o) : o \in Functions}
  /\ \A s \in Sources : \A n \in buckets[s].notifications : n.target \in {Target(o) : o \in Functions}
  /\ \A r \in routes : r.function \in Functions

Returned == todo = {} /\ current = {} /\ failed = {}

(* What the code is known not to serve, of an owner and of a template: a   *)
(* pool's trigger cannot have a function's condition; a function with two  *)
(* pools keeps the permission of one; two policies of one name with        *)
(* different grants; the root certificate of a Kafka cluster, for which    *)
(* the role gets the other secret once more; and a path that two functions *)
(* claim in a definition of one's own.                                     *)
EventsOf(owner) == {owner.events[i] : i \in DOMAIN owner.events}
ConditionalTrigger(owner) ==
  owner.condition # NoCondition /\ \E e \in EventsOf(owner) : e.kind = "Cognito"
TwoPools(owner) ==
  \E d, e \in EventsOf(owner) : d.kind = "Cognito" /\ e.kind = "Cognito" /\ d.source # e.source
PolicyNamesClash(owner) ==
  \E d, e \in EventsOf(owner) :
    /\ d.kind = e.kind /\ d.kind \in {"MSK", "MQ", "SelfManagedKafka", "DocumentDB"}
    /\ d.kind = "MQ" => ~Has(d, "dynamicName") /\ ~Has(e, "dynamicName")
    /\ Statements(d) # Statements(e)
RootCertificate(owner) ==
  \E e \in EventsOf(owner) :
    /\ e.kind = "SelfManagedKafka"
    /\ ~(Uris(e, {"SERVER_ROOT_CA_CERTIFICATE"}) \subseteq Uris(e, AuthTypes))
OwnPathTwice(t) ==
  \E f, g \in Functions :
    /\ f # g
    /\ \E d \in EventsOf(t.owners[f]), e \in EventsOf(t.owners[g]) :
         /\ d.kind = "HttpApi" /\ e.kind = "HttpApi"
         /\ d.source = e.source /\ d.detail = e.detail /\ d.source \notin t.managed

(* Whatever the conditions of the template are worth.                      *)
Truths == [Conditions -> BOOLEAN]
Holds(c, truth) == c = NoCondition \/ truth[c]
Created(truth) == {r \in resources : Holds(r.condition, truth)}
OwnerIds(truth) ==
  UNION {{<<o>>, Target(o)} : o \in {p \in Owners : Holds(ConditionOf(p), truth)}}
Ids(truth) == OwnerIds(truth) \cup {r.id : r \in Created(truth)}

Notifying(s, truth) == {n \in buckets[s].notifications : Holds(n.condition, truth)}
Waits(s, truth) == buckets[s].dependsOn \cup {t.id : t \in {u \in buckets[s].tags : Holds(u.condition, truth)}}

(* What is created refers to what is created: the targets of rules,        *)
(* mappings, notifications, triggers and routes, their roles and queues,   *)
(* and the permissions that buckets wait for.                              *)
NothingDangles ==
  Returned =>
    \A truth \in Truths :
      /\ \A r \in Created(truth) : r.refs \subseteq Ids(truth)
      /\ \A s \in Sources :
           /\ {n.target : n \in Notifying(s, truth)} \cup Waits(s, truth) \subseteq Ids(truth)
           /\ {pools[s][t] : t \in DOMAIN pools[s]} \subseteq Ids(truth)
      /\ \A r \in routes : Holds(r.condition, truth) => Target(r.function) \in Ids(truth)

Permitted(source, target, truth) ==
  \E p \in Created(truth) : p.type = "permission" /\ p.source = source /\ target \in p.refs
Triggers(id, type, target, truth) ==
  \E r \in Created(truth) : r.id = id /\ r.type = type /\ target \in r.refs
StartedByRole(id, type, target, truth) ==
  \E r, role \in Created(truth) :
    /\ r.id = id /\ r.type = type /\ target \in r.refs
    /\ role.type = "role" /\ role.id \in r.refs /\ target \in role.refs

(* An event does what it says: when its function or state machine is       *)
(* created, so is what triggers it, and that may trigger it: there is a    *)
(* permission for just that source, or a role.                             *)
Invokes(o, i, truth) ==
  LET e == EventOf(o, i)  target == Target(o) IN
  CASE e.kind \in RuleKinds /\ o \in Functions ->
         Triggers(Id(o, i), "rule", target, truth) /\ Permitted(Id(o, i), target, truth)
    [] e.kind \in RuleKinds /\ o \in Machines ->
         IF e.kind = "Schedule" /\ Has(e, "ownRole")
           THEN Triggers(Id(o, i), "rule", target, truth)
           ELSE StartedByRole(Id(o, i), "rule", target, truth)
    [] e.kind = "ScheduleV2" ->
         IF Has(e, "ownRole") THEN Triggers(Id(o, i), "schedule", target, truth)
                              ELSE StartedByRole(Id(o, i), "schedule", target, truth)
    [] e.kind = "SNS" ->
         Triggers(Id(o, i), "subscription", target, truth) /\ Permitted(e.source, target, truth)
    [] e.kind = "SNSQueue" ->
         \E q, m \in Created(truth) :
           /\ q.type = QueueType(e)
           /\ Triggers(Id(o, i), "subscription", q.id, truth)
           /\ \E p \in Created(truth) : p.type = "queuePolicy" /\ p.source = e.source /\ q.id \in p.refs
           /\ m.type = "mapping" /\ {q.id, target} \subseteq m.refs
    [] e.kind = "IoTRule" ->
         Triggers(Id(o, i), "topicRule", target, truth) /\ Permitted(Id(o, i), target, truth)
    [] e.kind = "CloudWatchLogs" ->
         Triggers(Id(o, i), "filter", target, truth) /\ Permitted(e.source, target, truth)
    [] e.kind = "AlexaSkill" -> Permitted(e.source, target, truth)
    [] e.kind = "S3" ->
         /\ \E n \in Notifying(e.source, truth) : n.target = target /\ n.event = e.detail
         /\ Permitted(e.source, target, truth)
    [] e.kind = "Cognito" ->
         pools[e.source][e.detail] = target /\ Permitted(e.source, target, truth)
    [] e.kind = "HttpApi" ->
         (\E r \in routes : r.api = e.source /\ r.path = e.detail /\ r.function = o)
           /\ \E path \in {e.detail, DefaultPath} : Permitted(<<e.source, path>>, target, truth)
    [] OTHER -> TRUE

SourcesMayInvoke ==
  Returned =>
    \A truth \in Truths, o \in Owners : Holds(ConditionOf(o), truth) =>
      \A i \in DOMAIN given.owners[o].events : Invokes(o, i, truth)

(* S3 checks, when it is told of a notification, that it may invoke the    *)
(* function: a bucket waits for the permission of each of its              *)
(* notifications, of functions with a condition too.                       *)
BucketsWait ==
  Returned =>
    \A truth \in Truths, s \in Sources : \A n \in Notifying(s, truth) :
      \E p \in Created(truth) :
        p.type = "permission" /\ p.source = s /\ n.target \in p.refs /\ p.id \in Waits(s, truth)

(* A dead-letter queue that is asked for is there with the rule or the     *)
(* schedule, which may send to it: by a policy of the queue, or by the     *)
(* role it works with.                                                     *)
DeadLettersArrive ==
  Returned =>
    \A truth \in Truths, o \in Owners : Holds(ConditionOf(o), truth) =>
      \A i \in DOMAIN given.owners[o].events :
        LET e == EventOf(o, i) IN
        e.kind \in RuleKinds \cup {"ScheduleV2"} /\ MakesQueue(e) =>
          \E r, q \in Created(truth) :
            /\ r.id = Id(o, i) /\ q.type = "queue" /\ q.id \in r.refs
            /\ IF e.kind = "ScheduleV2"
                 THEN Has(e, "ownRole") \/ \E p \in Created(truth) :
                        p.type = "role" /\ p.id \in r.refs /\ q.id \in p.refs
                 ELSE \E p \in Created(truth) :
                        p.type = "queuePolicy" /\ p.source = r.id /\ q.id \in p.refs

(* What a mapping names and its function has to read or send to.           *)
SecretTypes(kind) ==
  CASE kind = "MSK" -> {"CLIENT_CERTIFICATE_TLS_AUTH"}
    [] kind = "SelfManagedKafka" -> AuthTypes \cup {"SERVER_ROOT_CA_CERTIFICATE"}
    [] kind \in {"MQ", "DocumentDB"} -> {"BASIC_AUTH"}
    [] OTHER -> {}
Needs(e) ==
  {Secret(uri) : uri \in Uris(e, SecretTypes(e.kind))}
  \cup (IF e.kind \in {"MQ", "SelfManagedKafka", "DocumentDB"} THEN Key(e) ELSE {})
  \cup (IF Has(e, "toQueue") THEN {<<"send", e.source>>} ELSE {})

(* The execution role SAM makes for a function may do what all its         *)
(* mappings need, whichever came first and however alike they are; and no  *)
(* two of its policies have one name, which IAM refuses.                   *)
RolesServeMappings ==
  Returned =>
    \A f \in Functions : given.owners[f].role =>
      /\ \A i \in DOMAIN given.owners[f].events :
           LET e == EventOf(f, i) IN
           e.kind \in PullKinds \cup {"SNSQueue", "SNSOwnQueue"} =>
             /\ Managed(e.kind) \subseteq roles[f].managed
             /\ Needs(e) \subseteq UNION {p.grants : p \in roles[f].policies}
      /\ \A p, q \in roles[f].policies : p.name = q.name => p = q
=============================================================================
