--------------------------- MODULE MCEventSources ---------------------------
(***************************************************************************)
(* EventSources for TLC: two functions and a state machine, one condition. *)
(* One family of events at a time, as the families share no state: two     *)
(* events of F, one or none of G and, of some families, one of M.          *)
(***************************************************************************)
EXTENDS EventSources, TLC

CONSTANTS F, G, M, c1, s1, s2

MCFunctions == {F, G}
MCMachines == {M}
MCConditions == {c1}
MCSources == {s1, s2}
MCSecrets == {"user", "certificate", "subnet", "group"}

Plain(kind, source, detail, options) ==
  [kind |-> kind, source |-> source, detail |-> detail, options |-> options, access |-> {}]
With(kind, options, access) ==
  [kind |-> kind, source |-> s1, detail |-> "", options |-> options, access |-> access]

Rules ==
  {Plain("Schedule", NoSource, "", os) :
     os \in {{}, {"dlqType"}, {"dlqArn"}, {"dlqArn", "dlqType"}, {"dlqOtherType"}, {"dlqEmpty"},
             {"state", "enabled"}, {"ownRole"}}}
  \cup {Plain("EventBridgeRule", NoSource, "", os) : os \in {{}, {"dlqType"}}}
  \cup {Plain("ScheduleV2", NoSource, "", os) :
          os \in {{}, {"dlqType"}, {"ownRole", "dlqType"}, {"name", "omitName"}}}
FunctionRules ==
  {e \in Rules : "ownRole" \in e.options => e.kind = "ScheduleV2"}
    \cup {Plain(k, s1, "", {}) : k \in PlainKinds}
MachineRules == Rules \cup {Plain("Api", s1, "", {})}

Topics ==
  {Plain("SNS", s, "", {}) : s \in {s1, s2}} \cup {Plain("SNSQueue", s, "", {}) : s \in {s1, s2}}
  \cup {Plain("SNSOwnQueue", s1, "", os) : os \in {{}, {"noQueueUrl"}}} \cup {With("SQS", {}, {})}
Buckets == {Plain("S3", s, d, {}) : s \in {s1, s2}, d \in {"Created", "Removed"}}
Pools == {Plain("Cognito", s, d, {}) : s \in {s1, s2}, d \in {"PreSignUp", "PostAuthentication"}}
Paths == {Plain("HttpApi", s, d, {}) : s \in {s1, s2}, d \in {DefaultPath, "/a"}}

Login == {<<"BASIC_AUTH", "user">>}
Network == {<<"VPC_SUBNET", "subnet">>, <<"VPC_SECURITY_GROUP", "group">>}
Streams ==
  {With("Kinesis", os, {}) : os \in {{}, {"toQueue"}, {"toKafka"}, {"toLambda"}, {"badFilter"}, {"consumerGroup"}}}
  \cup {With("DynamoDB", {}, {}), With("SQS", {}, {}), With("MSK", {"consumerGroup", "registry"}, {})}
  \cup {With("MSK", {}, {<<"CLIENT_CERTIFICATE_TLS_AUTH", "certificate">>})}
  \cup {With("MQ", os, Login) : os \in {{}, {"kms", "dynamicName"}, {"dynamicName", "toQueue"}}}
  \cup {With("MQ", {}, a) : a \in {{}, {<<"BASIC_AUTH", "user">>, <<"BASIC_AUTH", "certificate">>}}}
  \cup {With("SelfManagedKafka", os, a \cup Login) : os \in {{}, {"kms"}, {"noServers"}}, a \in {{}, Network}}
  \cup {With("SelfManagedKafka", {}, a) :
          a \in {{}, {<<"VPC_SUBNET", "subnet">>},
                 {<<"BASIC_AUTH", "user">>, <<"SASL_SCRAM_512_AUTH", "certificate">>}}}
  \cup {With("DocumentDB", os, Login) : os \in {{}, {"kms"}}}
  \cup {With("DocumentDB", {}, {})}

Families == {"rules", "topics", "buckets", "pools", "paths", "streams"}
Of(family) ==
  CASE family = "rules" -> FunctionRules [] family = "topics" -> Topics
    [] family = "buckets" -> Buckets [] family = "pools" -> Pools
    [] family = "paths" -> Paths [] family = "streams" -> Streams

AtMost(events, n) == UNION {[1..k -> events] : k \in 0..n}
OwnerOf(events, alias, role) ==
  {[condition |-> c, alias |-> a, role |-> r, events |-> es] :
     c \in {NoCondition, c1}, a \in alias, r \in role, es \in events}

TemplateOf(f, g, m, absent, managed) ==
  [owners |-> (F :> f @@ G :> g @@ M :> m), absent |-> absent, fifo |-> {s2}, managed |-> managed]

Idle == [condition |-> NoCondition, alias |-> FALSE, role |-> TRUE, events |-> <<>>]

(* An alias is told from its function by permissions and routes, a given   *)
(* role from a made one by mappings.                                       *)
FirstOf(family) ==
  LET mapped == family \in {"topics", "streams"} IN
  OwnerOf(AtMost(Of(family), 2) \ {<<>>}, IF mapped THEN {FALSE} ELSE BOOLEAN,
          IF mapped THEN BOOLEAN ELSE {TRUE})
SecondOf(family) ==
  IF family \in {"rules", "topics", "streams"} THEN {Idle} ELSE OwnerOf([{1} -> Of(family)], {FALSE}, {TRUE})

TemplatesOf(family, functions) ==
  {TemplateOf(f, g, m, absent, managed) :
     f \in functions, g \in SecondOf(family), m \in {Idle},
     absent \in IF family \in {"buckets", "pools"} THEN {{}, {s2}} ELSE {{}},
     managed \in IF family = "paths" THEN {{s1}, {s1, s2}} ELSE {{}}}

MachineTemplates ==
  {TemplateOf(Idle, Idle, m, {}, {}) :
     m \in OwnerOf(AtMost(MachineRules, 2), {FALSE}, {TRUE})}

(* The run leaves out what the code does not serve, as the README says.    *)
MCTemplates ==
  UNION {{t \in TemplatesOf(family, {o \in FirstOf(family) : ~PolicyNamesClash(o) /\ ~TwoPools(o)}) :
            /\ \A o \in MCFunctions : ~ConditionalTrigger(t.owners[o])
            /\ ~OwnPathTwice(t)} : family \in Families}
    \cup MachineTemplates

TwoPoolTemplates ==
  TemplatesOf("pools", {o \in FirstOf("pools") : TwoPools(o) /\ o.condition = NoCondition})
=============================================================================
