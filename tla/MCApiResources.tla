---------------------------- MODULE MCApiResources ----------------------------
(* The templates of MCSharedUsagePlan with REST APIs alone; then two REST  *)
(* APIs, an HTTP and a WebSocket API with domains.  APIs that share a      *)
(* domain or a zone have one condition, and WebSocket APIs have zones of   *)
(* their own, but in MCShared.                                             *)
EXTENDS ApiResources, MCSharedUsagePlan

CONSTANTS hp, ws, m1, m2, m3, m4, m5, n1, n2, n3, z1, z2

MCOtherApis == {hp, ws}

Maps ==
  LET Map(zone, separate, ipv6, distribution) ==
        [zone |-> zone, separate |-> separate, ipv6 |-> ipv6, distribution |-> distribution]
  IN (m1 :> Map(z1, FALSE, TRUE, Nothing)) @@ (m2 :> Map(z1, FALSE, FALSE, Nothing))
       @@ (m3 :> Map(z1, TRUE, TRUE, Nothing)) @@ (m4 :> Map(z2, FALSE, FALSE, "own"))
       @@ (m5 :> Map(NoZone, FALSE, FALSE, Nothing))

Plain1 == [plain |-> "one", text |-> "o-ne", valid |-> TRUE]
Plain2 == [plain |-> "two", text |-> "two", valid |-> TRUE]
Odd == [plain |-> "odd", text |-> "o$dd", valid |-> FALSE]

Custom(name, endpoint, paths, normalize, route) ==
  [name |-> name, ok |-> TRUE, mtls |-> FALSE, endpoint |-> endpoint, paths |-> paths,
   normalize |-> normalize, route |-> route, access |-> endpoint = "PRIVATE"]

First ==
  {NoDomain, [Custom(n1, "none", <<>>, TRUE, NoRoute) EXCEPT !.ok = FALSE],
   Custom(n1, "other", <<>>, TRUE, NoRoute)}
    \cup {Custom(n1, e, <<Plain1, Plain2>>, e = "EDGE", r) :
            e \in {"none", "EDGE", "PRIVATE"}, r \in {m1, m3, m4, m5, NoRoute}}
Second ==
  {NoDomain}
    \cup {Custom(n, e, <<Plain2>>, TRUE, r) :
            n \in {n1, n2}, e \in {"REGIONAL", "EDGE", "PRIVATE"}, r \in {m2, m3, m4}}
Third ==
  {NoDomain, Custom(n1, "REGIONAL", <<Odd>>, TRUE, NoRoute)}
    \cup {Custom(n, e, <<Plain1>>, TRUE, r) :
            n \in {n1, n2}, e \in {"none", "EDGE"}, r \in {m1, m3}}

WebSocketOf(routes, auth, stage, settings) ==
  [routes |-> routes, auth |-> auth, stageName |-> stage, settings |-> settings]
RouteOf(key, clean, function) ==
  [key |-> key, clean |-> clean, function |-> function, valid |-> TRUE, parameters |-> FALSE]
AuthOf(type, arn, role, others) ==
  [type |-> type, arn |-> arn, role |-> role, others |-> others, capitals |-> TRUE]

Connecting == RouteOf(Connect, "Connect", "f1")
Sending == RouteOf("send", "Send", "f2")

Quiet == WebSocketOf(<<Sending>>, NoAuth, DefaultStageName, FALSE)
WebSockets ==
  {WebSocketOf(routes, auth, stage, settings) :
     routes \in {<<>>, <<Connecting, Sending>>, <<Sending, [Connecting EXCEPT !.parameters = TRUE]>>,
                 <<[Sending EXCEPT !.parameters = TRUE]>>, <<[Sending EXCEPT !.valid = FALSE]>>},
     auth \in {NoAuth, AuthOf("CUSTOM", TRUE, FALSE, TRUE), AuthOf("CUSTOM", TRUE, TRUE, TRUE),
               AuthOf("CUSTOM", FALSE, FALSE, FALSE), AuthOf("AWS_IAM", FALSE, FALSE, FALSE),
               AuthOf("NONE", FALSE, FALSE, TRUE)},
     stage \in {DefaultStageName, "live", "$default"}, settings \in BOOLEAN}

All(first, second, third, fourth, http, socket, condition) ==
  [kind      |-> (hp :> http) @@ (ws :> IF socket = Nothing THEN Nothing ELSE WebSocketKind),
   condition |-> (hp :> condition) @@ (ws :> NoCondition),
   domain    |-> (a1 :> first) @@ (a2 :> second) @@ (a3 :> NoDomain)
                   @@ (hp :> third) @@ (ws :> fourth),
   webSocket |-> ws :> socket,
   maps      |-> Maps]

Bare == All(NoDomain, NoDomain, NoDomain, NoDomain, Nothing, Nothing, NoCondition)

DomainGiven ==
  [conditions : {TRUE},
   apis : {(a1 :> x) @@ (a2 :> x) @@ (a3 :> Plain("NONE", NoCondition, FALSE)) :
             x \in {Plain("SHARED", c1, FALSE), Plain("NONE", NoCondition, FALSE)}}]
MCPlansAndDomains == MCTemplates \cup DomainGiven

(* APIs of one domain agree on its endpoint, and no EDGE domain writes its *)
(* distribution into a map that another API has.                           *)
Distinct(first, second) ==
  \/ NoDomain \in {first, second}
  \/ /\ first.name = second.name => EndpointOf(first) = EndpointOf(second)
     /\ first.route = second.route /\ first.route # NoRoute =>
          "EDGE" \notin {first.endpoint, second.endpoint}

MCCustoms(t) ==
  IF t \notin DomainGiven THEN {Bare}
  ELSE
  LET c == t.apis[a1].condition
  IN {All(p[1], p[2], NoDomain, NoDomain, Nothing, Nothing, c) :
        p \in {q \in First \X Second : Distinct(q[1], q[2])}}
       \cup {All(p[1], NoDomain, p[2], NoDomain, HttpKind, Nothing, c) :
               p \in {q \in First \X Third : Distinct(q[1], q[2])}}
       \cup {All(NoDomain, Custom(n3, "EDGE", <<>>, TRUE, m2), y, NoDomain, HttpKind, Nothing, c) :
               y \in Third}
       \cup {All(NoDomain, NoDomain, y, Custom(n3, "none", <<Plain1>>, TRUE, m4), HttpKind, s, c) :
               y \in {NoDomain, Custom(n2, "none", <<>>, TRUE, m1)}, s \in WebSockets}
       \cup {All(NoDomain, NoDomain, NoDomain,
                 [Custom(n3, "none", <<>>, TRUE, NoRoute) EXCEPT !.mtls = m], Nothing, Quiet, c) :
               m \in BOOLEAN}

(* Globals gives two EDGE domains one Route53 map.                         *)
MCShared(t) ==
  {All(Custom(n1, "EDGE", <<>>, TRUE, m1), Custom(n2, "EDGE", <<>>, TRUE, m1),
       NoDomain, NoDomain, Nothing, Nothing, NoCondition)}

MCBare ==
  [conditions : {TRUE}, apis : {[a \in MCApis |-> Plain("NONE", NoCondition, FALSE)]}]
=============================================================================
