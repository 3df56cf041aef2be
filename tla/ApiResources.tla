----------------------------- MODULE ApiResources -----------------------------
(***************************************************************************)
(* The APIs of a template, translated one after another: REST APIs (with   *)
(* the usage plans of SharedUsagePlan), HTTP APIs and WebSocket APIs, each *)
(* with its stage and custom domain.  What the APIs make goes into one     *)
(* template, where a resource replaces an earlier one of the same id.      *)
(***************************************************************************)
EXTENDS SharedUsagePlan, WebSocketApi

CONSTANTS
  OtherApis,    \* the HTTP and WebSocket APIs there may be
  Customs(_)    \* what else a template may hold, given its REST APIs:
                \* [kind, condition, domain, webSocket : api -> ..., maps]

AllApis == Apis \cup OtherApis

(* The template is a well-formed one, and no API has the name of what is   *)
(* generated for another.                                                  *)
ASSUME ResourcesAssumption ==
  /\ OtherApis \cap (Apis \cup {Shared}) = {}
  /\ AllApis \cap GeneratedNames = {}
  /\ Nothing \notin {HttpKind, WebSocketKind}
  /\ \A t \in Templates : \A c \in Customs(t) :
       /\ \A api \in OtherApis :
            /\ c.kind[api] \in {Nothing, HttpKind, WebSocketKind}
            /\ c.kind[api] = WebSocketKind => c.webSocket[api].routes \in Seq(RoutesOf(c.webSocket[api]))
       /\ \A api \in AllApis : WrittenDomain(c.domain[api], c.maps)
       /\ \A m \in DOMAIN c.maps : WrittenMap(c.maps[m])

VARIABLES
  custom,   \* the rest of the template
  waiting,  \* HTTP and WebSocket APIs still to translate
  maps,     \* the Route53 maps, which the REST generator writes into
  groups,   \* route53_record_set_groups, shared by REST and HTTP APIs
  made      \* the resources in the template being built, by id

resourceVars == <<custom, waiting, maps, groups, made>>
allVars == <<vars, resourceVars>>

ResourcesInit ==
  /\ Init
  /\ custom \in Customs(given)
  /\ waiting = {api \in OtherApis : custom.kind[api] # Nothing}
  /\ maps = custom.maps
  /\ groups = <<>>
  /\ made = <<>>

KindOf(api) == IF api \in Apis THEN RestKind ELSE custom.kind[api]
ConditionOf(api) == IF api \in Apis THEN given.apis[api].condition ELSE custom.condition[api]
DomainFor(api) == custom.domain[api]

(* Both stages are made whether anything is said of them or not.           *)
RestStage(api) ==
  Only(StageOf(api), [type |-> "Stage", condition |-> ConditionOf(api), api |-> api])
HttpStage(api) ==
  Only(StageOf(api), [type |-> "Stage", condition |-> ConditionOf(api), api |-> api])

(* A WebSocket API gets neither the attributes nor the groups of the       *)
(* others: its groups are always its own.                                  *)
GroupsFor(api) == IF KindOf(api) = WebSocketKind THEN <<>> ELSE groups
AttributesFor(api) == IF KindOf(api) = WebSocketKind THEN NoCondition ELSE ConditionOf(api)

DomainMade(api) ==
  DomainOf(KindOf(api), api, AttributesFor(api), DomainFor(api), GroupsFor(api), maps)

-----------------------------------------------------------------------------
(* The generator's errors come before the usage plan.                      *)
TranslateRestApi(api) ==
  LET domain == DomainMade(api)
  IN /\ \/ TranslateWithout(api)
        \/ TranslatePerApi(api)
        \/ TranslateShared(api)
        \/ SharedRaises(api)
     /\ ~domain.raised
     /\ made' = RestStage(api) ++ (domain.made ++ made)
     /\ groups' = domain.groups
     /\ maps' = domain.maps
     /\ UNCHANGED <<custom, waiting>>

RestApiFails(api) ==
  /\ TranslateFails(api)
  /\ DomainMade(api).raised
  /\ UNCHANGED resourceVars

TakeOther(api) ==
  /\ api \in waiting
  /\ waiting' = waiting \ {api}
  /\ UNCHANGED <<given, todo, collected, defined, resources, custom>>

TranslateHttpApi(api) ==
  LET domain == DomainMade(api)
  IN /\ TakeOther(api)
     /\ KindOf(api) = HttpKind
     /\ IF domain.raised
        THEN failed' = TRUE /\ UNCHANGED <<made, groups, maps>>
        ELSE /\ made' = HttpStage(api) ++ (domain.made ++ made)
             /\ groups' = domain.groups
             /\ maps' = domain.maps
             /\ UNCHANGED failed

TranslateWebSocketApi(api) ==
  LET w      == custom.webSocket[api]
      domain == DomainMade(api)
      mtls   == DomainFor(api) # NoDomain /\ DomainFor(api).mtls
  IN /\ TakeOther(api)
     /\ KindOf(api) = WebSocketKind
     /\ IF domain.raised \/ WebSocketInvalid(w, mtls)
        THEN failed' = TRUE /\ UNCHANGED made
        ELSE made' = WebSocketResources(api, AttributesFor(api), w) ++ (domain.made ++ made) /\ UNCHANGED failed
     /\ UNCHANGED <<groups, maps>>

ResourcesNext ==
  \/ \E api \in Apis : TranslateRestApi(api) \/ RestApiFails(api)
  \/ \E api \in OtherApis : TranslateHttpApi(api) \/ TranslateWebSocketApi(api)

ResourcesSpec == ResourcesInit /\ [][ResourcesNext]_allVars

-----------------------------------------------------------------------------
(* Properties.                                                             *)

AllReturned == Returned /\ waiting = {}

WebSocketApis == {api \in OtherApis : custom.kind[api] = WebSocketKind}

(* Is the resource created when the conditions in truth hold?              *)
Stands(truth, id) == id \in DOMAIN made /\ Holds(truth, made[id].condition)

ApisWithDomain ==
  {api \in AllApis : DomainFor(api) # NoDomain /\ (api \in OtherApis => custom.kind[api] # Nothing)}

(* What the code does not look at: a domain is made again by each of its   *)
(* APIs, and has the condition and endpoint of the last of them; ...       *)
DomainsAgree ==
  \A a, b \in ApisWithDomain :
    DomainFor(a).name = DomainFor(b).name =>
      /\ ConditionOf(a) = ConditionOf(b)
      /\ EndpointOf(DomainFor(a)) = EndpointOf(DomainFor(b))

(* ... a base path's id has only its letters and digits; ...               *)
PathsApart ==
  \A api \in ApisWithDomain : \A p, q \in PathsIn(DomainFor(api)) : p.plain = q.plain => p.text = q.text

(* ... a zone's group has the condition of the first of its APIs, one that *)
(* is separate the records of the last, and WebSocket APIs know of no      *)
(* groups but their own; ...                                               *)
ApisWithRecords == {api \in ApisWithDomain : DomainFor(api).route # NoRoute}
RouteFor(api) == custom.maps[DomainFor(api).route]
ZonesAgree ==
  \A a, b \in ApisWithRecords :
    RouteFor(a).zone = RouteFor(b).zone =>
      /\ ConditionOf(a) = ConditionOf(b)
      /\ a # b => KindOf(a) # WebSocketKind
      /\ RouteFor(a).separate /\ RouteFor(b).separate /\ DomainFor(a).name = DomainFor(b).name =>
           RouteFor(a) = RouteFor(b)

(* ... and an EDGE domain's distribution is written into the Route53 map,  *)
(* where the next one's is not.                                            *)
DistributionsApart ==
  \A a, b \in {api \in ApisWithRecords : EndpointOf(DomainFor(api)) = "EDGE"} :
    DomainFor(a).route = DomainFor(b).route /\ RouteFor(a).distribution = Nothing =>
      DomainFor(a).name = DomainFor(b).name

(* Keys of routes that leave the same for ids, of which one is lost, and   *)
(* types of authorizers in small letters, which count as NONE.             *)
RoutesApart(w) ==
  /\ \A r, s \in RoutesOf(w) : r.clean = s.clean => r = s
  /\ w.auth # NoAuth => w.auth.capitals

(* The domain resource of an API, found by what it is, not by its id.      *)
DomainsOf(api) ==
  {id \in DOMAIN made :
     /\ made[id].type = "DomainName"
     /\ made[id].name = DomainFor(api).name
     /\ made[id].endpoint = EndpointOf(DomainFor(api))}

Serves(mapping, api, path) ==
  /\ mapping.type = "BasePathMapping"
  /\ mapping.api = api
  /\ mapping.path = path
  /\ mapping.domain \in DomainsOf(api)

PathsOf(api) ==
  LET d == DomainFor(api)
      Text(p) == IF KindOf(api) = RestKind THEN Normalized(d, p) ELSE p.text
  IN IF d.paths = <<>> THEN {NoPath} ELSE {Text(d.paths[i]) : i \in DOMAIN d.paths}

(* Whatever conditions hold at deployment, every API that is created is    *)
(* reached on every one of its base paths through a domain that is         *)
(* created too (_construct_api_domain and its two variants, the mappings), *)
(* although APIs of one domain each make the domain again and the last     *)
(* copy replaces the others.                                               *)
DomainsServeApis ==
  AllReturned =>
    \A api \in ApisWithDomain, truth \in SUBSET Conditions :
      Holds(truth, ConditionOf(api)) =>
        \A path \in PathsOf(api) :
          \E id \in DOMAIN made :
            /\ Serves(made[id], api, path)
            /\ Stands(truth, id)
            /\ Stands(truth, made[id].domain)
            /\ Stands(truth, made[id].stage)

(* The records of an API's domain in a group: A, and AAAA with IpV6, each  *)
(* leading to target.                                                      *)
Leads(group, api, type, target) ==
  \E i \in DOMAIN group.records :
    /\ group.records[i].name = DomainFor(api).name
    /\ group.records[i].type = type
    /\ group.records[i].target = target

TypesOf(route) == IF route.ipv6 THEN {"A", "AAAA"} ELSE {"A"}

(* Where the records of an API's domain lead.  sam-docs.json of            *)
(* DistributionDomainName, which only EDGE domains use: "Default: Use the  *)
(* API Gateway distribution."                                              *)
TargetsOf(api) ==
  LET d == DomainFor(api)
      route == custom.maps[d.route]
  IN IF EndpointOf(d) = "PRIVATE" THEN {"VpcEndpoint"}
     ELSE IF EndpointOf(d) = "EDGE" /\ route.distribution # Nothing THEN {route.distribution}
     ELSE DomainsOf(api)

(* Whatever conditions hold, the zone of every created API's Route53 has   *)
(* the records of its domain, and they lead to that domain and no other    *)
(* (_construct_record_sets_for_domain, _construct_alias_target), whichever *)
(* of the APIs of the zone made the record set group.                      *)
RecordsReachDomains ==
  AllReturned =>
    \A api \in ApisWithDomain, truth \in SUBSET Conditions :
      LET route == custom.maps[DomainFor(api).route]
      IN DomainFor(api).route # NoRoute /\ Holds(truth, ConditionOf(api)) =>
           \A type \in TypesOf(route) :
             \E id \in DOMAIN made, target \in TargetsOf(api) :
               /\ made[id].type = "RecordSetGroup"
               /\ made[id].zone = route.zone
               /\ Stands(truth, id)
               /\ Leads(made[id], api, type, target)

(* Every route of a WebSocket API reaches its function: the Route's        *)
(* integration invokes it, with a permission for that key on that stage;   *)
(* the $connect route, and no other, has the authorization the API asks    *)
(* for, with the authorizer it names; the stage waits for all the routes   *)
(* when its settings may name them (_construct_route_infr,                 *)
(* _construct_stage, _to_cloudformation).                                  *)
RoutesServed ==
  AllReturned =>
    \A api \in WebSocketApis :
      LET w == custom.webSocket[api]
      IN \A r \in RoutesOf(w) :
           /\ \E id \in DOMAIN made :
                LET route == made[id]
                IN /\ route.type = "Route"
                   /\ route.api = api
                   /\ route.key = r.key
                   /\ made[route.target].type = "Integration"
                   /\ made[route.target].invokes = r.function
                   /\ route.authorization = IF w.auth = NoAuth \/ r.key # Connect THEN "unset"
                                             ELSE w.auth.type
                   /\ route.authorization = "CUSTOM" =>
                        /\ \E auth \in DOMAIN made : made[auth].type = "Authorizer" /\ made[auth].api = api
                        /\ w.auth.role \/ \E p \in DOMAIN made : /\ made[p].type = "Permission"
                                                             /\ made[p].api = api
                                                             /\ made[p].invokes = "authorizer"
                   /\ w.settings => id \in made[StageOf(api)].dependsOn
           /\ \E id \in DOMAIN made :
                /\ made[id].type = "Permission"
                /\ made[id].api = api
                /\ made[id].invokes = r.function
                /\ made[id].stage = made[StageOf(api)].name
                /\ made[id].key = r.key
=============================================================================
