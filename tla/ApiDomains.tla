------------------------------ MODULE ApiDomains ------------------------------
(***************************************************************************)
(* The custom domain of an API: the domain resource, the mappings of the   *)
(* API's base paths into it, and the Route53 records that lead to it.      *)
(* Operators only; ApiResources says when they run.  Two things are shared *)
(* by the APIs of a template: the record set groups by hosted zone, and a  *)
(* Route53 map that Globals gives to several APIs (Globals merges by       *)
(* reference, and the generator writes into the map).                      *)
(***************************************************************************)
EXTENDS Naturals, Sequences, SequencesExt, Maps

CONSTANTS NoDomain, NoRoute, NoZone, NoPath, Nothing

(* What a construction leaves: the resources made, by id, the groups and   *)
(* the Route53 maps after it, and whether it raised.                       *)
Constructed(made, groups, maps) ==
  [raised |-> FALSE, made |-> made, groups |-> groups, maps |-> maps]
Raised(groups, maps) ==
  [raised |-> TRUE, made |-> <<>>, groups |-> groups, maps |-> maps]

RestKind == "rest"
HttpKind == "http"
WebSocketKind == "websocket"

(* What the ids start with that do not start with their API's.             *)
GeneratedNames ==
  {"ApiGatewayDomainName", "ApiGatewayDomainNameV2", "RecordSetGroup", "DomainNameAccessAssociation"}

(* Both editions name the resource after the domain name, not the API.     *)
ApiDomainName(name) == <<"ApiGatewayDomainName", name>>
ApiDomainNameV2(name) == <<"ApiGatewayDomainNameV2", name>>
StageOf(api) == <<api, "Stage">>

(* A domain and a Route53 map as a template has them.                      *)
PathsIn(d) == {d.paths[i] : i \in DOMAIN d.paths}
WrittenDomain(d, maps) ==
  d # NoDomain => d.paths \in Seq(PathsIn(d)) /\ d.route \in DOMAIN maps \cup {NoRoute}
WrittenMap(map) == DOMAIN map = {"zone", "separate", "ipv6", "distribution"}

EndpointOf(d) == IF d.endpoint = "none" THEN "REGIONAL" ELSE d.endpoint
IsPrivateDomain(d) == d # NoDomain /\ d.endpoint = "PRIVATE"

DomainResource(condition, d, endpoint) ==
  [type |-> "DomainName", condition |-> condition, name |-> d.name, endpoint |-> endpoint]

-----------------------------------------------------------------------------
(* Base paths.                                                             *)

BasePathMapping(api, condition, domain, path) ==
  [type |-> "BasePathMapping", condition |-> condition, domain |-> domain,
   api |-> api, stage |-> StageOf(api), path |-> path]

(* Without BasePath, one mapping of the whole domain; else one per path,   *)
(* its id made of the letters and digits of the path only.                 *)
MappingId_Api(api, p) == <<api, NoPath, "BasePathMapping">>
MappingId(api, p) == <<api, p.plain, "BasePathMapping">>
Mappings(api, condition, domain, paths, Text(_)) ==
  IF paths = <<>>
  THEN Only(<<api, NoPath, "BasePathMapping">>, BasePathMapping(api, condition, domain, NoPath))
  ELSE [id \in {MappingId(api, paths[i]) : i \in DOMAIN paths} |->
          BasePathMapping(api, condition, domain,
                          Text(paths[SelectLastInSeq(paths, LAMBDA p : MappingId(api, p) = id)]))]

Normalized(d, p) == IF d.normalize THEN p.plain ELSE p.text

RestMappings(api, condition, d) ==
  Mappings(api, condition, ApiDomainName(d.name), d.paths, LAMBDA p : Normalized(d, p))
RestMappingsV2(api, condition, d) ==
  Mappings(api, condition, ApiDomainNameV2(d.name), d.paths, LAMBDA p : Normalized(d, p))

InvalidPath(d) == \E i \in DOMAIN d.paths : ~d.paths[i].valid
ApiMappings(api, condition, d) ==
  Mappings(api, condition, ApiDomainNameV2(d.name), d.paths, LAMBDA p : p.text)

-----------------------------------------------------------------------------
(* Route53 records.                                                        *)

(* An EDGE domain's distribution is written into the Route53 map, unless   *)
(* the map names one: its author's, or that of an earlier API's domain.    *)
NoteDistribution(maps, d, domain) ==
  IF EndpointOf(d) = "EDGE" /\ maps[d.route].distribution = Nothing
  THEN [maps EXCEPT ![d.route].distribution = domain]
  ELSE maps

(* What the record names, given the maps after NoteDistribution; a PRIVATE *)
(* domain's record leads to the author's VPC endpoint.                     *)
AliasTarget_Regional(d, domain, maps) == domain
AliasTarget(d, domain, maps) ==
  CASE EndpointOf(d) = "REGIONAL" -> domain
    [] EndpointOf(d) = "EDGE" -> maps[d.route].distribution
    [] OTHER -> "VpcEndpoint"

Record(name, type, target) == [name |-> name, type |-> type, target |-> target]

RecordSetsFor(d, target, route) ==
  <<Record(d.name, "A", target)>>
    \o (IF route.ipv6 THEN <<Record(d.name, "AAAA", target)>> ELSE <<>>)

RecordSetGroupId(route) == <<"RecordSetGroup", route.zone>>
SeparateGroupId(d, route) == <<"RecordSetGroup", route.zone, d.name>>

RecordSetGroup(condition, route, records) ==
  [type |-> "RecordSetGroup", condition |-> condition, zone |-> route.zone,
   records |-> records]

(* The group of the zone is made for the first API that asks for it and    *)
(* found by the others, which add their records to it.                     *)
GroupWith_New(groups, condition, route, records) ==
  Only(RecordSetGroupId(route), RecordSetGroup(condition, route, records)) ++ groups
GroupWith(groups, condition, route, records) ==
  LET id == RecordSetGroupId(route)
  IN IF id \in DOMAIN groups
     THEN [groups EXCEPT ![id].records = @ \o records]
     ELSE Only(id, RecordSetGroup(condition, route, records)) ++ groups

(* domain is the resource the record leads to; whole is what has been made *)
(* of the API's domain before.                                             *)
WithRecords(whole, condition, d, domain, groups, maps) ==
  IF d.route = NoRoute THEN Constructed(whole, groups, maps)
  ELSE
  LET route   == maps[d.route]
      noted   == NoteDistribution(maps, d, domain)
      records == RecordSetsFor(d, AliasTarget(d, domain, noted), route)
      added   == GroupWith(groups, condition, route, records)
      id      == RecordSetGroupId(route)
  IN IF route.zone = NoZone THEN Raised(groups, maps)
     ELSE IF route.separate
     THEN Constructed(Only(SeparateGroupId(d, route), RecordSetGroup(condition, route, records))
                        ++ whole,
                      groups, noted)
     ELSE Constructed(Only(id, added[id]) ++ whole, added, noted)

Api2AliasTarget(d, domain) == domain

Api2RecordSets(d, domain, route) == RecordSetsFor(d, Api2AliasTarget(d, domain), route)

WithApi2Records(whole, condition, d, domain, groups, maps) ==
  IF d.route = NoRoute THEN Constructed(whole, groups, maps)
  ELSE
  LET route == maps[d.route]
      added == GroupWith(groups, condition, route, Api2RecordSets(d, domain, route))
      id    == RecordSetGroupId(route)
  IN IF route.zone = NoZone THEN Raised(groups, maps)
     ELSE Constructed(Only(id, added[id]) ++ whole, added, maps)

-----------------------------------------------------------------------------
(* The three constructions.  ok: DomainName and CertificateArn are given   *)
(* and MutualTlsAuthentication has only keys that it may have.             *)

ConstructApiDomain(api, condition, d, groups, maps) ==
  LET id == ApiDomainName(d.name)
  IN IF ~d.ok \/ EndpointOf(d) \notin {"EDGE", "REGIONAL"} THEN Raised(groups, maps)
     ELSE WithRecords(Only(id, DomainResource(condition, d, EndpointOf(d)))
                        ++ RestMappings(api, condition, d),
                      condition, d, id, groups, maps)

(* Who may reach a private domain: its id is made of the endpoint and the  *)
(* domain.                                                                 *)
AccessAssociation(condition, d) ==
  IF d.access
  THEN Only(<<"DomainNameAccessAssociation", d.name>>,
            [type |-> "DomainNameAccessAssociation", condition |-> condition,
             domain |-> ApiDomainNameV2(d.name)])
  ELSE <<>>

ConstructApiDomainV2(api, condition, d, groups, maps) ==
  LET id == ApiDomainNameV2(d.name)
  IN IF ~d.ok THEN Raised(groups, maps)
     ELSE WithRecords(Only(id, DomainResource(condition, d, "PRIVATE"))
                        ++ (RestMappingsV2(api, condition, d) ++ AccessAssociation(condition, d)),
                      condition, d, id, groups, maps)

(* HTTP and WebSocket APIs: REGIONAL domains only, base paths of letters,  *)
(* digits and "/-_" only, and no group of one's own.                       *)
ConstructApi2Domain(api, condition, d, groups, maps) ==
  LET id == ApiDomainNameV2(d.name)
  IN IF ~d.ok \/ EndpointOf(d) # "REGIONAL" \/ InvalidPath(d) THEN Raised(groups, maps)
     ELSE WithApi2Records(Only(id, DomainResource(condition, d, "REGIONAL"))
                            ++ ApiMappings(api, condition, d),
                          condition, d, id, groups, maps)

(* The domain of an API of any kind.                                       *)
DomainOf(kind, api, condition, d, groups, maps) ==
  IF d = NoDomain THEN Constructed(<<>>, groups, maps)
  ELSE IF kind # RestKind
  THEN ConstructApi2Domain(api, condition, d, groups, maps)
  ELSE IF IsPrivateDomain(d)
  THEN ConstructApiDomainV2(api, condition, d, groups, maps)
  ELSE ConstructApiDomain(api, condition, d, groups, maps)
=============================================================================
