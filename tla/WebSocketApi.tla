----------------------------- MODULE WebSocketApi -----------------------------
(***************************************************************************)
(* What an AWS::Serverless::WebSocketApi becomes: the API, three resources *)
(* for each route, a stage, and the authorizer of the $connect route with  *)
(* the permission to invoke it.  Operators only; ApiResources says when    *)
(* they run.                                                               *)
(***************************************************************************)
EXTENDS ApiDomains

CONSTANT NoAuth

(* A route: its key, what is left of the key for logical ids, the function *)
(* it names, whether it has RequestParameters.                             *)
Connect == "$connect"
DefaultStageName == "default"

RoutesOf(w) == {w.routes[i] : i \in DOMAIN w.routes}

(* Route keys become parts of ids: the special ones without the dollar,    *)
(* others capitalised; any other key is an error.                          *)
RouteIds(api, r) ==
  [route |-> <<api, r.clean, "Route">>, integration |-> <<api, r.clean, "Integration">>,
   permission |-> <<api, r.clean, "Permission">>]

AuthTypes == {"AWS_IAM", "CUSTOM", "NONE"}

(* The type is compared in capitals here, and as written afterwards.       *)
AuthInvalid(auth) ==
  \/ auth.type \notin AuthTypes
  \/ auth.type = "CUSTOM" /\ ~auth.arn
  \/ auth.type # "CUSTOM" /\ auth.others

IsType(auth, type) == auth.capitals /\ auth.type = type

AuthorizerId(api) == <<api, "ConnectAuthorizer">>
Authorizer(api, condition) == [type |-> "Authorizer", condition |-> condition, api |-> api]

(* Only the $connect route is authorised.                                  *)
AuthorizationOf_Always(api, auth, r) ==
  IF auth = NoAuth THEN "unset"
  ELSE IF IsType(auth, "CUSTOM") THEN "CUSTOM"
  ELSE IF IsType(auth, "AWS_IAM") THEN "AWS_IAM" ELSE "NONE"
AuthorizationOf(api, auth, r) ==
  IF auth = NoAuth \/ r.key # Connect THEN "unset"
  ELSE IF IsType(auth, "CUSTOM") THEN "CUSTOM"
  ELSE IF IsType(auth, "AWS_IAM") THEN "AWS_IAM"
  ELSE "NONE"

HasAuthorizer(auth, routes) ==
  /\ auth # NoAuth
  /\ \E r \in routes : r.key = Connect
  /\ IsType(auth, "CUSTOM")

(* The service assumes InvokeRole if there is one.                         *)
AuthorizerPermission(api, condition, auth) ==
  IF auth.role THEN <<>>
  ELSE Only(<<api, "AuthorizerPermission">>,
            [type |-> "Permission", condition |-> condition, api |-> api,
             invokes |-> "authorizer", stage |-> "*", key |-> "authorizers"])

Route(api, condition, auth, r) ==
  [type |-> "Route", condition |-> condition, api |-> api, key |-> r.key,
   target |-> RouteIds(api, r).integration,
   authorization |-> AuthorizationOf(api, auth, r)]

Integration(api, condition, r) ==
  [type |-> "Integration", condition |-> condition, api |-> api, invokes |-> r.function]

Permission_Default(api, condition, stageName, r) ==
  [type |-> "Permission", condition |-> condition, api |-> api,
   invokes |-> r.function, stage |-> DefaultStageName, key |-> r.key]
Permission(api, condition, stageName, r) ==
  [type |-> "Permission", condition |-> condition, api |-> api,
   invokes |-> r.function, stage |-> stageName, key |-> r.key]

RouteInvalid(r) ==
  \/ ~r.valid
  \/ r.parameters /\ r.key # Connect
  \/ r.function = "none"

(* A later route replaces an earlier one whose key leaves the same.        *)
RouteResources(api, condition, w) ==
  LET Latest(clean) == w.routes[SelectLastInSeq(w.routes, LAMBDA r : r.clean = clean)]
  IN [id \in UNION {{RouteIds(api, r)[kind] : kind \in {"route", "integration", "permission"}}
                      : r \in RoutesOf(w)} |->
        CASE id[3] = "Route" -> Route(api, condition, w.auth, Latest(id[2]))
          [] id[3] = "Integration" -> Integration(api, condition, Latest(id[2]))
          [] OTHER -> Permission(api, condition, w.stageName, Latest(id[2]))]

(* The stage waits for the routes that its RouteSettings may name.         *)
WebSocketStage(api, condition, w) ==
  [type |-> "Stage", condition |-> condition, api |-> api, name |-> w.stageName,
   dependsOn |-> IF w.settings THEN {RouteIds(api, r).route : r \in RoutesOf(w)} ELSE {}]

WebSocketApiResource(api, condition) == [type |-> "Api", condition |-> condition]

GeneratorInvalid(w, mtls) == w.routes = <<>> \/ mtls
WebSocketApiInvalid(w) == w.auth # NoAuth /\ \A r \in RoutesOf(w) : r.key # Connect
StageInvalid(w) == w.stageName = "$default"

WebSocketInvalid(w, mtls) ==
  \/ GeneratorInvalid(w, mtls)
  \/ WebSocketApiInvalid(w)
  \/ StageInvalid(w)
  \/ \E r \in RoutesOf(w) : RouteInvalid(r)
  \/ w.auth # NoAuth /\ AuthInvalid(w.auth)

(* All but the domain and what belongs to it.                              *)
WebSocketResources(api, condition, w) ==
  Only(<<api, "Api">>, WebSocketApiResource(api, condition))
    ++ (RouteResources(api, condition, w)
    ++ (Only(StageOf(api), WebSocketStage(api, condition, w))
    ++ (IF HasAuthorizer(w.auth, RoutesOf(w))
        THEN Only(AuthorizerId(api), Authorizer(api, condition)) ++ AuthorizerPermission(api, condition, w.auth)
        ELSE <<>>)))
=============================================================================
