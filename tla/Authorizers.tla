----------------------------- MODULE Authorizers -----------------------------
(***************************************************************************)
(* What the Auth section of a REST or HTTP API says about one authorizer,  *)
(* when it is refused, and the security definition it becomes.  Operators  *)
(* only.  An authorizer is a record of what its author wrote:              *)
(*   pool, jwt       a Cognito user pool; a JwtConfiguration               *)
(*   function        a FunctionArn                                         *)
(*   payload         FunctionPayloadType, or AuthorizerPayloadFormatVersion*)
(*   sources, ttl    Identity: what it names, and ReauthorizeEvery         *)
(*   scopes          it has AuthorizationScopes                            *)
(*   permission      Disable- or EnableFunctionDefaultPermissions          *)
(***************************************************************************)
EXTENDS Naturals, FiniteSets

CONSTANT Unset

IAM == "AWS_IAM"

-----------------------------------------------------------------------------
(* REST APIs (ApiGatewayAuthorizer).                                       *)

RestType(a) == IF a.pool THEN "COGNITO_USER_POOLS" ELSE "LAMBDA"
RestPayload(a) == IF a.payload = Unset THEN "TOKEN" ELSE a.payload

(* A request authorizer needs something to tell requests apart by, unless  *)
(* its answers are not kept (a ReauthorizeEvery of 0).                     *)
IsMissingIdentitySource(a) == a.sources = {} /\ a.ttl # "zero"
RefusedAtRest(a) ==
  \/ a.payload \notin {Unset, "TOKEN", "REQUEST"}
  \/ a.payload = "REQUEST" /\ IsMissingIdentitySource(a)

RestAuthorizerType(a) ==
  IF RestType(a) = "COGNITO_USER_POOLS" THEN "cognito_user_pools"
  ELSE IF RestPayload(a) = "REQUEST" THEN "request" ELSE "token"

RestAuthType(a) == IF RestType(a) = "COGNITO_USER_POOLS" THEN "cognito_user_pools" ELSE "custom"

(* Where the caller's token is: request authorizers have no one header.    *)
RestHeader(a) == IF RestAuthorizerType(a) = "request" THEN "Unused" ELSE "Authorization"

(* Header, query string, stage variables and context in one list.          *)
RestIdentitySource(a) == IF RestAuthorizerType(a) = "request" THEN a.sources ELSE {}

Definition(type, auth, header, sources, ttl, calls) ==
  [type |-> type, auth |-> auth, header |-> header, sources |-> sources, ttl |-> ttl, calls |-> calls]

IamDefinition == Definition(Unset, "awsSigv4", "Authorization", {}, Unset, FALSE)
ApiKeyDefinition == Definition(Unset, "key", "x-api-key", {}, Unset, FALSE)

GenerateSwagger(a) ==
  Definition(RestAuthorizerType(a), RestAuthType(a), RestHeader(a), RestIdentitySource(a),
             IF RestType(a) = "LAMBDA" THEN a.ttl ELSE Unset, RestType(a) = "LAMBDA")

-----------------------------------------------------------------------------
(* HTTP APIs (ApiGatewayV2Authorizer).                                     *)

HttpType(a) == IF a.jwt THEN "JWT" ELSE "REQUEST"

(* Each type has its own properties.                                       *)
ForeignInput(a) ==
  IF HttpType(a) = "JWT"
  THEN a.function \/ a.payload # Unset \/ a.permission # Unset \/ a.ttl # Unset
  ELSE a.scopes
IncompleteJwt(a) == HttpType(a) = "JWT" /\ a.sources = {}
IncompleteLambda(a) == HttpType(a) = "REQUEST" /\ (~a.function \/ a.payload = Unset)
RefusedAtHttp(a) == ForeignInput(a) \/ IncompleteJwt(a) \/ IncompleteLambda(a)

HttpIdentitySource(a) == a.sources

GenerateOpenApi(a) ==
  IF HttpType(a) = "JWT"
  THEN Definition("jwt", "oauth2", Unset, HttpIdentitySource(a), Unset, FALSE)
  ELSE Definition("request", "custom", "Unused", HttpIdentitySource(a), a.ttl, TRUE)

-----------------------------------------------------------------------------
(* Lambda authorizers the API may invoke by a permission of the transform: *)
(* all but those that opt out at a REST API, those that opt in at an HTTP  *)
(* API.                                                                    *)
PermittedAtRest(a) == a.function /\ a.permission # "disabled"
PermittedAtHttp(a) == a.function /\ a.permission = "enabled"
=============================================================================
