---------------------------- MODULE SwaggerEditor ----------------------------
(***************************************************************************)
(* What SwaggerEditor does to the definition of a REST API, and what       *)
(* BaseEditor gives both editors.  Operators only, on a document           *)
(*   version       "swagger" or "openapi"                                  *)
(*   paths         per path, its path items: one, or the two branches of a *)
(*                 conditional; an item has methods, a method definitions  *)
(*                 (again one or two)                                      *)
(*   definitions   securityDefinitions                                     *)
(*   schemes       components' securitySchemes                             *)
(*   models        definitions; schemas are components' schemas            *)
(*   policy, responses, validators, extension, tags, cors, title ...       *)
(* A path is a pair: its text, and whether a slash trails.                 *)
(***************************************************************************)
EXTENDS Naturals, Sequences, SequencesExt, FiniteSetsExt, Maps, Authorizers

AnyMethod == "x-amazon-apigateway-any-method"
AllHttpMethods == {"options", "get", "post"}

(* A security requirement names one definition and its scopes.             *)
Requirement(name, scopes) == [name |-> name, scopes |-> scopes]
NamesIn(security) == {security[i].name : i \in DOMAIN security}

Method(integration, security, allow) ==
  [integration |-> integration, security |-> security, credentials |-> Unset,
   model |-> Unset, validator |-> Unset, allow |-> allow]
NoMethod == Method("none", <<>>, {})
HasIntegrationIn(definition) == definition.integration # "none"

-----------------------------------------------------------------------------
(* Walking through a document, conditional or not.                         *)

ItemsOf(doc, path) == doc.paths[path]
MethodsOf(doc, path) == UNION {DOMAIN doc.paths[path][i] : i \in DOMAIN doc.paths[path]}

HasPath(doc, path, method) ==
  path \in DOMAIN doc.paths /\ \A i \in DOMAIN doc.paths[path] : method \in DOMAIN doc.paths[path][i]
HasIntegration(doc, path, method) ==
  /\ HasPath(doc, path, method)
  /\ \A i \in DOMAIN doc.paths[path] :
       \E j \in DOMAIN doc.paths[path][i][method] : HasIntegrationIn(doc.paths[path][i][method][j])

AddPath(doc, path, method) ==
  LET items == IF path \in DOMAIN doc.paths THEN doc.paths[path] ELSE <<<<>>>>
  IN  [doc EXCEPT !.paths = Only(path, [i \in DOMAIN items |-> items[i] ++ Only(method, <<NoMethod>>)]) ++ @]

(* Edit(_) of each definition of one method that has an integration.       *)
OnMethodDefinitions(doc, path, method, Edit(_)) ==
  LET EditIn(item) ==
        [item EXCEPT ![method] = [j \in DOMAIN @ |-> IF HasIntegrationIn(@[j]) THEN Edit(@[j]) ELSE @[j]]]
  IN  [doc EXCEPT !.paths[path] = [i \in DOMAIN @ |-> EditIn(@[i])]]

(* Edit(method, _) of all definitions with an integration, and all of them.*)
OnAllMethods(doc, Edit(_, _)) ==
  [doc EXCEPT !.paths =
     [p \in DOMAIN @ |-> [i \in DOMAIN @[p] |-> [m \in DOMAIN @[p][i] |->
        LET written == doc.paths[p][i][m]
        IN  [j \in DOMAIN written |->
               IF HasIntegrationIn(written[j]) THEN Edit(m, written[j]) ELSE written[j]]]]]]
DefinitionsOf(doc, path, method) ==
  UNION {ToSet(doc.paths[path][i][method]) : i \in {k \in DOMAIN doc.paths[path] : method \in DOMAIN doc.paths[path][k]}}

-----------------------------------------------------------------------------
(* Integrations.  The route of an AWS_IAM caller runs with a role: the     *)
(* event's, the API's, or the caller's own.                                *)

InvokeRole(given) == IF given = Unset THEN "caller" ELSE given
Credentials(event, default, apiRole) ==
  IF event.authorizer = IAM \/ (default = IAM /\ ~event.auth)
  THEN InvokeRole(IF event.role # Unset THEN event.role ELSE apiRole)
  ELSE Unset

Integrate(doc, path, method, integration, credentials) ==
  LET Put(definition) == [definition EXCEPT !.integration = integration, !.credentials = credentials]
      PutIn(item) == [item EXCEPT ![method] = [j \in DOMAIN @ |-> Put(@[j])]]
  IN  [AddPath(doc, path, method) EXCEPT !.paths[path] = [i \in DOMAIN @ |-> PutIn(@[i])]]
AddLambdaIntegration(doc, event, default, apiRole) ==
  Integrate(doc, event.path, event.method, "lambda",
            LET role == Credentials(event, default, apiRole) IN IF role = "NONE" THEN Unset ELSE role)
AddStateMachineIntegration(doc, event) ==
  Integrate(doc, event.path, event.method, "machine", "role of the machine")

-----------------------------------------------------------------------------
(* Security.  Definitions of the document are added under their names;     *)
(* the authorizers replace what has their name, the others do not.         *)

AddAuthorizersSecurityDefinitions_Replace(doc, made) == [doc EXCEPT !.definitions = made]
AddAuthorizersSecurityDefinitions(doc, made) == [doc EXCEPT !.definitions = made ++ @]
AddAwsIamSecurityDefinition(doc) == [doc EXCEPT !.definitions = @ ++ Only(IAM, IamDefinition)]
AddApiKeySecurityDefinition(doc) == [doc EXCEPT !.definitions = @ ++ Only("api_key", ApiKeyDefinition)]

StartsWithIam(definition) == definition.security # <<>> /\ definition.security[1].name = IAM
WithIamIf(doc, defined) == IF defined THEN AddAwsIamSecurityDefinition(doc) ELSE doc

(* An event's own authorizer, "NONE" being a mark for the default to come. *)
SetMethodAuthorizer(doc, event, authorizers) ==
  LET scopes == IF event.authorizer \notin DOMAIN authorizers THEN Unset
                ELSE IF event.scopes THEN "of the event"
                ELSE IF authorizers[event.authorizer].scopes THEN "of the authorizer" ELSE Unset
      Put(definition) ==
        [definition EXCEPT !.security = Append(@, Requirement(event.authorizer, scopes))]
      edited == OnMethodDefinitions(doc, event.path, event.method, Put)
  IN  WithIamIf(edited, \E d \in DefinitionsOf(edited, event.path, event.method) : StartsWithIam(d))

(* Likewise its own say about API keys; "api_key_false" is a mark.         *)
SetMethodApiKeyHandling(doc, event) ==
  LET name == IF event.key = "required" THEN "api_key" ELSE "api_key_false"
      edited == OnMethodDefinitions(doc, event.path, event.method,
                  LAMBDA d : [d EXCEPT !.security = Append(@, Requirement(name, Unset))])
  IN  IF event.key = "required" THEN AddApiKeySecurityDefinition(edited) ELSE edited

AddAuthToMethod(doc, event, authorizers) ==
  LET authorized == IF event.authorizer = Unset THEN doc ELSE SetMethodAuthorizer(doc, event, authorizers)
  IN  IF event.key = Unset THEN authorized ELSE SetMethodApiKeyHandling(authorized, event)

(* The requirements that name one of some definitions, in their order, and *)
(* all but those.                                                          *)
Naming(security, names) ==
  LET kept[n \in 0..Len(security)] ==
        IF n = 0 THEN <<>>
        ELSE IF security[n].name \in names THEN Append(kept[n - 1], security[n]) ELSE kept[n - 1]
  IN  kept[Len(security)]
NotNaming(security, names) == Naming(security, NamesIn(security) \ names)

(* The default authorizer of a method: not beside one of its own, and not  *)
(* where NONE is said, which is taken away if something else remains.      *)
DefaultSecurity_OwnToo(security, default, authorizers) ==
  Append(NotNaming(security, {"NONE"}), Requirement(default, Unset))
DefaultSecurity(security, default, authorizers) ==
  LET named  == {IAM} \cup DOMAIN authorizers
      others == NotNaming(security, named)
      own    == Naming(security, named)
      scopes == IF default \in DOMAIN authorizers /\ authorizers[default].scopes
                THEN "of the authorizer" ELSE Unset
  IN  IF "NONE" \in NamesIn(others) THEN RemoveAt(others, Min({i \in DOMAIN others : others[i].name = "NONE"}))
      ELSE others \o (IF own = <<>> THEN <<Requirement(default, scopes)>> ELSE own)

SetPathDefaultAuthorizer(doc, default, authorizers, preflight) ==
  LET Put(method, definition) ==
        LET security == DefaultSecurity(definition.security, default, authorizers)
        IN  IF (method = "options" /\ ~preflight) \/ security = <<>> THEN definition
            ELSE [definition EXCEPT !.security = security]
      edited == OnAllMethods(doc, Put)
  IN  WithIamIf(edited,
        \E p \in DOMAIN doc.paths : \E m \in MethodsOf(doc, p) \ (IF preflight THEN {} ELSE {"options"}) :
          \E d \in DefinitionsOf(edited, p, m) : HasIntegrationIn(d) /\ StartsWithIam(d))

KeySecurity(method, security, preflight) ==
  LET others == NotNaming(security, {"api_key", "api_key_false"})
  IN  IF "api_key_false" \in NamesIn(security) \/ (method = "options" /\ ~preflight)
      THEN others ELSE Append(others, Requirement("api_key", Unset))
SetPathDefaultApiKeyRequired(doc, preflight) ==
  OnAllMethods(doc, LAMBDA m, d : [d EXCEPT !.security = KeySecurity(m, @, preflight)])

-----------------------------------------------------------------------------
(* CORS: a mock OPTIONS method in each item that has none.  What it allows *)
(* is the author's, or the methods of the first item it was worked out for.*)

AllowedMethods(item) ==
  IF AnyMethod \in DOMAIN item THEN AllHttpMethods ELSE DOMAIN item \cup {"options"}
OptionsMethodForCors(allow) == Method("mock", <<>>, allow)
AddCors(items, given) ==
  LET open  == {i \in DOMAIN items : "options" \notin DOMAIN items[i]}
      allow == IF given # {} THEN given ELSE AllowedMethods(items[Min(open)])
  IN  [i \in DOMAIN items |->
         IF i \in open THEN items[i] ++ Only("options", <<OptionsMethodForCors(allow)>>) ELSE items[i]]

-----------------------------------------------------------------------------
(* Models, validators, responses, media types, the endpoint.               *)

(* The reference is to where the document keeps models when it is made.    *)
AddRequestModelToMethod(doc, event) ==
  OnMethodDefinitions(doc, event.path, event.method,
    LAMBDA d : [d EXCEPT !.model = <<IF doc.version = "swagger" THEN "definitions" ELSE "schemas", event.model>>])
AddRequestValidatorToMethod(doc, event) ==
  OnMethodDefinitions([doc EXCEPT !.validators = @ \cup {event.validator}], event.path, event.method,
    LAMBDA d : [d EXCEPT !.validator = event.validator])
AddModels(doc, models) == [doc EXCEPT !.models = @ \cup models]
AddGatewayResponses(doc, responses) == [doc EXCEPT !.responses = @ \cup responses]
AddBinaryMediaTypes(doc, types) == [doc EXCEPT !.binary = types]
AddDisableExecuteApiEndpointExtension(doc) ==
  [doc EXCEPT !.extension = IF doc.version = "openapi" THEN "servers" ELSE "document"]

-----------------------------------------------------------------------------
(* The resource policy.  Each clause adds statements about the methods the *)
(* path has now.                                                           *)

MethodPathUris_AnyKept(doc, path) == {<<m, path>> : m \in MethodsOf(doc, path)}
MethodPathUris(doc, path) ==
  {<<IF m = AnyMethod THEN "*" ELSE m, path>> : m \in MethodsOf(doc, path)}
Statement(effect, whom, resources) == [effect |-> effect, whom |-> whom, resources |-> resources]

IamStatements(clause, resources) ==
  CASE clause = "accounts allowed" -> {Statement("Allow", "accounts", resources)}
    [] clause = "accounts denied"  -> {Statement("Deny", "accounts", resources)}
    [] OTHER -> {}
AllButIf(condition, resources) ==
  {Statement("Allow", "all", resources), Statement("Deny", condition, resources)}
IpStatements(clause, resources) ==
  CASE clause = "addresses allowed" -> AllButIf("other addresses", resources)
    [] clause = "addresses denied"  -> AllButIf("addresses", resources)
    [] OTHER -> {}
VpcStatements(clause, resources) ==
  CASE clause = "endpoints allowed" -> AllButIf("other endpoints", resources)
    [] clause = "endpoints denied"  -> AllButIf("endpoints", resources)
    [] OTHER -> {}

AddResourcePolicy(doc, clauses, path) ==
  LET resources == MethodPathUris(doc, path)
  IN  [doc EXCEPT !.policy = @ \cup
         UNION {IamStatements(c, resources) \cup IpStatements(c, resources)
                  \cup VpcStatements(c, resources) : c \in clauses}]
AddCustomStatements(doc, clauses) ==
  [doc EXCEPT !.policy = @ \cup {Statement("Allow", c, {}) : c \in clauses \cap {"custom"}}]
=============================================================================
