---------------------------- MODULE ApiDefinition ----------------------------
(***************************************************************************)
(* How the definition of one REST or HTTP API comes to be: the Api and     *)
(* HttpApi events of functions and state machines are put into it one by   *)
(* one, each with its own authorizer, API key and policy, and only then    *)
(* does the API's generator add CORS, default authorizers, API keys and    *)
(* policies to all that is there, moving things to where OpenAPI 3 has     *)
(* them after more than one step.                                          *)
(*                                                                         *)
(* A template is a record: the API's properties, the events in the order   *)
(* of translation, and the document after the plugins, which already has   *)
(* the paths and methods of the events, without integrations.              *)
(***************************************************************************)
EXTENDS OpenApiEditor

CONSTANTS Templates, NoDocument

(* What is known of the templates: the parts every document has.           *)
DocumentParts ==
  {"version", "paths", "definitions", "schemes", "models", "schemas", "policy", "responses",
   "validators", "binary", "extension", "cors", "tags", "title", "description"}
IsDocument(d) == DOMAIN d = DocumentParts /\ d.version \in {"swagger", "openapi"}
IsWritten(d) ==
  /\ IsDocument(d)
  /\ \A p \in DOMAIN d.paths : DOMAIN d.paths[p] # {}
  /\ \A p \in DOMAIN d.paths : \A i \in DOMAIN d.paths[p] : \A m \in DOMAIN d.paths[p][i] :
       /\ DOMAIN d.paths[p][i][m] # {}
       /\ \A j \in DOMAIN d.paths[p][i][m] :
            /\ DOMAIN d.paths[p][i][m][j] = DOMAIN NoMethod
            /\ d.paths[p][i][m][j].integration \in {"none", "author"}
            /\ d.paths[p][i][m][j].security \in Seq(ToSet(d.paths[p][i][m][j].security))

(* An event without Auth asks for nothing.                                 *)
EventParts ==
  {"by", "path", "method", "auth", "authorizer", "scopes", "key", "policy", "role", "model", "validator"}
IsEvent(e) ==
  /\ DOMAIN e = EventParts
  /\ e.auth \in BOOLEAN /\ e.scopes \in BOOLEAN
  /\ e.key \in {Unset, "required", "not required"}
  /\ ~e.auth => e.authorizer = Unset /\ ~e.scopes /\ e.key = Unset
ASSUME ApiDefinitionAssumption ==
  /\ Unset \notin {IAM, "NONE", "required", "not required"}
  /\ \A t \in Templates :
       /\ t.events \in Seq({t.events[k] : k \in DOMAIN t.events})
       /\ \A k \in DOMAIN t.events : IsEvent(t.events[k])
       /\ Unset \notin DOMAIN t.authorizers
       /\ t.doc # NoDocument => IsWritten(t.doc) /\ (t.kind = "rest" \/ t.doc.version = "openapi")

VARIABLES template,     \* the API's properties and its events
          doc,          \* DefinitionBody, or NoDocument
          integrated,   \* how many events have been put into it
          at,           \* the step that is next, "made" or "refused"
          permitted     \* authorizers the API may invoke by a permission
vars == <<template, doc, integrated, at, permitted>>

IsRest == template.kind = "rest"
Authorizers == template.authorizers
Default == template.default
Openapi3 == doc # NoDocument /\ doc.version = "openapi"

Init ==
  /\ template \in Templates
  /\ doc = template.doc
  /\ integrated = 0
  /\ at = "events"
  /\ permitted = {}

GoOn(next, document) ==
  /\ at' = next
  /\ doc' = document
  /\ UNCHANGED <<template, integrated, permitted>>
Refuse == at' = "refused" /\ UNCHANGED <<template, doc, integrated, permitted>>

-----------------------------------------------------------------------------
(* Events.  Own documents get routes from HttpApi events only.             *)

Event == template.events[integrated + 1]
AcceptsEvents == doc # NoDocument /\ (template.managed \/ ~IsRest)

RouteIsTaken(e) == template.managed /\ HasIntegration(doc, e.path, e.method)

RefusedAuth(e) ==
  \/ e.authorizer \notin {Unset, IAM, "NONE"} \cup DOMAIN Authorizers
  \/ e.authorizer = "NONE" /\ Default = Unset
  \/ e.scopes /\ e.authorizer = Unset
  \/ e.key = "not required" /\ ~template.key
RefusedModel(e) == e.model # Unset /\ e.model \notin template.models

(* At an HTTP API an Auth without an authorizer asks for the default.      *)
WithDefault(e) == IF e.authorizer = Unset THEN [e EXCEPT !.authorizer = Default] ELSE e
RefusedHttpAuth(e) ==
  e.auth /\ \/ WithDefault(e).authorizer = Unset
            \/ e.authorizer = "NONE" /\ Default = Unset
            \/ WithDefault(e).authorizer \notin
                 {"NONE"} \cup DOMAIN Authorizers \cup (IF template.iam THEN {IAM} ELSE {})

AddAuthToSwagger(with, e) ==
  LET authorized == AddAuthToMethod(with, e, Authorizers)
  IN  IF e.policy = {} THEN authorized
      ELSE AddCustomStatements(AddResourcePolicy(authorized, e.policy, e.path), e.policy)
AddModelOf(with, e) ==
  LET modelled == IF e.model = Unset THEN with ELSE AddRequestModelToMethod(with, e)
  IN  IF e.model = Unset \/ e.validator = Unset THEN modelled
      ELSE AddRequestValidatorToMethod(modelled, e)

IntegrateFunction(e) ==
  AddModelOf(AddAuthToSwagger(AddLambdaIntegration(doc, e, Default, template.role), e), e)
IntegrateMachine(e) == AddAuthToSwagger(AddStateMachineIntegration(doc, e), e)
IntegrateHttp(e) ==
  LET with == AddHttpLambdaIntegration(doc, e)
  IN  IF e.auth THEN SetHttpMethodAuthorizer(with, WithDefault(e), Authorizers) ELSE with

AddEvent ==
  /\ at = "events" /\ integrated < Len(template.events)
  /\ ~RouteIsTaken(Event) \/ ~AcceptsEvents
  /\ ~AcceptsEvents \/ IF IsRest THEN ~RefusedAuth(Event) /\ ~RefusedModel(Event) ELSE ~RefusedHttpAuth(Event)
  /\ integrated' = integrated + 1
  /\ doc' = IF ~AcceptsEvents THEN doc
            ELSE IF ~IsRest THEN IntegrateHttp(Event)
            ELSE IF Event.by = "machine" THEN IntegrateMachine(Event) ELSE IntegrateFunction(Event)
  /\ UNCHANGED <<template, at, permitted>>

RefuseEvent ==
  /\ at = "events" /\ integrated < Len(template.events) /\ AcceptsEvents
  /\ \/ RouteIsTaken(Event)
     \/ IsRest /\ (RefusedAuth(Event) \/ RefusedModel(Event))
     \/ ~IsRest /\ RefusedHttpAuth(Event)
  /\ Refuse

(* After its functions the API itself is translated.                       *)
StartApi ==
  /\ at = "events" /\ integrated = Len(template.events)
  /\ IF template.uri /\ doc # NoDocument THEN Refuse ELSE GoOn("cors", doc)

-----------------------------------------------------------------------------
(* CORS.                                                                   *)

(* /p and /p/ are one resource to API Gateway: only the first met gets an  *)
(* OPTIONS method.                                                         *)
Normalized(path) == <<path[1], FALSE>>
AddCorsTo(paths) ==
  [doc EXCEPT !.paths = [p \in DOMAIN @ |-> IF p \in paths THEN AddCors(@[p], template.methods) ELSE @[p]]]
OnePerResource(paths) ==
  /\ {Normalized(p) : p \in paths} = {Normalized(p) : p \in DOMAIN doc.paths}
  /\ \A p, q \in paths : Normalized(p) = Normalized(q) => p = q
RefusedCors == doc = NoDocument \/ template.cors = "any origin with credentials"

SkipCors == at = "cors" /\ template.cors = Unset /\ GoOn("auth", doc)
RefuseCors == at = "cors" /\ template.cors # Unset /\ RefusedCors /\ Refuse
AddRestCors ==
  /\ at = "cors" /\ template.cors # Unset /\ ~RefusedCors /\ IsRest
  /\ \E paths \in SUBSET DOMAIN doc.paths :
       OnePerResource(paths) /\ GoOn("auth", AddCorsTo(paths))
AddHttpCorsSettings ==
  /\ at = "cors" /\ template.cors # Unset /\ ~RefusedCors /\ ~IsRest
  /\ GoOn("auth", AddHttpCors(doc, Only("allowOrigins", template.cors)))

-----------------------------------------------------------------------------
(* Auth.                                                                   *)

HasAuth ==
  \/ Authorizers # <<>> \/ Default # Unset \/ template.key \/ template.iam
  \/ template.policy # {} \/ template.role # Unset

(* A REST API knows AWS_IAM once it is the default, an HTTP API once it is *)
(* enabled.  Without authorizers a REST API's default is never looked at.  *)
KnownAuthorizers ==
  DOMAIN Authorizers \cup
    (IF (IF IsRest THEN Default = IAM ELSE template.iam) THEN {IAM} ELSE {})
DefinitionsMade ==
  [n \in KnownAuthorizers |->
     IF n = IAM /\ n \notin DOMAIN Authorizers THEN IamDefinition
     ELSE IF IsRest THEN GenerateSwagger(Authorizers[n]) ELSE GenerateOpenApi(Authorizers[n])]
RefusedAuthorizer ==
  \E n \in DOMAIN Authorizers :
    IF IsRest THEN RefusedAtRest(Authorizers[n]) ELSE RefusedAtHttp(Authorizers[n])
RefusedDefault ==
  Default \notin {Unset} \cup KnownAuthorizers /\ (KnownAuthorizers # {} \/ ~IsRest)
RefusedApiAuth == doc = NoDocument \/ RefusedAuthorizer \/ RefusedDefault

(* securityDefinitions and definitions become parts of components, in the  *)
(* place of what components had there, if the document is to be OpenAPI 3. *)
OpenApiPostprocess_LeavesModels(d) ==
  IF d.version = "swagger" \/ template.version = "2" THEN d
  ELSE [d EXCEPT !.schemes = IF d.definitions # <<>> THEN d.definitions ELSE @, !.definitions = <<>>]
OpenApiPostprocess(d) ==
  IF d.version = "swagger" \/ template.version = "2" THEN d
  ELSE [d EXCEPT !.schemes = IF d.definitions # <<>> THEN d.definitions ELSE @,
                 !.definitions = <<>>,
                 !.schemas = IF d.models # {} THEN d.models ELSE @,
                 !.models = {}]

WithAuthorizers(d) ==
  IF KnownAuthorizers = {} THEN d
  ELSE LET defined == AddAuthorizersSecurityDefinitions(d, DefinitionsMade)
       IN  IF Default = Unset THEN defined
           ELSE SetPathDefaultAuthorizer(defined, Default, Authorizers, template.preflightAuth)
WithApiKeys(d) ==
  IF ~template.key THEN d
  ELSE SetPathDefaultApiKeyRequired(AddApiKeySecurityDefinition(d), template.preflightKey)
WithPolicy(d) ==
  IF template.policy = {} THEN d
  ELSE LET covering == [d EXCEPT !.policy = @ \cup
             UNION {AddResourcePolicy(d, template.policy, p).policy : p \in DOMAIN d.paths}]
       IN  AddCustomStatements(covering, template.policy)

SkipAuth ==
  /\ at = "auth" /\ ~HasAuth
  /\ GoOn(IF IsRest THEN "responses" ELSE "tags", doc)
RefuseAuth == at = "auth" /\ HasAuth /\ RefusedApiAuth /\ Refuse
AddRestAuth ==
  /\ at = "auth" /\ HasAuth /\ ~RefusedApiAuth /\ IsRest
  /\ GoOn("responses", OpenApiPostprocess(WithPolicy(WithApiKeys(WithAuthorizers(doc)))))
AddHttpAuth ==
  /\ at = "auth" /\ HasAuth /\ ~RefusedApiAuth /\ ~IsRest
  /\ LET defined == AddAuthorizersSecuritySchemes(doc, DefinitionsMade)
     IN  GoOn("tags", IF Default = Unset THEN defined
                      ELSE SetHttpPathDefaultAuthorizer(defined, Default, Authorizers))

-----------------------------------------------------------------------------
(* The rest of a REST API's definition.                                    *)

AddGatewayResponsesStep ==
  /\ at = "responses"
  /\ IF template.responses = {} THEN GoOn("binary", doc)
     ELSE IF doc = NoDocument THEN Refuse
     ELSE GoOn("binary", AddGatewayResponses(doc, template.responses))
AddBinaryMediaTypesStep ==
  /\ at = "binary"
  /\ GoOn("models", IF doc = NoDocument THEN doc ELSE AddBinaryMediaTypes(doc, template.binary))
AddModelsStep ==
  /\ at = "models"
  /\ IF template.models = {} THEN GoOn("extension", doc)
     ELSE IF doc = NoDocument THEN Refuse
     ELSE GoOn("extension", OpenApiPostprocess(AddModels(doc, template.models)))
AddEndpointExtension ==
  /\ at = "extension"
  /\ IF ~template.closed THEN GoOn("body", doc)
     ELSE IF doc = NoDocument THEN Refuse
     ELSE GoOn("body", IF IsRest THEN AddDisableExecuteApiEndpointExtension(doc) ELSE AddEndpointConfig(doc))

(* The rest of an HTTP API's definition.                                   *)
AddHttpTags ==
  /\ at = "tags"
  /\ IF doc = NoDocument THEN IF template.tags = <<>> THEN GoOn("extension", doc) ELSE Refuse
     ELSE GoOn("extension", AddTags(doc, Only("httpapi:createdBy", "SAM") ++ template.tags))
RefusedInfo ==
  \/ template.name # Unset /\ (doc = NoDocument \/ doc.title # "the default")
  \/ template.description # Unset /\ (doc = NoDocument \/ doc.description # Unset)
WithInfo ==
  LET titled == IF template.name = Unset THEN doc ELSE AddTitle(doc, template.name)
  IN  IF template.description = Unset THEN titled ELSE AddDescription(titled, template.description)

(* Name and description, then the default path, then the body itself.      *)
FinishHttp ==
  /\ at = "body" /\ ~IsRest
  /\ IF RefusedInfo \/ (doc = NoDocument /\ ~template.uri) THEN Refuse
     ELSE /\ at' = "made"
          /\ doc' = IF doc # NoDocument /\ template.failOnWarnings THEN UpdateDefaultPath(WithInfo) ELSE WithInfo
          /\ permitted' = {n \in DOMAIN Authorizers : PermittedAtHttp(Authorizers[n])}
          /\ UNCHANGED <<template, integrated>>
FinishRest ==
  /\ at = "body" /\ IsRest
  /\ at' = "made"
  /\ doc' = IF doc = NoDocument THEN doc ELSE OpenApiPostprocess(doc)
  /\ permitted' = {n \in DOMAIN Authorizers : PermittedAtRest(Authorizers[n])}
  /\ UNCHANGED <<template, integrated>>

Done == at \in {"made", "refused"} /\ UNCHANGED vars

Next ==
  \/ AddEvent \/ RefuseEvent \/ StartApi
  \/ SkipCors \/ RefuseCors \/ AddRestCors \/ AddHttpCorsSettings
  \/ SkipAuth \/ RefuseAuth \/ AddRestAuth \/ AddHttpAuth
  \/ AddGatewayResponsesStep \/ AddBinaryMediaTypesStep \/ AddModelsStep \/ AddEndpointExtension
  \/ AddHttpTags \/ FinishHttp \/ FinishRest
  \/ Done

Spec == Init /\ [][Next]_vars

-----------------------------------------------------------------------------
(* What holds of the definition that is made.                              *)

Made == at = "made" /\ doc # NoDocument

(* The requirement of a route by one authorizer, or none.                  *)
By(who, e) ==
  LET scopes == IF who \notin DOMAIN Authorizers THEN Unset
                ELSE IF e.scopes THEN "of the event"
                ELSE IF Authorizers[who].scopes THEN "of the authorizer" ELSE Unset
  IN  IF who \in {Unset, "NONE"} THEN {} ELSE {Requirement(who, scopes)}
AuthorizerOf(e) ==
  IF e.authorizer # Unset THEN e.authorizer
  ELSE IF e.method # "options" \/ (IF IsRest THEN template.preflightAuth ELSE e.auth) THEN Default
  ELSE Unset
NeedsKey(e) ==
  IsRest /\ (e.key = "required" \/ (e.key = Unset /\ template.key
                                      /\ (e.method # "options" \/ template.preflightKey)))
Asked(e) == By(AuthorizerOf(e), e) \cup (IF NeedsKey(e) THEN {Requirement("api_key", Unset)} ELSE {})
RoleAsked(e) ==
  LET role == IF e.role # Unset THEN e.role ELSE template.role
  IN  IF AuthorizerOf(e) # IAM \/ role = "NONE" THEN Unset ELSE InvokeRole(role)

(* Where a path of the template is in the definition.                      *)
Served(path) ==
  IF path = DefaultPath /\ ~IsRest /\ template.failOnWarnings THEN SlashedDefaultPath ELSE path

(* A method that is no event's: of the author's document, or for CORS.     *)
NoSay(method) ==
  [method |-> method, authorizer |-> Unset, key |-> Unset, scopes |-> FALSE, auth |-> FALSE]
ForItself(security) ==
  IF IsRest THEN NamesIn(security) \cap ({IAM, "NONE"} \cup DOMAIN Authorizers) ELSE NamesIn(security)
AskedWithout(method, security) ==
  {r \in Asked(NoSay(method)) : r.name = "api_key" \/ ForItself(security) = {}} \cup
  {r \in ToSet(security) : r.name # "NONE"}
Required(d) == {r \in ToSet(d.security) : r.name # "NONE"}

(* Every route asks of its callers exactly what its event says, or else    *)
(* the API: one authorizer with the right scopes or none, an API key or    *)
(* none, and the credentials of an AWS_IAM caller; preflight requests are  *)
(* asked for what the API says of them.  The author's methods keep what    *)
(* they ask for, and get a default authorizer only if they have none.      *)
RoutesGuarded ==
  Made =>
    /\ \A k \in 1..Len(template.events) :
         LET e == template.events[k]
         IN  AcceptsEvents =>
               \A d \in DefinitionsOf(doc, Served(e.path), e.method) :
                 /\ Required(d) = Asked(e)
                 /\ IsRest /\ e.by = "function" => d.credentials = RoleAsked(e)
    /\ \A p \in DOMAIN template.doc.paths : \A i \in DOMAIN doc.paths[Served(p)] :
         \A m \in DOMAIN doc.paths[Served(p)][i] : \A j \in DOMAIN doc.paths[Served(p)][i][m] :
           LET d == doc.paths[Served(p)][i][m][j]
           IN  /\ d.integration = "mock" => Required(d) = AskedWithout(m, <<>>)
               /\ d.integration = "author" =>
                    Required(d) = AskedWithout(m, template.doc.paths[p][i][m][j].security)

(* Every authorizer, model and validator a method names is defined, and    *)
(* where a document of its version has such things: names are given before *)
(* the definitions are moved, and moved more than once.                    *)
Defined == IF Openapi3 THEN doc.schemes ELSE doc.definitions
ModelsDefined == IF Openapi3 THEN {<<"schemas", n>> : n \in doc.schemas} ELSE {<<"definitions", n>> : n \in doc.models}
NamesDefined ==
  Made =>
    \A p \in DOMAIN doc.paths : \A m \in MethodsOf(doc, p) :
      \A d \in {x \in DefinitionsOf(doc, p, m) : HasIntegrationIn(x)} :
        /\ NamesIn(d.security) \ {"NONE"} \subseteq DOMAIN Defined
        /\ d.model # Unset => d.model \in ModelsDefined
        /\ d.validator # Unset => d.validator \in doc.validators

(* The API's policy is about every route there is, the preflight routes    *)
(* that CORS added included; an event's policy is about its own route.     *)
Covered(clause, path, method) ==
  \A s \in IamStatements(clause, {}) \cup IpStatements(clause, {}) \cup VpcStatements(clause, {}) :
    \E t \in doc.policy :
      /\ t.effect = s.effect /\ t.whom = s.whom
      /\ <<IF method = AnyMethod THEN "*" ELSE method, Normalized(path)>> \in t.resources
PolicyCovers ==
  Made /\ IsRest =>
    /\ \A c \in template.policy : \A p \in DOMAIN doc.paths : \A m \in MethodsOf(doc, p) : Covered(c, p, m)
    /\ template.managed =>
         \A k \in 1..Len(template.events) : \A c \in template.events[k].policy :
           Covered(c, template.events[k].path, template.events[k].method)

(* What the author's document has is still there when everything is added: *)
(* definitions, models, responses, statements, tags, and each integration. *)
Written == template.doc
NothingLost ==
  Made =>
    /\ DOMAIN Written.definitions \cup DOMAIN Written.schemes \subseteq DOMAIN Defined
    /\ Written.models \cup Written.schemas \cup template.models \subseteq
         (IF Openapi3 THEN doc.schemas ELSE doc.models) \/ ~IsRest
    /\ Written.policy \subseteq doc.policy /\ Written.responses \subseteq doc.responses
    /\ DOMAIN Written.tags \subseteq DOMAIN doc.tags /\ DOMAIN Written.cors \subseteq DOMAIN doc.cors
    /\ Written.title # "the default" => doc.title = Written.title
    /\ \A p \in DOMAIN Written.paths : \A i \in DOMAIN Written.paths[p] : \A m \in DOMAIN Written.paths[p][i] :
         \A j \in DOMAIN Written.paths[p][i][m] :
           LET w == Written.paths[p][i][m][j]
           IN  HasIntegrationIn(w) => doc.paths[Served(p)][i][m][j].integration = w.integration
=============================================================================
