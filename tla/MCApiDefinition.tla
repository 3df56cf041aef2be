--------------------------- MODULE MCApiDefinition ---------------------------
(***************************************************************************)
(* Templates for ApiDefinition, in families: the events' and the API's say *)
(* about authorizers and keys; two events and policies; the author's own   *)
(* documents; HTTP APIs; what is refused.                                  *)
(*                                                                         *)
(* Left out are templates for which the code breaks the properties:        *)
(*   - an OPTIONS event that requires a key at an API that asks none of    *)
(*     preflight requests: the key is dropped (swagger.py:681-682);        *)
(*   - AWS_IAM as the default and an event whose Auth names no authorizer: *)
(*     it gets the authorizer and no credentials (swagger.py:159);         *)
(*   - AWS_IAM as the default, not of preflight requests, and an OPTIONS   *)
(*     event: it gets credentials and no authorizer (swagger.py:160);      *)
(*   - a REST API with a default and no authorizers: the default is not    *)
(*     looked at (api_generator.py:1067);                                  *)
(*   - securitySchemes or schemas of an OpenAPI 3 document beside          *)
(*     Authorizers or Models: they are replaced (api_generator.py:1377);   *)
(*   - policies of APIs with a path that ends in a slash: the statement    *)
(*     keeps the slash API Gateway removes (swagger.py:1022);              *)
(*   - a route of the author's that an HttpApi event with Auth is for:     *)
(*     both requirements stay (open_api.py:360).                           *)
(***************************************************************************)
EXTENDS ApiDefinition, TLC

P == <<"/p", FALSE>>
PSlash == <<"/p", TRUE>>
Q == <<"/q", FALSE>>

Document(version, paths) ==
  [version |-> version, paths |-> paths, definitions |-> <<>>, schemes |-> <<>>,
   models |-> {}, schemas |-> {}, policy |-> {}, responses |-> {}, validators |-> {}, binary |-> {},
   extension |-> "none", cors |-> <<>>, tags |-> <<>>, title |-> "the default", description |-> Unset]

(* After the plugins: the paths and methods of the events, no integrations.*)
Skeleton(version, events) ==
  LET routes == {<<events[k].path, events[k].method>> : k \in DOMAIN events}
  IN  Document(version,
        [p \in {r[1] : r \in routes} |-> <<[m \in {r[2] : r \in {s \in routes : s[1] = p}} |-> <<NoMethod>>]>>])

Lambda(scopes) ==
  [pool |-> FALSE, jwt |-> FALSE, function |-> TRUE, payload |-> Unset, sources |-> {}, ttl |-> Unset,
   scopes |-> scopes, permission |-> Unset]
Pool == [Lambda(TRUE) EXCEPT !.pool = TRUE, !.function = FALSE]
Jwt == [Lambda(TRUE) EXCEPT !.jwt = TRUE, !.function = FALSE, !.sources = {"Headers"}]
HttpLambda == [Lambda(FALSE) EXCEPT !.payload = "2.0", !.permission = "enabled"]

Event0 ==
  [by |-> "function", path |-> P, method |-> "get", auth |-> FALSE, authorizer |-> Unset, scopes |-> FALSE,
   key |-> Unset, policy |-> {}, role |-> Unset, model |-> Unset, validator |-> Unset]
Stated(e) ==
  [e EXCEPT !.auth = e.authorizer # Unset \/ e.scopes \/ e.key # Unset \/ e.policy # {} \/ e.role # Unset]

Api0 ==
  [kind |-> "rest", managed |-> TRUE, uri |-> FALSE, doc |-> NoDocument, events |-> <<>>, version |-> Unset,
   authorizers |-> <<>>, default |-> Unset, iam |-> FALSE, preflightAuth |-> TRUE, key |-> FALSE,
   preflightKey |-> TRUE, role |-> Unset, cors |-> Unset, methods |-> {}, policy |-> {}, responses |-> {},
   models |-> {}, binary |-> {}, closed |-> FALSE, tags |-> <<>>, name |-> Unset, description |-> Unset,
   failOnWarnings |-> FALSE]
Of(api, version, events) ==
  [api EXCEPT !.events = events, !.doc = Skeleton(version, events),
              !.version = IF version = "openapi" THEN "3" ELSE Unset]

TwoAuthorizers == ("L" :> Lambda(FALSE)) @@ ("C" :> Pool)

(* One event and all it and the API can say about authorizers and keys.    *)
EventsWithAuth ==
  {Stated([Event0 EXCEPT !.by = b, !.method = m, !.authorizer = a, !.scopes = s, !.key = k, !.role = r]) :
     b \in {"function", "machine"}, m \in {"get", "options", AnyMethod},
     a \in {Unset, "C", IAM, "NONE", "X"}, s \in BOOLEAN, k \in {Unset, "required", "not required"},
     r \in {Unset, "NONE"}}
RoleOfAnother(e) == e.role # Unset /\ e.authorizer # IAM
KeyAtMachine(e) == e.by = "machine" /\ e.key = "not required"
ApisWithAuth ==
  {[Api0 EXCEPT !.authorizers = TwoAuthorizers, !.default = d, !.key = k,
                !.preflightAuth = p, !.preflightKey = ~p, !.cors = c] :
     d \in {Unset, "L", IAM}, k \in BOOLEAN, p \in BOOLEAN, c \in {Unset, "any origin"}}
KeyOfPreflight(api, e) == e.method = "options" /\ e.key = "required" /\ ~api.preflightKey /\ api.key
PartialIam(api, e) ==
  api.default = IAM /\ e.authorizer = Unset /\ (e.auth \/ (e.method = "options" /\ ~api.preflightAuth))
Authorized ==
  {Of(x[1], x[2], <<x[3]>>) :
     x \in {y \in ApisWithAuth \X {"swagger", "openapi"} \X {e \in EventsWithAuth : ~RoleOfAnother(e) /\ ~KeyAtMachine(e)} :
              ~KeyOfPreflight(y[1], y[3]) /\ ~PartialIam(y[1], y[3])}}

(* Two events, of one path or two, with policies and models.               *)
Policies == {{}, {"addresses denied"}, {"accounts allowed", "endpoints denied", "custom"}}
EventsWithPolicy ==
  {Stated([Event0 EXCEPT !.path = p, !.method = m, !.policy = c, !.model = o,
                         !.validator = IF o = Unset THEN Unset ELSE "body-only"]) :
     p \in {P, Q}, m \in {"get", AnyMethod}, c \in {{}, {"addresses denied"}, {"accounts denied", "custom"}},
     o \in {Unset, "M", "X"}}
OtherEvents == {e \in EventsWithPolicy : e.model = Unset /\ e.policy # {"addresses denied"}}
ApisWithPolicy ==
  {[Api0 EXCEPT !.authorizers = "L" :> Lambda(FALSE), !.policy = c, !.cors = o, !.models = {"M"},
                !.responses = {"DEFAULT_4XX"}, !.closed = TRUE] :
     c \in Policies, o \in {Unset, "any origin"}}
Governed ==
  {Of(x[1], x[2], <<x[3], x[4]>>) :
     x \in ApisWithPolicy \X {"swagger", "openapi"} \X EventsWithPolicy \X OtherEvents}

(* The author's documents.                                                 *)
Author(security) == Method("author", security, {})
OwnRequirements == {<<>>, <<Requirement("own", Unset)>>, <<Requirement("C", Unset), Requirement("own", Unset)>>,
                    <<Requirement(IAM, Unset)>>, <<Requirement("NONE", Unset)>>}
OwnItems(security) ==
  {<<"get" :> <<Author(security)>>>>,
   <<"get" :> <<Author(security), Author(<<>>)>>>>,
   <<"get" :> <<Author(security)>>, "post" :> <<Author(<<>>)>>>>,
   <<("get" :> <<Author(security)>>) @@ ("options" :> <<Author(<<>>)>>)>>}
OwnDocuments ==
  {[Document(x[1], (P :> x[3]) @@ (PSlash :> <<"post" :> <<Author(<<>>)>>>>)) EXCEPT
      !.definitions = IF x[1] = "swagger" THEN "own" :> IamDefinition ELSE <<>>,
      !.schemes = IF x[1] = "openapi" THEN "own" :> IamDefinition ELSE <<>>,
      !.policy = {Statement("Allow", "its own", {})}, !.responses = {"own"},
      !.models = IF x[1] = "swagger" THEN {"own"} ELSE {},
      !.schemas = IF x[1] = "openapi" THEN {"own"} ELSE {}] :
     x \in {y \in {"swagger", "openapi"} \X OwnRequirements \X UNION {OwnItems(s) : s \in OwnRequirements} :
              y[3] \in OwnItems(y[2])}}
NamesTheAuthors(d) == \E m \in MethodsOf(d, P) : \E x \in DefinitionsOf(d, P, m) : NamesIn(x.security) \cap {"C", IAM} # {}
OwnApis(d) ==
  {[Api0 EXCEPT !.managed = FALSE, !.doc = d, !.version = v,
                !.authorizers = IF d.version = "swagger" THEN TwoAuthorizers ELSE <<>>,
                !.default = IF d.version = "swagger" THEN a ELSE Unset, !.key = FALSE,
                !.cors = c, !.preflightAuth = p, !.models = IF d.version = "swagger" THEN {"M"} ELSE {},
                !.responses = {"DEFAULT_4XX"}, !.binary = {"image/png"}, !.closed = TRUE] :
     v \in {Unset, "3"}, a \in {"L", IAM}, c \in {Unset, "any origin"}, p \in BOOLEAN}
Own == UNION {OwnApis(d) : d \in {x \in OwnDocuments : x.version = "swagger" \/ ~NamesTheAuthors(x)}}

(* HTTP APIs: events at their own document or the author's.                *)
HttpEvents ==
  {Stated([Event0 EXCEPT !.path = p, !.method = m, !.authorizer = a, !.scopes = s, !.auth = FALSE]) :
     p \in {P, DefaultPath}, m \in {"get", "options", AnyMethod}, a \in {Unset, "J", IAM, "NONE", "X"}, s \in BOOLEAN}
HttpApis ==
  {[Api0 EXCEPT !.kind = "http", !.authorizers = a, !.iam = i, !.default = d, !.cors = c,
                !.tags = "stage" :> "beta", !.name = "name", !.failOnWarnings = f, !.closed = TRUE] :
     a \in {<<>>, ("J" :> Jwt) @@ ("L" :> HttpLambda)}, i \in BOOLEAN, d \in {Unset, "J", IAM}, c \in {Unset, "any origin"},
     f \in BOOLEAN}
HttpDocument(e) ==
  [Document("openapi", (Q :> <<"get" :> <<Author(<<Requirement("own", Unset)>>)>>>>)
                         @@ (DefaultPath :> <<"post" :> <<Author(<<>>)>>>>)) EXCEPT
     !.schemes = "own" :> IamDefinition, !.cors = "maxAge" :> "10", !.tags = "own" :> "own"]
Http ==
  {[Of(x[1], "openapi", <<x[2]>>) EXCEPT !.version = Unset] : x \in HttpApis \X HttpEvents}
  \cup {[x[1] EXCEPT !.managed = FALSE, !.doc = HttpDocument(x[2]), !.events = <<x[2]>>] : x \in HttpApis \X HttpEvents}

(* What is refused beside that, and definitions that are elsewhere.        *)
Elsewhere ==
  {[a EXCEPT !.uri = u] :
     a \in {Api0, [Api0 EXCEPT !.kind = "http"], [Api0 EXCEPT !.cors = "any origin"],
            [Api0 EXCEPT !.authorizers = TwoAuthorizers], [Api0 EXCEPT !.models = {"M"}],
            [Api0 EXCEPT !.responses = {"DEFAULT_4XX"}], [Api0 EXCEPT !.closed = TRUE],
            [Api0 EXCEPT !.kind = "http", !.tags = "stage" :> "beta"],
            [Api0 EXCEPT !.kind = "http", !.name = "name"], [Api0 EXCEPT !.kind = "http", !.description = "text"],
            Of(Api0, "swagger", <<Event0>>),
            Of([Api0 EXCEPT !.cors = "any origin with credentials"], "swagger", <<Event0>>)},
     u \in BOOLEAN}
Identities ==
  {Of([Api0 EXCEPT !.authorizers =
         "L" :> [Lambda(FALSE) EXCEPT !.payload = p, !.sources = s, !.ttl = t, !.permission = d]],
      "swagger", <<Stated([Event0 EXCEPT !.authorizer = "L"])>>) :
     p \in {Unset, "TOKEN", "REQUEST", "2.0"}, s \in {{}, {"Headers"}}, t \in {Unset, "zero", "some"}, d \in {Unset, "disabled"}}

MCTemplates == Authorized \cup Governed \cup Own \cup Http \cup Elsewhere \cup Identities
=============================================================================
