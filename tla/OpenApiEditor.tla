---------------------------- MODULE OpenApiEditor ----------------------------
(***************************************************************************)
(* What OpenApiEditor does to the definition of an HTTP API, on the        *)
(* documents of SwaggerEditor, whose walk through paths, items and methods *)
(* both share.  An HTTP API has no marks and no API keys: a requirement    *)
(* that a method has, be it NONE, keeps the default authorizer away.       *)
(***************************************************************************)
EXTENDS SwaggerEditor

DefaultPath == <<"$default", FALSE>>
SlashedDefaultPath == <<"/$default", FALSE>>

(* The author's integration of a route is left as it is.                   *)
AddHttpLambdaIntegration(doc, event) ==
  IF HasIntegration(doc, event.path, event.method) THEN doc
  ELSE Integrate(doc, event.path, event.method, "lambda", Unset)

AddAuthorizersSecuritySchemes(doc, made) == [doc EXCEPT !.schemes = made ++ @]

(* The scopes of the event, else those of its authorizer.                  *)
SetHttpMethodAuthorizer(doc, event, authorizers) ==
  LET scopes == IF event.authorizer \notin DOMAIN authorizers \ {IAM} THEN Unset
                ELSE IF event.scopes THEN "of the event"
                ELSE IF authorizers[event.authorizer].scopes THEN "of the authorizer" ELSE Unset
  IN  OnMethodDefinitions(doc, event.path, event.method,
        LAMBDA d : [d EXCEPT !.security = Append(@, Requirement(event.authorizer, scopes))])

SetHttpPathDefaultAuthorizer(doc, default, authorizers) ==
  LET scopes == IF default \in DOMAIN authorizers /\ authorizers[default].scopes
                THEN "of the authorizer" ELSE Unset
  IN  OnAllMethods(doc, LAMBDA m, d :
        IF m = "options" \/ d.security # <<>> THEN d
        ELSE [d EXCEPT !.security = <<Requirement(default, scopes)>>])

(* Settings of the properties win over those of the document.              *)
AddHttpCors(doc, settings) == [doc EXCEPT !.cors = settings ++ @]
AddTags(doc, tags) == [doc EXCEPT !.tags = tags ++ @]
AddEndpointConfig(doc) == [doc EXCEPT !.extension = "servers"]
AddTitle(doc, name) == [doc EXCEPT !.title = name]
AddDescription(doc, text) == [doc EXCEPT !.description = text]

(* Only where FailOnWarnings makes the default path's missing slash fatal. *)
UpdateDefaultPath(doc) ==
  IF DefaultPath \notin DOMAIN doc.paths THEN doc
  ELSE [doc EXCEPT !.paths =
          [p \in (DOMAIN @ \ {DefaultPath}) \cup {SlashedDefaultPath} |->
             IF p = SlashedDefaultPath THEN @[DefaultPath] ELSE @[p]]]
=============================================================================
