------------------------- MODULE ApiDefinitionProofs -------------------------
(***************************************************************************)
(* Proofs about ApiDefinition, for any documents, any number of events and *)
(* any authorizers, models and policies.                                   *)
(*                                                                         *)
(* First of the editors: each of their operators keeps the parts of a      *)
(* document and the integrations that its paths have, and what little it   *)
(* adds is stated beside it.  Then of the steps, each being an edit, a     *)
(* move of definitions and models to components, or neither.  The          *)
(* inductive invariant says where the author's paths, definitions and      *)
(* models are after each step, and what the policy covers by then; a path  *)
(* of the made definition is one of the document's under the name that     *)
(* Served gives it.                                                        *)
(*                                                                         *)
(* Then of what each route asks of its callers: what an event leaves in    *)
(* the security of its method, what the API's defaults make of it, method  *)
(* by method, and that every definition of every route is told by one      *)
(* event, by the author or by CORS, and by no other.                       *)
(*                                                                         *)
(* Last of what methods name: the definitions that the events so far and   *)
(* the API promise, which of them a route's security can name, and that    *)
(* what is promised is defined when the definition is made; and the models *)
(* and validators, which no edit names before it has put them in.          *)
(***************************************************************************)
EXTENDS ApiDefinition, WellFoundedInduction, TLAPS

(* The parts beside the paths keep what they have.                         *)
PartsKept(d, e) ==
  /\ IsDocument(e) /\ e.version = d.version /\ e.title = d.title
  /\ e.models = d.models /\ e.schemas = d.schemas
  /\ d.policy \subseteq e.policy /\ d.responses \subseteq e.responses /\ d.validators \subseteq e.validators
  /\ DOMAIN d.tags \subseteq DOMAIN e.tags /\ DOMAIN d.cors \subseteq DOMAIN e.cors
  /\ DOMAIN d.definitions \subseteq DOMAIN e.definitions
  /\ DOMAIN d.schemes \subseteq DOMAIN e.schemes

(* The jth definition of a method in the ith item of a path has an         *)
(* integration.                                                            *)
Integrated(paths, p, i, m, j, integration) ==
  /\ p \in DOMAIN paths /\ i \in DOMAIN paths[p] /\ m \in DOMAIN paths[p][i] /\ j \in DOMAIN paths[p][i][m]
  /\ "integration" \in DOMAIN paths[p][i][m][j] /\ paths[p][i][m][j].integration = integration

(* Paths keep their items, and methods their integrations.                 *)
PathsKept(old, new) ==
  /\ \A p \in DOMAIN old : p \in DOMAIN new /\ DOMAIN new[p] = DOMAIN old[p]
  /\ \A p, i, m, j, x : x # "none" /\ Integrated(old, p, i, m, j, x) => Integrated(new, p, i, m, j, x)
SameRoutes(old, new) ==
  /\ DOMAIN new = DOMAIN old
  /\ \A p \in DOMAIN old : DOMAIN new[p] = DOMAIN old[p]
  /\ \A p \in DOMAIN old : \A i \in DOMAIN old[p] : DOMAIN new[p][i] = DOMAIN old[p][i]

(* What all editing keeps, and what it keeps if it adds no route.          *)
Kept(d, e) == PartsKept(d, e) /\ PathsKept(d.paths, e.paths)
Edited(d, e) == Kept(d, e) /\ SameRoutes(d.paths, e.paths)

(* Of two edits one after the other.                                       *)
LEMMA KeptTwice ==
  ASSUME NEW d, NEW e, NEW f, Kept(d, e), Kept(e, f)
  PROVE  Kept(d, f)
<1>1. PartsKept(d, f)
  BY DEF Kept, PartsKept
<1>2. PathsKept(d.paths, f.paths)
  BY DEF Kept, PathsKept
<1> QED
  BY <1>1, <1>2 DEF Kept

(* Likewise where neither adds a route.                                    *)
LEMMA EditedTwice ==
  ASSUME NEW d, NEW e, NEW f, Edited(d, e), Edited(e, f)
  PROVE  Edited(d, f)
BY KeptTwice DEF Edited, SameRoutes

(* Paths that are as they were.                                            *)
LEMMA SamePaths ==
  ASSUME NEW d, NEW e, PartsKept(d, e), e.paths = d.paths
  PROVE  Edited(d, e)
BY DEF Edited, Kept, PathsKept, SameRoutes

(* A document is kept by leaving it.                                       *)
LEMMA NothingChanged ==
  ASSUME NEW d, IsDocument(d)
  PROVE  Edited(d, d)
BY SamePaths DEF PartsKept

(* Methods whose definitions may be others, with the same integrations.    *)
AlikeMethods(old, new) ==
  /\ DOMAIN new = DOMAIN old
  /\ \A m \in DOMAIN old :
       /\ DOMAIN new[m] = DOMAIN old[m]
       /\ \A j \in DOMAIN old[m] :
            /\ DOMAIN new[m][j] = DOMAIN old[m][j]
            /\ "integration" \in DOMAIN old[m][j] => new[m][j].integration = old[m][j].integration

(* Editing the definitions of methods one by one is an edit.               *)
LEMMA AlikeEdited ==
  ASSUME NEW d, NEW e, PartsKept(d, e), DOMAIN e.paths = DOMAIN d.paths,
         \A p \in DOMAIN d.paths : DOMAIN e.paths[p] = DOMAIN d.paths[p],
         \A p \in DOMAIN d.paths : \A i \in DOMAIN d.paths[p] : AlikeMethods(d.paths[p][i], e.paths[p][i])
  PROVE  Edited(d, e)
<1>1. PathsKept(d.paths, e.paths)
  BY DEF PathsKept, Integrated, AlikeMethods
<1>2. SameRoutes(d.paths, e.paths)
  BY DEF SameRoutes, AlikeMethods
<1> QED
  BY <1>1, <1>2 DEF Edited, Kept

-----------------------------------------------------------------------------
(* The editors.                                                            *)
LEMMA SetPathDefaultApiKeyRequiredEdits ==
  ASSUME NEW d, IsDocument(d), NEW preflight
  PROVE  Edited(d, SetPathDefaultApiKeyRequired(d, preflight))
<1> DEFINE e == SetPathDefaultApiKeyRequired(d, preflight)
           Put(m, x) == IF HasIntegrationIn(x) THEN [x EXCEPT !.security = KeySecurity(m, @, preflight)] ELSE x
           Item(item) == [m \in DOMAIN item |-> [j \in DOMAIN item[m] |-> Put(m, item[m][j])]]
<1>1. PartsKept(d, e)
  BY DEF PartsKept, IsDocument, DocumentParts, SetPathDefaultApiKeyRequired, OnAllMethods
<1>2. e.paths = [p \in DOMAIN d.paths |-> [i \in DOMAIN d.paths[p] |-> Item(d.paths[p][i])]]
  BY DEF IsDocument, DocumentParts, SetPathDefaultApiKeyRequired, OnAllMethods
<1>3. \A m, x : /\ DOMAIN Put(m, x) = DOMAIN x
                /\ "integration" \in DOMAIN x => Put(m, x).integration = x.integration
  OBVIOUS
<1>4. \A item : AlikeMethods(item, Item(item))
  <2> HIDE DEF Put
  <2> QED
    BY <1>3 DEF AlikeMethods
<1> HIDE DEF e, Item
<1> QED
  BY <1>1, <1>2, <1>4, AlikeEdited DEF e

(* The default authorizer of an HTTP API.                                  *)
LEMMA SetHttpPathDefaultAuthorizerEdits ==
  ASSUME NEW d, IsDocument(d), NEW default, NEW authorizers
  PROVE  Edited(d, SetHttpPathDefaultAuthorizer(d, default, authorizers))
<1> DEFINE e == SetHttpPathDefaultAuthorizer(d, default, authorizers)
           scopes == IF default \in DOMAIN authorizers /\ authorizers[default].scopes
                     THEN "of the authorizer" ELSE Unset
           Put(m, x) == IF HasIntegrationIn(x)
                        THEN IF m = "options" \/ x.security # <<>> THEN x
                             ELSE [x EXCEPT !.security = <<Requirement(default, scopes)>>]
                        ELSE x
           Item(item) == [m \in DOMAIN item |-> [j \in DOMAIN item[m] |-> Put(m, item[m][j])]]
<1>1. PartsKept(d, e)
  BY DEF PartsKept, IsDocument, DocumentParts, SetHttpPathDefaultAuthorizer, OnAllMethods
<1>2. e.paths = [p \in DOMAIN d.paths |-> [i \in DOMAIN d.paths[p] |-> Item(d.paths[p][i])]]
  BY DEF IsDocument, DocumentParts, SetHttpPathDefaultAuthorizer, OnAllMethods
<1>3. \A m, x : /\ DOMAIN Put(m, x) = DOMAIN x
                /\ "integration" \in DOMAIN x => Put(m, x).integration = x.integration
  OBVIOUS
<1>4. \A item : AlikeMethods(item, Item(item))
  <2> HIDE DEF Put
  <2> QED
    BY <1>3 DEF AlikeMethods
<1> HIDE DEF e, Item
<1> QED
  BY <1>1, <1>2, <1>4, AlikeEdited DEF e

(* The definition of AWS_IAM is beside the paths.                          *)
LEMMA WithIamIfEdits ==
  ASSUME NEW d, IsDocument(d), NEW defined
  PROVE  /\ PartsKept(d, WithIamIf(d, defined))
         /\ WithIamIf(d, defined).paths = d.paths
BY DEF PartsKept, IsDocument, DocumentParts, WithIamIf, AddAwsIamSecurityDefinition, ++

(* The default authorizer of a REST API.                                   *)
LEMMA SetPathDefaultAuthorizerEdits ==
  ASSUME NEW d, IsDocument(d), NEW default, NEW authorizers, NEW preflight
  PROVE  Edited(d, SetPathDefaultAuthorizer(d, default, authorizers, preflight))
<1> DEFINE Secure(m, x) == IF (m = "options" /\ ~preflight) \/ DefaultSecurity(x.security, default, authorizers) = <<>>
                        THEN x
                        ELSE [x EXCEPT !.security = DefaultSecurity(x.security, default, authorizers)]
           Put(m, x) == IF HasIntegrationIn(x) THEN Secure(m, x) ELSE x
           Item(item) == [m \in DOMAIN item |-> [j \in DOMAIN item[m] |-> Put(m, item[m][j])]]
           e == OnAllMethods(d, Secure)
<1>1. PartsKept(d, e)
  BY DEF PartsKept, IsDocument, DocumentParts, OnAllMethods
<1>2. e.paths = [p \in DOMAIN d.paths |-> [i \in DOMAIN d.paths[p] |-> Item(d.paths[p][i])]]
  BY DEF IsDocument, DocumentParts, OnAllMethods
<1>3. \A m, x : /\ DOMAIN Put(m, x) = DOMAIN x
                /\ "integration" \in DOMAIN x => Put(m, x).integration = x.integration
  OBVIOUS
<1>4. \A item : AlikeMethods(item, Item(item))
  <2> HIDE DEF Put
  <2> QED
    BY <1>3 DEF AlikeMethods
<1>5. \E b : SetPathDefaultAuthorizer(d, default, authorizers, preflight) = WithIamIf(e, b)
  BY DEF SetPathDefaultAuthorizer
<1> HIDE DEF e, Item
<1>6. Edited(d, e)
  BY <1>1, <1>2, <1>4, AlikeEdited
<1>7. IsDocument(e)
  BY <1>1 DEF PartsKept
<1> QED
  BY <1>5, <1>6, <1>7, WithIamIfEdits, SamePaths, EditedTwice

(*                                                                         *)
LEMMA SetHttpMethodAuthorizerEdits ==
  ASSUME NEW d, IsDocument(d), NEW event, NEW authorizers
  PROVE  Edited(d, SetHttpMethodAuthorizer(d, event, authorizers))
<1> DEFINE e == SetHttpMethodAuthorizer(d, event, authorizers)
           Put(x) == IF HasIntegrationIn(x) THEN [x EXCEPT !.security = Append(@, Requirement(event.authorizer,
                          IF event.authorizer \notin DOMAIN authorizers \ {IAM} THEN Unset
                          ELSE IF event.scopes THEN "of the event"
                          ELSE IF authorizers[event.authorizer].scopes THEN "of the authorizer" ELSE Unset))] ELSE x
           Item(item) == [item EXCEPT ![event.method] = [j \in DOMAIN @ |-> Put(@[j])]]
<1>1. PartsKept(d, e)
  BY DEF PartsKept, IsDocument, DocumentParts, OnMethodDefinitions, ++, Only, SetHttpMethodAuthorizer
<1>0. e.paths = [d.paths EXCEPT ![event.path] = [i \in DOMAIN d.paths[event.path] |-> Item(d.paths[event.path][i])]]
  <2>1. e = [d EXCEPT !.paths[event.path] = [i \in DOMAIN @ |-> Item(@[i])]]
    BY DEF OnMethodDefinitions, SetHttpMethodAuthorizer
  <2> HIDE DEF e, Item
  <2> QED
    BY <2>1 DEF IsDocument, DocumentParts
<1>2. e.paths = [d.paths EXCEPT ![event.path] = [i \in DOMAIN @ |-> Item(@[i])]]
  BY <1>0
<1>3. \A x : /\ DOMAIN Put(x) = DOMAIN x
             /\ "integration" \in DOMAIN x => Put(x).integration = x.integration
  OBVIOUS
<1>4. \A item : AlikeMethods(item, Item(item)) /\ AlikeMethods(item, item)
  <2> HIDE DEF Put
  <2> QED
    BY <1>3 DEF AlikeMethods
<1> HIDE DEF e, Item
<1> QED
  BY <1>1, <1>2, <1>4, AlikeEdited DEF e

(*                                                                         *)
LEMMA AddRequestModelToMethodEdits ==
  ASSUME NEW d, IsDocument(d), NEW event
  PROVE  Edited(d, AddRequestModelToMethod(d, event))
<1> DEFINE e == AddRequestModelToMethod(d, event)
           Put(x) == IF HasIntegrationIn(x)
                     THEN [x EXCEPT !.model =
                             <<IF d.version = "swagger" THEN "definitions" ELSE "schemas", event.model>>]
                     ELSE x
           Item(item) == [item EXCEPT ![event.method] = [j \in DOMAIN @ |-> Put(@[j])]]
<1>1. PartsKept(d, e)
  BY DEF PartsKept, IsDocument, DocumentParts, OnMethodDefinitions, ++, Only, AddRequestModelToMethod
<1>0. e.paths = [d.paths EXCEPT ![event.path] = [i \in DOMAIN d.paths[event.path] |-> Item(d.paths[event.path][i])]]
  <2>1. e = [d EXCEPT !.paths[event.path] = [i \in DOMAIN @ |-> Item(@[i])]]
    BY DEF OnMethodDefinitions, AddRequestModelToMethod
  <2> HIDE DEF e, Item
  <2> QED
    BY <2>1 DEF IsDocument, DocumentParts
<1>2. e.paths = [d.paths EXCEPT ![event.path] = [i \in DOMAIN @ |-> Item(@[i])]]
  BY <1>0
<1>3. \A x : /\ DOMAIN Put(x) = DOMAIN x
             /\ "integration" \in DOMAIN x => Put(x).integration = x.integration
  OBVIOUS
<1>4. \A item : AlikeMethods(item, Item(item)) /\ AlikeMethods(item, item)
  <2> HIDE DEF Put
  <2> QED
    BY <1>3 DEF AlikeMethods
<1> HIDE DEF e, Item
<1> QED
  BY <1>1, <1>2, <1>4, AlikeEdited DEF e

(*                                                                         *)
LEMMA ValidatorOnEdits ==
  ASSUME NEW d, IsDocument(d), NEW event
  PROVE  Edited(d, OnMethodDefinitions(d, event.path, event.method,
               LAMBDA x : [x EXCEPT !.validator = event.validator]))
<1> DEFINE e == OnMethodDefinitions(d, event.path, event.method,
               LAMBDA x : [x EXCEPT !.validator = event.validator])
           Put(x) == IF HasIntegrationIn(x) THEN [x EXCEPT !.validator = event.validator] ELSE x
           Item(item) == [item EXCEPT ![event.method] = [j \in DOMAIN @ |-> Put(@[j])]]
<1>1. PartsKept(d, e)
  BY DEF PartsKept, IsDocument, DocumentParts, OnMethodDefinitions, ++, Only
<1>0. e.paths = [d.paths EXCEPT ![event.path] = [i \in DOMAIN d.paths[event.path] |-> Item(d.paths[event.path][i])]]
  <2>1. e = [d EXCEPT !.paths[event.path] = [i \in DOMAIN @ |-> Item(@[i])]]
    BY DEF OnMethodDefinitions
  <2> HIDE DEF e, Item
  <2> QED
    BY <2>1 DEF IsDocument, DocumentParts
<1>2. e.paths = [d.paths EXCEPT ![event.path] = [i \in DOMAIN @ |-> Item(@[i])]]
  BY <1>0
<1>3. \A x : /\ DOMAIN Put(x) = DOMAIN x
             /\ "integration" \in DOMAIN x => Put(x).integration = x.integration
  OBVIOUS
<1>4. \A item : AlikeMethods(item, Item(item)) /\ AlikeMethods(item, item)
  <2> HIDE DEF Put
  <2> QED
    BY <1>3 DEF AlikeMethods
<1> HIDE DEF e, Item
<1> QED
  BY <1>1, <1>2, <1>4, AlikeEdited DEF e

(* One more requirement of a method.                                       *)
WithRequirement(d, event, requirement) ==
  OnMethodDefinitions(d, event.path, event.method, LAMBDA x : [x EXCEPT !.security = Append(@, requirement)])

(* The definitions of one method get one more requirement.                 *)
LEMMA WithRequirementEdits ==
  ASSUME NEW d, IsDocument(d), NEW event, NEW requirement
  PROVE  Edited(d, WithRequirement(d, event, requirement))
<1> DEFINE e == WithRequirement(d, event, requirement)
           Put(x) == IF HasIntegrationIn(x) THEN [x EXCEPT !.security = Append(@, requirement)] ELSE x
           Item(item) == [item EXCEPT ![event.method] = [j \in DOMAIN @ |-> Put(@[j])]]
<1>1. PartsKept(d, e)
  BY DEF PartsKept, IsDocument, DocumentParts, OnMethodDefinitions, WithRequirement
<1>0. e.paths = [d.paths EXCEPT ![event.path] = [i \in DOMAIN d.paths[event.path] |-> Item(d.paths[event.path][i])]]
  <2>1. e = [d EXCEPT !.paths[event.path] = [i \in DOMAIN @ |-> Item(@[i])]]
    BY DEF OnMethodDefinitions, WithRequirement
  <2> HIDE DEF e, Item
  <2> QED
    BY <2>1 DEF IsDocument, DocumentParts
<1>2. e.paths = [d.paths EXCEPT ![event.path] = [i \in DOMAIN @ |-> Item(@[i])]]
  BY <1>0
<1>3. \A x : /\ DOMAIN Put(x) = DOMAIN x
             /\ "integration" \in DOMAIN x => Put(x).integration = x.integration
  OBVIOUS
<1>4. \A item : AlikeMethods(item, Item(item)) /\ AlikeMethods(item, item)
  <2> HIDE DEF Put
  <2> QED
    BY <1>3 DEF AlikeMethods
<1> HIDE DEF e, Item
<1> QED
  BY <1>1, <1>2, <1>4, AlikeEdited DEF e

(* A validator is defined and named by the method.                         *)
LEMMA AddRequestValidatorToMethodEdits ==
  ASSUME NEW d, IsDocument(d), NEW event
  PROVE  Edited(d, AddRequestValidatorToMethod(d, event))
<1> DEFINE e == [d EXCEPT !.validators = @ \cup {event.validator}]
<1>1. Edited(d, e) /\ IsDocument(e)
  <2>1. PartsKept(d, e) /\ e.paths = d.paths
    BY DEF PartsKept, IsDocument, DocumentParts
  <2> QED
    BY <2>1, SamePaths DEF PartsKept
<1>2. AddRequestValidatorToMethod(d, event) =
        OnMethodDefinitions(e, event.path, event.method, LAMBDA x : [x EXCEPT !.validator = event.validator])
  BY DEF AddRequestValidatorToMethod
<1> HIDE DEF e
<1>3. Edited(e, AddRequestValidatorToMethod(d, event))
  BY <1>1, <1>2, ValidatorOnEdits
<1> QED
  BY <1>1, <1>3, EditedTwice

(* The definition of api_key is beside the paths.                          *)
LEMMA AddApiKeySecurityDefinitionEdits ==
  ASSUME NEW d, IsDocument(d)
  PROVE  Edited(d, AddApiKeySecurityDefinition(d))
<1>1. /\ PartsKept(d, AddApiKeySecurityDefinition(d))
      /\ AddApiKeySecurityDefinition(d).paths = d.paths
  BY DEF PartsKept, IsDocument, DocumentParts, AddApiKeySecurityDefinition, ++
<1> QED
  BY <1>1, SamePaths

(* An event's authorizer and its say about API keys.                       *)
LEMMA AddAuthToMethodEdits ==
  ASSUME NEW d, IsDocument(d), NEW event, NEW authorizers
  PROVE  Edited(d, AddAuthToMethod(d, event, authorizers))
<1>1. \A x : IsDocument(x) => Edited(x, SetMethodAuthorizer(x, event, authorizers))
  <2> SUFFICES ASSUME NEW x, IsDocument(x)
               PROVE  Edited(x, SetMethodAuthorizer(x, event, authorizers))
    OBVIOUS
  <2> DEFINE r == Requirement(event.authorizer,
                    IF event.authorizer \notin DOMAIN authorizers THEN Unset
                    ELSE IF event.scopes THEN "of the event"
                    ELSE IF authorizers[event.authorizer].scopes THEN "of the authorizer" ELSE Unset)
             e == WithRequirement(x, event, r)
  <2>1. SetMethodAuthorizer(x, event, authorizers) =
          WithIamIf(e, \E y \in DefinitionsOf(e, event.path, event.method) : StartsWithIam(y))
    BY DEF SetMethodAuthorizer, WithRequirement
  <2>2. \E b : SetMethodAuthorizer(x, event, authorizers) = WithIamIf(e, b)
    <3> HIDE DEF e
    <3> QED BY <2>1
  <2>3. Edited(x, e)
    BY WithRequirementEdits
  <2> HIDE DEF e
  <2> QED
    BY <2>2, <2>3, WithIamIfEdits, SamePaths, EditedTwice DEF Edited, Kept, PartsKept
<1>2. \A x : IsDocument(x) => Edited(x, SetMethodApiKeyHandling(x, event))
  <2> SUFFICES ASSUME NEW x, IsDocument(x)
               PROVE  Edited(x, SetMethodApiKeyHandling(x, event))
    OBVIOUS
  <2>1. PICK r : r = Requirement(IF event.key = "required" THEN "api_key" ELSE "api_key_false", Unset)
    OBVIOUS
  <2> DEFINE e == WithRequirement(x, event, r)
  <2>2. SetMethodApiKeyHandling(x, event) \in {e, AddApiKeySecurityDefinition(e)}
    BY <2>1 DEF SetMethodApiKeyHandling, WithRequirement
  <2>3. Edited(x, e)
    BY WithRequirementEdits
  <2> HIDE DEF e
  <2> QED
    BY <2>2, <2>3, AddApiKeySecurityDefinitionEdits, EditedTwice DEF Edited, Kept, PartsKept
<1> HIDE DEF AddAuthToMethod
<1>3. \A x, y : Edited(x, y) => IsDocument(y)
  BY DEF Edited, Kept, PartsKept
<1> QED
  BY <1>1, <1>2, <1>3, EditedTwice, NothingChanged DEF AddAuthToMethod

(* An event's model and validator.                                         *)
LEMMA AddModelOfEdits ==
  ASSUME NEW d, IsDocument(d), NEW event
  PROVE  Edited(d, AddModelOf(d, event))
<1>1. \A x, y : Edited(x, y) => IsDocument(y)
  BY DEF Edited, Kept, PartsKept
<1> QED
  BY <1>1, AddRequestModelToMethodEdits, AddRequestValidatorToMethodEdits, EditedTwice, NothingChanged
  DEF AddModelOf

(* A route gets an integration; the other routes keep theirs.              *)
LEMMA Integrating ==
  ASSUME NEW d, IsDocument(d), NEW path, NEW method, NEW integration, NEW credentials
  PROVE  LET e == Integrate(d, path, method, integration, credentials)
         IN  /\ PartsKept(d, e)
             /\ DOMAIN e.paths = DOMAIN d.paths \cup {path}
             /\ \A p \in DOMAIN d.paths : DOMAIN e.paths[p] = DOMAIN d.paths[p]
             /\ \A i \in DOMAIN e.paths[path] : method \in DOMAIN e.paths[path][i]
             /\ path \notin DOMAIN d.paths => DOMAIN e.paths[path] = {1}
             /\ \A p, i, m, j, x : (p # path \/ m # method) /\ Integrated(d.paths, p, i, m, j, x)
                                    => Integrated(e.paths, p, i, m, j, x)
<1> DEFINE f == AddPath(d, path, method)
           e == Integrate(d, path, method, integration, credentials)
           items == IF path \in DOMAIN d.paths THEN d.paths[path] ELSE <<<<>>>>
           With(item) == item ++ Only(method, <<NoMethod>>)
           Put(x) == [x EXCEPT !.integration = integration, !.credentials = credentials]
           PutIn(item) == [item EXCEPT ![method] = [j \in DOMAIN @ |-> Put(@[j])]]
<1>1. PartsKept(d, f) /\ f.paths = Only(path, [i \in DOMAIN items |-> With(items[i])]) ++ d.paths
  BY DEF PartsKept, IsDocument, DocumentParts, AddPath
<1>2. e = [f EXCEPT !.paths[path] = [i \in DOMAIN @ |-> PutIn(@[i])]]
  BY DEF Integrate
<1>3. PartsKept(f, e) /\ e.paths = [f.paths EXCEPT ![path] = [i \in DOMAIN f.paths[path] |-> PutIn(f.paths[path][i])]]
  <2> HIDE DEF e, f, PutIn
  <2> QED
    BY <1>1, <1>2 DEF PartsKept, IsDocument, DocumentParts
<1>4. /\ DOMAIN f.paths = DOMAIN d.paths \cup {path}
      /\ \A p \in DOMAIN d.paths : p # path => f.paths[p] = d.paths[p]
      /\ f.paths[path] = [i \in DOMAIN items |-> With(items[i])]
  <2> HIDE DEF f, With, items
  <2> QED
    BY <1>1 DEF ++, Only
<1>5. /\ DOMAIN e.paths = DOMAIN d.paths \cup {path}
      /\ \A p \in DOMAIN d.paths : p # path => e.paths[p] = d.paths[p]
      /\ e.paths[path] = [i \in DOMAIN items |-> PutIn(With(items[i]))]
  <2> HIDE DEF e, f, With, PutIn, items
  <2> QED
    BY <1>3, <1>4
<1>6. \A item : /\ method \in DOMAIN PutIn(With(item))
                /\ \A m \in DOMAIN item : m # method => m \in DOMAIN PutIn(With(item)) /\ PutIn(With(item))[m] = item[m]
  <2> HIDE DEF Put
  <2> QED
    BY DEF ++, Only
<1>7. PartsKept(d, e)
  <2> HIDE DEF e, f
  <2> QED
    BY <1>1, <1>3 DEF PartsKept
<1>8. path \in DOMAIN d.paths => items = d.paths[path]
  OBVIOUS
<1>9. path \notin DOMAIN d.paths => DOMAIN items = {1}
  OBVIOUS
<1>10. DOMAIN e.paths[path] = DOMAIN items
  BY <1>5
<1> HIDE DEF e, f, With, PutIn, items
<1>11. \A p, i, m, j, x : (p # path \/ m # method) /\ Integrated(d.paths, p, i, m, j, x)
                                    => Integrated(e.paths, p, i, m, j, x)
  BY <1>5, <1>6, <1>8 DEF Integrated
<1>12. \A i \in DOMAIN e.paths[path] : method \in DOMAIN e.paths[path][i]
  BY <1>5, <1>6
<1> QED
  BY <1>5, <1>7, <1>8, <1>9, <1>10, <1>11, <1>12 DEF e

(* CORS adds OPTIONS methods, and no path.                                 *)
LEMMA AddCorsToKeeps ==
  ASSUME doc # NoDocument, IsDocument(doc), NEW paths
  PROVE  /\ Kept(doc, AddCorsTo(paths))
         /\ DOMAIN AddCorsTo(paths).paths = DOMAIN doc.paths
<1> DEFINE e == AddCorsTo(paths)
<1>1. /\ PartsKept(doc, e)
      /\ e.paths = [p \in DOMAIN doc.paths |->
                      IF p \in paths THEN AddCors(doc.paths[p], template.methods) ELSE doc.paths[p]]
  BY DEF PartsKept, IsDocument, DocumentParts, AddCorsTo
<1>2. \A items, given :
        /\ DOMAIN AddCors(items, given) = DOMAIN items
        /\ \A i \in DOMAIN items : \A m \in DOMAIN items[i] :
             m \in DOMAIN AddCors(items, given)[i] /\ AddCors(items, given)[i][m] = items[i][m]
  BY DEF AddCors, ++, Only
<1> HIDE DEF e
<1>3. PathsKept(doc.paths, e.paths)
  BY <1>1, <1>2 DEF PathsKept, Integrated
<1> QED
  BY <1>1, <1>3 DEF Kept, e

-----------------------------------------------------------------------------
(* Policies.                                                               *)
StatementsOf(clause, resources) ==
  IamStatements(clause, resources) \cup IpStatements(clause, resources) \cup VpcStatements(clause, resources)
CoveredBy(policy, clause, path, method) ==
  \A s \in StatementsOf(clause, {}) :
    \E t \in policy :
      /\ t.effect = s.effect /\ t.whom = s.whom
      /\ <<IF method = AnyMethod THEN "*" ELSE method, Normalized(path)>> \in t.resources

(* A clause becomes the same statements, whatever they are about.          *)
LEMMA StatementsAlike ==
  ASSUME NEW clause, NEW resources, NEW s \in StatementsOf(clause, {})
  PROVE  \E t \in StatementsOf(clause, resources) :
           t.effect = s.effect /\ t.whom = s.whom /\ t.resources = resources
<1>1. \A effect, whom : /\ Statement(effect, whom, resources).effect = Statement(effect, whom, {}).effect
                        /\ Statement(effect, whom, resources).whom = Statement(effect, whom, {}).whom
                        /\ Statement(effect, whom, resources).resources = resources
  BY DEF Statement
<1>2. CASE s \in IamStatements(clause, {})
  BY <1>1, <1>2 DEF StatementsOf, IamStatements
<1>3. CASE s \in IpStatements(clause, {})
  BY <1>1, <1>3 DEF StatementsOf, IpStatements, AllButIf
<1>4. CASE s \in VpcStatements(clause, {})
  BY <1>1, <1>4 DEF StatementsOf, VpcStatements, AllButIf
<1> QED
  BY <1>2, <1>3, <1>4 DEF StatementsOf

(* A larger policy covers what the smaller one does.                       *)
LEMMA CoveredByMore ==
  ASSUME NEW policy, NEW more, policy \subseteq more, NEW clause, NEW path, NEW method,
         CoveredBy(policy, clause, path, method)
  PROVE  CoveredBy(more, clause, path, method)
BY DEF CoveredBy

(* Each clause becomes a statement about every method that its path has    *)
(* now, under the path as it is written.                                   *)
LEMMA AddResourcePolicyCovers ==
  ASSUME NEW d, IsDocument(d), NEW clauses, NEW path
  PROVE  /\ PartsKept(d, AddResourcePolicy(d, clauses, path))
         /\ AddResourcePolicy(d, clauses, path).paths = d.paths
         /\ Normalized(path) = path =>
              \A c \in clauses : \A m \in MethodsOf(d, path) :
                CoveredBy(AddResourcePolicy(d, clauses, path).policy, c, path, m)
<1> DEFINE e == AddResourcePolicy(d, clauses, path)
           resources == MethodPathUris(d, path)
<1>1. PartsKept(d, e) /\ e.paths = d.paths
  BY DEF PartsKept, IsDocument, DocumentParts, AddResourcePolicy
<1>2. e.policy = d.policy \cup UNION {StatementsOf(c, resources) : c \in clauses}
  BY DEF IsDocument, DocumentParts, AddResourcePolicy, StatementsOf
<1>3. \A m \in MethodsOf(d, path) : <<IF m = AnyMethod THEN "*" ELSE m, path>> \in resources
  BY DEF MethodPathUris
<1> HIDE DEF e, resources
<1>4. ASSUME Normalized(path) = path, NEW c \in clauses, NEW m \in MethodsOf(d, path)
      PROVE  CoveredBy(e.policy, c, path, m)
  <2>1. StatementsOf(c, resources) \subseteq e.policy
    BY <1>2
  <2> QED
    BY <1>3, <1>4, <2>1, StatementsAlike DEF CoveredBy
<1> QED
  BY <1>1, <1>4 DEF e

(* Custom statements are put beside the others.                            *)
LEMMA AddCustomStatementsKeeps ==
  ASSUME NEW d, IsDocument(d), NEW clauses
  PROVE  /\ PartsKept(d, AddCustomStatements(d, clauses))
         /\ AddCustomStatements(d, clauses).paths = d.paths
BY DEF PartsKept, IsDocument, DocumentParts, AddCustomStatements

(* Where no route is added a path has the methods it had.                  *)
LEMMA SameRoutesMethods ==
  ASSUME NEW d, NEW e, SameRoutes(d.paths, e.paths), NEW path \in DOMAIN d.paths
  PROVE  MethodsOf(e, path) = MethodsOf(d, path)
BY DEF SameRoutes, MethodsOf

(* An event's own policy covers its route, its method being there by now.  *)
LEMMA AddAuthToSwaggerEdits ==
  ASSUME NEW d, IsDocument(d), NEW e
  PROVE  /\ Edited(d, AddAuthToSwagger(d, e))
         /\ Normalized(e.path) = e.path /\ e.path \in DOMAIN d.paths /\ e.method \in MethodsOf(d, e.path) =>
              \A c \in e.policy : CoveredBy(AddAuthToSwagger(d, e).policy, c, e.path, e.method)
<1>1. PICK f : f = AddAuthToMethod(d, e, Authorizers)
  OBVIOUS
<1>2. Edited(d, f) /\ IsDocument(f)
  BY <1>1, AddAuthToMethodEdits DEF Edited, Kept, PartsKept
<1>3. CASE e.policy = {}
  BY <1>1, <1>2, <1>3 DEF AddAuthToSwagger
<1>4. CASE e.policy # {}
  <2>1. PICK g : g = AddResourcePolicy(f, e.policy, e.path)
    OBVIOUS
  <2>2. PICK h : h = AddCustomStatements(g, e.policy)
    OBVIOUS
  <2>3. AddAuthToSwagger(d, e) = h
    BY <1>1, <1>4, <2>1, <2>2 DEF AddAuthToSwagger
  <2>4. /\ PartsKept(f, g) /\ g.paths = f.paths
        /\ Normalized(e.path) = e.path =>
             \A c \in e.policy : \A m \in MethodsOf(f, e.path) : CoveredBy(g.policy, c, e.path, m)
    BY <1>2, <2>1, AddResourcePolicyCovers
  <2>5. PartsKept(g, h) /\ h.paths = g.paths
    BY <2>2, <2>4, AddCustomStatementsKeeps DEF PartsKept
  <2>6. Edited(d, h)
    BY <1>2, <2>4, <2>5, SamePaths, EditedTwice
  <2>7. e.path \in DOMAIN d.paths => MethodsOf(f, e.path) = MethodsOf(d, e.path)
    BY <1>2, SameRoutesMethods DEF Edited
  <2>8. g.policy \subseteq h.policy
    BY <2>5 DEF PartsKept
  <2> QED
    BY <2>3, <2>4, <2>6, <2>7, <2>8, CoveredByMore
<1> QED
  BY <1>3, <1>4

-----------------------------------------------------------------------------
(* What is known of every state.                                           *)
Steps == {"events", "cors", "auth", "responses", "binary", "models", "tags", "extension", "body", "made", "refused"}
TypeInv ==
  /\ template \in Templates
  /\ integrated \in Nat /\ integrated <= Len(template.events)
  /\ at \in Steps
  /\ at \notin {"events", "refused"} => integrated = Len(template.events)
  /\ at \in {"responses", "binary", "models"} => IsRest
  /\ at = "tags" => ~IsRest
  /\ doc # NoDocument => Written # NoDocument /\ IsDocument(doc) /\ doc.version = Written.version

(* The number of events, and which they are.                               *)
LEMMA EventsAre ==
  ASSUME TypeInv
  PROVE  Len(template.events) \in Nat /\ DOMAIN template.events = 1..Len(template.events)
<1>1. template.events \in Seq({template.events[k] : k \in DOMAIN template.events})
  BY ApiDefinitionAssumption DEF TypeInv
<1> QED
  BY <1>1

(* An event's route has an integration of the author's in one item of its  *)
(* path or one branch, and none in another.                                *)
Accepts(t) == t.managed \/ t.kind # "rest"
PartlyIntegrated(t) ==
  Accepts(t) /\ \E k \in 1..Len(t.events) :
    LET e == t.events[k]
    IN  /\ ~HasIntegration(t.doc, e.path, e.method)
        /\ e.path \in DOMAIN t.doc.paths
        /\ \E i \in DOMAIN t.doc.paths[e.path] :
             /\ e.method \in DOMAIN t.doc.paths[e.path][i]
             /\ \E j \in DOMAIN t.doc.paths[e.path][i][e.method] :
                  HasIntegrationIn(t.doc.paths[e.path][i][e.method][j])

(* What a route's integration leaves of the document.                      *)
EventPut(d, e, f) ==
  /\ PartsKept(d, f)
  /\ DOMAIN f.paths \subseteq DOMAIN d.paths \cup {e.path}
  /\ \A p \in DOMAIN d.paths : p \in DOMAIN f.paths /\ DOMAIN f.paths[p] = DOMAIN d.paths[p]
  /\ \A p \in DOMAIN f.paths \ DOMAIN d.paths : DOMAIN f.paths[p] # {}
  /\ \A p, i, m, j, x :
       /\ (p # e.path \/ m # e.method) \/ HasIntegration(d, e.path, e.method)
       /\ x # "none" /\ Integrated(d.paths, p, i, m, j, x)
       => Integrated(f.paths, p, i, m, j, x)

(* What is edited after its integration is about the same route.           *)
LEMMA EventPutEdited ==
  ASSUME NEW d, NEW e, NEW f, NEW g, EventPut(d, e, f), Edited(f, g)
  PROVE  EventPut(d, e, g)
<1>1. PartsKept(d, g)
  BY DEF EventPut, Edited, Kept, PartsKept
<1>2. /\ DOMAIN g.paths = DOMAIN f.paths
      /\ \A p \in DOMAIN f.paths : DOMAIN g.paths[p] = DOMAIN f.paths[p]
      /\ \A p, i, m, j, x : x # "none" /\ Integrated(f.paths, p, i, m, j, x) => Integrated(g.paths, p, i, m, j, x)
  BY DEF Edited, Kept, SameRoutes, PathsKept
<1> QED
  BY <1>1, <1>2 DEF EventPut

(* A route's integration replaces none, and its method is there then.      *)
LEMMA IntegratePuts ==
  ASSUME NEW d, IsDocument(d), NEW e, ~HasIntegration(d, e.path, e.method), NEW integration, NEW credentials
  PROVE  /\ EventPut(d, e, Integrate(d, e.path, e.method, integration, credentials))
         /\ e.path \in DOMAIN Integrate(d, e.path, e.method, integration, credentials).paths
         /\ (e.path \in DOMAIN d.paths => DOMAIN d.paths[e.path] # {}) =>
               e.method \in MethodsOf(Integrate(d, e.path, e.method, integration, credentials), e.path)
<1>1. PICK f : f = Integrate(d, e.path, e.method, integration, credentials)
  OBVIOUS
<1>2. /\ PartsKept(d, f)
      /\ DOMAIN f.paths = DOMAIN d.paths \cup {e.path}
      /\ \A p \in DOMAIN d.paths : DOMAIN f.paths[p] = DOMAIN d.paths[p]
      /\ \A i \in DOMAIN f.paths[e.path] : e.method \in DOMAIN f.paths[e.path][i]
      /\ e.path \notin DOMAIN d.paths => DOMAIN f.paths[e.path] = {1}
      /\ \A p, i, m, j, x : (p # e.path \/ m # e.method) /\ Integrated(d.paths, p, i, m, j, x)
                            => Integrated(f.paths, p, i, m, j, x)
  BY <1>1, Integrating
<1>3. (e.path \in DOMAIN d.paths => DOMAIN d.paths[e.path] # {}) => e.method \in MethodsOf(f, e.path)
  BY <1>2 DEF MethodsOf
<1> QED
  BY <1>1, <1>2, <1>3 DEF EventPut

ItemsInv(paths) == \A p \in DOMAIN paths : DOMAIN paths[p] # {}

(* The event of a function, whole.                                         *)
LEMMA FunctionPuts ==
  ASSUME doc # NoDocument, IsDocument(doc), NEW e, ~HasIntegration(doc, e.path, e.method)
  PROVE  /\ EventPut(doc, e, IntegrateFunction(e))
         /\ ItemsInv(doc.paths) /\ Normalized(e.path) = e.path =>
              \A c \in e.policy : CoveredBy(IntegrateFunction(e).policy, c, e.path, e.method)
<1>1. PICK f : f = AddLambdaIntegration(doc, e, Default, template.role)
  OBVIOUS
<1>2. PICK g : g = AddAuthToSwagger(f, e)
  OBVIOUS
<1>3. PICK h : h = AddModelOf(g, e)
  OBVIOUS
<1>4. IntegrateFunction(e) = h
  BY <1>1, <1>2, <1>3 DEF IntegrateFunction
<1>5. /\ EventPut(doc, e, f) /\ e.path \in DOMAIN f.paths
      /\ ItemsInv(doc.paths) => e.method \in MethodsOf(f, e.path)
  BY <1>1, IntegratePuts DEF AddLambdaIntegration, ItemsInv
<1>6. IsDocument(f)
  BY <1>5 DEF EventPut, PartsKept
<1>7. /\ Edited(f, g)
      /\ Normalized(e.path) = e.path /\ e.method \in MethodsOf(f, e.path) =>
              \A c \in e.policy : CoveredBy(g.policy, c, e.path, e.method)
  BY <1>2, <1>5, <1>6, AddAuthToSwaggerEdits
<1>8. IsDocument(g)
  BY <1>7 DEF Edited, Kept, PartsKept
<1>9. Edited(g, h) /\ g.policy \subseteq h.policy
  BY <1>3, <1>8, AddModelOfEdits DEF Edited, Kept, PartsKept
<1> QED
  BY <1>4, <1>5, <1>7, <1>9, EventPutEdited, CoveredByMore

(* The event of a state machine, whole.                                    *)
LEMMA MachinePuts ==
  ASSUME doc # NoDocument, IsDocument(doc), NEW e, ~HasIntegration(doc, e.path, e.method)
  PROVE  /\ EventPut(doc, e, IntegrateMachine(e))
         /\ ItemsInv(doc.paths) /\ Normalized(e.path) = e.path =>
              \A c \in e.policy : CoveredBy(IntegrateMachine(e).policy, c, e.path, e.method)
<1>1. PICK f : f = AddStateMachineIntegration(doc, e)
  OBVIOUS
<1>2. PICK g : g = AddAuthToSwagger(f, e)
  OBVIOUS
<1>4. IntegrateMachine(e) = g
  BY <1>1, <1>2 DEF IntegrateMachine
<1>5. /\ EventPut(doc, e, f) /\ e.path \in DOMAIN f.paths
      /\ ItemsInv(doc.paths) => e.method \in MethodsOf(f, e.path)
  BY <1>1, IntegratePuts DEF AddStateMachineIntegration, ItemsInv
<1>6. IsDocument(f)
  BY <1>5 DEF EventPut, PartsKept
<1>7. /\ Edited(f, g)
      /\ Normalized(e.path) = e.path /\ e.method \in MethodsOf(f, e.path) =>
              \A c \in e.policy : CoveredBy(g.policy, c, e.path, e.method)
  BY <1>2, <1>5, <1>6, AddAuthToSwaggerEdits
<1> QED
  BY <1>4, <1>5, <1>7, EventPutEdited

(* An HttpApi event, which leaves the integration that a route has.        *)
LEMMA HttpPuts ==
  ASSUME doc # NoDocument, IsDocument(doc), NEW e
  PROVE  EventPut(doc, e, IntegrateHttp(e))
<1>1. PICK f : f = AddHttpLambdaIntegration(doc, e)
  OBVIOUS
<1>2. EventPut(doc, e, f)
  <2>1. CASE HasIntegration(doc, e.path, e.method)
    BY <1>1, <2>1 DEF AddHttpLambdaIntegration, EventPut, PartsKept
  <2>2. CASE ~HasIntegration(doc, e.path, e.method)
    BY <1>1, <2>2, IntegratePuts DEF AddHttpLambdaIntegration
  <2> QED
    BY <2>1, <2>2
<1>3. IsDocument(f)
  BY <1>2 DEF EventPut, PartsKept
<1>4. \A x : Edited(f, SetHttpMethodAuthorizer(f, x, Authorizers))
  BY <1>3, SetHttpMethodAuthorizerEdits
<1>5. IntegrateHttp(e) \in {f, SetHttpMethodAuthorizer(f, WithDefault(e), Authorizers)}
  BY <1>1 DEF IntegrateHttp
<1> QED
  BY <1>2, <1>4, <1>5, EventPutEdited

(* An event's step puts its route into the document, or leaves it.         *)
LEMMA AddEventPuts ==
  ASSUME TypeInv, AddEvent
  PROVE  \/ ~AcceptsEvents /\ doc' = doc
         \/ AcceptsEvents /\ EventPut(doc, Event, doc')
<1>1. CASE ~AcceptsEvents
  BY <1>1 DEF AddEvent
<1>2. CASE AcceptsEvents
  <2>1. PICK e : e = Event
    OBVIOUS
  <2>2. PICK f : f = doc'
    OBVIOUS
  <2>3. doc # NoDocument /\ IsDocument(doc)
    BY <1>2 DEF AcceptsEvents, TypeInv
  <2>4. CASE IsRest
    <3>1. ~HasIntegration(doc, e.path, e.method)
      BY <1>2, <2>1, <2>4 DEF AddEvent, AcceptsEvents, RouteIsTaken
    <3>2. f \in {IntegrateFunction(e), IntegrateMachine(e)}
      BY <1>2, <2>1, <2>2, <2>4 DEF AddEvent
    <3> QED
      BY <1>2, <2>1, <2>2, <2>3, <3>1, <3>2, FunctionPuts, MachinePuts
  <2>5. CASE ~IsRest
    <3>1. f = IntegrateHttp(e)
      BY <1>2, <2>1, <2>2, <2>5 DEF AddEvent
    <3> QED
      BY <1>2, <2>1, <2>2, <2>3, <3>1, HttpPuts
  <2> QED
    BY <2>4, <2>5
<1> QED
  BY <1>1, <1>2

(* After its step the policy of an event covers its route.                 *)
LEMMA AddEventCovers ==
  ASSUME TypeInv, AddEvent, AcceptsEvents, IsRest
  PROVE  /\ template.managed /\ ~HasIntegration(doc, Event.path, Event.method)
         /\ ItemsInv(doc.paths) /\ Normalized(Event.path) = Event.path =>
              \A c \in Event.policy : CoveredBy(doc'.policy, c, Event.path, Event.method)
<1>1. template.managed /\ ~HasIntegration(doc, Event.path, Event.method)
  BY DEF AddEvent, AcceptsEvents, RouteIsTaken
<1>2. PICK e : e = Event
  OBVIOUS
<1>3. doc' \in {IntegrateFunction(e), IntegrateMachine(e)}
  BY <1>2 DEF AddEvent
<1>4. PICK f : f = doc'
  OBVIOUS
<1>5. ItemsInv(doc.paths) /\ Normalized(e.path) = e.path =>
              \A c \in e.policy : CoveredBy(f.policy, c, e.path, e.method)
  BY <1>1, <1>2, <1>3, <1>4, FunctionPuts, MachinePuts DEF AcceptsEvents, TypeInv
<1> QED
  BY <1>1, <1>2, <1>4, <1>5

-----------------------------------------------------------------------------
(* The API's own steps.                                                    *)
LEMMA EditedIsDocument ==
  ASSUME NEW d, NEW e, Edited(d, e)
  PROVE  IsDocument(e)
BY DEF Edited, Kept, PartsKept

(* The parts of a REST API's Auth, one by one: its authorizers,            *)
LEMMA WithAuthorizersEdits ==
  ASSUME NEW d, IsDocument(d)
  PROVE  Edited(d, WithAuthorizers(d)) /\ (KnownAuthorizers = {} => WithAuthorizers(d) = d)
<1>1. CASE KnownAuthorizers = {}
  BY <1>1, NothingChanged DEF WithAuthorizers
<1>2. CASE KnownAuthorizers # {}
  <2>1. PICK f : f = AddAuthorizersSecurityDefinitions(d, DefinitionsMade)
    OBVIOUS
  <2>2. PartsKept(d, f) /\ f.paths = d.paths
    BY <2>1 DEF PartsKept, IsDocument, DocumentParts, AddAuthorizersSecurityDefinitions, ++
  <2>3. Edited(d, f) /\ IsDocument(f)
    BY <2>2, SamePaths DEF PartsKept
  <2>4. PICK t : t = template
    OBVIOUS
  <2>5. Edited(f, SetPathDefaultAuthorizer(f, t.default, t.authorizers, t.preflightAuth))
    BY <2>3, SetPathDefaultAuthorizerEdits
  <2>6. WithAuthorizers(d) \in {f, SetPathDefaultAuthorizer(f, t.default, t.authorizers, t.preflightAuth)}
    BY <1>2, <2>1, <2>4 DEF WithAuthorizers, Authorizers, Default
  <2> QED
    BY <1>2, <2>3, <2>5, <2>6, EditedTwice
<1> QED
  BY <1>1, <1>2

(* its API keys,                                                           *)
LEMMA WithApiKeysEdits ==
  ASSUME NEW d, IsDocument(d)
  PROVE  Edited(d, WithApiKeys(d)) /\ (~template.key => WithApiKeys(d) = d)
<1>1. CASE ~template.key
  BY <1>1, NothingChanged DEF WithApiKeys
<1>2. CASE template.key
  <2>1. PICK f : f = AddApiKeySecurityDefinition(d)
    OBVIOUS
  <2>2. Edited(d, f) /\ IsDocument(f)
    BY <2>1, AddApiKeySecurityDefinitionEdits, EditedIsDocument
  <2>3. PICK preflight : preflight = template.preflightKey
    OBVIOUS
  <2>4. Edited(f, SetPathDefaultApiKeyRequired(f, preflight))
    BY <2>2, SetPathDefaultApiKeyRequiredEdits
  <2>5. WithApiKeys(d) = SetPathDefaultApiKeyRequired(f, preflight)
    BY <1>2, <2>1, <2>3 DEF WithApiKeys
  <2> QED
    BY <1>2, <2>2, <2>4, <2>5, EditedTwice
<1> QED
  BY <1>1, <1>2

(* and its policy, which covers every method of every path.                *)
LEMMA WithPolicyCovers ==
  ASSUME NEW d, IsDocument(d)
  PROVE  /\ PartsKept(d, WithPolicy(d)) /\ WithPolicy(d).paths = d.paths
         /\ WithPolicy(d).definitions = d.definitions
         /\ \A p \in DOMAIN d.paths : Normalized(p) = p =>
              \A c \in template.policy : \A m \in MethodsOf(d, p) : CoveredBy(WithPolicy(d).policy, c, p, m)
<1>1. CASE template.policy = {}
  BY <1>1 DEF WithPolicy, PartsKept
<1>2. CASE template.policy # {}
  <2>1. PICK policy : policy = template.policy
    OBVIOUS
  <2>2. PICK f : f = [d EXCEPT !.policy = @ \cup UNION {AddResourcePolicy(d, policy, p).policy : p \in DOMAIN d.paths}]
    OBVIOUS
  <2>3. /\ PartsKept(d, f) /\ f.paths = d.paths /\ IsDocument(f) /\ f.definitions = d.definitions
        /\ \A p \in DOMAIN d.paths : AddResourcePolicy(d, policy, p).policy \subseteq f.policy
    BY <2>2 DEF PartsKept, IsDocument, DocumentParts
  <2>4. PICK g : g = AddCustomStatements(f, policy)
    OBVIOUS
  <2>5. PartsKept(f, g) /\ g.paths = f.paths /\ g.definitions = f.definitions
    BY <2>3, <2>4 DEF PartsKept, IsDocument, DocumentParts, AddCustomStatements
  <2>6. WithPolicy(d) = g
    BY <1>2, <2>1, <2>2, <2>4 DEF WithPolicy
  <2>7. f.policy \subseteq g.policy
    BY <2>5 DEF PartsKept
  <2>8. \A p \in DOMAIN d.paths : Normalized(p) = p =>
          \A c \in policy : \A m \in MethodsOf(d, p) : CoveredBy(g.policy, c, p, m)
    BY <2>3, <2>7, AddResourcePolicyCovers, CoveredByMore
  <2> QED
    BY <2>1, <2>3, <2>5, <2>6, <2>8 DEF PartsKept
<1> QED
  BY <1>1, <1>2

(* What moving things to where OpenAPI 3 has them leaves.                  *)
Moves(d) == d.version # "swagger" /\ template.version # "2"
(* Definitions and models go to components, and replace what is there.     *)
LEMMA OpenApiPostprocessMoves ==
  ASSUME NEW d, IsDocument(d)
  PROVE  LET e == OpenApiPostprocess(d)
         IN  /\ ~Moves(d) => e = d
             /\ Moves(d) =>
                  /\ IsDocument(e) /\ e.version = d.version /\ e.title = d.title /\ e.paths = d.paths
                  /\ e.policy = d.policy /\ e.responses = d.responses /\ e.validators = d.validators
                  /\ e.tags = d.tags /\ e.cors = d.cors
                  /\ e.definitions = <<>> /\ e.models = {}
                  /\ e.schemes = (IF d.definitions # <<>> THEN d.definitions ELSE d.schemes)
                  /\ e.schemas = (IF d.models # {} THEN d.models ELSE d.schemas)
<1>1. CASE ~Moves(d)
  BY <1>1 DEF OpenApiPostprocess, Moves
<1>2. CASE Moves(d)
  BY <1>2 DEF OpenApiPostprocess, Moves, IsDocument, DocumentParts
<1> QED
  BY <1>1, <1>2

(* The default path gets its slash, and replaces one that has it.          *)
LEMMA UpdateDefaultPathMoves ==
  ASSUME NEW d, IsDocument(d)
  PROVE  LET e == UpdateDefaultPath(d)
         IN  /\ PartsKept(d, e)
             /\ DefaultPath \notin DOMAIN d.paths => e.paths = d.paths
             /\ DefaultPath \in DOMAIN d.paths =>
                  /\ DOMAIN e.paths = (DOMAIN d.paths \ {DefaultPath}) \cup {SlashedDefaultPath}
                  /\ e.paths[SlashedDefaultPath] = d.paths[DefaultPath]
                  /\ \A p \in DOMAIN d.paths \ {DefaultPath, SlashedDefaultPath} : e.paths[p] = d.paths[p]
<1>1. CASE DefaultPath \notin DOMAIN d.paths
  BY <1>1 DEF UpdateDefaultPath, PartsKept
<1>2. CASE DefaultPath \in DOMAIN d.paths
  BY <1>2 DEF UpdateDefaultPath, PartsKept, IsDocument, DocumentParts
<1> QED
  BY <1>1, <1>2

(* What every step keeps.                                                  *)
Grown(d, e) ==
  /\ IsDocument(e) /\ e.version = d.version
  /\ d.policy \subseteq e.policy /\ d.responses \subseteq e.responses /\ d.validators \subseteq e.validators
  /\ DOMAIN d.tags \subseteq DOMAIN e.tags /\ DOMAIN d.cors \subseteq DOMAIN e.cors
  /\ d.title # "the default" => e.title = d.title

(* Edits take nothing from the parts that do not move,                     *)
LEMMA PartsKeptGrown ==
  ASSUME NEW d, NEW e, PartsKept(d, e)
  PROVE  Grown(d, e)
BY DEF PartsKept, Grown

(* nor do several.                                                         *)
LEMMA GrownTwice ==
  ASSUME NEW d, NEW e, NEW f, Grown(d, e), Grown(e, f)
  PROVE  Grown(d, f)
BY DEF Grown

(* Steps that set a part beside paths and definitions.                     *)
Aside(d, e) ==
  PartsKept(d, e) /\ e.paths = d.paths /\ e.definitions = d.definitions /\ e.schemes = d.schemes
SetsAside ==
  \/ AddHttpCorsSettings \/ AddGatewayResponsesStep \/ AddBinaryMediaTypesStep
  \/ AddEndpointExtension \/ AddHttpTags
(* Those steps, each of which sets one such part or nothing.               *)
LEMMA SetsAsideSets ==
  ASSUME TypeInv, SetsAside
  PROVE  doc' = doc \/ (doc # NoDocument /\ Aside(doc, doc'))
<1> USE DEF TypeInv, Aside, PartsKept, IsDocument, DocumentParts, GoOn, Refuse
<1>1. CASE AddHttpCorsSettings
  BY <1>1 DEF AddHttpCorsSettings, RefusedCors, AddHttpCors, ++
<1>2. CASE AddGatewayResponsesStep
  BY <1>2 DEF AddGatewayResponsesStep, AddGatewayResponses
<1>3. CASE AddBinaryMediaTypesStep
  BY <1>3 DEF AddBinaryMediaTypesStep, AddBinaryMediaTypes
<1>4. CASE AddEndpointExtension
  BY <1>4 DEF AddEndpointExtension, AddDisableExecuteApiEndpointExtension, AddEndpointConfig
<1>5. CASE AddHttpTags
  BY <1>5 DEF AddHttpTags, AddTags, ++
<1> QED
  BY <1>1, <1>2, <1>3, <1>4, <1>5 DEF SetsAside

(* Steps that leave the document.                                          *)
Leaves ==
  RefuseEvent \/ StartApi \/ SkipCors \/ RefuseCors \/ SkipAuth \/ RefuseAuth \/ Done
(* A refusal and a step with nothing to do leave the document.             *)
LEMMA LeavesLeaves ==
  ASSUME Leaves
  PROVE  doc' = doc /\ template' = template
BY DEF Leaves, RefuseEvent, StartApi, SkipCors, RefuseCors, SkipAuth, RefuseAuth, Done, GoOn, Refuse, vars

(* What each of the API's other steps does to the document: CORS,          *)
LEMMA AddRestCorsAdds ==
  ASSUME TypeInv, AddRestCors
  PROVE  /\ doc # NoDocument /\ IsRest /\ Kept(doc, doc') /\ DOMAIN doc'.paths = DOMAIN doc.paths
         /\ doc'.definitions = doc.definitions /\ doc'.schemes = doc.schemes
<1>1. doc # NoDocument /\ IsRest /\ IsDocument(doc)
  BY DEF AddRestCors, RefusedCors, TypeInv
<1>2. PICK paths : doc' = AddCorsTo(paths)
  BY DEF AddRestCors, GoOn
<1>3. AddCorsTo(paths).definitions = doc.definitions /\ AddCorsTo(paths).schemes = doc.schemes
  BY <1>1 DEF AddCorsTo, IsDocument, DocumentParts
<1> QED
  BY <1>1, <1>2, <1>3, AddCorsToKeeps

(* the Auth of a REST API, up to the move to components,                   *)
LEMMA AddRestAuthAdds ==
  ASSUME TypeInv, AddRestAuth
  PROVE  /\ doc # NoDocument /\ IsRest
         /\ \E f, g : /\ Edited(doc, f) /\ (KnownAuthorizers = {} /\ ~template.key => f = doc)
                      /\ PartsKept(f, g) /\ g.paths = f.paths /\ g.definitions = f.definitions
                      /\ \A p \in DOMAIN f.paths : Normalized(p) = p =>
                           \A c \in template.policy : \A m \in MethodsOf(f, p) : CoveredBy(g.policy, c, p, m)
                      /\ doc' = OpenApiPostprocess(g)
<1>1. doc # NoDocument /\ IsRest /\ IsDocument(doc)
  BY DEF AddRestAuth, RefusedApiAuth, TypeInv
<1>2. PICK f0 : f0 = WithAuthorizers(doc)
  OBVIOUS
<1>3. PICK f : f = WithApiKeys(f0)
  OBVIOUS
<1>4. PICK g : g = WithPolicy(f)
  OBVIOUS
<1>5. doc' = OpenApiPostprocess(g)
  BY <1>2, <1>3, <1>4 DEF AddRestAuth, GoOn
<1>6. Edited(doc, f0) /\ IsDocument(f0) /\ (KnownAuthorizers = {} => f0 = doc)
  BY <1>1, <1>2, WithAuthorizersEdits, EditedIsDocument
<1>7. Edited(f0, f) /\ IsDocument(f) /\ (~template.key => f = f0)
  BY <1>3, <1>6, WithApiKeysEdits, EditedIsDocument
<1>8. Edited(doc, f) /\ (KnownAuthorizers = {} /\ ~template.key => f = doc)
  BY <1>6, <1>7, EditedTwice
<1>9. /\ PartsKept(f, g) /\ g.paths = f.paths /\ g.definitions = f.definitions
      /\ \A p \in DOMAIN f.paths : Normalized(p) = p =>
           \A c \in template.policy : \A m \in MethodsOf(f, p) : CoveredBy(g.policy, c, p, m)
  BY <1>4, <1>7, WithPolicyCovers
<1> QED
  BY <1>1, <1>5, <1>8, <1>9

(* the Auth of an HTTP API,                                                *)
LEMMA AddHttpAuthAdds ==
  ASSUME TypeInv, AddHttpAuth
  PROVE  doc # NoDocument /\ ~IsRest /\ Edited(doc, doc')
<1>1. doc # NoDocument /\ ~IsRest /\ IsDocument(doc)
  BY DEF AddHttpAuth, RefusedApiAuth, TypeInv
<1>2. PICK f : f = AddAuthorizersSecuritySchemes(doc, DefinitionsMade)
  OBVIOUS
<1>3. PartsKept(doc, f) /\ f.paths = doc.paths
  BY <1>1, <1>2 DEF PartsKept, IsDocument, DocumentParts, AddAuthorizersSecuritySchemes, ++
<1>4. Edited(doc, f) /\ IsDocument(f)
  BY <1>3, SamePaths DEF PartsKept
<1>5. PICK t : t = template
  OBVIOUS
<1>6. Edited(f, SetHttpPathDefaultAuthorizer(f, t.default, t.authorizers))
  BY <1>4, SetHttpPathDefaultAuthorizerEdits
<1>7. doc' \in {f, SetHttpPathDefaultAuthorizer(f, t.default, t.authorizers)}
  BY <1>2, <1>5 DEF AddHttpAuth, GoOn, Authorizers, Default
<1> QED
  BY <1>1, <1>4, <1>6, <1>7, EditedTwice

(* models, up to the move,                                                 *)
LEMMA AddModelsStepAdds ==
  ASSUME TypeInv, AddModelsStep
  PROVE  \/ doc' = doc /\ (at' = "refused" \/ template.models = {})
         \/ /\ doc # NoDocument /\ template.models # {}
            /\ \E f : /\ IsDocument(f) /\ f = [doc EXCEPT !.models = @ \cup template.models]
                      /\ doc' = OpenApiPostprocess(f)
<1>1. PICK f : f = [doc EXCEPT !.models = @ \cup template.models]
  OBVIOUS
<1>2. CASE template.models = {} \/ doc = NoDocument
  BY <1>2 DEF AddModelsStep, GoOn, Refuse
<1>3. CASE template.models # {} /\ doc # NoDocument
  <2>1. IsDocument(f)
    BY <1>1, <1>3 DEF TypeInv, IsDocument, DocumentParts
  <2>2. doc' = OpenApiPostprocess(f)
    BY <1>1, <1>3 DEF AddModelsStep, AddModels, GoOn
  <2> QED
    BY <1>1, <1>3, <2>1, <2>2
<1> QED
  BY <1>2, <1>3

(* the last step of an HTTP API,                                           *)
LEMMA FinishHttpAdds ==
  ASSUME TypeInv, FinishHttp
  PROVE  /\ ~IsRest
         /\ \/ doc' = doc /\ (at' = "refused" \/ doc = NoDocument)
            \/ /\ doc # NoDocument
               /\ \E f : /\ Grown(doc, f) /\ f.paths = doc.paths /\ f.schemas = doc.schemas
                         /\ f.definitions = doc.definitions /\ f.schemes = doc.schemes
                         /\ IF template.failOnWarnings THEN doc' = UpdateDefaultPath(f) ELSE doc' = f
<1>1. PICK f : f = WithInfo
  OBVIOUS
<1>2. CASE doc = NoDocument
  <2>1. CASE RefusedInfo \/ ~template.uri
    BY <1>2, <2>1 DEF FinishHttp, Refuse
  <2>2. CASE ~RefusedInfo
    BY <1>2, <2>2 DEF FinishHttp, RefusedInfo, WithInfo, Refuse
  <2> QED
    BY <2>1, <2>2
<1>3. CASE doc # NoDocument /\ RefusedInfo
  BY <1>3 DEF FinishHttp, Refuse
<1>4. CASE doc # NoDocument /\ ~RefusedInfo
  <2>1. /\ Grown(doc, f) /\ f.paths = doc.paths /\ f.schemas = doc.schemas
        /\ f.definitions = doc.definitions /\ f.schemes = doc.schemes
    BY <1>1, <1>4 DEF TypeInv, IsDocument, DocumentParts, Grown, WithInfo, AddTitle, AddDescription, RefusedInfo
  <2>2. IF template.failOnWarnings THEN doc' = UpdateDefaultPath(f) ELSE doc' = f
    BY <1>1, <1>4 DEF FinishHttp
  <2> QED
    BY <1>4, <2>1, <2>2 DEF FinishHttp
<1> QED
  BY <1>2, <1>3, <1>4

(* and that of a REST API.                                                 *)
LEMMA FinishRestAdds ==
  ASSUME TypeInv, FinishRest
  PROVE  IsRest /\ (doc' = doc \/ (doc # NoDocument /\ doc' = OpenApiPostprocess(doc)))
BY DEF FinishRest

(* The template is what it was.                                            *)
LEMMA StepLeavesTemplate ==
  ASSUME [Next]_vars
  PROVE  template' = template
BY DEF Next, vars, GoOn, Refuse, AddEvent, RefuseEvent, StartApi, SkipCors, RefuseCors, AddRestCors,
       AddHttpCorsSettings, SkipAuth, RefuseAuth, AddRestAuth, AddHttpAuth, AddGatewayResponsesStep,
       AddBinaryMediaTypesStep, AddModelsStep, AddEndpointExtension, AddHttpTags, FinishHttp, FinishRest, Done

(* No step takes anything from the parts that do not move.                 *)
LEMMA StepGrows ==
  ASSUME TypeInv, [Next]_vars
  PROVE  doc' = doc \/ (doc # NoDocument /\ Grown(doc, doc'))
<1>0. doc # NoDocument => IsDocument(doc)
  BY DEF TypeInv
<1>1. CASE AddEvent
  BY <1>1, AddEventPuts, PartsKeptGrown DEF AcceptsEvents, EventPut
<1>2. CASE SetsAside
  BY <1>2, SetsAsideSets, PartsKeptGrown DEF Aside
<1>3. CASE Leaves
  BY <1>3, LeavesLeaves
<1>4. CASE AddRestCors
  BY <1>4, AddRestCorsAdds, PartsKeptGrown DEF Kept
<1>5. CASE AddRestAuth
  <2>1. PICK f, g : Edited(doc, f) /\ PartsKept(f, g) /\ doc' = OpenApiPostprocess(g)
    BY <1>5, AddRestAuthAdds
  <2>2. IsDocument(g) /\ Grown(doc, g)
    BY <2>1, PartsKeptGrown, GrownTwice DEF Edited, Kept, PartsKept
  <2>3. Grown(g, OpenApiPostprocess(g))
    BY <2>2, OpenApiPostprocessMoves DEF Grown
  <2> QED
    BY <1>5, <2>1, <2>2, <2>3, AddRestAuthAdds, GrownTwice
<1>6. CASE AddHttpAuth
  BY <1>6, AddHttpAuthAdds, PartsKeptGrown DEF Edited, Kept
<1>7. CASE AddModelsStep
  <2>1. CASE doc' = doc
    BY <2>1
  <2>2. CASE doc' # doc
    <3>1. PICK f : /\ doc # NoDocument /\ IsDocument(f) /\ f = [doc EXCEPT !.models = @ \cup template.models]
                   /\ doc' = OpenApiPostprocess(f)
      BY <1>7, <2>2, AddModelsStepAdds
    <3>2. Grown(doc, f)
      BY <1>0, <3>1 DEF Grown, IsDocument, DocumentParts
    <3>3. Grown(f, OpenApiPostprocess(f))
      BY <3>1, OpenApiPostprocessMoves DEF Grown
    <3> QED
      BY <3>1, <3>2, <3>3, GrownTwice
  <2> QED
    BY <2>1, <2>2
<1>8. CASE FinishHttp
  <2>1. CASE doc' = doc
    BY <2>1
  <2>2. CASE doc' # doc
    <3>1. PICK f : /\ doc # NoDocument /\ Grown(doc, f) /\ doc' \in {f, UpdateDefaultPath(f)}
      BY <1>8, <2>2, FinishHttpAdds
    <3>2. Grown(f, UpdateDefaultPath(f))
      BY <3>1, UpdateDefaultPathMoves, PartsKeptGrown DEF Grown
    <3> QED
      BY <3>1, <3>2, GrownTwice
  <2> QED
    BY <2>1, <2>2
<1>9. CASE FinishRest
  BY <1>0, <1>9, FinishRestAdds, OpenApiPostprocessMoves DEF Grown
<1>10. CASE UNCHANGED vars
  BY <1>10 DEF vars
<1> QED
  BY <1>1, <1>2, <1>3, <1>4, <1>5, <1>6, <1>7, <1>8, <1>9, <1>10 DEF Next, SetsAside, Leaves

(* The document is one from the beginning,                                 *)
LEMMA InitTypeInv ==
  ASSUME Init
  PROVE  TypeInv
<1>1. template \in Templates /\ doc = template.doc /\ integrated = 0 /\ at = "events"
  BY DEF Init
<1>2. Len(template.events) \in Nat
  <2>1. template.events \in Seq({template.events[k] : k \in DOMAIN template.events})
    BY <1>1, ApiDefinitionAssumption
  <2> QED
    BY <2>1
<1>3. doc # NoDocument => IsDocument(doc)
  BY <1>1, ApiDefinitionAssumption DEF IsWritten
<1> QED
  BY <1>1, <1>2, <1>3 DEF TypeInv, Steps, Written

(* and every step leaves one.                                              *)
LEMMA NextTypeInv ==
  ASSUME TypeInv, [Next]_vars
  PROVE  TypeInv'
<1>1. template' = template
  BY StepLeavesTemplate
<1>2. doc' # NoDocument => Written # NoDocument /\ IsDocument(doc') /\ doc'.version = Written.version
  BY StepGrows DEF TypeInv, Grown
<1>3. Len(template.events) \in Nat
  BY EventsAre
<1>4. /\ integrated' \in Nat /\ integrated' <= Len(template.events)
      /\ at' \in Steps
      /\ at' \notin {"events", "refused"} => integrated' = Len(template.events)
      /\ at' \in {"responses", "binary", "models"} => IsRest
      /\ at' = "tags" => ~IsRest
  BY <1>3 DEF TypeInv, Steps, Next, vars, GoOn, Refuse, AddEvent, RefuseEvent, StartApi, SkipCors, RefuseCors,
    AddRestCors,
       AddHttpCorsSettings, SkipAuth, RefuseAuth, AddRestAuth, AddHttpAuth, AddGatewayResponsesStep,
       AddBinaryMediaTypesStep, AddModelsStep, AddEndpointExtension, AddHttpTags, FinishHttp, FinishRest, Done
<1> QED
  BY <1>1, <1>2, <1>4 DEF TypeInv, IsRest, Written, IsDocument

-----------------------------------------------------------------------------
(* Paths.                                                                  *)
PathsInv ==
  doc # NoDocument /\ at # "made" =>
    /\ ~PartlyIntegrated(template) => PathsKept(Written.paths, doc.paths)
    /\ \A p \in DOMAIN doc.paths : p \in DOMAIN Written.paths \/ \E k \in 1..integrated : p = template.events[k].path
    /\ ItemsInv(doc.paths)

(* A route that had an integration everywhere has one everywhere.          *)
LEMMA HasIntegrationKept ==
  ASSUME TypeInv, doc # NoDocument, PathsKept(Written.paths, doc.paths), NEW path, NEW method,
         HasIntegration(Written, path, method)
  PROVE  HasIntegration(doc, path, method)
<1>1. PICK w : w = Written
  OBVIOUS
<1>2. /\ path \in DOMAIN w.paths /\ path \in DOMAIN doc.paths /\ DOMAIN doc.paths[path] = DOMAIN w.paths[path]
      /\ \A i \in DOMAIN w.paths[path] : method \in DOMAIN w.paths[path][i]
      /\ \A i \in DOMAIN w.paths[path] :
           \E j \in DOMAIN w.paths[path][i][method] : w.paths[path][i][method][j].integration # "none"
  BY <1>1 DEF HasIntegration, HasPath, HasIntegrationIn, PathsKept
<1>3. \A i \in DOMAIN w.paths[path] : \A j \in DOMAIN w.paths[path][i][method] :
        "integration" \in DOMAIN w.paths[path][i][method][j]
  <2>1. IsWritten(w)
    BY <1>1, ApiDefinitionAssumption DEF TypeInv, Written
  <2>2. "integration" \in DOMAIN NoMethod
    BY DEF NoMethod, Method
  <2> QED
    BY <1>2, <2>1, <2>2 DEF IsWritten
<1>4. ASSUME NEW i \in DOMAIN doc.paths[path]
      PROVE  /\ method \in DOMAIN doc.paths[path][i]
             /\ \E j \in DOMAIN doc.paths[path][i][method] : doc.paths[path][i][method][j].integration # "none"
  <2>1. PICK j \in DOMAIN w.paths[path][i][method] : w.paths[path][i][method][j].integration # "none"
    BY <1>2
  <2>2. Integrated(w.paths, path, i, method, j, w.paths[path][i][method][j].integration)
    BY <1>2, <1>3, <2>1 DEF Integrated
  <2>3. Integrated(doc.paths, path, i, method, j, w.paths[path][i][method][j].integration)
    BY <1>1, <2>1, <2>2 DEF PathsKept
  <2> QED
    BY <2>1, <2>3 DEF Integrated
<1> QED
  BY <1>2, <1>4 DEF HasIntegration, HasPath, HasIntegrationIn

(* An event's route replaces none of the author's integrations: it is not  *)
(* put where every definition has one, and where some do the template is   *)
(* excepted.                                                               *)
LEMMA EventKeepsPaths ==
  ASSUME TypeInv, doc # NoDocument, AcceptsEvents, integrated < Len(template.events),
         PathsKept(Written.paths, doc.paths), ~PartlyIntegrated(template), NEW f, EventPut(doc, Event, f)
  PROVE  PathsKept(Written.paths, f.paths)
<1>1. PICK w : w = Written
  OBVIOUS
<1>2. PICK e : e = Event
  OBVIOUS
<1>3. /\ \A p \in DOMAIN doc.paths : p \in DOMAIN f.paths /\ DOMAIN f.paths[p] = DOMAIN doc.paths[p]
      /\ \A p, i, m, j, x :
           /\ (p # e.path \/ m # e.method) \/ HasIntegration(doc, e.path, e.method)
           /\ x # "none" /\ Integrated(doc.paths, p, i, m, j, x)
           => Integrated(f.paths, p, i, m, j, x)
  BY <1>2 DEF EventPut
<1>4. ASSUME NEW i, NEW j, NEW x, x # "none", Integrated(w.paths, e.path, i, e.method, j, x)
      PROVE  HasIntegration(doc, e.path, e.method)
  <2>1. integrated + 1 \in 1..Len(template.events) /\ Accepts(template)
    BY EventsAre DEF TypeInv, AcceptsEvents, Accepts, IsRest
  <2>2. e = template.events[integrated + 1]
    BY <1>2 DEF Event
  <2>3. HasIntegration(w, e.path, e.method)
    BY <1>1, <1>4, <2>1, <2>2 DEF PartlyIntegrated, Integrated, HasIntegrationIn, Written
  <2> QED
    BY <1>1, <2>3, HasIntegrationKept
<1> QED
  BY <1>1, <1>3, <1>4 DEF PathsKept

(* Paths, first of all states,                                             *)
LEMMA InitPathsInv ==
  ASSUME Init
  PROVE  PathsInv
<1>1. template \in Templates /\ doc = template.doc
  BY DEF Init
<1>2. doc # NoDocument => ItemsInv(doc.paths)
  BY <1>1, ApiDefinitionAssumption DEF ItemsInv, IsWritten
<1> QED
  BY <1>1, <1>2 DEF PathsInv, PathsKept, Written

(* then of all steps.                                                      *)
LEMMA NextPathsInv ==
  ASSUME TypeInv, PathsInv, [Next]_vars
  PROVE  PathsInv'
<1>1. template' = template
  BY StepLeavesTemplate
<1>2. CASE AddEvent
  <2>1. at = "events" /\ integrated' = integrated + 1 /\ at' = at
    BY <1>2 DEF AddEvent
  <2>2. CASE ~AcceptsEvents
    BY <1>1, <1>2, <2>1, <2>2, AddEventPuts DEF PathsInv, Written, TypeInv
  <2>3. CASE AcceptsEvents
    <3>1. PICK f : f = doc'
      OBVIOUS
    <3>2. EventPut(doc, Event, f) /\ doc # NoDocument
      BY <1>2, <2>3, <3>1, AddEventPuts DEF AcceptsEvents
    <3>3. ~PartlyIntegrated(template) => PathsKept(Written.paths, f.paths)
      BY <1>2, <2>1, <2>3, <3>2, EventKeepsPaths DEF PathsInv, AddEvent
    <3>4. \A p \in DOMAIN f.paths :
            p \in DOMAIN Written.paths \/ \E k \in 1..integrated + 1 : p = template.events[k].path
      BY <2>1, <3>2 DEF PathsInv, EventPut, Event, TypeInv
    <3>5. ItemsInv(f.paths)
      BY <2>1, <3>2 DEF PathsInv, EventPut, ItemsInv
    <3> QED
      BY <1>1, <2>1, <3>1, <3>3, <3>4, <3>5 DEF PathsInv, Written
  <2> QED
    BY <2>2, <2>3
<1>3. ASSUME doc # NoDocument /\ at # "made" /\ integrated' = integrated,
             PathsKept(doc.paths, doc'.paths), DOMAIN doc'.paths = DOMAIN doc.paths
      PROVE  PathsInv'
  BY <1>1, <1>3 DEF PathsInv, PathsKept, ItemsInv, Written
<1>4. ASSUME doc' = doc, at # "made", integrated' = integrated
      PROVE  PathsInv'
  BY <1>1, <1>4 DEF PathsInv, Written
<1>5. CASE SetsAside
  <2>1. at # "made" /\ integrated' = integrated
    BY <1>5 DEF SetsAside, AddHttpCorsSettings, AddGatewayResponsesStep, AddBinaryMediaTypesStep,
                AddEndpointExtension, AddHttpTags, GoOn, Refuse
  <2> QED
    BY <1>3, <1>4, <1>5, <2>1, SetsAsideSets, SamePaths DEF Aside, Edited, Kept, SameRoutes
<1>6. CASE Leaves
  <2>1. CASE Done
    BY <2>1 DEF PathsInv, Done, vars, Written
  <2>2. CASE ~Done
    <3>1. at # "made" /\ integrated' = integrated
      BY <1>6, <2>2 DEF Leaves, RefuseEvent, StartApi, SkipCors, RefuseCors, SkipAuth, RefuseAuth, GoOn, Refuse
    <3> QED
      BY <1>4, <1>6, <3>1, LeavesLeaves
  <2> QED
    BY <2>1, <2>2
<1>7. CASE AddRestCors
  BY <1>3, <1>7, AddRestCorsAdds DEF Kept, AddRestCors, GoOn
<1>8. CASE AddRestAuth
  <2>1. PICK f, g : Edited(doc, f) /\ PartsKept(f, g) /\ g.paths = f.paths /\ doc' = OpenApiPostprocess(g)
    BY <1>8, AddRestAuthAdds
  <2>2. doc'.paths = f.paths
    BY <2>1, OpenApiPostprocessMoves DEF PartsKept
  <2> QED
    BY <1>3, <1>8, <2>1, <2>2, AddRestAuthAdds DEF Edited, Kept, SameRoutes, AddRestAuth, GoOn
<1>9. CASE AddHttpAuth
  BY <1>3, <1>9, AddHttpAuthAdds DEF Edited, Kept, SameRoutes, AddHttpAuth, GoOn
<1>10. CASE AddModelsStep
  <2>1. at # "made" /\ integrated' = integrated
    BY <1>10 DEF AddModelsStep, GoOn, Refuse
  <2>2. CASE doc' = doc
    BY <1>4, <2>1, <2>2
  <2>3. CASE doc' # doc
    <3>1. PICK f : /\ doc # NoDocument /\ IsDocument(f) /\ f = [doc EXCEPT !.models = @ \cup template.models]
                   /\ doc' = OpenApiPostprocess(f)
      BY <1>10, <2>3, AddModelsStepAdds
    <3>2. f.paths = doc.paths
      BY <3>1
    <3>3. doc'.paths = doc.paths
      BY <3>1, <3>2, OpenApiPostprocessMoves
    <3> QED
      BY <1>3, <2>1, <3>1, <3>3 DEF PathsKept
  <2> QED
    BY <2>2, <2>3
<1>11. CASE FinishHttp \/ FinishRest
  <2>1. at' = "made" \/ (doc' = doc /\ at # "made" /\ integrated' = integrated)
    BY <1>11 DEF FinishHttp, FinishRest, Refuse
  <2> QED
    BY <1>4, <2>1 DEF PathsInv
<1>12. CASE UNCHANGED vars
  BY <1>12 DEF vars, PathsInv, Written
<1> QED
  BY <1>2, <1>5, <1>6, <1>7, <1>8, <1>9, <1>10, <1>11, <1>12 DEF Next, SetsAside, Leaves

-----------------------------------------------------------------------------
(* The parts that do not move.                                             *)
GrownInv == doc # NoDocument => Grown(Written, doc)

(* No step takes from the parts that do not move.                          *)
LEMMA NextGrownInv ==
  ASSUME TypeInv, GrownInv, [Next]_vars
  PROVE  GrownInv'
<1>1. template' = template
  BY StepLeavesTemplate
<1>2. PICK w, d, e : w = Written /\ d = doc /\ e = doc'
  OBVIOUS
<1>3. e # NoDocument => Grown(w, e)
  BY <1>2, StepGrows, GrownTwice DEF GrownInv
<1> QED
  BY <1>1, <1>2, <1>3 DEF GrownInv, Written

(* Definitions of the author's.                                            *)

(* securityDefinitions or models in an OpenAPI 3 document, components in a *)
(* Swagger one.                                                            *)
Misplaced(t) ==
  t.doc # NoDocument /\
    IF t.doc.version = "swagger" THEN t.doc.schemes # <<>> \/ t.doc.schemas # {}
                                 ELSE t.doc.definitions # <<>> \/ t.doc.models # {}

(* Components of an OpenAPI 3 document, and definitions that take their    *)
(* place.                                                                  *)
ReplacesComponents(t) ==
  /\ t.doc # NoDocument /\ t.kind = "rest" /\ t.doc.version = "openapi" /\ t.version # "2"
  /\ \/ t.doc.schemes # <<>> /\ (t.managed \/ t.key \/ DOMAIN t.authorizers # {} \/ t.default = IAM)
     \/ t.doc.schemas # {} /\ t.models # {}

(* Models that an OpenAPI 3 document has where Swagger has them.           *)
LeavesModels(t) ==
  t.doc # NoDocument /\ t.kind = "rest" /\ t.doc.version = "openapi" /\ t.version = "2" /\ t.models # {}

DefinitionsInv ==
  doc # NoDocument /\ ~Misplaced(template) /\ ~ReplacesComponents(template) =>
    /\ DOMAIN Written.definitions \cup DOMAIN Written.schemes \subseteq DOMAIN Defined
    /\ IsRest /\ Moves(doc) /\ Written.schemes # <<>> => doc.definitions = <<>>

(* Steps that move nothing, and leave definitions to be moved as they are  *)
(* where they would replace some.                                          *)
LEMMA KeptDefinitions ==
  ASSUME TypeInv, DefinitionsInv, doc # NoDocument, template' = template,
         doc'.version = doc.version, DOMAIN doc.definitions \subseteq DOMAIN doc'.definitions,
         DOMAIN doc.schemes \subseteq DOMAIN doc'.schemes,
         ~Misplaced(template) /\ ~ReplacesComponents(template) /\ IsRest /\ Moves(doc) /\ Written.schemes # <<>>
           => doc'.definitions = doc.definitions
  PROVE  DefinitionsInv'
BY DEF DefinitionsInv, Defined, Openapi3, Moves, Written, IsRest

(* Steps that move what is defined by then.                                *)
LEMMA MovedDefinitions ==
  ASSUME TypeInv, DefinitionsInv, doc # NoDocument, template' = template, IsRest,
         NEW g, IsDocument(g), g.version = doc.version, DOMAIN doc.definitions \subseteq DOMAIN g.definitions,
         DOMAIN doc.schemes \subseteq DOMAIN g.schemes,
         ~Misplaced(template) /\ ~ReplacesComponents(template) /\ Moves(doc) /\ Written.schemes # <<>>
           => g.definitions = doc.definitions,
         doc' = OpenApiPostprocess(g)
  PROVE  DefinitionsInv'
<1>1. CASE ~Moves(g)
  BY <1>1, OpenApiPostprocessMoves, KeptDefinitions
<1>2. CASE Moves(g)
  <2>1. /\ doc'.version = g.version /\ doc'.definitions = <<>>
        /\ doc'.schemes = (IF g.definitions # <<>> THEN g.definitions ELSE g.schemes)
    BY <1>2, OpenApiPostprocessMoves
  <2>2. doc.version = "openapi" /\ doc.version = Written.version
    BY <1>2 DEF Moves, TypeInv, IsDocument
  <2>3. ASSUME ~Misplaced(template), ~ReplacesComponents(template)
        PROVE  DOMAIN Written.definitions \cup DOMAIN Written.schemes \subseteq DOMAIN doc'.schemes
    <3>1. Written.definitions = <<>>
      BY <2>2, <2>3 DEF Misplaced, Written, TypeInv
    <3>2. CASE Written.schemes = <<>>
      BY <3>1, <3>2
    <3>3. CASE Written.schemes # <<>>
      BY <1>2, <2>1, <2>2, <2>3, <3>1, <3>3 DEF DefinitionsInv, Moves, Defined, Openapi3
    <3> QED
      BY <3>2, <3>3
  <2> QED
    BY <2>1, <2>2, <2>3 DEF DefinitionsInv, Defined, Openapi3, Written, IsRest
<1> QED
  BY <1>1, <1>2

(* All steps, those of events, authorizers and keys being of the first     *)
(* kind or both.                                                           *)
LEMMA NextDefinitionsInv ==
  ASSUME TypeInv, DefinitionsInv, [Next]_vars
  PROVE  DefinitionsInv'
<1>1. template' = template
  BY StepLeavesTemplate
<1>2. CASE doc' = doc
  BY <1>1, <1>2 DEF DefinitionsInv, Defined, Openapi3, Moves, Written, IsRest
<1>3. CASE AddEvent
  <2>1. CASE AcceptsEvents
    <3>1. EventPut(doc, Event, doc') /\ doc # NoDocument
      BY <1>3, <2>1, AddEventPuts DEF AcceptsEvents
    <3>2. ~Misplaced(template) /\ ~ReplacesComponents(template) /\ IsRest /\ Moves(doc) => Written.schemes = <<>>
      BY <2>1, <3>1 DEF ReplacesComponents, AcceptsEvents, IsRest, Moves, Written, TypeInv, IsDocument
    <3> QED
      BY <1>1, <3>1, <3>2, KeptDefinitions DEF EventPut, PartsKept
  <2> QED
    BY <1>2, <1>3, <2>1, AddEventPuts
<1>4. CASE SetsAside
  BY <1>1, <1>2, <1>4, SetsAsideSets, KeptDefinitions DEF Aside, PartsKept
<1>5. CASE Leaves
  BY <1>2, <1>5, LeavesLeaves
<1>6. CASE AddRestCors
  BY <1>1, <1>6, AddRestCorsAdds, KeptDefinitions DEF Kept, PartsKept
<1>7. CASE AddRestAuth
  <2>1. PICK f, g : /\ Edited(doc, f) /\ (KnownAuthorizers = {} /\ ~template.key => f = doc)
                    /\ PartsKept(f, g) /\ g.definitions = f.definitions
                    /\ doc' = OpenApiPostprocess(g)
    BY <1>7, AddRestAuthAdds
  <2>2. doc # NoDocument /\ IsRest
    BY <1>7, AddRestAuthAdds
  <2>3. /\ IsDocument(g) /\ g.version = doc.version
        /\ DOMAIN doc.definitions \subseteq DOMAIN g.definitions /\ DOMAIN doc.schemes \subseteq DOMAIN g.schemes
    BY <2>1 DEF Edited, Kept, PartsKept
  <2>4. ASSUME ~Misplaced(template), ~ReplacesComponents(template), Moves(doc), Written.schemes # <<>>
        PROVE  g.definitions = doc.definitions
    <3>1. ~template.key /\ DOMAIN Authorizers = {} /\ Default # IAM
      BY <2>2, <2>4 DEF ReplacesComponents, Moves, IsRest, Written, TypeInv, IsDocument, Authorizers, Default
    <3> QED
      BY <2>1, <2>2, <3>1 DEF KnownAuthorizers
  <2> QED
    BY <1>1, <2>1, <2>2, <2>3, <2>4, MovedDefinitions
<1>8. CASE AddHttpAuth
  BY <1>1, <1>8, AddHttpAuthAdds, KeptDefinitions DEF Edited, Kept, PartsKept
<1>9. CASE AddModelsStep
  <2>1. CASE doc' # doc
    <3>1. PICK f : /\ doc # NoDocument /\ IsDocument(f) /\ f = [doc EXCEPT !.models = @ \cup template.models]
                   /\ doc' = OpenApiPostprocess(f)
      BY <1>9, <2>1, AddModelsStepAdds
    <3>2. f.version = doc.version /\ f.definitions = doc.definitions /\ f.schemes = doc.schemes
      BY <3>1
    <3>3. IsRest
      BY <1>9 DEF AddModelsStep, TypeInv
    <3> QED
      BY <1>1, <3>1, <3>2, <3>3, MovedDefinitions
  <2> QED
    BY <1>2, <2>1
<1>10. CASE FinishHttp
  <2>1. CASE doc' # doc
    <3>1. PICK f : /\ doc # NoDocument /\ ~IsRest /\ Grown(doc, f)
                   /\ f.definitions = doc.definitions /\ f.schemes = doc.schemes
                   /\ doc' \in {f, UpdateDefaultPath(f)}
      BY <1>10, <2>1, FinishHttpAdds
    <3>2. PartsKept(f, UpdateDefaultPath(f))
      BY <3>1, UpdateDefaultPathMoves DEF Grown
    <3> QED
      BY <1>1, <3>1, <3>2, KeptDefinitions DEF Grown, PartsKept
  <2> QED
    BY <1>2, <2>1
<1>11. CASE FinishRest
  BY <1>1, <1>2, <1>11, FinishRestAdds, MovedDefinitions DEF TypeInv
<1>12. CASE UNCHANGED vars
  BY <1>2, <1>12 DEF vars
<1> QED
  BY <1>3, <1>4, <1>5, <1>6, <1>7, <1>8, <1>9, <1>10, <1>11, <1>12 DEF Next, SetsAside, Leaves

(* Models.  Moved, they are all the document has, or had.                  *)
ModelsInv ==
  doc # NoDocument /\ IsRest /\ ~Misplaced(template) /\ ~ReplacesComponents(template) /\ ~LeavesModels(template) =>
    /\ Written.models \cup Written.schemas \subseteq (IF Openapi3 THEN doc.schemas ELSE doc.models)
    /\ at \in {"extension", "body", "made"} => template.models \subseteq (IF Openapi3 THEN doc.schemas ELSE doc.models)
    /\ Moves(doc) => doc.models = {}

(* Steps that neither move nor add models.                                 *)
LEMMA KeptModels ==
  ASSUME TypeInv, ModelsInv, doc # NoDocument, template' = template,
         doc'.version = doc.version, doc'.models = doc.models, doc'.schemas = doc.schemas,
         at' \in {"extension", "body", "made"} => at \in {"extension", "body", "made"} \/ template.models = {}
  PROVE  ModelsInv'
BY DEF ModelsInv, Openapi3, Moves, Written, IsRest

(* Steps that move the models there are by then.                           *)
LEMMA MovedModels ==
  ASSUME TypeInv, ModelsInv, doc # NoDocument, template' = template,
         NEW g, IsDocument(g), g.version = doc.version, g.models = doc.models, g.schemas = doc.schemas,
         doc' = OpenApiPostprocess(g),
         at' \in {"extension", "body", "made"} => at \in {"extension", "body", "made"}
  PROVE  ModelsInv'
<1>1. CASE ~Moves(g)
  BY <1>1, OpenApiPostprocessMoves, KeptModels
<1>2. CASE Moves(g)
  <2>1. /\ doc'.version = g.version /\ doc'.models = {}
        /\ doc'.schemas = (IF g.models # {} THEN g.models ELSE g.schemas)
    BY <1>2, OpenApiPostprocessMoves
  <2>2. Moves(doc) /\ Openapi3
    BY <1>2 DEF Moves, Openapi3, TypeInv, IsDocument
  <2> QED
    BY <2>1, <2>2 DEF ModelsInv, Openapi3, Moves, Written, IsRest
<1> QED
  BY <1>1, <1>2

(* The API's models are put in, and moved.                                 *)
LEMMA AddedModels ==
  ASSUME TypeInv, ModelsInv, AddModelsStep
  PROVE  ModelsInv'
<1>1. template' = template /\ IsRest
  BY StepLeavesTemplate DEF Next, AddModelsStep, TypeInv
<1>2. CASE doc' = doc /\ (at' = "refused" \/ template.models = {})
  BY <1>1, <1>2 DEF ModelsInv, Openapi3, Moves, Written, IsRest
<1>3. CASE ~(doc' = doc /\ (at' = "refused" \/ template.models = {}))
  <2>1. PICK f : /\ doc # NoDocument /\ IsDocument(f) /\ f = [doc EXCEPT !.models = @ \cup template.models]
                 /\ doc' = OpenApiPostprocess(f) /\ template.models # {}
    BY <1>3, AddModelsStepAdds
  <2>2. /\ f.version = doc.version /\ f.schemas = doc.schemas /\ f.models = doc.models \cup template.models
    BY <2>1 DEF TypeInv, IsDocument, DocumentParts
  <2>3. ASSUME ~Misplaced(template), ~ReplacesComponents(template), ~LeavesModels(template), Openapi3
        PROVE  /\ Moves(f) /\ Written.models = {} /\ Written.schemas = {} /\ doc.models = {}
    <3>1. Written.version = "openapi" /\ doc.version = "openapi"
      BY <2>1, <2>3 DEF Openapi3, TypeInv
    <3>2. Moves(doc)
      BY <1>1, <2>1, <2>3, <3>1 DEF LeavesModels, IsRest, Moves, Written, TypeInv
    <3>3. Written.models = {} /\ Written.schemas = {}
      BY <1>1, <2>1, <2>3, <3>1, <3>2 DEF Misplaced, ReplacesComponents, IsRest, Moves, Written, TypeInv
    <3> QED
      BY <1>1, <2>1, <2>2, <2>3, <3>2, <3>3 DEF Moves, ModelsInv
  <2>4. CASE Openapi3
    <3>1. /\ doc'.version = f.version
          /\ Moves(f) => doc'.models = {} /\ doc'.schemas = (IF f.models # {} THEN f.models ELSE f.schemas)
      BY <2>1, OpenApiPostprocessMoves
    <3> QED
      BY <1>1, <2>1, <2>2, <2>3, <2>4, <3>1 DEF ModelsInv, Openapi3, Moves, Written, IsRest
  <2>5. CASE ~Openapi3
    <3>1. ~Moves(f) /\ ~Moves(doc)
      BY <2>1, <2>2, <2>5 DEF Moves, Openapi3, TypeInv, IsDocument
    <3>2. doc' = f
      BY <2>1, <3>1, OpenApiPostprocessMoves
    <3> QED
      BY <1>1, <2>1, <2>2, <2>5, <3>1, <3>2 DEF ModelsInv, Openapi3, Moves, Written, IsRest
  <2> QED
    BY <2>4, <2>5
<1> QED
  BY <1>2, <1>3

(* All steps.                                                              *)
LEMMA NextModelsInv ==
  ASSUME TypeInv, ModelsInv, [Next]_vars
  PROVE  ModelsInv'
<1>1. template' = template
  BY StepLeavesTemplate
<1>2. ASSUME doc' = doc, at' \in {"extension", "body", "made"} => at \in {"extension", "body", "made"} \/ ~IsRest
      PROVE  ModelsInv'
  BY <1>1, <1>2 DEF ModelsInv, Openapi3, Moves, Written, IsRest
<1>3. CASE AddEvent
  <2>1. at = "events" /\ at' = at
    BY <1>3 DEF AddEvent
  <2> QED
    BY <1>1, <1>2, <1>3, <2>1, AddEventPuts, KeptModels DEF AcceptsEvents, EventPut, PartsKept
<1>4. CASE SetsAside
  <2>1. ~IsRest \/ (at' \in {"extension", "body", "made"} => at \in {"extension", "body", "made"})
    BY <1>4 DEF SetsAside, AddHttpCorsSettings, AddGatewayResponsesStep, AddBinaryMediaTypesStep,
                AddEndpointExtension, AddHttpTags, GoOn, Refuse, TypeInv
  <2>2. CASE ~IsRest
    BY <1>1, <2>2 DEF ModelsInv, IsRest
  <2> QED
    BY <1>1, <1>2, <1>4, <2>1, <2>2, SetsAsideSets, KeptModels DEF Aside, PartsKept
<1>5. CASE Leaves
  <2>1. at' \in {"extension", "body", "made"} => at \in {"extension", "body", "made"} \/ ~IsRest
    BY <1>5 DEF Leaves, RefuseEvent, StartApi, SkipCors, RefuseCors, SkipAuth, RefuseAuth, Done, vars, GoOn, Refuse
  <2> QED
    BY <1>2, <1>5, <2>1, LeavesLeaves
<1>6. CASE AddRestCors
  BY <1>1, <1>6, AddRestCorsAdds, KeptModels DEF Kept, PartsKept, AddRestCors, GoOn
<1>7. CASE AddRestAuth
  <2>1. PICK f, g : Edited(doc, f) /\ PartsKept(f, g) /\ doc' = OpenApiPostprocess(g)
    BY <1>7, AddRestAuthAdds
  <2>2. IsDocument(g) /\ g.version = doc.version /\ g.models = doc.models /\ g.schemas = doc.schemas
    BY <2>1 DEF Edited, Kept, PartsKept
  <2>3. doc # NoDocument /\ at' = "responses"
    BY <1>7, AddRestAuthAdds DEF AddRestAuth, GoOn
  <2> QED
    BY <1>1, <2>1, <2>2, <2>3, MovedModels
<1>8. CASE AddHttpAuth \/ FinishHttp
  <2>1. ~IsRest
    BY <1>8 DEF AddHttpAuth, FinishHttp
  <2> QED
    BY <1>1, <2>1 DEF ModelsInv, IsRest
<1>9. CASE AddModelsStep
  BY <1>9, AddedModels
<1>11. CASE FinishRest
  <2>1. at = "body"
    BY <1>11 DEF FinishRest
  <2>2. CASE doc # NoDocument /\ doc' = OpenApiPostprocess(doc)
    <3>1. IsDocument(doc)
      BY <2>2 DEF TypeInv
    <3> QED
      BY <1>1, <2>1, <2>2, <3>1, MovedModels
  <2> QED
    BY <1>2, <1>11, <2>1, <2>2, FinishRestAdds
<1>12. CASE UNCHANGED vars
  BY <1>2, <1>12 DEF vars
<1> QED
  BY <1>3, <1>4, <1>5, <1>6, <1>7, <1>8, <1>9, <1>11, <1>12 DEF Next, SetsAside, Leaves

-----------------------------------------------------------------------------
(* Policies.                                                               *)

(* A path of an API with a policy, or of an event with one, ends in a      *)
(* slash, which API Gateway removes and a statement does not.              *)
SlashedPolicy(t) ==
  /\ t.kind = "rest" /\ t.doc # NoDocument
  /\ \/ t.policy # {} /\ \/ \E p \in DOMAIN t.doc.paths : Normalized(p) # p
                         \/ \E k \in 1..Len(t.events) : Normalized(t.events[k].path) # t.events[k].path
     \/ \E k \in 1..Len(t.events) : t.events[k].policy # {} /\ Normalized(t.events[k].path) # t.events[k].path

Authorized == at \in {"responses", "binary", "models", "extension", "body", "made"}
RoutesCovered(d) ==
  \A c \in template.policy : \A p \in DOMAIN d.paths : \A m \in MethodsOf(d, p) : CoveredBy(d.policy, c, p, m)
EventsCovered(policy, n) ==
  \A k \in 1..n : \A c \in template.events[k].policy :
    CoveredBy(policy, c, template.events[k].path, template.events[k].method)
PolicyInv ==
  doc # NoDocument /\ IsRest /\ ~SlashedPolicy(template) =>
    /\ Authorized => RoutesCovered(doc)
    /\ template.managed => EventsCovered(doc.policy, integrated)

(* Steps after which the policy has all it had, about the same paths.      *)
LEMMA KeptPolicy ==
  ASSUME TypeInv, PolicyInv, doc # NoDocument, template' = template, integrated' = integrated,
         doc'.paths = doc.paths, doc.policy \subseteq doc'.policy,
         Authorized' => Authorized \/ template.policy = {}
  PROVE  PolicyInv'
<1>1. \A p : MethodsOf(doc', p) = MethodsOf(doc, p)
  BY DEF MethodsOf
<1>2. IsRest /\ ~SlashedPolicy(template) => (Authorized' => RoutesCovered(doc'))
  BY <1>1, CoveredByMore DEF PolicyInv, RoutesCovered
<1>3. IsRest /\ ~SlashedPolicy(template) /\ template.managed => EventsCovered(doc'.policy, integrated)
  BY CoveredByMore DEF PolicyInv, EventsCovered
<1> QED
  BY <1>2, <1>3 DEF PolicyInv, RoutesCovered, EventsCovered, IsRest, MethodsOf

(* An event's step covers its own route and leaves the others covered.     *)
LEMMA EventPolicy ==
  ASSUME TypeInv, PathsInv, PolicyInv, AddEvent
  PROVE  PolicyInv'
<1>1. template' = template /\ at = "events" /\ at' = at /\ integrated' = integrated + 1
  BY StepLeavesTemplate DEF Next, AddEvent
<1>2. CASE ~AcceptsEvents
  BY <1>1, <1>2, AddEventPuts DEF PolicyInv, Authorized, AcceptsEvents, IsRest
<1>3. CASE AcceptsEvents
  <2>1. EventPut(doc, Event, doc') /\ doc # NoDocument
    BY <1>3, AddEventPuts DEF AcceptsEvents
  <2>2. ASSUME IsRest, ~SlashedPolicy(template)
        PROVE  EventsCovered(doc'.policy, integrated + 1)
    <3>1. \A c \in Event.policy : CoveredBy(doc'.policy, c, Event.path, Event.method)
      <4>1. integrated + 1 \in 1..Len(template.events)
        BY EventsAre DEF TypeInv, AddEvent
      <4>2. Event.policy # {} => Normalized(Event.path) = Event.path
        BY <2>1, <2>2, <4>1 DEF SlashedPolicy, IsRest, Event, TypeInv, Written
      <4>3. ItemsInv(doc.paths)
        BY <1>1, <2>1 DEF PathsInv
      <4> QED
        BY <1>3, <2>2, <4>2, <4>3, AddEventCovers
    <3>2. EventsCovered(doc'.policy, integrated)
      <4>1. EventsCovered(doc.policy, integrated)
        BY <1>3, <2>1, <2>2 DEF PolicyInv, AcceptsEvents
      <4>2. doc.policy \subseteq doc'.policy
        BY <2>1 DEF EventPut, PartsKept
      <4> QED
        BY <4>1, <4>2, CoveredByMore DEF EventsCovered
    <3>3. \A k \in 1..integrated + 1 : k \in 1..integrated \/ k = integrated + 1
      BY DEF TypeInv
    <3> QED
      BY <3>1, <3>2, <3>3 DEF EventsCovered, Event
  <2> QED
    BY <1>1, <2>1, <2>2 DEF PolicyInv, Authorized, EventsCovered, IsRest
<1> QED
  BY <1>2, <1>3

(* The API's Auth covers all routes there are, and no later step adds one. *)
LEMMA RestAuthPolicy ==
  ASSUME TypeInv, PathsInv, PolicyInv, AddRestAuth
  PROVE  PolicyInv'
<1>1. /\ template' = template /\ at = "auth" /\ integrated' = integrated
      /\ integrated = Len(template.events)
  BY StepLeavesTemplate DEF Next, AddRestAuth, GoOn, TypeInv
<1>2. doc # NoDocument /\ IsRest
  BY AddRestAuthAdds
<1>3. PICK f, g : /\ Edited(doc, f)
                  /\ PartsKept(f, g) /\ g.paths = f.paths
                  /\ \A p \in DOMAIN f.paths : Normalized(p) = p =>
                       \A c \in template.policy : \A m \in MethodsOf(f, p) : CoveredBy(g.policy, c, p, m)
                  /\ doc' = OpenApiPostprocess(g)
  BY AddRestAuthAdds
<1>4. doc'.paths = f.paths /\ doc'.policy = g.policy /\ doc.policy \subseteq g.policy
  BY <1>3, OpenApiPostprocessMoves DEF Edited, Kept, PartsKept
<1>5. ASSUME ~SlashedPolicy(template)
      PROVE  RoutesCovered(doc')
  <2>1. ASSUME template.policy # {}, NEW p \in DOMAIN f.paths
        PROVE  Normalized(p) = p
    <3>1. p \in DOMAIN Written.paths \/ \E k \in 1..Len(template.events) : p = template.events[k].path
      BY <1>1, <1>2, <1>3, <2>1 DEF PathsInv, Edited, SameRoutes
    <3> QED
      BY <1>2, <1>5, <2>1, <3>1 DEF SlashedPolicy, IsRest, TypeInv, Written
  <2>2. \A p : MethodsOf(doc', p) = MethodsOf(f, p)
    BY <1>4 DEF MethodsOf
  <2> QED
    BY <1>3, <1>4, <2>1, <2>2 DEF RoutesCovered
<1>6. ASSUME ~SlashedPolicy(template), template.managed
      PROVE  EventsCovered(doc'.policy, integrated)
  BY <1>2, <1>4, <1>6, CoveredByMore DEF PolicyInv, EventsCovered
<1> QED
  BY <1>1, <1>5, <1>6 DEF PolicyInv, RoutesCovered, EventsCovered, IsRest, MethodsOf

(* All steps.                                                              *)
LEMMA NextPolicyInv ==
  ASSUME TypeInv, PathsInv, PolicyInv, [Next]_vars
  PROVE  PolicyInv'
<1>1. template' = template
  BY StepLeavesTemplate
<1>2. ASSUME doc' = doc, integrated' = integrated, Authorized' => Authorized \/ template.policy = {} \/ ~IsRest
      PROVE  PolicyInv'
  BY <1>1, <1>2 DEF PolicyInv, RoutesCovered, EventsCovered, IsRest, MethodsOf
<1>3. CASE AddEvent
  BY <1>3, EventPolicy
<1>4. CASE SetsAside
  <2>1. integrated' = integrated /\ (Authorized' => Authorized \/ ~IsRest)
    BY <1>4 DEF SetsAside, AddHttpCorsSettings, AddGatewayResponsesStep, AddBinaryMediaTypesStep,
                AddEndpointExtension, AddHttpTags, GoOn, Refuse, TypeInv, Authorized
  <2>2. CASE ~IsRest
    BY <1>1, <2>2 DEF PolicyInv, IsRest
  <2> QED
    BY <1>1, <1>2, <1>4, <2>1, <2>2, SetsAsideSets, KeptPolicy DEF Aside, PartsKept
<1>5. CASE Leaves
  <2>1. integrated' = integrated /\ (Authorized' => Authorized \/ template.policy = {} \/ ~IsRest)
    BY <1>5 DEF Leaves, RefuseEvent, StartApi, SkipCors, RefuseCors, SkipAuth, RefuseAuth, Done, vars, GoOn, Refuse,
                Authorized, HasAuth
  <2> QED
    BY <1>2, <1>5, <2>1, LeavesLeaves
<1>6. CASE AddRestCors
  <2>1. /\ doc # NoDocument /\ doc.policy \subseteq doc'.policy
        /\ integrated' = integrated /\ at' = "auth"
    BY <1>6, AddRestCorsAdds DEF Kept, PartsKept, AddRestCors, GoOn
  <2> QED
    BY <1>1, <2>1, CoveredByMore DEF PolicyInv, Authorized, EventsCovered, IsRest
<1>7. CASE AddRestAuth
  BY <1>7, RestAuthPolicy
<1>8. CASE AddHttpAuth \/ FinishHttp
  <2>1. ~IsRest
    BY <1>8 DEF AddHttpAuth, FinishHttp
  <2> QED
    BY <1>1, <2>1 DEF PolicyInv, IsRest
<1>9. CASE AddModelsStep
  <2>1. integrated' = integrated /\ Authorized
    BY <1>9 DEF AddModelsStep, GoOn, Refuse, Authorized
  <2>2. CASE doc' # doc
    <3>1. PICK f : /\ doc # NoDocument /\ IsDocument(f) /\ f = [doc EXCEPT !.models = @ \cup template.models]
                   /\ doc' = OpenApiPostprocess(f)
      BY <1>9, <2>2, AddModelsStepAdds
    <3>2. f.paths = doc.paths /\ f.policy = doc.policy
      BY <3>1
    <3>3. doc'.paths = doc.paths /\ doc'.policy = doc.policy
      BY <3>1, <3>2, OpenApiPostprocessMoves
    <3> QED
      BY <1>1, <2>1, <3>1, <3>3, KeptPolicy
  <2> QED
    BY <1>2, <2>1, <2>2
<1>10. CASE FinishRest
  <2>1. integrated' = integrated /\ Authorized
    BY <1>10 DEF FinishRest, Authorized
  <2>2. CASE doc # NoDocument /\ doc' = OpenApiPostprocess(doc)
    <3>1. doc'.paths = doc.paths /\ doc'.policy = doc.policy
      BY <2>2, OpenApiPostprocessMoves DEF TypeInv
    <3> QED
      BY <1>1, <2>1, <2>2, <3>1, KeptPolicy
  <2> QED
    BY <1>2, <1>10, <2>1, <2>2, FinishRestAdds
<1>11. CASE UNCHANGED vars
  BY <1>2, <1>11 DEF vars, Authorized
<1> QED
  BY <1>3, <1>4, <1>5, <1>6, <1>7, <1>8, <1>9, <1>10, <1>11 DEF Next, SetsAside, Leaves

-----------------------------------------------------------------------------
(* The definition that is made.                                            *)

(* The default path, to be served with a slash, and one with the slash.    *)
PathsOf(t) == DOMAIN t.doc.paths \cup {t.events[k].path : k \in 1..Len(t.events)}
DefaultPathTwice(t) ==
  /\ t.kind # "rest" /\ t.failOnWarnings /\ t.doc # NoDocument
  /\ {DefaultPath, SlashedDefaultPath} \subseteq PathsOf(t)

ServedInv ==
  doc # NoDocument /\ at = "made" /\ ~PartlyIntegrated(template) /\ ~DefaultPathTwice(template) =>
    \A p, i, m, j, x : x # "none" /\ Integrated(Written.paths, p, i, m, j, x) =>
                         Integrated(doc.paths, Served(p), i, m, j, x)

(* The last step gives each path what the document had there.              *)
LEMMA FinishServes ==
  ASSUME TypeInv, PathsInv, FinishHttp \/ FinishRest
  PROVE  ServedInv'
<1>1. template' = template /\ at = "body"
  BY StepLeavesTemplate DEF Next, FinishHttp, FinishRest
<1>2. \A p : Served(p)' = Served(p)
  BY <1>1 DEF Served, IsRest
<1> SUFFICES ASSUME doc' # NoDocument, at' = "made", ~PartlyIntegrated(template), ~DefaultPathTwice(template),
                    NEW p, NEW i, NEW m, NEW j, NEW x, x # "none", Integrated(Written.paths, p, i, m, j, x)
             PROVE  Integrated(doc'.paths, Served(p), i, m, j, x)
  BY <1>1, <1>2 DEF ServedInv, Written
<1>3. doc # NoDocument
  BY StepGrows DEF Next
<1>4. Integrated(doc.paths, p, i, m, j, x) /\ p \in DOMAIN Written.paths
  BY <1>1, <1>3 DEF PathsInv, PathsKept, Integrated
<1>5. CASE FinishRest
  BY <1>1, <1>3, <1>4, <1>5, FinishRestAdds, OpenApiPostprocessMoves DEF Served, TypeInv
<1>6. CASE FinishHttp
  <2>1. PICK f : /\ ~IsRest /\ Grown(doc, f) /\ f.paths = doc.paths
                 /\ IF template.failOnWarnings THEN doc' = UpdateDefaultPath(f) ELSE doc' = f
    BY <1>3, <1>6, FinishHttpAdds
  <2>2. CASE ~template.failOnWarnings
    BY <1>4, <2>1, <2>2 DEF Served
  <2>3. CASE template.failOnWarnings
    <3>1. /\ DefaultPath \notin DOMAIN doc.paths => doc'.paths = doc.paths
          /\ DefaultPath \in DOMAIN doc.paths =>
               /\ DOMAIN doc'.paths = (DOMAIN doc.paths \ {DefaultPath}) \cup {SlashedDefaultPath}
               /\ doc'.paths[SlashedDefaultPath] = doc.paths[DefaultPath]
               /\ \A q \in DOMAIN doc.paths \ {DefaultPath, SlashedDefaultPath} : doc'.paths[q] = doc.paths[q]
      <4>1. PICK g : g = UpdateDefaultPath(f)
        OBVIOUS
      <4>2. /\ DefaultPath \notin DOMAIN f.paths => g.paths = f.paths
            /\ DefaultPath \in DOMAIN f.paths =>
                 /\ DOMAIN g.paths = (DOMAIN f.paths \ {DefaultPath}) \cup {SlashedDefaultPath}
                 /\ g.paths[SlashedDefaultPath] = f.paths[DefaultPath]
                 /\ \A q \in DOMAIN f.paths \ {DefaultPath, SlashedDefaultPath} : g.paths[q] = f.paths[q]
        BY <2>1, <4>1, UpdateDefaultPathMoves DEF Grown
      <4> QED
        BY <2>1, <2>3, <4>1, <4>2
    <3>2. CASE DefaultPath \notin DOMAIN doc.paths
      BY <1>4, <3>1, <3>2 DEF Integrated, Served
    <3>3. CASE DefaultPath \in DOMAIN doc.paths /\ p = DefaultPath
      BY <1>4, <2>1, <2>3, <3>1, <3>3 DEF Integrated, Served
    <3>4. CASE DefaultPath \in DOMAIN doc.paths /\ p # DefaultPath
      <4>1. integrated = Len(template.events)
        BY <1>1 DEF TypeInv
      <4>2. p # SlashedDefaultPath
        BY <1>1, <1>3, <1>4, <2>1, <2>3, <3>4, <4>1 DEF DefaultPathTwice, PathsOf, PathsInv, IsRest, Written, TypeInv
      <4> QED
        BY <1>4, <3>1, <3>4, <4>2 DEF Integrated, Served
    <3> QED
      BY <3>2, <3>3, <3>4
  <2> QED
    BY <2>2, <2>3
<1> QED
  BY <1>5, <1>6

(* No other step makes a definition.                                       *)
LEMMA NextServedInv ==
  ASSUME TypeInv, PathsInv, ServedInv, [Next]_vars
  PROVE  ServedInv'
<1>1. CASE FinishHttp \/ FinishRest
  BY <1>1, FinishServes
<1>2. CASE UNCHANGED vars
  BY <1>2 DEF vars, ServedInv, Written, Served, IsRest
<1>3. CASE ~(FinishHttp \/ FinishRest) /\ ~UNCHANGED vars
  <2>1. at' # "made"
    BY <1>3 DEF Next, vars, GoOn, Refuse, AddEvent, RefuseEvent, StartApi, SkipCors, RefuseCors, AddRestCors,
       AddHttpCorsSettings, SkipAuth, RefuseAuth, AddRestAuth, AddHttpAuth, AddGatewayResponsesStep,
       AddBinaryMediaTypesStep, AddModelsStep, AddEndpointExtension, AddHttpTags, Done
  <2> QED
    BY <2>1 DEF ServedInv
<1> QED
  BY <1>1, <1>2, <1>3

-----------------------------------------------------------------------------
(* What a route asks of its callers.                                       *)

(* A nonempty set of numbers has a least one.                              *)
LEMMA LeastIsIn ==
  ASSUME NEW S, S \subseteq Nat, S # {}
  PROVE  \E m \in S : \A k \in S : m <= k
<1>1. PICK m \in S : \A k \in S : ~ (<<k, m>> \in OpToRel(<, Nat))
  <2> HIDE DEF OpToRel
  <2> QED
    BY NatLessThanWellFounded, WFMin
<1>2. \A k \in S : ~ (k < m)
  BY <1>1 DEF OpToRel
<1> QED
  BY <1>2

(* The recursion of Naming is one.                                         *)
IsKept(kept, s, names, n) ==
  kept = [k \in 0..n |->
            IF k = 0 THEN <<>>
            ELSE IF s[k].name \in names THEN Append(kept[k - 1], s[k]) ELSE kept[k - 1]]
(* There is such a function for any sequence: the recursion defines it.    *)
LEMMA KeptExists ==
  ASSUME NEW s, NEW names, NEW n \in Nat
  PROVE  \E kept : IsKept(kept, s, names, n)
<1> USE DEF IsKept
<1> DEFINE Is(kept, top) == IsKept(kept, s, names, top)
           Missing == {top \in Nat : ~ \E kept : Is(kept, top)}
<1> SUFFICES ASSUME n \in Missing PROVE FALSE
  OBVIOUS
<1>1. PICK m \in Missing : \A k \in Missing : m <= k
  <2> HIDE DEF Missing
  <2>1. Missing \subseteq Nat /\ Missing # {}
    BY DEF Missing
  <2> QED
    BY <2>1, LeastIsIn
<1>2. m # 0
  <2>1. Is([k \in 0..0 |-> <<>>], 0)
    OBVIOUS
  <2> QED
    BY <1>1, <2>1
<1>3. PICK kept : Is(kept, m - 1)
  <2>1. m - 1 \in Nat /\ ~(m <= m - 1)
    BY <1>1, <1>2
  <2>2. m - 1 \notin Missing
    <3> HIDE DEF Missing
    <3> QED
      BY <1>1, <2>1
  <2> HIDE DEF IsKept
  <2> QED
    BY <2>1, <2>2 DEF Missing
<1> DEFINE more == [k \in 0..m |->
                      IF k \in 0..(m - 1) THEN kept[k]
                      ELSE IF s[m].name \in names THEN Append(kept[m - 1], s[m]) ELSE kept[m - 1]]
<1>4. Is(more, m)
  <2>1. m \in Nat /\ m # 0
    BY <1>1, <1>2
  <2>2. \A k \in 0..(m - 1) : more[k] = kept[k]
    BY <2>1
  <2>3. more[m] = IF s[m].name \in names THEN Append(more[m - 1], s[m]) ELSE more[m - 1]
    BY <2>1, <2>2
  <2>4. \A k \in 0..(m - 1) : kept[k] = IF k = 0 THEN <<>>
                 ELSE IF s[k].name \in names THEN Append(kept[k - 1], s[k]) ELSE kept[k - 1]
    BY <1>3
  <2>5. \A k \in 0..m : more[k] = IF k = 0 THEN <<>>
                 ELSE IF s[k].name \in names THEN Append(more[k - 1], s[k]) ELSE more[k - 1]
    <3> HIDE DEF more
    <3> QED
      BY <2>1, <2>2, <2>3, <2>4
  <2>6. more = [k \in 0..m |-> more[k]]
    OBVIOUS
  <2> HIDE DEF more
  <2> QED
    BY <2>5, <2>6
<1> HIDE DEF more, Is, IsKept
<1> QED
  BY <1>1, <1>4 DEF Missing

(* A sequence with one more element.                                       *)
LEMMA AppendSet ==
  ASSUME NEW R, NEW s \in Seq(R), NEW r \in R
  PROVE  ToSet(Append(s, r)) = ToSet(s) \cup {r}
<1> DEFINE t == Append(s, r)
<1>1. DOMAIN t = 1..Len(s) + 1 /\ DOMAIN s = 1..Len(s) /\ Len(s) \in Nat
  OBVIOUS
<1>2. t[Len(s) + 1] = r /\ \A i \in 1..Len(s) : t[i] = s[i]
  OBVIOUS
<1>3. \A i : i \in 1..Len(s) + 1 <=> i \in 1..Len(s) \/ i = Len(s) + 1
  BY <1>1
<1> HIDE DEF t
<1>4. ToSet(t) = ToSet(s) \cup {r}
  BY <1>1, <1>2, <1>3 DEF ToSet
<1> QED
  BY <1>4 DEF t

(* Naming keeps the requirements that name one of the definitions.         *)
LEMMA NamingKeeps ==
  ASSUME NEW R, NEW s \in Seq(R), NEW names
  PROVE  /\ Naming(s, names) \in Seq(R)
         /\ ToSet(Naming(s, names)) = {r \in ToSet(s) : r.name \in names}
         /\ Naming(s, names) # <<>> => Naming(s, names)[1].name \in names
<1> DEFINE kept == CHOOSE kept : kept = [k \in 0..Len(s) |->
                      IF k = 0 THEN <<>>
                      ELSE IF s[k].name \in names THEN Append(kept[k - 1], s[k]) ELSE kept[k - 1]]
           Good(k) == /\ kept[k] \in Seq(R)
                      /\ ToSet(kept[k]) = {s[i] : i \in {j \in 1..k : s[j].name \in names}}
           Bad == {k \in 0..Len(s) : ~Good(k)}
<1>1. Naming(s, names) = kept[Len(s)]
  BY DEF Naming
<1>2. kept = [k \in 0..Len(s) |->
                IF k = 0 THEN <<>>
                ELSE IF s[k].name \in names THEN Append(kept[k - 1], s[k]) ELSE kept[k - 1]]
  <2>1. Len(s) \in Nat
    OBVIOUS
  <2>2. \E f : f = [k \in 0..Len(s) |->
                IF k = 0 THEN <<>>
                ELSE IF s[k].name \in names THEN Append(f[k - 1], s[k]) ELSE f[k - 1]]
    <3>1. \E f : IsKept(f, s, names, Len(s))
      BY <2>1, KeptExists
    <3> QED
      BY <3>1 DEF IsKept
  <2> QED
    BY <2>2
<1> HIDE DEF kept
<1>3. Bad = {}
  <2> SUFFICES ASSUME Bad # {} PROVE FALSE
    OBVIOUS
  <2>1. PICK m \in Bad : \A k \in Bad : m <= k
    <3> HIDE DEF Good
    <3>1. Bad \subseteq Nat
      OBVIOUS
    <3> HIDE DEF Bad
    <3> QED
      BY <3>1, LeastIsIn
  <2>2. m \in 0..Len(s) /\ ~Good(m)
    BY <2>1
  <2>3. m # 0
    <3>1. kept[0] = <<>>
      BY <1>2
    <3>2. Good(0)
      BY <3>1 DEF ToSet
    <3> QED
      BY <2>2, <3>2
  <2>4. Good(m - 1)
    <3>1. m - 1 \in 0..Len(s) /\ ~(m <= m - 1)
      BY <2>2, <2>3
    <3> HIDE DEF Good
    <3> QED
      BY <2>1, <3>1
  <2>5. kept[m] = IF s[m].name \in names THEN Append(kept[m - 1], s[m]) ELSE kept[m - 1]
    BY <1>2, <2>2, <2>3
  <2>6. s[m] \in R
    BY <2>2, <2>3
  <2>7. ToSet(Append(kept[m - 1], s[m])) = ToSet(kept[m - 1]) \cup {s[m]}
    BY <2>4, <2>6, AppendSet
  <2>8. \A j : j \in 1..m <=> j \in 1..(m - 1) \/ j = m
    BY <2>2, <2>3
  <2>9. Good(m)
    BY <2>4, <2>5, <2>6, <2>7, <2>8
  <2> QED
    BY <2>2, <2>9
<1>4. Good(Len(s))
  <2> HIDE DEF Good
  <2> QED
    BY <1>3
<1>5. {s[i] : i \in {j \in 1..Len(s) : s[j].name \in names}} = {r \in ToSet(s) : r.name \in names}
  BY DEF ToSet
<1>6. /\ Naming(s, names) \in Seq(R)
      /\ ToSet(Naming(s, names)) = {r \in ToSet(s) : r.name \in names}
  BY <1>1, <1>4, <1>5
<1> QED
  BY <1>6 DEF ToSet

-----------------------------------------------------------------------------
(* What the API's defaults make of the requirements of one method.         *)
RequiredOf(s) == {r \in ToSet(s) : r.name # "NONE"}

(* The other requirements are those that name none of the definitions.     *)
LEMMA NotNamingKeeps ==
  ASSUME NEW R, NEW s \in Seq(R), NEW names
  PROVE  /\ NotNaming(s, names) \in Seq(R)
         /\ ToSet(NotNaming(s, names)) = {r \in ToSet(s) : r.name \notin names}
<1>1. /\ NotNaming(s, names) \in Seq(R)
      /\ ToSet(NotNaming(s, names)) = {r \in ToSet(s) : r.name \in NamesIn(s) \ names}
  BY NamingKeeps DEF NotNaming
<1>2. \A r \in ToSet(s) : r.name \in NamesIn(s)
  BY DEF ToSet, NamesIn
<1> QED
  BY <1>1, <1>2

(* Two sequences together have what each has.                              *)
LEMMA BothSet ==
  ASSUME NEW R, NEW s \in Seq(R), NEW t \in Seq(R)
  PROVE  s \o t \in Seq(R) /\ ToSet(s \o t) = ToSet(s) \cup ToSet(t)
<1> DEFINE u == s \o t
<1>1. u \in Seq(R) /\ DOMAIN u = 1..Len(s) + Len(t) /\ Len(s) \in Nat /\ Len(t) \in Nat
  OBVIOUS
<1>2. \A i \in 1..Len(s) : i \in DOMAIN u /\ u[i] = s[i]
  OBVIOUS
<1>3. \A i \in 1..Len(t) : Len(s) + i \in DOMAIN u /\ u[Len(s) + i] = t[i]
  OBVIOUS
<1>4. \A i \in DOMAIN u : i \in 1..Len(s) \/ \E j \in 1..Len(t) : i = Len(s) + j
  <2> SUFFICES ASSUME NEW i \in DOMAIN u, i \notin 1..Len(s)
               PROVE  \E j \in 1..Len(t) : i = Len(s) + j
    OBVIOUS
  <2>1. i - Len(s) \in 1..Len(t) /\ i = Len(s) + (i - Len(s))
    BY <1>1
  <2> QED
    BY <2>1
<1>5. DOMAIN s = 1..Len(s) /\ DOMAIN t = 1..Len(t)
  OBVIOUS
<1> HIDE DEF u
<1>6. ToSet(u) = ToSet(s) \cup ToSet(t)
  BY <1>2, <1>3, <1>4, <1>5 DEF ToSet
<1> QED
  BY <1>1, <1>6 DEF u

(* Without one that says NONE a sequence requires what it did.             *)
LEMMA RemoveNone ==
  ASSUME NEW R, NEW s \in Seq(R), NEW i \in DOMAIN s, s[i].name = "NONE"
  PROVE  RemoveAt(s, i) \in Seq(R) /\ RequiredOf(RemoveAt(s, i)) = RequiredOf(s)
<1> DEFINE a == SubSeq(s, 1, i - 1)
           b == SubSeq(s, i + 1, Len(s))
<1>1. a \in Seq(R) /\ b \in Seq(R) /\ i \in 1..Len(s) /\ Len(s) \in Nat /\ DOMAIN s = 1..Len(s)
  OBVIOUS
<1>2. DOMAIN a = 1..(i - 1) /\ \A k \in 1..(i - 1) : a[k] = s[k]
  OBVIOUS
<1>3. DOMAIN b = 1..(Len(s) - i) /\ \A k \in 1..(Len(s) - i) : b[k] = s[i + k]
  OBVIOUS
<1>4. \A k \in 1..Len(s) : k \in 1..(i - 1) \/ k = i \/ \E l \in 1..(Len(s) - i) : k = i + l
  <2> SUFFICES ASSUME NEW k \in 1..Len(s), k \notin 1..(i - 1), k # i
               PROVE  \E l \in 1..(Len(s) - i) : k = i + l
    OBVIOUS
  <2>1. k - i \in 1..(Len(s) - i) /\ k = i + (k - i)
    BY <1>1
  <2> QED
    BY <2>1
<1>5. /\ \A k \in 1..(i - 1) : k \in 1..Len(s)
      /\ \A l \in 1..(Len(s) - i) : i + l \in 1..Len(s)
  BY <1>1
<1> HIDE DEF a, b
<1>6. ToSet(s) = ToSet(a) \cup ToSet(b) \cup {s[i]}
  <2>1. /\ ToSet(s) = {s[k] : k \in 1..Len(s)}
        /\ ToSet(a) = {a[k] : k \in 1..(i - 1)}
        /\ ToSet(b) = {b[k] : k \in 1..(Len(s) - i)}
    BY <1>1, <1>2, <1>3 DEF ToSet
  <2>2. \A r \in ToSet(s) : r \in ToSet(a) \/ r \in ToSet(b) \/ r = s[i]
    BY <1>2, <1>3, <1>4, <2>1
  <2>3. ToSet(a) \subseteq ToSet(s)
    BY <1>2, <1>5, <2>1
  <2>4. ToSet(b) \subseteq ToSet(s)
    BY <1>3, <1>5, <2>1
  <2> QED
    BY <1>1, <2>1, <2>2, <2>3, <2>4
<1>7. RemoveAt(s, i) = a \o b
  BY DEF RemoveAt, a, b
<1>8. RemoveAt(s, i) \in Seq(R) /\ ToSet(RemoveAt(s, i)) = ToSet(a) \cup ToSet(b)
  BY <1>1, <1>7, BothSet
<1> QED
  BY <1>6, <1>8 DEF RequiredOf

(* What may be an authorizer's name, the names that stand for API keys, and*)
(* the scopes that come with the default authorizer.                       *)
Named == {IAM} \cup DOMAIN Authorizers
KeyNames == {"api_key", "api_key_false"}
DefaultScopes ==
  IF Default \in DOMAIN Authorizers /\ Authorizers[Default].scopes THEN "of the authorizer" ELSE Unset

(* What each of the two passes over a REST API's methods, and the one over *)
(* an HTTP API's, makes of the security of one method.                     *)
DefaultPass(m, s) ==
  IF KnownAuthorizers = {} \/ Default = Unset THEN s
  ELSE LET t == DefaultSecurity(s, Default, Authorizers)
       IN  IF (m = "options" /\ ~template.preflightAuth) \/ t = <<>> THEN s ELSE t
KeyPass(m, s) == IF ~template.key THEN s ELSE KeySecurity(m, s, template.preflightKey)
HttpPass(m, s) ==
  IF Default = Unset \/ m = "options" \/ s # <<>> THEN s ELSE <<Requirement(Default, DefaultScopes)>>
Final(m, s) == IF IsRest THEN KeyPass(m, DefaultPass(m, s)) ELSE HttpPass(m, s)

(* Authorizers with names that mean something else in a security section.  *)
ReservedNames(t) == DOMAIN t.authorizers \cap ({IAM, "NONE"} \cup KeyNames) # {}

(* The default authorizer of a REST API that has none.                     *)
UnheededDefault(t) ==
  t.kind = "rest" /\ DOMAIN t.authorizers = {} /\ t.default \notin {Unset, IAM}

(* One requirement by a default that is known, or none.                    *)
DefaultsAreKnown == Default \in {Unset} \cup KnownAuthorizers

(* A sequence over more.                                                   *)
LEMMA SeqWider ==
  ASSUME NEW R, NEW S, R \subseteq S, NEW s \in Seq(R)
  PROVE  s \in Seq(S)
OBVIOUS

(* One of none.                                                            *)
LEMMA EmptySet ==
  ToSet(<<>>) = {}
BY DEF ToSet

(* A sequence of one.                                                      *)
LEMMA OneSet ==
  ASSUME NEW R, NEW r \in R
  PROVE  <<r>> \in Seq(R) /\ ToSet(<<r>>) = {r}
BY DEF ToSet

(* The default authorizer is required of a method that says nothing of     *)
(* authorizers, preflight requests being excepted if the API says so.      *)
LEMMA DefaultSecurityRequires ==
  ASSUME NEW R, NEW s \in Seq(R), Requirement(Default, DefaultScopes) \in R, "NONE" \notin Named,
         "NONE" \in NamesIn(s) => NamesIn(s) \cap Named = {}, Default # "NONE"
  PROVE  /\ DefaultSecurity(s, Default, Authorizers) \in Seq(R)
         /\ RequiredOf(DefaultSecurity(s, Default, Authorizers)) =
              RequiredOf(s) \cup (IF NamesIn(s) \cap (Named \cup {"NONE"}) = {}
                                  THEN {Requirement(Default, DefaultScopes)} ELSE {})
<1>1. PICK r : r = Requirement(Default, DefaultScopes)
  OBVIOUS
<1>2. PICK others : others = NotNaming(s, Named)
  OBVIOUS
<1>3. PICK own : own = Naming(s, Named)
  OBVIOUS
<1>4. /\ others \in Seq(R)
      /\ ToSet(others) = {x \in ToSet(s) : x.name \notin Named}
  BY <1>2, NotNamingKeeps
<1>5. /\ own \in Seq(R)
      /\ ToSet(own) = {x \in ToSet(s) : x.name \in Named}
  BY <1>3, NamingKeeps
<1>6. DefaultSecurity(s, Default, Authorizers) =
        IF "NONE" \in NamesIn(others)
        THEN RemoveAt(others, Min({i \in DOMAIN others : others[i].name = "NONE"}))
        ELSE others \o (IF own = <<>> THEN <<r>> ELSE own)
  BY <1>1, <1>2, <1>3 DEF DefaultSecurity, Named, DefaultScopes
<1>7. \A n : n \in NamesIn(s) <=> \E x \in ToSet(s) : x.name = n
  BY DEF NamesIn, ToSet
<1>8. \A n : n \in NamesIn(others) <=> \E x \in ToSet(others) : x.name = n
  BY DEF NamesIn, ToSet
<1>9. CASE "NONE" \in NamesIn(others)
  <2>1. PICK i \in DOMAIN others : i = Min({k \in DOMAIN others : others[k].name = "NONE"}) /\ others[i].name = "NONE"
    <3>1. PICK K : K = {k \in DOMAIN others : others[k].name = "NONE"}
      OBVIOUS
    <3>2. K # {} /\ K \subseteq Nat
      BY <1>4, <1>9, <3>1 DEF NamesIn
    <3>3. \E k \in K : \A l \in K : k <= l
      BY <3>2, LeastIsIn
    <3>4. Min(K) \in K
      BY <3>3 DEF Min
    <3> QED
      BY <3>1, <3>4
  <2>2. RemoveAt(others, i) \in Seq(R) /\ RequiredOf(RemoveAt(others, i)) = RequiredOf(others)
    BY <1>4, <2>1, RemoveNone
  <2>3. "NONE" \in NamesIn(s)
    BY <1>4, <1>7, <1>8, <1>9
  <2>4. RequiredOf(others) = RequiredOf(s)
    BY <1>4, <1>7, <2>3 DEF RequiredOf
  <2> QED
    BY <1>6, <1>9, <2>1, <2>2, <2>3, <2>4
<1>10. CASE "NONE" \notin NamesIn(others)
  <2>1. PICK more : more = IF own = <<>> THEN <<r>> ELSE own
    OBVIOUS
  <2>2. more \in Seq(R) /\ ToSet(<<r>>) = {r} /\ ToSet(<<>>) = {}
    BY <1>1, <1>5, <2>1, OneSet DEF ToSet
  <2>3. /\ others \o more \in Seq(R)
        /\ ToSet(others \o more) = ToSet(others) \cup ToSet(more)
    BY <1>4, <2>2, BothSet
  <2>4. "NONE" \notin NamesIn(s)
    BY <1>4, <1>7, <1>8, <1>10
  <2>5. own = <<>> <=> NamesIn(s) \cap Named = {}
    <3>1. own # <<>> => \E x \in ToSet(own) : TRUE
      <4>1. own # <<>> => 1 \in DOMAIN own
        BY <1>5
      <4> QED
        BY <4>1 DEF ToSet
    <3> QED
      BY <1>5, <1>7, <2>2, <3>1
  <2>6. r.name = Default
    BY <1>1 DEF Requirement
  <2>7. RequiredOf(others \o more) =
          RequiredOf(s) \cup (IF own = <<>> THEN {r} ELSE {})
    <3>1. \A x \in ToSet(s) : x.name # "NONE"
      BY <1>7, <2>4
    <3>2. CASE own = <<>>
      BY <1>4, <1>5, <2>1, <2>2, <2>3, <2>6, <3>1, <3>2 DEF RequiredOf
    <3>3. CASE own # <<>>
      BY <1>4, <1>5, <2>1, <2>3, <3>1, <3>3 DEF RequiredOf
    <3> QED
      BY <3>2, <3>3
  <2> QED
    BY <1>1, <1>6, <1>10, <2>1, <2>3, <2>4, <2>5, <2>7
<1> QED
  BY <1>9, <1>10

(* The default pass over one method's security, with what it requires.     *)
LEMMA DefaultPassRequires ==
  ASSUME NEW R, NEW s \in Seq(R), Requirement(Default, DefaultScopes) \in R, NEW m,
         ~ReservedNames(template), DefaultsAreKnown, Unset \notin {IAM, "NONE"},
         "NONE" \in NamesIn(s) => NamesIn(s) \cap Named = {}
  PROVE  /\ DefaultPass(m, s) \in Seq(R)
         /\ RequiredOf(DefaultPass(m, s)) =
              RequiredOf(s) \cup
              (IF /\ m # "options" \/ template.preflightAuth
                  /\ NamesIn(s) \cap (Named \cup {"NONE"}) = {}
               THEN By(Default, NoSay(m)) ELSE {})
         /\ NamesIn(DefaultPass(m, s)) \ {"NONE"} \subseteq NamesIn(s) \cup {Default}
<1>1. PICK t : t = DefaultSecurity(s, Default, Authorizers)
  OBVIOUS
<1>2. "NONE" \notin Named
  BY DEF Named, ReservedNames, IAM, Authorizers
<1>3. KnownAuthorizers = {} => Default = Unset
  BY DEF DefaultsAreKnown
<1>4. Default # "NONE"
  BY <1>2 DEF DefaultsAreKnown, KnownAuthorizers, Named
<1>5. By(Default, NoSay(m)) = IF Default = Unset THEN {} ELSE {Requirement(Default, DefaultScopes)}
  BY <1>4 DEF By, NoSay, DefaultScopes
<1>6. \A u, n : n \in NamesIn(u) <=> \E x \in ToSet(u) : x.name = n
  BY DEF NamesIn, ToSet
<1>7. \A u : \A n : n \in NamesIn(u) \ {"NONE"} <=> \E x \in RequiredOf(u) : x.name = n
  BY <1>6 DEF RequiredOf
<1>8. /\ DefaultPass(m, s) \in Seq(R)
      /\ RequiredOf(DefaultPass(m, s)) =
              RequiredOf(s) \cup
              (IF /\ m # "options" \/ template.preflightAuth
                  /\ NamesIn(s) \cap (Named \cup {"NONE"}) = {}
               THEN By(Default, NoSay(m)) ELSE {})
  <2>1. CASE Default = Unset
    BY <1>5, <2>1 DEF DefaultPass
  <2>2. CASE Default # Unset /\ m = "options" /\ ~template.preflightAuth
    BY <1>1, <1>3, <2>2 DEF DefaultPass
  <2>3. CASE Default # Unset /\ ~(m = "options" /\ ~template.preflightAuth)
    <3>1. /\ t \in Seq(R)
          /\ RequiredOf(t) = RequiredOf(s) \cup (IF NamesIn(s) \cap (Named \cup {"NONE"}) = {}
                                  THEN {Requirement(Default, DefaultScopes)} ELSE {})
      BY <1>1, <1>2, <1>4, DefaultSecurityRequires
    <3>2. DefaultPass(m, s) = IF t = <<>> THEN s ELSE t
      BY <1>1, <1>3, <2>3 DEF DefaultPass
    <3>3. t = <<>> => RequiredOf(t) = {}
      BY DEF RequiredOf, ToSet
    <3>4. CASE t = <<>>
      BY <1>5, <2>3, <3>1, <3>2, <3>3, <3>4
    <3>5. CASE t # <<>>
      BY <1>5, <2>3, <3>1, <3>2, <3>5
    <3> QED
      BY <3>4, <3>5
  <2> QED
    BY <2>1, <2>2, <2>3
<1>9. \A x \in By(Default, NoSay(m)) : x.name = Default
  BY <1>5 DEF Requirement
<1> QED
  BY <1>7, <1>8, <1>9

(* An API's key is required of each method that does not say otherwise.    *)
LEMMA KeyPassRequires ==
  ASSUME NEW R, NEW s \in Seq(R), NEW m
  PROVE  RequiredOf(KeyPass(m, s)) =
           {r \in RequiredOf(s) : template.key => r.name \notin KeyNames} \cup
           (IF /\ template.key /\ "api_key_false" \notin NamesIn(s)
               /\ m # "options" \/ template.preflightKey
            THEN {Requirement("api_key", Unset)} ELSE {})
<1>1. CASE ~template.key
  BY <1>1 DEF KeyPass
<1>2. CASE template.key
  <2>1. PICK others : others = NotNaming(s, KeyNames)
    OBVIOUS
  <2>2. PICK r : r = Requirement("api_key", Unset)
    OBVIOUS
  <2>3. /\ others \in Seq(R)
        /\ ToSet(others) = {x \in ToSet(s) : x.name \notin KeyNames}
    BY <2>1, NotNamingKeeps
  <2>4. others \in Seq(R \cup {r})
    <3>1. Seq(R) \subseteq Seq(R \cup {r})
      OBVIOUS
    <3> QED
      BY <2>3, <3>1
  <2>5. ToSet(Append(others, r)) = ToSet(others) \cup {r}
    BY <2>4, AppendSet
  <2>6. r.name = "api_key"
    BY <2>2 DEF Requirement
  <2>7. KeyPass(m, s) = IF "api_key_false" \in NamesIn(s) \/ (m = "options" /\ ~template.preflightKey)
                        THEN others ELSE Append(others, r)
    BY <1>2, <2>1, <2>2 DEF KeyPass, KeySecurity, KeyNames
  <2>8. CASE "api_key_false" \in NamesIn(s) \/ (m = "options" /\ ~template.preflightKey)
    BY <1>2, <2>3, <2>7, <2>8 DEF RequiredOf
  <2>9. CASE ~("api_key_false" \in NamesIn(s) \/ (m = "options" /\ ~template.preflightKey))
    BY <1>2, <2>2, <2>3, <2>5, <2>6, <2>7, <2>9 DEF RequiredOf
  <2> QED
    BY <2>8, <2>9
<1> QED
  BY <1>1, <1>2

(* One is required by its name, or none.                                   *)
LEMMA ByNames ==
  ASSUME NEW who, NEW e
  PROVE  /\ who \in {Unset, "NONE"} => By(who, e) = {}
         /\ who \notin {Unset, "NONE"} => \E x : By(who, e) = {x} /\ x.name = who
<1>1. \A n, c : Requirement(n, c).name = n
  BY DEF Requirement
<1> QED
  BY <1>1 DEF By

(* Both passes over a method of a REST API.                                *)
LEMMA RestRequires ==
  ASSUME IsRest, NEW R, NEW s \in Seq(R), Requirement(Default, DefaultScopes) \in R, NEW m,
         ~ReservedNames(template), DefaultsAreKnown, Unset \notin {IAM, "NONE"},
         "NONE" \in NamesIn(s) => NamesIn(s) \cap Named = {}
  PROVE  RequiredOf(Final(m, s)) =
           {r \in RequiredOf(s) : template.key => r.name \notin KeyNames} \cup
           (IF /\ m # "options" \/ template.preflightAuth
               /\ NamesIn(s) \cap (Named \cup {"NONE"}) = {}
            THEN By(Default, NoSay(m)) ELSE {}) \cup
           (IF /\ template.key /\ "api_key_false" \notin NamesIn(s)
               /\ m # "options" \/ template.preflightKey
            THEN {Requirement("api_key", Unset)} ELSE {})
<1>1. PICK t : t = DefaultPass(m, s)
  OBVIOUS
<1>2. PICK more : more = IF /\ m # "options" \/ template.preflightAuth
                            /\ NamesIn(s) \cap (Named \cup {"NONE"}) = {}
                         THEN By(Default, NoSay(m)) ELSE {}
  OBVIOUS
<1>3. /\ t \in Seq(R)
      /\ RequiredOf(t) = RequiredOf(s) \cup more
      /\ NamesIn(t) \ {"NONE"} \subseteq NamesIn(s) \cup {Default}
  BY <1>1, <1>2, DefaultPassRequires
<1>4. Default \in {Unset} \cup KnownAuthorizers /\ (Default # Unset => Default \notin KeyNames)
  BY DEF DefaultsAreKnown, KnownAuthorizers, ReservedNames, KeyNames, IAM, Authorizers
<1>5. \A x \in more : x.name = Default /\ Default # Unset
  <2>1. more = {} \/ more = By(Default, NoSay(m))
    BY <1>2
  <2> QED
    BY <2>1, ByNames
<1>6. \A u, n : n \in NamesIn(u) <=> \E x \in ToSet(u) : x.name = n
  BY DEF NamesIn, ToSet
<1>7. "api_key_false" \in NamesIn(t) <=> "api_key_false" \in NamesIn(s)
  <2>1. "api_key_false" \in NamesIn(s) => "api_key_false" \in NamesIn(t)
    BY <1>3, <1>6 DEF RequiredOf
  <2>2. "api_key_false" \in NamesIn(t) => \E x \in RequiredOf(t) : x.name = "api_key_false"
    BY <1>6 DEF RequiredOf
  <2>3. \A x \in RequiredOf(s) : x.name \in NamesIn(s)
    BY <1>6 DEF RequiredOf
  <2> QED
    BY <1>3, <1>4, <1>5, <2>1, <2>2, <2>3 DEF KeyNames
<1>8. Final(m, s) = KeyPass(m, t)
  BY <1>1 DEF Final
<1>9. RequiredOf(Final(m, s)) =
        {r \in RequiredOf(t) : template.key => r.name \notin KeyNames} \cup
           (IF /\ template.key /\ "api_key_false" \notin NamesIn(s)
               /\ m # "options" \/ template.preflightKey
            THEN {Requirement("api_key", Unset)} ELSE {})
  BY <1>3, <1>7, <1>8, KeyPassRequires
<1>10. {r \in RequiredOf(t) : template.key => r.name \notin KeyNames} =
         {r \in RequiredOf(s) : template.key => r.name \notin KeyNames} \cup more
  BY <1>3, <1>4, <1>5
<1> QED
  BY <1>2, <1>9, <1>10

(* What an event's say becomes in the security of its method, before the   *)
(* API's defaults.                                                         *)
AuthorizedBy(e) ==
  Requirement(e.authorizer,
    IF e.authorizer \notin DOMAIN Authorizers THEN Unset
    ELSE IF e.scopes THEN "of the event"
    ELSE IF Authorizers[e.authorizer].scopes THEN "of the authorizer" ELSE Unset)
Marked(e) == IF e.authorizer = Unset THEN <<>> ELSE <<AuthorizedBy(e)>>
KeyMark(e) == Requirement(IF e.key = "required" THEN "api_key" ELSE "api_key_false", Unset)
EventSecurity(e) ==
  IF IsRest THEN IF e.key = Unset THEN Marked(e) ELSE Append(Marked(e), KeyMark(e))
  ELSE IF e.auth THEN <<AuthorizedBy(WithDefault(e))>> ELSE <<>>

(* Its requirements, as a set.                                             *)
LEMMA EventSecuritySet ==
  ASSUME IsRest, NEW e
  PROVE  /\ EventSecurity(e) \in Seq({AuthorizedBy(e), KeyMark(e)})
         /\ ToSet(EventSecurity(e)) = (IF e.authorizer = Unset THEN {} ELSE {AuthorizedBy(e)}) \cup
                                      (IF e.key = Unset THEN {} ELSE {KeyMark(e)})
<1>1. PICK a, k : a = AuthorizedBy(e) /\ k = KeyMark(e)
  OBVIOUS
<1>2. PICK s : s = IF e.authorizer = Unset THEN <<>> ELSE <<a>>
  OBVIOUS
<1>3. s \in Seq({a, k}) /\ ToSet(s) = IF e.authorizer = Unset THEN {} ELSE {a}
  <2>1. <<a>> \in Seq({a, k}) /\ ToSet(<<a>>) = {a}
    BY OneSet
  <2>2. ToSet(<<>>) = {} /\ <<>> \in Seq({a, k})
    BY DEF ToSet
  <2> QED
    BY <1>2, <2>1, <2>2
<1>4. Append(s, k) \in Seq({a, k}) /\ ToSet(Append(s, k)) = ToSet(s) \cup {k}
  BY <1>3, AppendSet
<1>5. EventSecurity(e) = IF e.key = Unset THEN s ELSE Append(s, k)
  BY <1>1, <1>2 DEF EventSecurity, Marked
<1> QED
  BY <1>1, <1>3, <1>4, <1>5

(* An OPTIONS event that requires a key at an API that asks none of        *)
(* preflight requests.                                                     *)
KeyOfPreflight(t) ==
  /\ t.kind = "rest" /\ t.managed /\ t.key /\ ~t.preflightKey
  /\ \E k \in 1..Len(t.events) : t.events[k].method = "options" /\ t.events[k].key = "required"

(* What the code accepts of an event's Auth, where events are put in.      *)
AcceptedEvent(e) == IF IsRest THEN ~RefusedAuth(e) ELSE ~RefusedHttpAuth(e)

(* A route of a REST API requires what its event asks for.                 *)
LEMMA RestEventAsked ==
  ASSUME IsRest, NEW e, IsEvent(e), AcceptedEvent(e),
         ~ReservedNames(template), DefaultsAreKnown,
         Unset \notin {IAM, "NONE", "required", "not required"} \cup DOMAIN Authorizers,
         ~(template.key /\ ~template.preflightKey /\ e.method = "options" /\ e.key = "required")
  PROVE  RequiredOf(Final(e.method, EventSecurity(e))) = Asked(e)
<1>1. PICK s : s = EventSecurity(e)
  OBVIOUS
<1>2. PICK a, k, d : a = AuthorizedBy(e) /\ k = KeyMark(e) /\ d = Requirement(Default, DefaultScopes)
  OBVIOUS
<1>3. /\ s \in Seq({a, k})
      /\ ToSet(s) = (IF e.authorizer = Unset THEN {} ELSE {a}) \cup (IF e.key = Unset THEN {} ELSE {k})
  BY <1>1, <1>2, EventSecuritySet
<1>4. s \in Seq({a, k, d})
  <2>1. {a, k} \subseteq {a, k, d}
    OBVIOUS
  <2> QED
    BY <1>3, <2>1, SeqWider
<1>5. a.name = e.authorizer /\ k.name = IF e.key = "required" THEN "api_key" ELSE "api_key_false"
  BY <1>2 DEF AuthorizedBy, KeyMark, Requirement
<1>6. /\ e.authorizer \in {Unset, IAM, "NONE"} \cup DOMAIN Authorizers
      /\ e.scopes => e.authorizer # Unset
      /\ e.key = "not required" => template.key
      /\ e.key \in {Unset, "required", "not required"}
  BY DEF AcceptedEvent, RefusedAuth, IsEvent
<1>7. {"api_key", "api_key_false", "NONE"} \cap Named = {} /\ KeyNames = {"api_key", "api_key_false"}
  BY DEF Named, ReservedNames, IAM, Authorizers, KeyNames
<1>8. \A n : n \in NamesIn(s) <=> \E x \in ToSet(s) : x.name = n
  BY DEF NamesIn, ToSet
<1>9. \A n : n \in NamesIn(s) <=> (e.authorizer # Unset /\ n = e.authorizer) \/ (e.key # Unset /\ n = k.name)
  BY <1>3, <1>5, <1>8
<1>10. NamesIn(s) \cap (Named \cup {"NONE"}) = {} <=> e.authorizer = Unset
  BY <1>5, <1>6, <1>7, <1>9 DEF Named
<1>11. "NONE" \in NamesIn(s) => NamesIn(s) \cap Named = {}
  <2>1. k.name \notin Named \cup {"NONE"}
    BY <1>5, <1>7
  <2>2. "NONE" \in NamesIn(s) => e.authorizer = "NONE"
    BY <1>9, <2>1
  <2>3. "NONE" \notin Named
    BY <1>7
  <2>4. ASSUME "NONE" \in NamesIn(s), NEW n \in NamesIn(s) PROVE n \notin Named
    <3>1. n = "NONE" \/ n = k.name
      BY <1>9, <2>2, <2>4
    <3> QED
      BY <2>1, <2>3, <3>1
  <2> QED
    BY <2>4
<1>12. RequiredOf(Final(e.method, s)) =
           {r \in RequiredOf(s) : template.key => r.name \notin KeyNames} \cup
           (IF /\ e.method # "options" \/ template.preflightAuth
               /\ NamesIn(s) \cap (Named \cup {"NONE"}) = {}
            THEN By(Default, NoSay(e.method)) ELSE {}) \cup
           (IF /\ template.key /\ "api_key_false" \notin NamesIn(s)
               /\ e.method # "options" \/ template.preflightKey
            THEN {Requirement("api_key", Unset)} ELSE {})
  BY <1>2, <1>4, <1>11, RestRequires
<1>13. By(AuthorizerOf(e), e) =
         IF e.authorizer # Unset THEN IF e.authorizer = "NONE" THEN {} ELSE {a}
         ELSE IF e.method # "options" \/ template.preflightAuth THEN By(Default, NoSay(e.method)) ELSE {}
  <2>1. CASE e.authorizer # Unset
    BY <1>2, <2>1 DEF By, AuthorizerOf, AuthorizedBy
  <2>2. CASE e.authorizer = Unset
    <3>1. ~e.scopes
      BY <1>6, <2>2
    <3> QED
      BY <2>2, <3>1 DEF By, AuthorizerOf, NoSay
  <2> QED
    BY <2>1, <2>2
<1>14. NeedsKey(e) <=> \/ e.key = "required"
                       \/ e.key = Unset /\ template.key /\ (e.method # "options" \/ template.preflightKey)
  BY DEF NeedsKey
<1>15. e.key = "required" => k = Requirement("api_key", Unset)
  BY <1>2 DEF KeyMark
<1>16. "api_key_false" \in NamesIn(s) <=> e.key = "not required"
  <2>1. e.authorizer # Unset => e.authorizer # "api_key_false"
    BY <1>6, <1>7 DEF Named, IAM
  <2>2. "api_key_false" \in NamesIn(s) <=> e.key # Unset /\ k.name = "api_key_false"
    BY <1>9, <2>1
  <2>3. k.name = "api_key_false" <=> e.key # "required"
    BY <1>5
  <2>4. "not required" # Unset
    OBVIOUS
  <2> QED
    BY <1>6, <2>2, <2>3, <2>4
<1>17. {r \in RequiredOf(s) : template.key => r.name \notin KeyNames} =
         (IF e.authorizer \in {Unset, "NONE"} THEN {} ELSE {a}) \cup
         (IF e.key = Unset \/ template.key THEN {} ELSE {k})
  <2>1. e.authorizer # Unset => e.authorizer \notin KeyNames
    BY <1>6, <1>7 DEF Named, IAM
  <2>2. k.name \in KeyNames /\ k.name # "NONE"
    BY <1>5, <1>7
  <2> QED
    BY <1>3, <1>5, <2>1, <2>2 DEF RequiredOf
<1>18. Asked(e) = By(AuthorizerOf(e), e) \cup (IF NeedsKey(e) THEN {Requirement("api_key", Unset)} ELSE {})
  BY DEF Asked
<1>19. PICK K : K = {Requirement("api_key", Unset)}
  OBVIOUS
<1>20. PICK B : B = By(Default, NoSay(e.method))
  OBVIOUS
<1>21. RequiredOf(Final(e.method, s)) =
         (IF e.authorizer \in {Unset, "NONE"} THEN {} ELSE {a}) \cup
         (IF e.key = Unset \/ template.key THEN {} ELSE {k}) \cup
         (IF (e.method # "options" \/ template.preflightAuth) /\ e.authorizer = Unset THEN B ELSE {}) \cup
         (IF template.key /\ e.key # "not required" /\ (e.method # "options" \/ template.preflightKey) THEN K ELSE {})
  BY <1>10, <1>12, <1>16, <1>17, <1>19, <1>20
<1>22. Asked(e) =
         (IF e.authorizer \in {Unset, "NONE"} THEN {} ELSE {a}) \cup
         (IF (e.method # "options" \/ template.preflightAuth) /\ e.authorizer = Unset THEN B ELSE {}) \cup
         (IF \/ e.key = "required"
             \/ e.key = Unset /\ template.key /\ (e.method # "options" \/ template.preflightKey)
          THEN K ELSE {})
  BY <1>13, <1>14, <1>18, <1>19, <1>20
<1>23. (IF e.key = Unset \/ template.key THEN {} ELSE {k}) \cup
       (IF template.key /\ e.key # "not required" /\ (e.method # "options" \/ template.preflightKey) THEN K ELSE {}) =
         IF \/ e.key = "required"
            \/ e.key = Unset /\ template.key /\ (e.method # "options" \/ template.preflightKey)
         THEN K ELSE {}
  <2>1. e.key = "required" => {k} = K
    BY <1>15, <1>19
  <2> QED
    BY <1>6, <2>1
<1> QED
  BY <1>1, <1>21, <1>22, <1>23

(* A route of an HTTP API requires what its event asks for.                *)
LEMMA HttpEventAsked ==
  ASSUME ~IsRest, NEW e, IsEvent(e), AcceptedEvent(e),
         ~ReservedNames(template), DefaultsAreKnown,
         Unset \notin {IAM, "NONE", "required", "not required"} \cup DOMAIN Authorizers
  PROVE  RequiredOf(Final(e.method, EventSecurity(e))) = Asked(e)
<1>1. Asked(e) = By(AuthorizerOf(e), e)
  BY DEF Asked, NeedsKey
<1>2. CASE e.auth
  <2>1. PICK w : w = WithDefault(e)
    OBVIOUS
  <2>2. /\ w.scopes = e.scopes
        /\ w.authorizer = IF e.authorizer = Unset THEN Default ELSE e.authorizer
    BY <2>1 DEF WithDefault, IsEvent, EventParts
  <2>3. w.authorizer # Unset
    BY <1>2, <2>1 DEF AcceptedEvent, RefusedHttpAuth
  <2>4. AuthorizerOf(e) = w.authorizer
    BY <1>2, <2>2 DEF AuthorizerOf
  <2>5. PICK a : a = AuthorizedBy(w)
    OBVIOUS
  <2>6. a.name = w.authorizer
    BY <2>5 DEF AuthorizedBy, Requirement
  <2>7. By(AuthorizerOf(e), e) = IF w.authorizer = "NONE" THEN {} ELSE {a}
    BY <2>2, <2>3, <2>4, <2>5 DEF By, AuthorizedBy
  <2>8. EventSecurity(e) = <<a>> /\ <<a>> # <<>> /\ ToSet(<<a>>) = {a}
    BY <1>2, <2>1, <2>5, OneSet DEF EventSecurity
  <2>9. Final(e.method, EventSecurity(e)) = <<a>>
    BY <2>8 DEF Final, HttpPass
  <2> QED
    BY <1>1, <2>6, <2>7, <2>8, <2>9 DEF RequiredOf
<1>3. CASE ~e.auth
  <2>1. e.authorizer = Unset /\ ~e.scopes
    BY <1>3 DEF IsEvent
  <2>2. Default # "NONE"
    BY DEF DefaultsAreKnown, KnownAuthorizers, ReservedNames, IAM, Authorizers
  <2>3. PICK d : d = Requirement(Default, DefaultScopes)
    OBVIOUS
  <2>4. d.name = Default
    BY <2>3 DEF Requirement
  <2>5. AuthorizerOf(e) = IF e.method # "options" THEN Default ELSE Unset
    BY <1>3, <2>1 DEF AuthorizerOf
  <2>6. By(AuthorizerOf(e), e) = IF e.method = "options" \/ Default = Unset THEN {} ELSE {d}
    BY <2>1, <2>2, <2>3, <2>5 DEF By, DefaultScopes
  <2>7. Final(e.method, EventSecurity(e)) = IF Default = Unset \/ e.method = "options" THEN <<>> ELSE <<d>>
    BY <1>3, <2>3 DEF Final, HttpPass, EventSecurity
  <2>8. ToSet(<<d>>) = {d}
    <3>1. d \in {d}
      OBVIOUS
    <3> QED
      BY <3>1, OneSet
  <2>9. ToSet(<<>>) = {}
    BY EmptySet
  <2> QED
    BY <1>1, <2>2, <2>4, <2>6, <2>7, <2>8, <2>9 DEF RequiredOf
<1> QED
  BY <1>2, <1>3 DEF IsEvent

(* NONE beside an authorizer, or a key where the API has keys, in a method *)
(* of the author's at a REST API.                                          *)
NoneAndMore(t) ==
  /\ t.kind = "rest" /\ t.doc # NoDocument
  /\ \E p \in DOMAIN t.doc.paths : \E m \in MethodsOf(t.doc, p) : \E w \in DefinitionsOf(t.doc, p, m) :
       /\ "NONE" \in NamesIn(w.security)
       /\ NamesIn(w.security) \cap ({IAM} \cup DOMAIN t.authorizers) # {}
WrittenKey(t) ==
  /\ t.kind = "rest" /\ t.doc # NoDocument /\ t.key
  /\ \E p \in DOMAIN t.doc.paths : \E m \in MethodsOf(t.doc, p) : \E w \in DefinitionsOf(t.doc, p, m) :
       NamesIn(w.security) \cap KeyNames # {}

(* The empty sequence.                                                     *)
LEMMA EmptyDomain ==
  ASSUME NEW R, NEW s \in Seq(R)
  PROVE  s # <<>> <=> DOMAIN s # {}
<1>1. CASE Len(s) = 0
  BY <1>1
<1>2. CASE Len(s) # 0
  <2>1. 1 \in DOMAIN s /\ s # <<>>
    BY <1>2
  <2> QED
    BY <2>1
<1> QED
  BY <1>1, <1>2

(* A method that is no event's requires what the API asks for of it,       *)
(* beside what is written.                                                 *)
LEMMA AuthorAsked ==
  ASSUME NEW R, NEW s \in Seq(R), NEW m, ~ReservedNames(template), DefaultsAreKnown,
         Unset \notin {IAM, "NONE", "required", "not required"} \cup DOMAIN Authorizers,
         IsRest /\ "NONE" \in NamesIn(s) => NamesIn(s) \cap Named = {},
         IsRest /\ template.key => NamesIn(s) \cap KeyNames = {}
  PROVE  RequiredOf(Final(m, s)) = AskedWithout(m, s)
<1>1. PICK d : d = Requirement(Default, DefaultScopes)
  OBVIOUS
<1>2. PICK e : e = NoSay(m)
  OBVIOUS
<1>3. e.method = m /\ e.authorizer = Unset /\ e.key = Unset /\ ~e.scopes /\ ~e.auth
  BY <1>2 DEF NoSay
<1>4. Default \notin {"NONE"} \cup KeyNames \/ Default = Unset
  BY DEF DefaultsAreKnown, KnownAuthorizers, ReservedNames, KeyNames, IAM, Authorizers
<1>5. PICK B : B = By(Default, e)
  OBVIOUS
<1>6. B = IF Default \in {Unset, "NONE"} THEN {} ELSE {d}
  BY <1>1, <1>3, <1>5 DEF By, DefaultScopes
<1>7. d.name = Default
  BY <1>1 DEF Requirement
<1>8. PICK K : K = {Requirement("api_key", Unset)}
  OBVIOUS
<1>9. \A x \in K : x.name = "api_key"
  <2>1. Requirement("api_key", Unset).name = "api_key"
    BY DEF Requirement
  <2> QED
    BY <1>8, <2>1
<1>10. By(AuthorizerOf(e), e) =
         IF m # "options" \/ (IsRest /\ template.preflightAuth) THEN B ELSE {}
  BY <1>3, <1>5 DEF AuthorizerOf, By
<1>11. Asked(e) = By(AuthorizerOf(e), e) \cup
                  (IF IsRest /\ template.key /\ (m # "options" \/ template.preflightKey) THEN K ELSE {})
  BY <1>3, <1>8 DEF Asked, NeedsKey
<1>12. AskedWithout(m, s) = {r \in Asked(e) : r.name = "api_key" \/ ForItself(s) = {}} \cup RequiredOf(s)
  BY <1>2 DEF AskedWithout, RequiredOf
<1>13. \A x \in B : x.name # "api_key"
  BY <1>4, <1>6, <1>7 DEF KeyNames
<1>14. AskedWithout(m, s) =
         (IF (m # "options" \/ (IsRest /\ template.preflightAuth)) /\ ForItself(s) = {} THEN B ELSE {}) \cup
         (IF IsRest /\ template.key /\ (m # "options" \/ template.preflightKey) THEN K ELSE {}) \cup
         RequiredOf(s)
  BY <1>9, <1>10, <1>11, <1>12, <1>13
<1>15. \A n : n \in NamesIn(s) <=> \E x \in ToSet(s) : x.name = n
  BY DEF NamesIn, ToSet
<1>16. CASE IsRest
  <2>1. s \in Seq(R \cup {d})
    BY SeqWider
  <2>2. RequiredOf(Final(m, s)) =
          {r \in RequiredOf(s) : template.key => r.name \notin KeyNames} \cup
          (IF /\ m # "options" \/ template.preflightAuth
              /\ NamesIn(s) \cap (Named \cup {"NONE"}) = {}
           THEN B ELSE {}) \cup
          (IF /\ template.key /\ "api_key_false" \notin NamesIn(s)
              /\ m # "options" \/ template.preflightKey
           THEN K ELSE {})
    BY <1>1, <1>2, <1>5, <1>8, <1>16, <2>1, RestRequires
  <2>3. {r \in RequiredOf(s) : template.key => r.name \notin KeyNames} = RequiredOf(s)
    BY <1>15, <1>16 DEF RequiredOf
  <2>4. ForItself(s) = NamesIn(s) \cap (Named \cup {"NONE"})
    BY <1>16 DEF ForItself, Named
  <2>5. template.key => "api_key_false" \notin NamesIn(s)
    BY <1>16 DEF KeyNames
  <2> QED
    BY <1>14, <1>16, <2>2, <2>3, <2>4, <2>5
<1>17. CASE ~IsRest
  <2>1. Final(m, s) = IF Default = Unset \/ m = "options" \/ s # <<>> THEN s ELSE <<d>>
    BY <1>1, <1>17 DEF Final, HttpPass
  <2>2. ForItself(s) = {} <=> s = <<>>
    <3>1. s # <<>> <=> DOMAIN s # {}
      BY EmptyDomain
    <3> QED
      BY <1>17, <3>1 DEF ForItself, NamesIn
  <2>3. ToSet(<<>>) = {} /\ ToSet(<<d>>) = {d}
    <3>1. d \in {d}
      OBVIOUS
    <3>2. ToSet(<<d>>) = {d}
      BY <3>1, OneSet
    <3> QED
      BY <3>2, EmptySet
  <2>4. CASE Default = Unset \/ m = "options" \/ s # <<>>
    BY <1>6, <1>14, <1>17, <2>1, <2>2, <2>4
  <2>5. CASE ~(Default = Unset \/ m = "options" \/ s # <<>>)
    BY <1>4, <1>6, <1>7, <1>14, <1>17, <2>1, <2>2, <2>3, <2>5 DEF RequiredOf
  <2> QED
    BY <2>4, <2>5
<1> QED
  BY <1>16, <1>17

-----------------------------------------------------------------------------
(* Routes of a document.                                                   *)

(* The jth definition of a method in the ith item of a path.               *)
IsAt(paths, p, i, m, j, x) ==
  /\ p \in DOMAIN paths /\ i \in DOMAIN paths[p] /\ m \in DOMAIN paths[p][i] /\ j \in DOMAIN paths[p][i][m]
  /\ x = paths[p][i][m][j]

(* The ith item of a path has a method.                                    *)
MethodAt(paths, p, i, m) == p \in DOMAIN paths /\ i \in DOMAIN paths[p] /\ m \in DOMAIN paths[p][i]

(* All but one route are as they were, but that its path may be new.       *)
Others(old, new, path, method) ==
  /\ DOMAIN new = DOMAIN old \cup {path}
  /\ \A p \in DOMAIN old : DOMAIN new[p] = DOMAIN old[p]
  /\ \A p, i, m, j, x : p # path \/ m # method => (IsAt(new, p, i, m, j, x) <=> IsAt(old, p, i, m, j, x))
  /\ \A p, i, m : p # path \/ m # method => (MethodAt(new, p, i, m) <=> MethodAt(old, p, i, m))

(* What every definition of one route says.                                *)
IsSo(x, integration, credentials, security) ==
  /\ DOMAIN x = DOMAIN NoMethod
  /\ x.integration = integration /\ x.credentials = credentials /\ x.security = security
RouteIs(paths, path, method, integration, credentials, security) ==
  /\ path \in DOMAIN paths
  /\ \A i \in DOMAIN paths[path] :
       /\ method \in DOMAIN paths[path][i] /\ DOMAIN paths[path][i][method] # {}
       /\ \A j \in DOMAIN paths[path][i][method] :
            IsSo(paths[path][i][method][j], integration, credentials, security)

(* Of two edits of one route, one after the other.                         *)
LEMMA OthersTwice ==
  ASSUME NEW old, NEW mid, NEW new, NEW path, NEW method,
         Others(old, mid, path, method), Others(mid, new, path, method)
  PROVE  Others(old, new, path, method)
BY DEF Others

(* A route with other definitions of the same methods.                     *)
RouteEdited(old, new, path, method) ==
  /\ DOMAIN new = DOMAIN old /\ path \in DOMAIN old
  /\ \A p \in DOMAIN old : p # path => new[p] = old[p]
  /\ DOMAIN new[path] = DOMAIN old[path]
  /\ \A i \in DOMAIN old[path] :
       /\ DOMAIN new[path][i] = DOMAIN old[path][i]
       /\ \A m \in DOMAIN old[path][i] : m # method => new[path][i][m] = old[path][i][m]

(* It leaves the others.                                                   *)
LEMMA RouteEditedOthers ==
  ASSUME NEW old, NEW new, NEW path, NEW method, RouteEdited(old, new, path, method)
  PROVE  Others(old, new, path, method)
<1>1. DOMAIN new = DOMAIN old \cup {path} /\ \A p \in DOMAIN old : DOMAIN new[p] = DOMAIN old[p]
  BY DEF RouteEdited
<1>2. ASSUME NEW p, NEW i, NEW m, NEW j, NEW x, p # path \/ m # method
      PROVE  IsAt(new, p, i, m, j, x) <=> IsAt(old, p, i, m, j, x)
  <2>1. CASE p # path
    BY <2>1 DEF RouteEdited, IsAt
  <2>2. CASE p = path
    BY <1>2, <2>2 DEF RouteEdited, IsAt
  <2> QED
    BY <2>1, <2>2
<1>3. ASSUME NEW p, NEW i, NEW m
      PROVE  MethodAt(new, p, i, m) <=> MethodAt(old, p, i, m)
  <2>1. CASE p # path
    BY <2>1 DEF RouteEdited, MethodAt
  <2>2. CASE p = path
    BY <2>2 DEF RouteEdited, MethodAt
  <2> QED
    BY <2>1, <2>2
<1> QED
  BY <1>1, <1>2, <1>3 DEF Others

(* One more requirement of each definition of a route.                     *)
LEMMA WithRequirementRoute ==
  ASSUME NEW d, IsDocument(d), NEW event, NEW requirement, NEW integration, integration # "none",
         NEW credentials, NEW security,
         RouteIs(d.paths, event.path, event.method, integration, credentials, security)
  PROVE  /\ Others(d.paths, WithRequirement(d, event, requirement).paths, event.path, event.method)
         /\ RouteIs(WithRequirement(d, event, requirement).paths, event.path, event.method,
                    integration, credentials, Append(security, requirement))
<1> DEFINE e == WithRequirement(d, event, requirement)
           Edit(x) == IF HasIntegrationIn(x) THEN [x EXCEPT !.security = Append(@, requirement)] ELSE x
           Item(item) == [item EXCEPT ![event.method] = [j \in DOMAIN @ |-> Edit(@[j])]]
<1>1. e.paths = [d.paths EXCEPT ![event.path] = [i \in DOMAIN d.paths[event.path] |-> Item(d.paths[event.path][i])]]
  <2>1. e = [d EXCEPT !.paths[event.path] = [i \in DOMAIN @ |-> Item(@[i])]]
    BY DEF OnMethodDefinitions, WithRequirement
  <2> HIDE DEF e, Item
  <2> QED
    BY <2>1 DEF IsDocument, DocumentParts
<1>2. \A x : IsSo(x, integration, credentials, security) =>
               IsSo(Edit(x), integration, credentials, Append(security, requirement))
  BY DEF IsSo, HasIntegrationIn, NoMethod, Method
<1>3. \A item : /\ DOMAIN Item(item) = DOMAIN item
                /\ \A m \in DOMAIN item : m # event.method => Item(item)[m] = item[m]
                /\ event.method \in DOMAIN item =>
                     /\ DOMAIN Item(item)[event.method] = DOMAIN item[event.method]
                     /\ \A j \in DOMAIN item[event.method] : Item(item)[event.method][j] = Edit(item[event.method][j])
  <2> HIDE DEF Edit
  <2> QED
    OBVIOUS
<1> HIDE DEF e, Item, Edit
<1>4. event.path \in DOMAIN d.paths
  BY DEF RouteIs
<1>5. /\ DOMAIN e.paths = DOMAIN d.paths
      /\ \A p \in DOMAIN d.paths : p # event.path => e.paths[p] = d.paths[p]
      /\ DOMAIN e.paths[event.path] = DOMAIN d.paths[event.path]
      /\ \A i \in DOMAIN d.paths[event.path] : e.paths[event.path][i] = Item(d.paths[event.path][i])
  BY <1>1, <1>4
<1>6. RouteEdited(d.paths, e.paths, event.path, event.method)
  BY <1>3, <1>4, <1>5 DEF RouteEdited
<1>7. RouteIs(e.paths, event.path, event.method, integration, credentials, Append(security, requirement))
  BY <1>2, <1>3, <1>4, <1>5 DEF RouteIs
<1> QED
  BY <1>6, <1>7, RouteEditedOthers DEF e

(* The model and the validator of a route say nothing of its callers.      *)
LEMMA AddRequestModelToMethodRoute ==
  ASSUME NEW d, IsDocument(d), NEW event, NEW integration, NEW credentials, NEW security,
         RouteIs(d.paths, event.path, event.method, integration, credentials, security)
  PROVE  /\ Others(d.paths, AddRequestModelToMethod(d, event).paths, event.path, event.method)
         /\ RouteIs(AddRequestModelToMethod(d, event).paths, event.path, event.method,
                    integration, credentials, security)
<1> DEFINE e == AddRequestModelToMethod(d, event)
           Edit(x) == IF HasIntegrationIn(x)
                      THEN [x EXCEPT !.model =
                              <<IF d.version = "swagger" THEN "definitions" ELSE "schemas", event.model>>]
                      ELSE x
           Item(item) == [item EXCEPT ![event.method] = [j \in DOMAIN @ |-> Edit(@[j])]]
<1>1. e.paths = [d.paths EXCEPT ![event.path] = [i \in DOMAIN d.paths[event.path] |-> Item(d.paths[event.path][i])]]
  <2>1. e = [d EXCEPT !.paths[event.path] = [i \in DOMAIN @ |-> Item(@[i])]]
    BY DEF OnMethodDefinitions, AddRequestModelToMethod
  <2> HIDE DEF e, Item
  <2> QED
    BY <2>1 DEF IsDocument, DocumentParts
<1>2. \A x : IsSo(x, integration, credentials, security) => IsSo(Edit(x), integration, credentials, security)
  BY DEF IsSo, NoMethod, Method
<1>3. \A item : /\ DOMAIN Item(item) = DOMAIN item
                /\ \A m \in DOMAIN item : m # event.method => Item(item)[m] = item[m]
                /\ event.method \in DOMAIN item =>
                     /\ DOMAIN Item(item)[event.method] = DOMAIN item[event.method]
                     /\ \A j \in DOMAIN item[event.method] : Item(item)[event.method][j] = Edit(item[event.method][j])
  <2> HIDE DEF Edit
  <2> QED
    OBVIOUS
<1> HIDE DEF e, Item, Edit
<1>4. event.path \in DOMAIN d.paths
  BY DEF RouteIs
<1>5. /\ DOMAIN e.paths = DOMAIN d.paths
      /\ \A p \in DOMAIN d.paths : p # event.path => e.paths[p] = d.paths[p]
      /\ DOMAIN e.paths[event.path] = DOMAIN d.paths[event.path]
      /\ \A i \in DOMAIN d.paths[event.path] : e.paths[event.path][i] = Item(d.paths[event.path][i])
  BY <1>1, <1>4
<1>6. RouteEdited(d.paths, e.paths, event.path, event.method)
  BY <1>3, <1>4, <1>5 DEF RouteEdited
<1>7. RouteIs(e.paths, event.path, event.method, integration, credentials, security)
  BY <1>2, <1>3, <1>4, <1>5 DEF RouteIs
<1> QED
  BY <1>6, <1>7, RouteEditedOthers DEF e

(* Nor does its validator.                                                 *)
LEMMA AddRequestValidatorToMethodRoute ==
  ASSUME NEW d, IsDocument(d), NEW event, NEW integration, NEW credentials, NEW security,
         RouteIs(d.paths, event.path, event.method, integration, credentials, security)
  PROVE  /\ Others(d.paths, AddRequestValidatorToMethod(d, event).paths, event.path, event.method)
         /\ RouteIs(AddRequestValidatorToMethod(d, event).paths, event.path, event.method,
                    integration, credentials, security)
<1> DEFINE v == [d EXCEPT !.validators = @ \cup {event.validator}]
           e == AddRequestValidatorToMethod(d, event)
           Edit(x) == IF HasIntegrationIn(x) THEN [x EXCEPT !.validator = event.validator] ELSE x
           Item(item) == [item EXCEPT ![event.method] = [j \in DOMAIN @ |-> Edit(@[j])]]
<1>0. IsDocument(v) /\ v.paths = d.paths
  BY DEF IsDocument, DocumentParts
<1>1. e.paths = [d.paths EXCEPT ![event.path] = [i \in DOMAIN d.paths[event.path] |-> Item(d.paths[event.path][i])]]
  <2>1. e = [v EXCEPT !.paths[event.path] = [i \in DOMAIN @ |-> Item(@[i])]]
    BY DEF OnMethodDefinitions, AddRequestValidatorToMethod
  <2> HIDE DEF e, Item, v
  <2> QED
    BY <1>0, <2>1 DEF IsDocument, DocumentParts
<1>2. \A x : IsSo(x, integration, credentials, security) => IsSo(Edit(x), integration, credentials, security)
  BY DEF IsSo, NoMethod, Method
<1>3. \A item : /\ DOMAIN Item(item) = DOMAIN item
                /\ \A m \in DOMAIN item : m # event.method => Item(item)[m] = item[m]
                /\ event.method \in DOMAIN item =>
                     /\ DOMAIN Item(item)[event.method] = DOMAIN item[event.method]
                     /\ \A j \in DOMAIN item[event.method] : Item(item)[event.method][j] = Edit(item[event.method][j])
  <2> HIDE DEF Edit
  <2> QED
    OBVIOUS
<1> HIDE DEF e, Item, Edit
<1>4. event.path \in DOMAIN d.paths
  BY DEF RouteIs
<1>5. /\ DOMAIN e.paths = DOMAIN d.paths
      /\ \A p \in DOMAIN d.paths : p # event.path => e.paths[p] = d.paths[p]
      /\ DOMAIN e.paths[event.path] = DOMAIN d.paths[event.path]
      /\ \A i \in DOMAIN d.paths[event.path] : e.paths[event.path][i] = Item(d.paths[event.path][i])
  BY <1>1, <1>4
<1>6. RouteEdited(d.paths, e.paths, event.path, event.method)
  BY <1>3, <1>4, <1>5 DEF RouteEdited
<1>7. RouteIs(e.paths, event.path, event.method, integration, credentials, security)
  BY <1>2, <1>3, <1>4, <1>5 DEF RouteIs
<1> QED
  BY <1>6, <1>7, RouteEditedOthers DEF e

(* The integration is put in every definition that the route has, or gets. *)
IntegratedAs(x, y, integration, credentials) ==
  x = [y EXCEPT !.integration = integration, !.credentials = credentials]
EachIntegrated(old, new, path, method, integration, credentials) ==
  \A i, j, x : IsAt(new, path, i, method, j, x) =>
    \E y : /\ IsAt(old, path, i, method, j, y) \/ y = NoMethod
           /\ IntegratedAs(x, y, integration, credentials)
HasOrGets(old, new, path, method) ==
  /\ path \in DOMAIN new
  /\ \A i \in DOMAIN new[path] :
       /\ method \in DOMAIN new[path][i]
       /\ \/ MethodAt(old, path, i, method) /\ DOMAIN new[path][i][method] = DOMAIN old[path][i][method]
          \/ DOMAIN new[path][i][method] = {1}
LEMMA IntegrateEach ==
  ASSUME NEW d, IsDocument(d), NEW path, NEW method, NEW integration, NEW credentials,
         NEW new, new = Integrate(d, path, method, integration, credentials).paths
  PROVE  /\ Others(d.paths, new, path, method)
         /\ HasOrGets(d.paths, new, path, method)
         /\ EachIntegrated(d.paths, new, path, method, integration, credentials)
<1> DEFINE f == AddPath(d, path, method)
           e == Integrate(d, path, method, integration, credentials)
           items == IF path \in DOMAIN d.paths THEN d.paths[path] ELSE <<<<>>>>
           With(item) == item ++ Only(method, <<NoMethod>>)
           Edit(x) == [x EXCEPT !.integration = integration, !.credentials = credentials]
           Item(item) == [item EXCEPT ![method] = [j \in DOMAIN @ |-> Edit(@[j])]]
<1>1. PartsKept(d, f) /\ f.paths = Only(path, [i \in DOMAIN items |-> With(items[i])]) ++ d.paths
  BY DEF PartsKept, IsDocument, DocumentParts, AddPath
<1>2. e = [f EXCEPT !.paths[path] = [i \in DOMAIN @ |-> Item(@[i])]]
  BY DEF Integrate
<1>3. e.paths = [f.paths EXCEPT ![path] = [i \in DOMAIN f.paths[path] |-> Item(f.paths[path][i])]]
  <2> HIDE DEF e, f, Item
  <2> QED
    BY <1>1, <1>2 DEF PartsKept, IsDocument, DocumentParts
<1>4. /\ DOMAIN f.paths = DOMAIN d.paths \cup {path}
      /\ \A p \in DOMAIN d.paths : p # path => f.paths[p] = d.paths[p]
      /\ f.paths[path] = [i \in DOMAIN items |-> With(items[i])]
  <2> HIDE DEF f, With, items
  <2> QED
    BY <1>1 DEF ++, Only
<1>5. /\ DOMAIN e.paths = DOMAIN d.paths \cup {path}
      /\ \A p \in DOMAIN d.paths : p # path => e.paths[p] = d.paths[p]
      /\ e.paths[path] = [i \in DOMAIN items |-> Item(With(items[i]))]
  <2> HIDE DEF e, f, With, Item, items
  <2> QED
    BY <1>3, <1>4
<1>6. \A item : /\ DOMAIN Item(With(item)) = DOMAIN item \cup {method}
                /\ \A m \in DOMAIN item : m # method => Item(With(item))[m] = item[m]
                /\ method \in DOMAIN item =>
                     /\ DOMAIN Item(With(item))[method] = DOMAIN item[method]
                     /\ \A j \in DOMAIN item[method] : Item(With(item))[method][j] = Edit(item[method][j])
                /\ method \notin DOMAIN item =>
                     /\ DOMAIN Item(With(item))[method] = {1}
                     /\ Item(With(item))[method][1] = Edit(NoMethod)
  <2> HIDE DEF Edit
  <2>1. \A item : /\ DOMAIN With(item) = DOMAIN item \cup {method}
                  /\ \A m \in DOMAIN item : With(item)[m] = item[m]
                  /\ method \notin DOMAIN item => With(item)[method] = <<NoMethod>>
    BY DEF ++, Only
  <2>2. \A item : /\ DOMAIN Item(item) = DOMAIN item
                  /\ \A m \in DOMAIN item : m # method => Item(item)[m] = item[m]
                  /\ method \in DOMAIN item =>
                       /\ DOMAIN Item(item)[method] = DOMAIN item[method]
                       /\ \A j \in DOMAIN item[method] : Item(item)[method][j] = Edit(item[method][j])
    OBVIOUS
  <2>3. DOMAIN <<NoMethod>> = {1} /\ <<NoMethod>>[1] = NoMethod
    OBVIOUS
  <2> HIDE DEF With, Item
  <2> SUFFICES ASSUME NEW item
               PROVE  /\ DOMAIN Item(With(item)) = DOMAIN item \cup {method}
                      /\ \A m \in DOMAIN item : m # method => Item(With(item))[m] = item[m]
                      /\ method \in DOMAIN item =>
                           /\ DOMAIN Item(With(item))[method] = DOMAIN item[method]
                           /\ \A j \in DOMAIN item[method] : Item(With(item))[method][j] = Edit(item[method][j])
                      /\ method \notin DOMAIN item =>
                           /\ DOMAIN Item(With(item))[method] = {1}
                           /\ Item(With(item))[method][1] = Edit(NoMethod)
    OBVIOUS
  <2>4. PICK w : w = With(item)
    OBVIOUS
  <2>5. PICK u : u = Item(w)
    OBVIOUS
  <2>6. PICK none : none = <<NoMethod>>
    OBVIOUS
  <2>7. /\ DOMAIN w = DOMAIN item \cup {method}
        /\ \A m \in DOMAIN item : w[m] = item[m]
        /\ method \notin DOMAIN item => w[method] = none
    BY <2>1, <2>4, <2>6
  <2>8. /\ DOMAIN u = DOMAIN w
        /\ \A m \in DOMAIN w : m # method => u[m] = w[m]
        /\ DOMAIN u[method] = DOMAIN w[method]
        /\ \A j \in DOMAIN w[method] : u[method][j] = Edit(w[method][j])
    BY <2>2, <2>5, <2>7
  <2>9. DOMAIN none = {1} /\ none[1] = NoMethod
    BY <2>3, <2>6
  <2>10. method \notin DOMAIN item => DOMAIN u[method] = {1} /\ u[method][1] = Edit(NoMethod)
    BY <2>7, <2>8, <2>9
  <2>11. method \in DOMAIN item =>
           /\ DOMAIN u[method] = DOMAIN item[method]
           /\ \A j \in DOMAIN item[method] : u[method][j] = Edit(item[method][j])
    BY <2>7, <2>8
  <2>12. DOMAIN u = DOMAIN item \cup {method} /\ \A m \in DOMAIN item : m # method => u[m] = item[m]
    BY <2>7, <2>8
  <2> QED
    BY <2>4, <2>5, <2>10, <2>11, <2>12
<1>7. \A y : IntegratedAs(Edit(y), y, integration, credentials)
  BY DEF IntegratedAs
<1>8. path \in DOMAIN d.paths => items = d.paths[path]
  OBVIOUS
<1>9. path \notin DOMAIN d.paths => DOMAIN items = {1} /\ DOMAIN items[1] = {}
  OBVIOUS
<1> HIDE DEF e, f, With, Item, items, Edit
<1>10. Others(d.paths, e.paths, path, method)
  <2>1. \A p \in DOMAIN d.paths : DOMAIN e.paths[p] = DOMAIN d.paths[p]
    BY <1>5, <1>8
  <2>2. ASSUME NEW p, NEW i, NEW m, NEW j, NEW x, p # path \/ m # method
        PROVE  IsAt(e.paths, p, i, m, j, x) <=> IsAt(d.paths, p, i, m, j, x)
    <3>1. CASE p # path
      BY <1>5, <3>1 DEF IsAt
    <3>2. CASE p = path
      <4>1. PICK edited : edited = e.paths[path]
        OBVIOUS
      <4>2. DOMAIN edited = DOMAIN items /\ path \in DOMAIN e.paths
        BY <1>5, <4>1
      <4>3. i \in DOMAIN items => (m \in DOMAIN edited[i] <=> m \in DOMAIN items[i])
        <5>1. m # method
          BY <2>2, <3>2
        <5>2. i \in DOMAIN items => edited[i] = Item(With(items[i]))
          BY <1>5, <4>1
        <5>3. DOMAIN Item(With(items[i])) = DOMAIN items[i] \cup {method}
          BY <1>6
        <5> QED
          BY <5>1, <5>2, <5>3
      <4>4. i \in DOMAIN items /\ m \in DOMAIN items[i] => edited[i][m] = items[i][m]
        BY <1>5, <1>6, <2>2, <3>2, <4>1
      <4>5. IsAt(e.paths, p, i, m, j, x) <=>
              i \in DOMAIN items /\ m \in DOMAIN items[i] /\ j \in DOMAIN items[i][m] /\ x = items[i][m][j]
        BY <3>2, <4>1, <4>2, <4>3, <4>4 DEF IsAt
      <4>6. CASE path \in DOMAIN d.paths
        BY <1>8, <3>2, <4>5, <4>6 DEF IsAt
      <4>7. CASE path \notin DOMAIN d.paths
        BY <1>9, <3>2, <4>5, <4>7 DEF IsAt
      <4> QED
        BY <4>6, <4>7
    <3> QED
      BY <3>1, <3>2
  <2>3. ASSUME NEW p, NEW i, NEW m, p # path \/ m # method
        PROVE  MethodAt(e.paths, p, i, m) <=> MethodAt(d.paths, p, i, m)
    <3>1. CASE p # path
      BY <1>5, <3>1 DEF MethodAt
    <3>2. CASE p = path
      <4>1. PICK edited : edited = e.paths[path]
        OBVIOUS
      <4>2. DOMAIN edited = DOMAIN items /\ path \in DOMAIN e.paths
        BY <1>5, <4>1
      <4>3. i \in DOMAIN items => (m \in DOMAIN edited[i] <=> m \in DOMAIN items[i])
        <5>1. m # method
          BY <2>3, <3>2
        <5>2. i \in DOMAIN items => edited[i] = Item(With(items[i]))
          BY <1>5, <4>1
        <5>3. DOMAIN Item(With(items[i])) = DOMAIN items[i] \cup {method}
          BY <1>6
        <5> QED
          BY <5>1, <5>2, <5>3
      <4>4. MethodAt(e.paths, p, i, m) <=> i \in DOMAIN items /\ m \in DOMAIN items[i]
        BY <3>2, <4>1, <4>2, <4>3 DEF MethodAt
      <4>5. CASE path \in DOMAIN d.paths
        BY <1>8, <3>2, <4>4, <4>5 DEF MethodAt
      <4>6. CASE path \notin DOMAIN d.paths
        BY <1>9, <3>2, <4>4, <4>6 DEF MethodAt
      <4> QED
        BY <4>5, <4>6
    <3> QED
      BY <3>1, <3>2
  <2> QED
    BY <1>5, <2>1, <2>2, <2>3 DEF Others
<1>11. ASSUME NEW i \in DOMAIN items, NEW u, u = Item(With(items[i]))
       PROVE  /\ method \in DOMAIN u
              /\ \/ MethodAt(d.paths, path, i, method) /\ DOMAIN u[method] = DOMAIN d.paths[path][i][method]
                 \/ DOMAIN u[method] = {1}
              /\ \A j \in DOMAIN u[method] :
                   \E y : /\ IsAt(d.paths, path, i, method, j, y) \/ y = NoMethod
                          /\ IntegratedAs(u[method][j], y, integration, credentials)
  <2>1. CASE method \in DOMAIN items[i]
    <3>1. path \in DOMAIN d.paths /\ i \in DOMAIN d.paths[path] /\ items[i] = d.paths[path][i]
      BY <1>8, <1>9, <1>11, <2>1
    <3>2. \A j \in DOMAIN items[i][method] : IsAt(d.paths, path, i, method, j, items[i][method][j])
      BY <2>1, <3>1 DEF IsAt
    <3>3. /\ method \in DOMAIN u /\ DOMAIN u[method] = DOMAIN items[i][method]
          /\ \A j \in DOMAIN items[i][method] : u[method][j] = Edit(items[i][method][j])
      BY <1>6, <1>11, <2>1
    <3>4. MethodAt(d.paths, path, i, method) /\ DOMAIN u[method] = DOMAIN d.paths[path][i][method]
      BY <2>1, <3>1, <3>3 DEF MethodAt
    <3>5. ASSUME NEW j \in DOMAIN u[method]
          PROVE  \E y : /\ IsAt(d.paths, path, i, method, j, y) \/ y = NoMethod
                        /\ IntegratedAs(u[method][j], y, integration, credentials)
      BY <1>7, <3>2, <3>3, <3>5
    <3> QED
      BY <3>3, <3>4, <3>5
  <2>2. CASE method \notin DOMAIN items[i]
    <3>1. method \in DOMAIN u /\ DOMAIN u[method] = {1} /\ u[method][1] = Edit(NoMethod)
      BY <1>6, <1>11, <2>2
    <3> QED
      BY <1>7, <3>1
  <2> QED
    BY <2>1, <2>2
<1>12. path \in DOMAIN e.paths /\ DOMAIN e.paths[path] = DOMAIN items
  BY <1>5
<1>13. \A i \in DOMAIN items : e.paths[path][i] = Item(With(items[i]))
  BY <1>5
<1>14. \A i \in DOMAIN e.paths[path] :
         /\ method \in DOMAIN e.paths[path][i]
         /\ \/ /\ MethodAt(d.paths, path, i, method)
               /\ DOMAIN e.paths[path][i][method] = DOMAIN d.paths[path][i][method]
            \/ DOMAIN e.paths[path][i][method] = {1}
  BY <1>11, <1>12, <1>13
<1>15. ASSUME NEW i, NEW j, NEW x, IsAt(e.paths, path, i, method, j, x)
       PROVE  \E y : /\ IsAt(d.paths, path, i, method, j, y) \/ y = NoMethod
                     /\ IntegratedAs(x, y, integration, credentials)
  <2>1. i \in DOMAIN items /\ j \in DOMAIN e.paths[path][i][method] /\ x = e.paths[path][i][method][j]
    BY <1>12, <1>15 DEF IsAt
  <2>2. PICK u : u = e.paths[path][i]
    OBVIOUS
  <2>3. u = Item(With(items[i]))
    BY <1>13, <2>1, <2>2
  <2> QED
    BY <1>11, <2>1, <2>2, <2>3
<1>16. e.paths = new
  BY DEF e
<1>17. EachIntegrated(d.paths, new, path, method, integration, credentials)
  BY <1>15, <1>16 DEF EachIntegrated
<1>18. HasOrGets(d.paths, new, path, method)
  BY <1>12, <1>14, <1>16 DEF HasOrGets
<1> QED
  BY <1>10, <1>16, <1>17, <1>18

(* A route with definitions that require nothing, or none, is integrated.  *)
Free(paths, path, method) ==
  /\ \A i, j, x : IsAt(paths, path, i, method, j, x) => DOMAIN x = DOMAIN NoMethod /\ x.security = <<>>
  /\ path \in DOMAIN paths => \A i \in DOMAIN paths[path] :
       method \in DOMAIN paths[path][i] => DOMAIN paths[path][i][method] # {}
(* All its definitions then say what the integration does.                 *)
LEMMA IntegrateRoute ==
  ASSUME NEW d, IsDocument(d), NEW path, NEW method, NEW integration, NEW credentials,
         Free(d.paths, path, method)
  PROVE  /\ Others(d.paths, Integrate(d, path, method, integration, credentials).paths, path, method)
         /\ RouteIs(Integrate(d, path, method, integration, credentials).paths, path, method,
                    integration, credentials, <<>>)
<1>1. PICK new : new = Integrate(d, path, method, integration, credentials).paths
  OBVIOUS
<1>2. /\ Others(d.paths, new, path, method)
      /\ HasOrGets(d.paths, new, path, method)
      /\ EachIntegrated(d.paths, new, path, method, integration, credentials)
  BY <1>1, IntegrateEach
<1>3. \A x, y : /\ DOMAIN y = DOMAIN NoMethod /\ y.security = <<>>
                /\ IntegratedAs(x, y, integration, credentials)
                => IsSo(x, integration, credentials, <<>>)
  BY DEF IntegratedAs, IsSo, NoMethod, Method
<1>4. NoMethod.security = <<>>
  BY DEF NoMethod, Method
<1>5. \A i, j, x : IsAt(new, path, i, method, j, x) => IsSo(x, integration, credentials, <<>>)
  BY <1>2, <1>3, <1>4 DEF Free, EachIntegrated
<1>6. ASSUME NEW i \in DOMAIN new[path]
      PROVE  /\ method \in DOMAIN new[path][i] /\ DOMAIN new[path][i][method] # {}
             /\ \A j \in DOMAIN new[path][i][method] : IsSo(new[path][i][method][j], integration, credentials, <<>>)
  <2>1. path \in DOMAIN new /\ method \in DOMAIN new[path][i]
    BY <1>2 DEF HasOrGets
  <2>2. DOMAIN new[path][i][method] # {}
    BY <1>2 DEF Free, MethodAt, HasOrGets
  <2>3. \A j \in DOMAIN new[path][i][method] : IsAt(new, path, i, method, j, new[path][i][method][j])
    BY <2>1 DEF IsAt
  <2> QED
    BY <1>5, <2>1, <2>2, <2>3
<1> QED
  BY <1>1, <1>2, <1>6 DEF RouteIs, HasOrGets

(* A document with the routes of another, but for one.                     *)
Routed(d, f, e, integration, credentials, security) ==
  /\ Others(d.paths, f.paths, e.path, e.method)
  /\ RouteIs(f.paths, e.path, e.method, integration, credentials, security)

(* The other parts of a document are not looked at.                        *)
LEMMA RoutedPaths ==
  ASSUME NEW d, NEW f, NEW g, NEW e, NEW integration, NEW credentials, NEW security,
         Routed(d, f, e, integration, credentials, security), g.paths = f.paths
  PROVE  Routed(d, g, e, integration, credentials, security)
BY DEF Routed

(* Requirements and other things are added to a route one by one.          *)
LEMMA RoutedRequirement ==
  ASSUME NEW d, NEW f, IsDocument(f), NEW e, NEW integration, integration # "none", NEW credentials, NEW security,
         Routed(d, f, e, integration, credentials, security), NEW requirement
  PROVE  Routed(d, WithRequirement(f, e, requirement), e, integration, credentials, Append(security, requirement))
BY WithRequirementRoute, OthersTwice DEF Routed

(* A model and its validator, if the event has them.                       *)
LEMMA RoutedModelOf ==
  ASSUME NEW d, NEW f, IsDocument(f), NEW e, NEW integration, NEW credentials, NEW security,
         Routed(d, f, e, integration, credentials, security)
  PROVE  Routed(d, AddModelOf(f, e), e, integration, credentials, security)
<1>1. PICK g : g = AddRequestModelToMethod(f, e)
  OBVIOUS
<1>2. Routed(d, g, e, integration, credentials, security) /\ IsDocument(g)
  BY <1>1, AddRequestModelToMethodRoute, OthersTwice, AddRequestModelToMethodEdits, EditedIsDocument DEF Routed
<1>3. \A x : IsDocument(x) /\ Routed(d, x, e, integration, credentials, security)
             => Routed(d, AddRequestValidatorToMethod(x, e), e, integration, credentials, security)
  BY AddRequestValidatorToMethodRoute, OthersTwice DEF Routed
<1> QED
  BY <1>1, <1>2, <1>3 DEF AddModelOf

(* The authorizer and the key of an event of a REST API.                   *)
LEMMA RoutedAuth ==
  ASSUME IsRest, NEW d, NEW f, IsDocument(f), NEW e, NEW integration, integration # "none", NEW credentials,
         Routed(d, f, e, integration, credentials, <<>>)
  PROVE  Routed(d, AddAuthToSwagger(f, e), e, integration, credentials, EventSecurity(e))
<1>1. PICK a, k : a = AuthorizedBy(e) /\ k = KeyMark(e)
  OBVIOUS
<1>2. PICK g : g = IF e.authorizer = Unset THEN f ELSE SetMethodAuthorizer(f, e, Authorizers)
  OBVIOUS
<1>3. PICK s : s = IF e.authorizer = Unset THEN <<>> ELSE <<a>>
  OBVIOUS
<1>4. Routed(d, g, e, integration, credentials, s) /\ IsDocument(g)
  <2>1. CASE e.authorizer = Unset
    BY <1>2, <1>3, <2>1
  <2>2. CASE e.authorizer # Unset
    <3>1. PICK h : h = WithRequirement(f, e, a)
      OBVIOUS
    <3>2. Append(<<>>, a) = <<a>>
      OBVIOUS
    <3>3. Routed(d, h, e, integration, credentials, <<a>>) /\ IsDocument(h)
      BY <3>1, <3>2, RoutedRequirement, WithRequirementEdits, EditedIsDocument
    <3>4. g = WithIamIf(h, \E y \in DefinitionsOf(h, e.path, e.method) : StartsWithIam(y))
      <4> DEFINE made == WithRequirement(f, e, AuthorizedBy(e))
      <4>1. SetMethodAuthorizer(f, e, Authorizers) =
              WithIamIf(made, \E y \in DefinitionsOf(made, e.path, e.method) : StartsWithIam(y))
        BY DEF SetMethodAuthorizer, WithRequirement, AuthorizedBy
      <4>2. h = made
        BY <1>1, <3>1
      <4> HIDE DEF made
      <4> QED
        BY <1>2, <2>2, <4>1, <4>2
    <3>5. \E b : g = WithIamIf(h, b)
      BY <3>4
    <3>6. g.paths = h.paths /\ IsDocument(g)
      BY <3>3, <3>5 DEF WithIamIf, AddAwsIamSecurityDefinition, IsDocument, DocumentParts
    <3> QED
      BY <1>3, <2>2, <3>3, <3>6, RoutedPaths
  <2> QED
    BY <2>1, <2>2
<1>5. PICK h : h = IF e.key = Unset THEN g ELSE SetMethodApiKeyHandling(g, e)
  OBVIOUS
<1>6. EventSecurity(e) = IF e.key = Unset THEN s ELSE Append(s, k)
  BY <1>1, <1>3 DEF EventSecurity, Marked
<1>7. Routed(d, h, e, integration, credentials, EventSecurity(e))
  <2>1. CASE e.key = Unset
    BY <1>4, <1>5, <1>6, <2>1
  <2>2. CASE e.key # Unset
    <3>1. PICK l : l = WithRequirement(g, e, k)
      OBVIOUS
    <3>2. Routed(d, l, e, integration, credentials, Append(s, k)) /\ IsDocument(l)
      BY <1>4, <3>1, RoutedRequirement, WithRequirementEdits, EditedIsDocument
    <3>3. h \in {l, AddApiKeySecurityDefinition(l)}
      BY <1>1, <1>5, <2>2, <3>1 DEF SetMethodApiKeyHandling, WithRequirement, KeyMark
    <3>4. h.paths = l.paths
      BY <3>2, <3>3 DEF AddApiKeySecurityDefinition, IsDocument, DocumentParts
    <3> QED
      BY <1>6, <2>2, <3>2, <3>4, RoutedPaths
  <2> QED
    BY <2>1, <2>2
<1>8. h = AddAuthToMethod(f, e, Authorizers)
  BY <1>2, <1>5 DEF AddAuthToMethod
<1>9. IsDocument(h)
  BY <1>8, AddAuthToMethodEdits, EditedIsDocument
<1>10. AddAuthToSwagger(f, e).paths = h.paths
  BY <1>8, <1>9 DEF AddAuthToSwagger, AddCustomStatements, AddResourcePolicy, IsDocument, DocumentParts
<1> QED
  BY <1>7, <1>10, RoutedPaths

(* What the route of an event says of its integration.                     *)
CredentialsOf(e) ==
  IF ~IsRest THEN Unset
  ELSE IF e.by = "machine" THEN "role of the machine"
  ELSE LET role == Credentials(e, Default, template.role) IN IF role = "NONE" THEN Unset ELSE role
IntegrationOf(e) == IF IsRest /\ e.by = "machine" THEN "machine" ELSE "lambda"

(* An event's route says what the event does, and the others what they did.*)
EventRouted(d, f, e) == Routed(d, f, e, IntegrationOf(e), CredentialsOf(e), EventSecurity(e))

(* The event of a function,                                                *)
LEMMA FunctionRouted ==
  ASSUME IsRest, doc # NoDocument, IsDocument(doc), NEW e, e.by # "machine", Free(doc.paths, e.path, e.method)
  PROVE  EventRouted(doc, IntegrateFunction(e), e)
<1>1. PICK c : c = CredentialsOf(e)
  OBVIOUS
<1>2. PICK f : f = AddLambdaIntegration(doc, e, Default, template.role)
  OBVIOUS
<1>3. f = Integrate(doc, e.path, e.method, "lambda", c)
  BY <1>1, <1>2 DEF AddLambdaIntegration, CredentialsOf
<1>4. Routed(doc, f, e, "lambda", c, <<>>)
  BY <1>3, IntegrateRoute DEF Routed
<1>5. IsDocument(f)
  BY <1>3, Integrating DEF PartsKept
<1>6. PICK g : g = AddAuthToSwagger(f, e)
  OBVIOUS
<1>7. Routed(doc, g, e, "lambda", c, EventSecurity(e))
  BY <1>4, <1>5, <1>6, RoutedAuth
<1>8. IsDocument(g)
  BY <1>5, <1>6, AddAuthToSwaggerEdits, EditedIsDocument
<1>9. Routed(doc, AddModelOf(g, e), e, "lambda", c, EventSecurity(e))
  BY <1>7, <1>8, RoutedModelOf
<1> QED
  BY <1>1, <1>2, <1>6, <1>9 DEF EventRouted, IntegrationOf, IntegrateFunction

(* that of a state machine,                                                *)
LEMMA MachineRouted ==
  ASSUME IsRest, doc # NoDocument, IsDocument(doc), NEW e, e.by = "machine", Free(doc.paths, e.path, e.method)
  PROVE  EventRouted(doc, IntegrateMachine(e), e)
<1>1. PICK c : c = CredentialsOf(e)
  OBVIOUS
<1>2. PICK f : f = AddStateMachineIntegration(doc, e)
  OBVIOUS
<1>3. f = Integrate(doc, e.path, e.method, "machine", c)
  BY <1>1, <1>2 DEF AddStateMachineIntegration, CredentialsOf
<1>4. Routed(doc, f, e, "machine", c, <<>>)
  BY <1>3, IntegrateRoute DEF Routed
<1>5. IsDocument(f)
  BY <1>3, Integrating DEF PartsKept
<1>6. Routed(doc, AddAuthToSwagger(f, e), e, "machine", c, EventSecurity(e))
  BY <1>4, <1>5, RoutedAuth
<1> QED
  BY <1>1, <1>2, <1>6 DEF EventRouted, IntegrationOf, IntegrateMachine

(* and an HttpApi event of a function.                                     *)
LEMMA HttpRouted ==
  ASSUME ~IsRest, doc # NoDocument, IsDocument(doc), NEW e, IsEvent(e), ~ReservedNames(template),
         Free(doc.paths, e.path, e.method), ~HasIntegration(doc, e.path, e.method)
  PROVE  EventRouted(doc, IntegrateHttp(e), e)
<1>1. PICK f : f = AddHttpLambdaIntegration(doc, e)
  OBVIOUS
<1>2. f = Integrate(doc, e.path, e.method, "lambda", Unset)
  BY <1>1 DEF AddHttpLambdaIntegration
<1>3. Routed(doc, f, e, "lambda", Unset, <<>>)
  BY <1>2, IntegrateRoute DEF Routed
<1>4. IsDocument(f)
  BY <1>2, Integrating DEF PartsKept
<1>5. PICK w : w = WithDefault(e)
  OBVIOUS
<1>6. w.path = e.path /\ w.method = e.method
  BY <1>5 DEF WithDefault, IsEvent, EventParts
<1>7. PICK a : a = AuthorizedBy(w)
  OBVIOUS
<1>8. SetHttpMethodAuthorizer(f, w, Authorizers) = WithRequirement(f, w, a)
  <2>1. DOMAIN Authorizers \ {IAM} = DOMAIN Authorizers
    BY DEF ReservedNames, Authorizers, IAM
  <2> DEFINE r == Requirement(w.authorizer,
                    IF w.authorizer \notin DOMAIN Authorizers \ {IAM} THEN Unset
                    ELSE IF w.scopes THEN "of the event"
                    ELSE IF Authorizers[w.authorizer].scopes THEN "of the authorizer" ELSE Unset)
  <2>2. SetHttpMethodAuthorizer(f, w, Authorizers) = WithRequirement(f, w, r)
    BY DEF SetHttpMethodAuthorizer, WithRequirement
  <2>3. r = a
    BY <1>7, <2>1 DEF AuthorizedBy
  <2> HIDE DEF r
  <2> QED
    BY <2>2, <2>3
<1>9. WithRequirement(f, w, a) = WithRequirement(f, e, a)
  BY <1>6 DEF WithRequirement
<1>10. Append(<<>>, a) = <<a>>
  OBVIOUS
<1>11. Routed(doc, WithRequirement(f, e, a), e, "lambda", Unset, <<a>>)
  BY <1>3, <1>4, <1>10, RoutedRequirement
<1>12. IntegrateHttp(e) = IF e.auth THEN WithRequirement(f, e, a) ELSE f
  BY <1>1, <1>5, <1>8, <1>9 DEF IntegrateHttp
<1>13. EventSecurity(e) = IF e.auth THEN <<a>> ELSE <<>>
  BY <1>5, <1>7 DEF EventSecurity
<1>14. e.auth \in BOOLEAN /\ IntegrationOf(e) = "lambda" /\ CredentialsOf(e) = Unset
  BY DEF IsEvent, IntegrationOf, CredentialsOf
<1> QED
  BY <1>3, <1>11, <1>12, <1>13, <1>14 DEF EventRouted

-----------------------------------------------------------------------------
(* What is known of the routes of every state.                             *)

(* An HttpApi event for a route that the author's document has, and two    *)
(* for one route of such a document.                                       *)
OwnRoute(t) ==
  /\ Accepts(t) /\ t.doc # NoDocument
  /\ \E k \in 1..Len(t.events) :
       LET e == t.events[k]
       IN  e.path \in DOMAIN t.doc.paths /\ \E w \in DefinitionsOf(t.doc, e.path, e.method) : w # NoMethod
TwiceIntegrated(t) ==
  /\ ~t.managed /\ t.kind # "rest"
  /\ \E k, l \in 1..Len(t.events) :
       k # l /\ t.events[k].path = t.events[l].path /\ t.events[k].method = t.events[l].method

(* AWS_IAM is the default, and an event of a function has an Auth without  *)
(* an authorizer, or is an OPTIONS event that the default leaves out.      *)
PartialIam(t) ==
  /\ t.kind = "rest" /\ t.managed /\ t.default = IAM
  /\ \E k \in 1..Len(t.events) :
       LET e == t.events[k]
       IN  /\ e.by # "machine" /\ e.authorizer = Unset
           /\ e.auth \/ (e.method = "options" /\ ~t.preflightAuth)

(* The first n events have been put into the document; once it is late,    *)
(* the API's defaults have been added to what they ask for.                *)
EventsPut(n) == IF Accepts(template) THEN 1..n ELSE {}
OnRoute(k, p, m) == template.events[k].path = p /\ template.events[k].method = m
Given(late, m, x, s) == x.security = IF late /\ HasIntegrationIn(x) THEN Final(m, s) ELSE s

(* A definition is what an event made of its route, what the author wrote, *)
(* or of a preflight route.                                                *)
ToldByEvent(n, late, p, m, x) ==
  \E k \in EventsPut(n) :
    /\ OnRoute(k, p, m)
    /\ x.integration = IntegrationOf(template.events[k])
    /\ x.credentials = CredentialsOf(template.events[k])
    /\ Given(late, m, x, EventSecurity(template.events[k]))
ToldByAuthor(late, p, i, m, j, x) ==
  \E w : IsAt(Written.paths, p, i, m, j, w) /\ x.integration = w.integration /\ Given(late, m, x, w.security)
ToldByCors(n, late, m, x) ==
  n = Len(template.events) /\ m = "options" /\ x.integration = "mock" /\ Given(late, m, x, <<>>)
Told(n, late, p, i, m, j, x) ==
  /\ DOMAIN x = DOMAIN NoMethod
  /\ \/ ToldByEvent(n, late, p, m, x)
     \/ /\ \A k \in EventsPut(n) : ~OnRoute(k, p, m)
        /\ ToldByAuthor(late, p, i, m, j, x) \/ ToldByCors(n, late, m, x)

(* Every path has a method, with definitions.                              *)
Everywhere(paths, path, method) ==
  path \in DOMAIN paths /\ \A i \in DOMAIN paths[path] : method \in DOMAIN paths[path][i]
Full(paths) == \A p, i, m : MethodAt(paths, p, i, m) => DOMAIN paths[p][i][m] # {}
RoutesTold(paths, n, late) ==
  /\ Full(paths)
  /\ \A p, i, m, j, x : IsAt(paths, p, i, m, j, x) => Told(n, late, p, i, m, j, x)
  /\ \A k \in EventsPut(n) : /\ Everywhere(paths, template.events[k].path, template.events[k].method)
                             /\ AcceptedEvent(template.events[k])
  /\ \A k, l \in EventsPut(n) : OnRoute(l, template.events[k].path, template.events[k].method) => k = l


(* Once the Auth step is done, with templates that ask for nothing twice   *)
(* and name nothing that means something else.                             *)
Late == at \notin {"events", "cors", "auth"}
Apart(t) == ~OwnRoute(t) /\ ~TwiceIntegrated(t) /\ ~ReservedNames(t) /\ ~UnheededDefault(t)
RoutesInv ==
  doc # NoDocument /\ at \notin {"made", "refused"} /\ Apart(template) =>
      RoutesTold(doc.paths, integrated, Late) /\ (Late => DefaultsAreKnown)

(* First of all states.                                                    *)
LEMMA InitRoutesInv ==
  ASSUME Init
  PROVE  RoutesInv
<1>1. template \in Templates /\ doc = template.doc /\ integrated = 0 /\ at = "events"
  BY DEF Init
<1>2. doc # NoDocument => IsWritten(doc)
  BY <1>1, ApiDefinitionAssumption
<1>3. EventsPut(0) = {} /\ Late = FALSE
  BY <1>1 DEF EventsPut, Late
<1>4. ASSUME doc # NoDocument
      PROVE  RoutesTold(doc.paths, 0, FALSE)
  <2>1. Full(doc.paths)
    BY <1>2, <1>4 DEF Full, MethodAt, IsWritten
  <2>2. ASSUME NEW p, NEW i, NEW m, NEW j, NEW x, IsAt(doc.paths, p, i, m, j, x)
        PROVE  Told(0, FALSE, p, i, m, j, x)
    <3>1. DOMAIN x = DOMAIN NoMethod
      BY <1>2, <1>4, <2>2 DEF IsAt, IsWritten
    <3>2. ToldByAuthor(FALSE, p, i, m, j, x)
      BY <1>1, <2>2 DEF ToldByAuthor, Given, Written
    <3> QED
      BY <1>3, <3>1, <3>2 DEF Told
  <2> QED
    BY <1>3, <2>1, <2>2 DEF RoutesTold
<1> QED
  BY <1>1, <1>3, <1>4 DEF RoutesInv

(* The definitions of one method, and where they are.                      *)
LEMMA DefinitionsAt ==
  ASSUME NEW d, NEW p, NEW m
  PROVE  /\ \A i, j, x : IsAt(d.paths, p, i, m, j, x) => x \in DefinitionsOf(d, p, m)
         /\ p \in DOMAIN d.paths =>
              \A x \in DefinitionsOf(d, p, m) : \E i, j : IsAt(d.paths, p, i, m, j, x)
<1>1. ASSUME NEW i, NEW j, NEW x, IsAt(d.paths, p, i, m, j, x)
      PROVE  x \in DefinitionsOf(d, p, m)
  <2>1. x \in ToSet(d.paths[p][i][m])
    BY <1>1 DEF IsAt, ToSet
  <2>2. i \in {k \in DOMAIN d.paths[p] : m \in DOMAIN d.paths[p][k]}
    BY <1>1 DEF IsAt
  <2> QED
    BY <2>1, <2>2 DEF DefinitionsOf
<1>2. ASSUME p \in DOMAIN d.paths, NEW x \in DefinitionsOf(d, p, m)
      PROVE  \E i, j : IsAt(d.paths, p, i, m, j, x)
  <2>1. PICK i \in {k \in DOMAIN d.paths[p] : m \in DOMAIN d.paths[p][k]} : x \in ToSet(d.paths[p][i][m])
    BY <1>2 DEF DefinitionsOf
  <2>2. PICK j \in DOMAIN d.paths[p][i][m] : x = d.paths[p][i][m][j]
    BY <2>1 DEF ToSet
  <2> QED
    BY <1>2, <2>1, <2>2 DEF IsAt
<1> QED
  BY <1>1, <1>2

(* No event has been put at the route of the next one.                     *)
LEMMA NotPutYet ==
  ASSUME TypeInv, AddEvent, AcceptsEvents, RoutesTold(doc.paths, integrated, FALSE), ~TwiceIntegrated(template),
         NEW k \in EventsPut(integrated)
  PROVE  ~OnRoute(k, Event.path, Event.method)
<1> SUFFICES ASSUME OnRoute(k, Event.path, Event.method) PROVE FALSE
  OBVIOUS
<1>1. PICK e : e = Event
  OBVIOUS
<1>2. /\ k \in 1..integrated /\ template.events[k].path = e.path /\ template.events[k].method = e.method
      /\ integrated + 1 \in 1..Len(template.events) /\ k \in 1..Len(template.events) /\ k # integrated + 1
  BY <1>1, EventsAre DEF EventsPut, OnRoute, TypeInv, AddEvent
<1>3. template.managed
  BY <1>1, <1>2 DEF AcceptsEvents, TwiceIntegrated, IsRest, Event
<1>4. Everywhere(doc.paths, e.path, e.method)
  BY <1>2 DEF RoutesTold
<1>5. ASSUME NEW i \in DOMAIN doc.paths[e.path]
      PROVE  \E j \in DOMAIN doc.paths[e.path][i][e.method] : HasIntegrationIn(doc.paths[e.path][i][e.method][j])
  <2>1. MethodAt(doc.paths, e.path, i, e.method)
    BY <1>4, <1>5 DEF Everywhere, MethodAt
  <2>2. PICK j : j \in DOMAIN doc.paths[e.path][i][e.method]
    BY <2>1 DEF RoutesTold, Full
  <2>3. PICK x : x = doc.paths[e.path][i][e.method][j]
    OBVIOUS
  <2>4. IsAt(doc.paths, e.path, i, e.method, j, x)
    BY <2>1, <2>2, <2>3 DEF IsAt, MethodAt
  <2>5. Told(integrated, FALSE, e.path, i, e.method, j, x)
    BY <2>4 DEF RoutesTold
  <2>6. OnRoute(k, e.path, e.method)
    BY <1>1
  <2>7. ToldByEvent(integrated, FALSE, e.path, e.method, x)
    BY <2>5, <2>6 DEF Told
  <2>8. x.integration \in {"lambda", "machine"}
    BY <2>7 DEF ToldByEvent, IntegrationOf
  <2> QED
    BY <2>2, <2>3, <2>8 DEF HasIntegrationIn
<1>6. HasIntegration(doc, e.path, e.method)
  BY <1>4, <1>5 DEF HasIntegration, HasPath, Everywhere
<1> QED
  BY <1>1, <1>3, <1>6 DEF AddEvent, RouteIsTaken

(* Its route requires nothing and has no integration.                      *)
LEMMA NextRouteFree ==
  ASSUME TypeInv, AddEvent, AcceptsEvents, RoutesTold(doc.paths, integrated, FALSE), ~TwiceIntegrated(template),
         ~OwnRoute(template), ItemsInv(doc.paths)
  PROVE  Free(doc.paths, Event.path, Event.method) /\ ~HasIntegration(doc, Event.path, Event.method)
<1>1. PICK e : e = Event
  OBVIOUS
<1>2. /\ integrated + 1 \in 1..Len(template.events) /\ integrated # Len(template.events)
      /\ e = template.events[integrated + 1]
  BY <1>1, EventsAre DEF TypeInv, AddEvent, Event
<1>3. Accepts(template) /\ Written # NoDocument
  BY DEF AcceptsEvents, Accepts, IsRest, TypeInv
<1>4. ASSUME NEW i, NEW j, NEW x, IsAt(doc.paths, e.path, i, e.method, j, x)
      PROVE  DOMAIN x = DOMAIN NoMethod /\ x.security = <<>> /\ x.integration = "none"
  <2>1. Told(integrated, FALSE, e.path, i, e.method, j, x)
    BY <1>4 DEF RoutesTold
  <2>2. ~ToldByEvent(integrated, FALSE, e.path, e.method, x)
    BY <1>1, NotPutYet DEF ToldByEvent
  <2>3. ~ToldByCors(integrated, FALSE, e.method, x)
    BY <1>2 DEF ToldByCors
  <2>4. PICK w : /\ IsAt(Written.paths, e.path, i, e.method, j, w)
                 /\ x.integration = w.integration /\ Given(FALSE, e.method, x, w.security)
    BY <2>1, <2>2, <2>3 DEF Told, ToldByAuthor
  <2>5. w \in DefinitionsOf(Written, e.path, e.method)
    BY <2>4, DefinitionsAt
  <2>6. w = NoMethod
    BY <1>2, <1>3, <2>4, <2>5 DEF OwnRoute, Written, IsAt
  <2> QED
    BY <2>1, <2>4, <2>6 DEF Told, Given, NoMethod, Method
<1>5. Free(doc.paths, e.path, e.method)
  <2>1. Full(doc.paths)
    BY DEF RoutesTold
  <2> QED
    BY <1>4, <2>1 DEF Free, Full, MethodAt
<1>6. ASSUME HasIntegration(doc, e.path, e.method) PROVE FALSE
  <2>1. PICK i : /\ e.path \in DOMAIN doc.paths /\ i \in DOMAIN doc.paths[e.path]
                 /\ e.method \in DOMAIN doc.paths[e.path][i]
    BY <1>6 DEF HasIntegration, HasPath, ItemsInv
  <2>2. PICK j \in DOMAIN doc.paths[e.path][i][e.method] : HasIntegrationIn(doc.paths[e.path][i][e.method][j])
    BY <1>6, <2>1 DEF HasIntegration
  <2>3. IsAt(doc.paths, e.path, i, e.method, j, doc.paths[e.path][i][e.method][j])
    BY <2>1, <2>2 DEF IsAt
  <2> QED
    BY <1>4, <2>2, <2>3 DEF HasIntegrationIn
<1> QED
  BY <1>1, <1>5, <1>6

(* An event's step puts it there.                                          *)
LEMMA AddEventRouted ==
  ASSUME TypeInv, AddEvent, AcceptsEvents, RoutesTold(doc.paths, integrated, FALSE), ~TwiceIntegrated(template),
         ~OwnRoute(template), ~ReservedNames(template), ItemsInv(doc.paths)
  PROVE  EventRouted(doc, doc', Event) /\ AcceptedEvent(Event)
<1>1. PICK e : e = Event
  OBVIOUS
<1>2. doc # NoDocument /\ IsDocument(doc)
  BY DEF AcceptsEvents, TypeInv
<1>3. Free(doc.paths, e.path, e.method) /\ ~HasIntegration(doc, e.path, e.method)
  BY <1>1, NextRouteFree
<1>4. AcceptedEvent(e)
  BY <1>1 DEF AddEvent, AcceptedEvent
<1>5. IsEvent(e)
  <2>1. integrated + 1 \in DOMAIN template.events
    BY EventsAre DEF TypeInv, AddEvent
  <2> QED
    BY <1>1, <2>1, ApiDefinitionAssumption DEF TypeInv, Event
<1>6. PICK f : f = doc'
  OBVIOUS
<1>7. CASE ~IsRest
  <2>1. f = IntegrateHttp(e)
    BY <1>1, <1>6, <1>7 DEF AddEvent
  <2> QED
    BY <1>1, <1>2, <1>3, <1>4, <1>5, <1>6, <1>7, <2>1, HttpRouted
<1>8. CASE IsRest /\ e.by = "machine"
  <2>1. f = IntegrateMachine(e)
    BY <1>1, <1>6, <1>8 DEF AddEvent
  <2> QED
    BY <1>1, <1>2, <1>3, <1>4, <1>6, <1>8, <2>1, MachineRouted
<1>9. CASE IsRest /\ e.by # "machine"
  <2>1. f = IntegrateFunction(e)
    BY <1>1, <1>6, <1>9 DEF AddEvent
  <2> QED
    BY <1>1, <1>2, <1>3, <1>4, <1>6, <1>9, <2>1, FunctionRouted
<1> QED
  BY <1>7, <1>8, <1>9

(* Then its route is told by it, and the others as before.                 *)
LEMMA PutTold ==
  ASSUME NEW n \in Nat, n < Len(template.events), Len(template.events) \in Nat, Accepts(template),
         NEW d, NEW f, NEW e, e = template.events[n + 1], EventRouted(d, f, e), AcceptedEvent(e),
         RoutesTold(d.paths, n, FALSE), \A k \in EventsPut(n) : ~OnRoute(k, e.path, e.method)
  PROVE  RoutesTold(f.paths, n + 1, FALSE)
<1>1. EventsPut(n + 1) = EventsPut(n) \cup {n + 1} /\ n # Len(template.events)
  BY DEF EventsPut
<1>2. /\ Others(d.paths, f.paths, e.path, e.method)
      /\ RouteIs(f.paths, e.path, e.method, IntegrationOf(e), CredentialsOf(e), EventSecurity(e))
  BY DEF EventRouted, Routed
<1>3. Full(f.paths)
  <2> SUFFICES ASSUME NEW p, NEW i, NEW m, MethodAt(f.paths, p, i, m)
               PROVE  DOMAIN f.paths[p][i][m] # {}
    BY DEF Full
  <2>1. CASE p = e.path /\ m = e.method
    BY <1>2, <2>1 DEF RouteIs, MethodAt
  <2>2. CASE p # e.path \/ m # e.method
    <3>1. MethodAt(d.paths, p, i, m)
      BY <1>2, <2>2 DEF Others
    <3>2. PICK j : j \in DOMAIN d.paths[p][i][m]
      BY <3>1 DEF RoutesTold, Full
    <3>3. IsAt(d.paths, p, i, m, j, d.paths[p][i][m][j])
      BY <3>1, <3>2 DEF IsAt, MethodAt
    <3>4. IsAt(f.paths, p, i, m, j, d.paths[p][i][m][j])
      BY <1>2, <2>2, <3>3 DEF Others
    <3> QED
      BY <3>4 DEF IsAt
  <2> QED
    BY <2>1, <2>2
<1>4. ASSUME NEW p, NEW i, NEW m, NEW j, NEW x, IsAt(f.paths, p, i, m, j, x)
      PROVE  Told(n + 1, FALSE, p, i, m, j, x)
  <2>1. CASE p = e.path /\ m = e.method
    <3>1. IsSo(x, IntegrationOf(e), CredentialsOf(e), EventSecurity(e))
      BY <1>2, <1>4, <2>1 DEF RouteIs, IsAt
    <3>2. OnRoute(n + 1, p, m) /\ n + 1 \in EventsPut(n + 1)
      BY <1>1, <2>1 DEF OnRoute
    <3>3. ToldByEvent(n + 1, FALSE, p, m, x)
      BY <3>1, <3>2 DEF ToldByEvent, IsSo, Given
    <3> QED
      BY <3>1, <3>3 DEF Told, IsSo
  <2>2. CASE p # e.path \/ m # e.method
    <3>1. IsAt(d.paths, p, i, m, j, x)
      BY <1>2, <1>4, <2>2 DEF Others
    <3>2. Told(n, FALSE, p, i, m, j, x)
      BY <3>1 DEF RoutesTold
    <3>3. ~ToldByCors(n, FALSE, m, x) /\ ~OnRoute(n + 1, p, m)
      BY <1>1, <2>2 DEF ToldByCors, OnRoute
    <3>4. ToldByEvent(n, FALSE, p, m, x) => ToldByEvent(n + 1, FALSE, p, m, x)
      BY <1>1 DEF ToldByEvent
    <3> QED
      BY <1>1, <3>2, <3>3, <3>4 DEF Told
  <2> QED
    BY <2>1, <2>2
<1>5. ASSUME NEW k \in EventsPut(n + 1)
      PROVE  /\ Everywhere(f.paths, template.events[k].path, template.events[k].method)
             /\ AcceptedEvent(template.events[k])
  <2>1. CASE k = n + 1
    BY <1>2, <2>1 DEF RouteIs, Everywhere
  <2>2. CASE k \in EventsPut(n)
    <3>1. PICK p, m : p = template.events[k].path /\ m = template.events[k].method
      OBVIOUS
    <3>2. p # e.path \/ m # e.method
      BY <2>2, <3>1 DEF OnRoute
    <3>3. Everywhere(d.paths, p, m) /\ AcceptedEvent(template.events[k])
      BY <2>2, <3>1 DEF RoutesTold
    <3>4. p \in DOMAIN f.paths /\ DOMAIN f.paths[p] = DOMAIN d.paths[p]
      BY <1>2, <3>3 DEF Others, Everywhere
    <3>5. \A i \in DOMAIN d.paths[p] : MethodAt(d.paths, p, i, m)
      BY <3>3 DEF Everywhere, MethodAt
    <3>6. \A i \in DOMAIN d.paths[p] : MethodAt(f.paths, p, i, m)
      BY <1>2, <3>2, <3>5 DEF Others
    <3>7. Everywhere(f.paths, p, m)
      BY <3>4, <3>6 DEF Everywhere, MethodAt
    <3> QED
      BY <3>1, <3>3, <3>7
  <2> QED
    BY <1>1, <2>1, <2>2
<1>6. ASSUME NEW k \in EventsPut(n + 1), NEW l \in EventsPut(n + 1),
             OnRoute(l, template.events[k].path, template.events[k].method)
      PROVE  k = l
  <2>1. OnRoute(k, template.events[l].path, template.events[l].method)
    BY <1>6 DEF OnRoute
  <2>2. CASE k = n + 1 \/ l = n + 1
    BY <1>1, <1>6, <2>1, <2>2
  <2>3. CASE k \in EventsPut(n) /\ l \in EventsPut(n)
    BY <1>6, <2>3 DEF RoutesTold
  <2> QED
    BY <1>1, <2>2, <2>3
<1> QED
  BY <1>3, <1>4, <1>5, <1>6 DEF RoutesTold

-----------------------------------------------------------------------------
(* The API's defaults.                                                     *)

(* The same routes, with as many definitions each.                         *)
SameDefinitions(old, new) ==
  /\ DOMAIN new = DOMAIN old
  /\ \A p \in DOMAIN old : DOMAIN new[p] = DOMAIN old[p]
  /\ \A p \in DOMAIN old : \A i \in DOMAIN old[p] : DOMAIN new[p][i] = DOMAIN old[p][i]
  /\ \A p \in DOMAIN old : \A i \in DOMAIN old[p] : \A m \in DOMAIN old[p][i] :
       DOMAIN new[p][i][m] = DOMAIN old[p][i][m]

(* A definition gets other security if it has an integration.              *)
Follows(x, y, security) ==
  /\ DOMAIN x = DOMAIN y
  /\ x.integration = y.integration /\ x.credentials = y.credentials
  /\ x.model = y.model /\ x.validator = y.validator
  /\ x.security = IF HasIntegrationIn(y) THEN security ELSE y.security

(* What each pass makes of all routes.                                     *)
DefaultPassed(old, new) ==
  /\ SameDefinitions(old, new)
  /\ \A p, i, m, j, y : IsAt(old, p, i, m, j, y) /\ DOMAIN y = DOMAIN NoMethod =>
       Follows(new[p][i][m][j], y, DefaultPass(m, y.security))
KeyPassed(old, new) ==
  /\ SameDefinitions(old, new)
  /\ \A p, i, m, j, y : IsAt(old, p, i, m, j, y) /\ DOMAIN y = DOMAIN NoMethod =>
       Follows(new[p][i][m][j], y, KeyPass(m, y.security))
Passed(old, new) ==
  /\ SameDefinitions(old, new)
  /\ \A p, i, m, j, y : IsAt(old, p, i, m, j, y) /\ DOMAIN y = DOMAIN NoMethod =>
       Follows(new[p][i][m][j], y, Final(m, y.security))

(* The default authorizer,                                                 *)
LEMMA WithAuthorizersPasses ==
  ASSUME NEW d, IsDocument(d)
  PROVE  DefaultPassed(d.paths, WithAuthorizers(d).paths)
<1> DEFINE Secure(m, x) == IF \/ m = "options" /\ ~template.preflightAuth
                              \/ DefaultSecurity(x.security, Default, Authorizers) = <<>>
                        THEN x
                        ELSE [x EXCEPT !.security = DefaultSecurity(x.security, Default, Authorizers)]
           Edit(m, x) == IF HasIntegrationIn(x) THEN Secure(m, x) ELSE x
           Item(item) == [m \in DOMAIN item |-> [j \in DOMAIN item[m] |-> Edit(m, item[m][j])]]
<1>1. PICK f : f = AddAuthorizersSecurityDefinitions(d, DefinitionsMade)
  OBVIOUS
<1>2. f.paths = d.paths /\ IsDocument(f)
  BY <1>1 DEF IsDocument, DocumentParts, AddAuthorizersSecurityDefinitions
<1>3. CASE KnownAuthorizers = {} \/ Default = Unset
  <2>1. WithAuthorizers(d).paths = d.paths
    BY <1>1, <1>2, <1>3 DEF WithAuthorizers
  <2>2. \A m, s : DefaultPass(m, s) = s
    BY <1>3 DEF DefaultPass
  <2> QED
    BY <2>1, <2>2 DEF DefaultPassed, SameDefinitions, Follows, IsAt
<1>4. CASE ~(KnownAuthorizers = {} \/ Default = Unset)
  <2> DEFINE e == OnAllMethods(f, Secure)
  <2>1. WithAuthorizers(d) = SetPathDefaultAuthorizer(f, Default, Authorizers, template.preflightAuth)
    BY <1>1, <1>4 DEF WithAuthorizers
  <2>2. \E b : SetPathDefaultAuthorizer(f, Default, Authorizers, template.preflightAuth) = WithIamIf(e, b)
    BY DEF SetPathDefaultAuthorizer
  <2>3. e.paths = [p \in DOMAIN f.paths |-> [i \in DOMAIN f.paths[p] |-> Item(f.paths[p][i])]] /\ IsDocument(e)
    BY <1>2 DEF IsDocument, DocumentParts, OnAllMethods
  <2>4. \A m, y : DOMAIN y = DOMAIN NoMethod => Follows(Edit(m, y), y, DefaultPass(m, y.security))
    BY <1>4 DEF Follows, DefaultPass, NoMethod, Method
  <2>5. \A item : /\ DOMAIN Item(item) = DOMAIN item
                  /\ \A m \in DOMAIN item : /\ DOMAIN Item(item)[m] = DOMAIN item[m]
                                            /\ \A j \in DOMAIN item[m] : Item(item)[m][j] = Edit(m, item[m][j])
    <3> HIDE DEF Edit
    <3> QED
      OBVIOUS
  <2> HIDE DEF e, Item, Edit
  <2>6. WithAuthorizers(d).paths = e.paths
    BY <2>1, <2>2, <2>3, WithIamIfEdits
  <2>7. PICK new : new = e.paths
    OBVIOUS
  <2>8. /\ DOMAIN new = DOMAIN d.paths
        /\ \A p \in DOMAIN d.paths : DOMAIN new[p] = DOMAIN d.paths[p]
        /\ \A p \in DOMAIN d.paths : \A i \in DOMAIN d.paths[p] : new[p][i] = Item(d.paths[p][i])
    BY <1>2, <2>3, <2>7
  <2>9. SameDefinitions(d.paths, new)
    BY <2>5, <2>8 DEF SameDefinitions
  <2>10. ASSUME NEW p, NEW i, NEW m, NEW j, NEW y, IsAt(d.paths, p, i, m, j, y), DOMAIN y = DOMAIN NoMethod
         PROVE  Follows(new[p][i][m][j], y, DefaultPass(m, y.security))
    BY <2>4, <2>5, <2>8, <2>10 DEF IsAt
  <2> QED
    BY <2>6, <2>7, <2>9, <2>10 DEF DefaultPassed
<1> QED
  BY <1>3, <1>4

(* the API keys,                                                           *)
LEMMA WithApiKeysPasses ==
  ASSUME NEW d, IsDocument(d)
  PROVE  KeyPassed(d.paths, WithApiKeys(d).paths)
<1> DEFINE Edit(m, x) == IF HasIntegrationIn(x)
                         THEN [x EXCEPT !.security = KeySecurity(m, @, template.preflightKey)] ELSE x
           Item(item) == [m \in DOMAIN item |-> [j \in DOMAIN item[m] |-> Edit(m, item[m][j])]]
<1>1. PICK f : f = AddApiKeySecurityDefinition(d)
  OBVIOUS
<1>2. f.paths = d.paths /\ IsDocument(f)
  BY <1>1 DEF IsDocument, DocumentParts, AddApiKeySecurityDefinition
<1>3. CASE ~template.key
  <2>1. WithApiKeys(d).paths = d.paths
    BY <1>3 DEF WithApiKeys
  <2>2. \A m, s : KeyPass(m, s) = s
    BY <1>3 DEF KeyPass
  <2> QED
    BY <2>1, <2>2 DEF KeyPassed, SameDefinitions, Follows, IsAt
<1>4. CASE template.key
  <2>1. PICK new : new = WithApiKeys(d).paths
    OBVIOUS
  <2>2. WithApiKeys(d) = SetPathDefaultApiKeyRequired(f, template.preflightKey)
    BY <1>1, <1>4 DEF WithApiKeys
  <2>3. SetPathDefaultApiKeyRequired(f, template.preflightKey).paths =
          [p \in DOMAIN f.paths |-> [i \in DOMAIN f.paths[p] |-> Item(f.paths[p][i])]]
    BY <1>2 DEF IsDocument, DocumentParts, SetPathDefaultApiKeyRequired, OnAllMethods
  <2>4. \A m, y : DOMAIN y = DOMAIN NoMethod => Follows(Edit(m, y), y, KeyPass(m, y.security))
    BY <1>4 DEF Follows, KeyPass, NoMethod, Method
  <2>5. \A item : /\ DOMAIN Item(item) = DOMAIN item
                  /\ \A m \in DOMAIN item : /\ DOMAIN Item(item)[m] = DOMAIN item[m]
                                            /\ \A j \in DOMAIN item[m] : Item(item)[m][j] = Edit(m, item[m][j])
    <3> HIDE DEF Edit
    <3> QED
      OBVIOUS
  <2> HIDE DEF Item, Edit
  <2>8. /\ DOMAIN new = DOMAIN d.paths
        /\ \A p \in DOMAIN d.paths : DOMAIN new[p] = DOMAIN d.paths[p]
        /\ \A p \in DOMAIN d.paths : \A i \in DOMAIN d.paths[p] : new[p][i] = Item(d.paths[p][i])
    BY <1>2, <2>1, <2>2, <2>3
  <2>9. SameDefinitions(d.paths, new)
    BY <2>5, <2>8 DEF SameDefinitions
  <2>10. ASSUME NEW p, NEW i, NEW m, NEW j, NEW y, IsAt(d.paths, p, i, m, j, y), DOMAIN y = DOMAIN NoMethod
         PROVE  Follows(new[p][i][m][j], y, KeyPass(m, y.security))
    BY <2>4, <2>5, <2>8, <2>10 DEF IsAt
  <2> QED
    BY <2>1, <2>9, <2>10 DEF KeyPassed
<1> QED
  BY <1>3, <1>4

(* and both, one after the other.                                          *)
LEMMA RestPasses ==
  ASSUME IsRest, NEW old, NEW mid, NEW new, DefaultPassed(old, mid), KeyPassed(mid, new)
  PROVE  Passed(old, new)
<1>1. SameDefinitions(old, new)
  BY DEF DefaultPassed, KeyPassed, SameDefinitions
<1>2. ASSUME NEW p, NEW i, NEW m, NEW j, NEW y, IsAt(old, p, i, m, j, y), DOMAIN y = DOMAIN NoMethod
      PROVE  Follows(new[p][i][m][j], y, Final(m, y.security))
  <2>1. PICK z : z = mid[p][i][m][j]
    OBVIOUS
  <2>2. Follows(z, y, DefaultPass(m, y.security))
    BY <1>2, <2>1 DEF DefaultPassed
  <2>3. IsAt(mid, p, i, m, j, z) /\ DOMAIN z = DOMAIN NoMethod
    BY <1>2, <2>1, <2>2 DEF IsAt, DefaultPassed, SameDefinitions, Follows
  <2>4. Follows(new[p][i][m][j], z, KeyPass(m, z.security))
    BY <2>3 DEF KeyPassed
  <2> QED
    BY <2>2, <2>4 DEF Follows, HasIntegrationIn, Final
<1> QED
  BY <1>1, <1>2 DEF Passed

(* The default of an HTTP API.                                             *)
LEMMA HttpPasses ==
  ASSUME ~IsRest, NEW d, IsDocument(d)
  PROVE  Passed(d.paths, SetHttpPathDefaultAuthorizer(d, Default, Authorizers).paths) \/ Default = Unset
<1> SUFFICES ASSUME Default # Unset
             PROVE  Passed(d.paths, SetHttpPathDefaultAuthorizer(d, Default, Authorizers).paths)
  OBVIOUS
<1> DEFINE Edit(m, x) == IF HasIntegrationIn(x)
                         THEN IF m = "options" \/ x.security # <<>> THEN x
                              ELSE [x EXCEPT !.security = <<Requirement(Default, DefaultScopes)>>]
                         ELSE x
           Item(item) == [m \in DOMAIN item |-> [j \in DOMAIN item[m] |-> Edit(m, item[m][j])]]
<1>1. PICK new : new = SetHttpPathDefaultAuthorizer(d, Default, Authorizers).paths
  OBVIOUS
<1>2. SetHttpPathDefaultAuthorizer(d, Default, Authorizers).paths =
        [p \in DOMAIN d.paths |-> [i \in DOMAIN d.paths[p] |-> Item(d.paths[p][i])]]
  BY DEF IsDocument, DocumentParts, SetHttpPathDefaultAuthorizer, OnAllMethods, DefaultScopes
<1>3. \A m, y : DOMAIN y = DOMAIN NoMethod => Follows(Edit(m, y), y, Final(m, y.security))
  BY DEF Follows, Final, HttpPass, NoMethod, Method
<1>4. \A item : /\ DOMAIN Item(item) = DOMAIN item
                /\ \A m \in DOMAIN item : /\ DOMAIN Item(item)[m] = DOMAIN item[m]
                                          /\ \A j \in DOMAIN item[m] : Item(item)[m][j] = Edit(m, item[m][j])
  <2> HIDE DEF Edit
  <2> QED
    OBVIOUS
<1> HIDE DEF Item, Edit
<1>5. /\ DOMAIN new = DOMAIN d.paths
      /\ \A p \in DOMAIN d.paths : DOMAIN new[p] = DOMAIN d.paths[p]
      /\ \A p \in DOMAIN d.paths : \A i \in DOMAIN d.paths[p] : new[p][i] = Item(d.paths[p][i])
  BY <1>1, <1>2
<1>6. SameDefinitions(d.paths, new)
  BY <1>4, <1>5 DEF SameDefinitions
<1>7. ASSUME NEW p, NEW i, NEW m, NEW j, NEW y, IsAt(d.paths, p, i, m, j, y), DOMAIN y = DOMAIN NoMethod
      PROVE  Follows(new[p][i][m][j], y, Final(m, y.security))
  BY <1>3, <1>4, <1>5, <1>7 DEF IsAt
<1> QED
  BY <1>1, <1>6, <1>7 DEF Passed

(* Where nothing is left to its defaults.                                  *)
LEMMA NothingPasses ==
  ASSUME NEW old, Default = Unset, IsRest => ~template.key
  PROVE  Passed(old, old)
<1>1. \A m, s : Final(m, s) = s
  BY DEF Final, DefaultPass, KeyPass, HttpPass
<1> QED
  BY <1>1 DEF Passed, SameDefinitions, Follows, IsAt

(* After them every route is told as before, and by the defaults.          *)
LEMMA PassedTold ==
  ASSUME NEW old, NEW new, NEW n, Passed(old, new), RoutesTold(old, n, FALSE)
  PROVE  RoutesTold(new, n, TRUE)
<1>1. Full(new)
  BY DEF Full, MethodAt, RoutesTold, Passed, SameDefinitions
<1>2. ASSUME NEW p, NEW i, NEW m, NEW j, NEW x, IsAt(new, p, i, m, j, x)
      PROVE  Told(n, TRUE, p, i, m, j, x)
  <2> DEFINE z == old[p][i][m][j]
  <2>9. p \in DOMAIN old /\ i \in DOMAIN old[p] /\ m \in DOMAIN old[p][i] /\ j \in DOMAIN old[p][i][m]
    BY <1>2 DEF IsAt, Passed, SameDefinitions
  <2>10. IsAt(old, p, i, m, j, z)
    BY <2>9 DEF IsAt
  <2>1. PICK y : IsAt(old, p, i, m, j, y)
    BY <2>10
  <2>2. Told(n, FALSE, p, i, m, j, y)
    BY <2>1 DEF RoutesTold
  <2>3. Follows(x, y, Final(m, y.security))
    BY <1>2, <2>1, <2>2 DEF Passed, IsAt, Told
  <2>4. \A s : Given(FALSE, m, y, s) => Given(TRUE, m, x, s)
    BY <2>3 DEF Given, Follows, HasIntegrationIn
  <2>5. x.integration = y.integration /\ x.credentials = y.credentials /\ DOMAIN x = DOMAIN y
    BY <2>3 DEF Follows
  <2>6. ToldByEvent(n, FALSE, p, m, y) => ToldByEvent(n, TRUE, p, m, x)
    BY <2>4, <2>5 DEF ToldByEvent
  <2>7. ToldByAuthor(FALSE, p, i, m, j, y) => ToldByAuthor(TRUE, p, i, m, j, x)
    BY <2>4, <2>5 DEF ToldByAuthor
  <2>8. ToldByCors(n, FALSE, m, y) => ToldByCors(n, TRUE, m, x)
    BY <2>4, <2>5 DEF ToldByCors
  <2> QED
    BY <2>2, <2>5, <2>6, <2>7, <2>8 DEF Told
<1>3. \A k \in EventsPut(n) : Everywhere(new, template.events[k].path, template.events[k].method)
  BY DEF Everywhere, RoutesTold, Passed, SameDefinitions
<1> QED
  BY <1>1, <1>2, <1>3 DEF RoutesTold

(* What is told depends on the template only.                              *)
LEMMA ToldFrame ==
  ASSUME template' = template
  PROVE  /\ \A paths, n, late : RoutesTold(paths, n, late)' <=> RoutesTold(paths, n, late)
         /\ DefaultsAreKnown' <=> DefaultsAreKnown
<1>1. IsRest' = IsRest /\ Authorizers' = Authorizers /\ Default' = Default /\ Written' = Written
  BY DEF IsRest, Authorizers, Default, Written
<1>2. KnownAuthorizers' = KnownAuthorizers /\ DefaultScopes' = DefaultScopes
  BY <1>1 DEF KnownAuthorizers, DefaultScopes
<1>3. \A m, s : DefaultPass(m, s)' = DefaultPass(m, s)
  BY <1>1, <1>2 DEF DefaultPass
<1>4. \A m, s : KeyPass(m, s)' = KeyPass(m, s)
  BY DEF KeyPass
<1>5. \A m, s : HttpPass(m, s)' = HttpPass(m, s)
  BY <1>1, <1>2 DEF HttpPass
<1>6. \A m, s : Final(m, s)' = Final(m, s)
  BY <1>1, <1>3, <1>4, <1>5 DEF Final
<1>7. \A e : AuthorizedBy(e)' = AuthorizedBy(e) /\ WithDefault(e)' = WithDefault(e)
  BY <1>1 DEF AuthorizedBy, WithDefault
<1>8. \A e : Marked(e)' = Marked(e)
  BY <1>7 DEF Marked
<1>9. \A e : EventSecurity(e)' = EventSecurity(e)
  BY <1>1, <1>7, <1>8 DEF EventSecurity
<1>10. \A e : CredentialsOf(e)' = CredentialsOf(e) /\ IntegrationOf(e)' = IntegrationOf(e)
  BY <1>1 DEF CredentialsOf, IntegrationOf
<1>11. \A e : AcceptedEvent(e)' <=> AcceptedEvent(e)
  BY <1>1, <1>7 DEF AcceptedEvent, RefusedAuth, RefusedHttpAuth
<1>12. \A n : EventsPut(n)' = EventsPut(n)
  BY DEF EventsPut
<1>13. \A k, p, m : OnRoute(k, p, m)' <=> OnRoute(k, p, m)
  BY DEF OnRoute
<1>14. \A late, m, x, s : Given(late, m, x, s)' <=> Given(late, m, x, s)
  BY <1>6 DEF Given
<1>15. \A n, late, p, m, x : ToldByEvent(n, late, p, m, x)' <=> ToldByEvent(n, late, p, m, x)
  BY <1>9, <1>10, <1>12, <1>13, <1>14 DEF ToldByEvent
<1>16. \A late, p, i, m, j, x : ToldByAuthor(late, p, i, m, j, x)' <=> ToldByAuthor(late, p, i, m, j, x)
  BY <1>1, <1>14 DEF ToldByAuthor
<1>17. \A n, late, m, x : ToldByCors(n, late, m, x)' <=> ToldByCors(n, late, m, x)
  BY <1>14 DEF ToldByCors
<1>18. \A n, late, p, i, m, j, x : Told(n, late, p, i, m, j, x)' <=> Told(n, late, p, i, m, j, x)
  BY <1>12, <1>13, <1>15, <1>16, <1>17 DEF Told
<1>19. \A paths, n, late : RoutesTold(paths, n, late)' <=> RoutesTold(paths, n, late)
  BY <1>11, <1>12, <1>13, <1>18 DEF RoutesTold
<1>20. DefaultsAreKnown' <=> DefaultsAreKnown
  BY <1>1, <1>2 DEF DefaultsAreKnown
<1> QED
  BY <1>19, <1>20

(* CORS adds an OPTIONS method for itself, where there is none.            *)
CorsAdded(old, new) ==
  /\ DOMAIN new = DOMAIN old
  /\ \A p \in DOMAIN old : DOMAIN new[p] = DOMAIN old[p]
  /\ \A p \in DOMAIN old : \A i \in DOMAIN old[p] :
       \/ new[p][i] = old[p][i]
       \/ /\ "options" \notin DOMAIN old[p][i]
          /\ DOMAIN new[p][i] = DOMAIN old[p][i] \cup {"options"}
          /\ \A m \in DOMAIN old[p][i] : new[p][i][m] = old[p][i][m]
          /\ \E allow : new[p][i]["options"] = <<OptionsMethodForCors(allow)>>
LEMMA CorsAdds ==
  ASSUME doc # NoDocument, IsDocument(doc), NEW paths
  PROVE  CorsAdded(doc.paths, AddCorsTo(paths).paths)
<1> DEFINE Item(items) == AddCors(items, template.methods)
<1>1. PICK old : old = doc.paths
  OBVIOUS
<1>2. PICK new : new = AddCorsTo(paths).paths
  OBVIOUS
<1>4. new = [p \in DOMAIN old |-> IF p \in paths THEN Item(old[p]) ELSE old[p]]
  BY <1>1, <1>2 DEF AddCorsTo, IsDocument, DocumentParts
<1>5. ASSUME NEW items
      PROVE  \E allow :
               /\ DOMAIN Item(items) = DOMAIN items
               /\ \A i \in DOMAIN items :
                    \/ Item(items)[i] = items[i]
                    \/ /\ "options" \notin DOMAIN items[i]
                       /\ DOMAIN Item(items)[i] = DOMAIN items[i] \cup {"options"}
                       /\ \A m \in DOMAIN items[i] : Item(items)[i][m] = items[i][m]
                       /\ Item(items)[i]["options"] = <<OptionsMethodForCors(allow)>>
  <2> DEFINE open == {i \in DOMAIN items : "options" \notin DOMAIN items[i]}
             allow == IF template.methods # {} THEN template.methods ELSE AllowedMethods(items[Min(open)])
  <2>1. PICK a : a = allow
    OBVIOUS
  <2>2. Item(items) = [i \in DOMAIN items |->
                         IF i \in open THEN items[i] ++ Only("options", <<OptionsMethodForCors(a)>>) ELSE items[i]]
    BY <2>1 DEF AddCors
  <2>3. PICK new1 : new1 = Item(items)
    OBVIOUS
  <2>4. PICK c : c = <<OptionsMethodForCors(a)>>
    OBVIOUS
  <2> HIDE DEF Item, allow
  <2>5. new1 = [i \in DOMAIN items |-> IF i \in open THEN items[i] ++ Only("options", c) ELSE items[i]]
    BY <2>2, <2>3, <2>4
  <2>6. /\ DOMAIN new1 = DOMAIN items
        /\ \A i \in DOMAIN items :
             \/ new1[i] = items[i]
             \/ /\ "options" \notin DOMAIN items[i]
                /\ DOMAIN new1[i] = DOMAIN items[i] \cup {"options"}
                /\ \A m \in DOMAIN items[i] : new1[i][m] = items[i][m]
                /\ new1[i]["options"] = c
    BY <2>5 DEF ++, Only
  <2> QED
    BY <2>3, <2>4, <2>6
<1> HIDE DEF Item
<1>6. /\ DOMAIN new = DOMAIN old
      /\ \A p \in DOMAIN old : DOMAIN new[p] = DOMAIN old[p]
  BY <1>4, <1>5
<1>7. ASSUME NEW p, NEW i, p \in DOMAIN old, i \in DOMAIN old[p]
      PROVE  \/ new[p][i] = old[p][i]
             \/ /\ "options" \notin DOMAIN old[p][i]
                /\ DOMAIN new[p][i] = DOMAIN old[p][i] \cup {"options"}
                /\ \A m \in DOMAIN old[p][i] : new[p][i][m] = old[p][i][m]
                /\ \E allow : new[p][i]["options"] = <<OptionsMethodForCors(allow)>>
  BY <1>4, <1>5, <1>7
<1> QED
  BY <1>1, <1>2, <1>6, <1>7 DEF CorsAdded

(* CORS gives preflight routes to items that have none.                    *)
LEMMA CorsTold ==
  ASSUME doc # NoDocument, IsDocument(doc), NEW paths, NEW n, n = Len(template.events),
         RoutesTold(doc.paths, n, FALSE)
  PROVE  RoutesTold(AddCorsTo(paths).paths, n, FALSE)
<1>1. PICK old, new : old = doc.paths /\ new = AddCorsTo(paths).paths
  OBVIOUS
<1>2. CorsAdded(old, new)
  BY <1>1, CorsAdds
<1>6. /\ DOMAIN new = DOMAIN old
      /\ \A p \in DOMAIN old : DOMAIN new[p] = DOMAIN old[p]
  BY <1>2 DEF CorsAdded
<1>7. ASSUME NEW p, NEW i, p \in DOMAIN old, i \in DOMAIN old[p]
      PROVE  \/ new[p][i] = old[p][i]
             \/ /\ "options" \notin DOMAIN old[p][i]
                /\ DOMAIN new[p][i] = DOMAIN old[p][i] \cup {"options"}
                /\ \A m \in DOMAIN old[p][i] : new[p][i][m] = old[p][i][m]
                /\ \E allow : new[p][i]["options"] = <<OptionsMethodForCors(allow)>>
  BY <1>2, <1>7 DEF CorsAdded
<1>8. ASSUME NEW p, NEW i, NEW m, MethodAt(new, p, i, m)
      PROVE  \/ MethodAt(old, p, i, m) /\ new[p][i][m] = old[p][i][m]
             \/ /\ ~MethodAt(old, p, i, m) /\ m = "options" /\ p \in DOMAIN old /\ i \in DOMAIN old[p]
                /\ \E allow : new[p][i][m] = <<OptionsMethodForCors(allow)>>
  BY <1>6, <1>7, <1>8 DEF MethodAt
<1>9. Full(old)
  BY <1>1 DEF RoutesTold
<1>10. \A allow : /\ DOMAIN <<OptionsMethodForCors(allow)>> # {}
                  /\ \A j \in DOMAIN <<OptionsMethodForCors(allow)>> :
                       IsSo(<<OptionsMethodForCors(allow)>>[j], "mock", Unset, <<>>)
  BY DEF OptionsMethodForCors, Method, NoMethod, IsSo
<1>11. Full(new)
  <2> SUFFICES ASSUME NEW p, NEW i, NEW m, MethodAt(new, p, i, m)
               PROVE  DOMAIN new[p][i][m] # {}
    BY DEF Full
  <2>1. CASE MethodAt(old, p, i, m) /\ new[p][i][m] = old[p][i][m]
    BY <1>9, <2>1 DEF Full
  <2>2. CASE \E allow : new[p][i][m] = <<OptionsMethodForCors(allow)>>
    BY <1>10, <2>2
  <2> QED
    BY <1>8, <2>1, <2>2
<1>12. ASSUME NEW p, NEW i, NEW m, NEW j, NEW x, IsAt(new, p, i, m, j, x)
       PROVE  Told(n, FALSE, p, i, m, j, x)
  <2>1. MethodAt(new, p, i, m)
    BY <1>12 DEF IsAt, MethodAt
  <2>2. CASE MethodAt(old, p, i, m)
    <3>1. IsAt(old, p, i, m, j, x)
      BY <1>8, <1>12, <2>1, <2>2 DEF IsAt, MethodAt
    <3> QED
      BY <1>1, <3>1 DEF RoutesTold
  <2>3. CASE ~MethodAt(old, p, i, m)
    <3>1. m = "options" /\ p \in DOMAIN old /\ i \in DOMAIN old[p]
      BY <1>8, <2>1, <2>3
    <3>2. PICK allow : new[p][i][m] = <<OptionsMethodForCors(allow)>>
      BY <1>8, <2>1, <2>3
    <3>3. IsSo(x, "mock", Unset, <<>>)
      BY <1>10, <1>12, <3>2 DEF IsAt
    <3>4. ToldByCors(n, FALSE, m, x)
      BY <3>1, <3>3 DEF ToldByCors, Given, IsSo
    <3>5. \A k \in EventsPut(n) : ~OnRoute(k, p, m)
      BY <1>1, <2>3, <3>1 DEF RoutesTold, Everywhere, OnRoute, MethodAt
    <3> QED
      BY <3>3, <3>4, <3>5 DEF Told, IsSo
  <2> QED
    BY <2>2, <2>3
<1>13. \A k \in EventsPut(n) : Everywhere(new, template.events[k].path, template.events[k].method)
  BY <1>1, <1>6, <1>7 DEF RoutesTold, Everywhere
<1> QED
  BY <1>1, <1>2, <1>11, <1>12, <1>13 DEF RoutesTold

(* The Auth of a REST API adds both defaults.                              *)
LEMMA RestAuthPassed ==
  ASSUME TypeInv, AddRestAuth
  PROVE  doc # NoDocument /\ Passed(doc.paths, doc'.paths)
<1>1. doc # NoDocument /\ IsRest /\ IsDocument(doc)
  BY DEF AddRestAuth, RefusedApiAuth, TypeInv
<1>2. PICK f0 : f0 = WithAuthorizers(doc)
  OBVIOUS
<1>3. PICK f : f = WithApiKeys(f0)
  OBVIOUS
<1>4. PICK g : g = WithPolicy(f)
  OBVIOUS
<1>5. doc' = OpenApiPostprocess(g)
  BY <1>2, <1>3, <1>4 DEF AddRestAuth, GoOn
<1>6. DefaultPassed(doc.paths, f0.paths) /\ IsDocument(f0)
  BY <1>1, <1>2, WithAuthorizersEdits, EditedIsDocument, WithAuthorizersPasses
<1>7. KeyPassed(f0.paths, f.paths) /\ IsDocument(f)
  BY <1>3, <1>6, WithApiKeysEdits, EditedIsDocument, WithApiKeysPasses
<1>8. PartsKept(f, g) /\ g.paths = f.paths
  BY <1>4, <1>7, WithPolicyCovers
<1>9. OpenApiPostprocess(g).paths = g.paths
  BY <1>8, OpenApiPostprocessMoves DEF PartsKept
<1>10. PICK old, mid, new : old = doc.paths /\ mid = f0.paths /\ new = f.paths
  OBVIOUS
<1>11. Passed(old, new)
  BY <1>1, <1>6, <1>7, <1>10, RestPasses
<1> QED
  BY <1>1, <1>5, <1>8, <1>9, <1>10, <1>11

(* An HTTP API has only the one default.                                   *)
LEMMA HttpAuthPassed ==
  ASSUME TypeInv, AddHttpAuth
  PROVE  doc # NoDocument /\ Passed(doc.paths, doc'.paths)
<1>1. doc # NoDocument /\ ~IsRest /\ IsDocument(doc)
  BY DEF AddHttpAuth, RefusedApiAuth, TypeInv
<1>2. PICK f : f = AddAuthorizersSecuritySchemes(doc, DefinitionsMade)
  OBVIOUS
<1>3. IsDocument(f) /\ f.paths = doc.paths
  BY <1>1, <1>2 DEF IsDocument, DocumentParts, AddAuthorizersSecuritySchemes, ++
<1>4. CASE Default = Unset
  <2>1. doc' = f
    BY <1>2, <1>4 DEF AddHttpAuth, GoOn
  <2> QED
    BY <1>1, <1>3, <1>4, <2>1, NothingPasses
<1>5. CASE Default # Unset
  <2>1. PICK g : g = SetHttpPathDefaultAuthorizer(f, Default, Authorizers)
    OBVIOUS
  <2>2. doc' = g
    BY <1>2, <1>5, <2>1 DEF AddHttpAuth, GoOn
  <2>3. Passed(f.paths, g.paths)
    BY <1>1, <1>3, <1>5, <2>1, HttpPasses
  <2> QED
    BY <1>1, <1>3, <2>2, <2>3
<1> QED
  BY <1>4, <1>5

(* A default that the Auth step accepts is known.                          *)
LEMMA DefaultKnown ==
  ASSUME AddRestAuth \/ AddHttpAuth, ~UnheededDefault(template)
  PROVE  DefaultsAreKnown
<1>1. Default \in {Unset} \cup KnownAuthorizers \/ (KnownAuthorizers = {} /\ IsRest)
  BY DEF AddRestAuth, AddHttpAuth, RefusedApiAuth, RefusedDefault
<1>2. CASE KnownAuthorizers = {} /\ IsRest
  <2>1. DOMAIN Authorizers = {} /\ Default # IAM
    BY <1>2 DEF KnownAuthorizers
  <2> QED
    BY <1>2, <2>1 DEF UnheededDefault, IsRest, Authorizers, Default, DefaultsAreKnown
<1> QED
  BY <1>1, <1>2 DEF DefaultsAreKnown

(* An API that accepts no events: none is put into its document.           *)
LEMMA NoneTold ==
  ASSUME NEW paths, NEW n \in Nat, n < Len(template.events), Len(template.events) \in Nat, ~Accepts(template),
         RoutesTold(paths, n, FALSE)
  PROVE  RoutesTold(paths, n + 1, FALSE)
<1>1. EventsPut(n) = {} /\ EventsPut(n + 1) = {} /\ n # Len(template.events)
  BY DEF EventsPut
<1>2. \A p, i, m, j, x : Told(n, FALSE, p, i, m, j, x) => Told(n + 1, FALSE, p, i, m, j, x)
  <2>1. \A p, m, x : ~ToldByEvent(n, FALSE, p, m, x)
    BY <1>1 DEF ToldByEvent
  <2>2. \A m, x : ~ToldByCors(n, FALSE, m, x)
    BY <1>1 DEF ToldByCors
  <2> QED
    BY <1>1, <2>1, <2>2 DEF Told
<1> QED
  BY <1>1, <1>2 DEF RoutesTold

(* Every step tells of the routes what the one before did, and more.       *)
LEMMA NextRoutesInv ==
  ASSUME TypeInv, PathsInv, RoutesInv, [Next]_vars
  PROVE  RoutesInv'
<1>1. template' = template
  BY StepLeavesTemplate
<1>2. PICK w, n, late : w = doc'.paths /\ n = integrated' /\ late = Late'
  OBVIOUS
<1> SUFFICES ASSUME doc' # NoDocument, at' \notin {"made", "refused"}, ~OwnRoute(template),
                    ~TwiceIntegrated(template), ~ReservedNames(template), ~UnheededDefault(template)
             PROVE  RoutesTold(w, n, late) /\ (late => DefaultsAreKnown)
  <2>1. RoutesTold(w, n, late)' <=> RoutesTold(w, n, late)
    BY <1>1, ToldFrame
  <2>2. DefaultsAreKnown' <=> DefaultsAreKnown
    BY <1>1, ToldFrame
  <2>3. RoutesTold(doc.paths, integrated, Late)' <=> RoutesTold(w, n, late)'
    BY <1>2
  <2> QED
    BY <1>1, <1>2, <2>1, <2>2, <2>3 
    DEF RoutesInv, Apart, OwnRoute, TwiceIntegrated, ReservedNames, UnheededDefault, Accepts
<1>3. doc # NoDocument /\ IsDocument(doc)
  BY StepGrows DEF TypeInv
<1>4. at \notin {"made", "refused"}
  BY DEF Next, vars, GoOn, Refuse, AddEvent, RefuseEvent, StartApi, SkipCors, RefuseCors, AddRestCors,
       AddHttpCorsSettings, SkipAuth, RefuseAuth, AddRestAuth, AddHttpAuth, AddGatewayResponsesStep,
       AddBinaryMediaTypesStep, AddModelsStep, AddEndpointExtension, AddHttpTags, FinishHttp, FinishRest, Done
<1>5. RoutesTold(doc.paths, integrated, Late) /\ (Late => DefaultsAreKnown)
  BY <1>3, <1>4 DEF RoutesInv, Apart
<1>6. ASSUME w = doc.paths, integrated' = integrated, late = Late
      PROVE  RoutesTold(w, n, late) /\ (late => DefaultsAreKnown)
  BY <1>2, <1>5, <1>6
<1>7. CASE AddEvent
  <2>1. ~Late /\ late = FALSE /\ n = integrated + 1 /\ Late = FALSE
    BY <1>2, <1>7 DEF AddEvent, Late
  <2>2. integrated \in Nat /\ integrated < Len(template.events) /\ Len(template.events) \in Nat
    BY <1>7, EventsAre DEF TypeInv, AddEvent
  <2>3. CASE ~AcceptsEvents
    <3>1. doc' = doc /\ ~Accepts(template)
      BY <1>3, <1>7, <2>3 DEF AddEvent, AcceptsEvents, Accepts, IsRest
    <3> QED
      BY <1>2, <1>5, <2>1, <2>2, <3>1, NoneTold
  <2>4. CASE AcceptsEvents
    <3>1. PICK d, f, e : d = doc /\ f = doc' /\ e = template.events[integrated + 1]
      OBVIOUS
    <3>2. ItemsInv(doc.paths)
      BY <1>3, <1>4 DEF PathsInv
    <3>3. EventRouted(d, f, e) /\ AcceptedEvent(e)
      BY <1>5, <1>7, <2>1, <2>4, <3>1, <3>2, AddEventRouted DEF Event
    <3>4. \A k \in EventsPut(integrated) : ~OnRoute(k, e.path, e.method)
      BY <1>5, <1>7, <2>1, <2>4, <3>1, NotPutYet DEF Event
    <3>5. Accepts(template)
      BY <2>4 DEF AcceptsEvents, Accepts, IsRest
    <3>6. RoutesTold(f.paths, integrated + 1, FALSE)
      BY <1>5, <2>1, <2>2, <3>1, <3>3, <3>4, <3>5, PutTold
    <3> QED
      BY <1>2, <2>1, <3>1, <3>6
  <2> QED
    BY <2>3, <2>4
<1>8. CASE StartApi \/ SkipCors
  BY <1>2, <1>6, <1>8 DEF StartApi, SkipCors, GoOn, Refuse, Late
<1>9. CASE RefuseEvent \/ RefuseCors \/ RefuseAuth \/ FinishHttp \/ FinishRest \/ Done
  BY <1>4, <1>9 DEF RefuseEvent, RefuseCors, RefuseAuth, FinishHttp, FinishRest, Done, Refuse
<1>10. CASE AddRestCors
  <2>1. late = FALSE /\ Late = FALSE /\ integrated' = integrated /\ integrated = Len(template.events)
    BY <1>2, <1>10 DEF AddRestCors, GoOn, Late, TypeInv
  <2>2. PICK paths : doc' = AddCorsTo(paths)
    BY <1>10 DEF AddRestCors, GoOn
  <2> QED
    BY <1>2, <1>3, <1>5, <2>1, <2>2, CorsTold
<1>11. CASE SetsAside
  <2>1. integrated' = integrated /\ late = Late
    BY <1>2, <1>11 DEF SetsAside, AddHttpCorsSettings, AddGatewayResponsesStep, AddBinaryMediaTypesStep,
       AddEndpointExtension, AddHttpTags, GoOn, Refuse, Late
  <2>2. w = doc.paths
    BY <1>2, <1>11, SetsAsideSets DEF Aside
  <2> QED
    BY <1>6, <2>1, <2>2
<1>12. CASE SkipAuth
  <2>1. late = TRUE /\ Late = FALSE /\ integrated' = integrated /\ w = doc.paths
    BY <1>2, <1>12 DEF SkipAuth, GoOn, Late
  <2>2. Default = Unset /\ ~template.key
    BY <1>12 DEF SkipAuth, HasAuth
  <2>3. Passed(w, w)
    BY <2>2, NothingPasses
  <2> QED
    BY <1>2, <1>5, <2>1, <2>2, <2>3, PassedTold DEF DefaultsAreKnown
<1>13. CASE AddRestAuth \/ AddHttpAuth
  <2>1. late = TRUE /\ Late = FALSE /\ integrated' = integrated
    BY <1>2, <1>13 DEF AddRestAuth, AddHttpAuth, GoOn, Late
  <2>2. PICK old : old = doc.paths
    OBVIOUS
  <2>3. Passed(old, w)
    BY <1>2, <1>13, <2>2, RestAuthPassed, HttpAuthPassed
  <2> QED
    BY <1>2, <1>5, <1>13, <2>1, <2>2, <2>3, PassedTold, DefaultKnown
<1>14. CASE AddModelsStep
  <2>1. integrated' = integrated /\ late = Late
    BY <1>2, <1>14 DEF AddModelsStep, GoOn, Refuse, Late
  <2>2. w = doc.paths
    <3>1. CASE doc' = doc
      BY <1>2, <3>1
    <3>2. CASE doc' # doc
      <4>1. PICK f : /\ IsDocument(f) /\ f = [doc EXCEPT !.models = @ \cup template.models]
                     /\ doc' = OpenApiPostprocess(f)
        BY <1>14, <3>2, AddModelsStepAdds
      <4>2. f.paths = doc.paths
        BY <1>3, <4>1 DEF IsDocument, DocumentParts
      <4>3. OpenApiPostprocess(f).paths = f.paths
        BY <4>1, OpenApiPostprocessMoves
      <4> QED
        BY <1>2, <4>1, <4>2, <4>3
    <3> QED
      BY <3>1, <3>2
  <2> QED
    BY <1>6, <2>1, <2>2
<1>15. CASE UNCHANGED vars
  BY <1>2, <1>6, <1>15 DEF vars, Late
<1> QED
  BY <1>7, <1>8, <1>9, <1>10, <1>11, <1>12, <1>13, <1>14, <1>15 DEF Next, SetsAside

(* When the definition is made each path is served with all its routes.    *)
RoutesServed(paths) ==
  /\ RoutesTold(paths, Len(template.events), TRUE)
  /\ DOMAIN Written.paths \subseteq DOMAIN paths
  /\ \A p \in DOMAIN paths : Served(p) \in DOMAIN doc.paths /\ doc.paths[Served(p)] = paths[p]
  /\ \A p \in DOMAIN doc.paths : \E q \in DOMAIN paths : p = Served(q)
MadeInv ==
  doc # NoDocument /\ at = "made" /\ Apart(template) /\ ~DefaultPathTwice(template) =>
    DefaultsAreKnown /\ \E paths : RoutesServed(paths)

(* A route of the author's that an event integrates in part is one.        *)
LEMMA PartIsOwn ==
  ASSUME NEW t, PartlyIntegrated(t), t.doc # NoDocument
  PROVE  OwnRoute(t)
<1>1. PICK k \in 1..Len(t.events) :
        LET e == t.events[k]
        IN  /\ e.path \in DOMAIN t.doc.paths
            /\ \E i \in DOMAIN t.doc.paths[e.path] :
                 /\ e.method \in DOMAIN t.doc.paths[e.path][i]
                 /\ \E j \in DOMAIN t.doc.paths[e.path][i][e.method] :
                      HasIntegrationIn(t.doc.paths[e.path][i][e.method][j])
  BY DEF PartlyIntegrated
<1>2. PICK e : e = t.events[k]
  OBVIOUS
<1>3. PICK i, j, x : IsAt(t.doc.paths, e.path, i, e.method, j, x) /\ HasIntegrationIn(x)
  BY <1>1, <1>2 DEF IsAt
<1>4. x \in DefinitionsOf(t.doc, e.path, e.method)
  BY <1>3, DefinitionsAt
<1>5. x # NoMethod
  BY <1>3 DEF HasIntegrationIn, NoMethod, Method
<1> QED
  BY <1>2, <1>3, <1>4, <1>5 DEF OwnRoute, PartlyIntegrated, IsAt

(* The last step serves the routes that it finds.                          *)
LEMMA FinishServesRoutes ==
  ASSUME TypeInv, PathsInv, RoutesInv, FinishHttp \/ FinishRest
  PROVE  MadeInv'
<1>1. template' = template /\ at = "body" /\ integrated = Len(template.events)
  BY StepLeavesTemplate DEF Next, FinishHttp, FinishRest, TypeInv
<1>2. \A p : Served(p)' = Served(p)
  BY <1>1 DEF Served, IsRest
<1>3. PICK old, new, n : old = doc.paths /\ new = doc'.paths /\ n = Len(template.events)
  OBVIOUS
<1> SUFFICES ASSUME doc' # NoDocument, at' = "made", Apart(template), ~DefaultPathTwice(template)
             PROVE  /\ DefaultsAreKnown /\ RoutesTold(old, n, TRUE)
                    /\ DOMAIN Written.paths \subseteq DOMAIN old
                    /\ \A p \in DOMAIN old : Served(p) \in DOMAIN new /\ new[Served(p)] = old[p]
                    /\ \A p \in DOMAIN new : \E q \in DOMAIN old : p = Served(q)
  <2>1. \A paths : RoutesTold(paths, n, TRUE)' <=> RoutesTold(paths, n, TRUE)
    BY <1>1, ToldFrame
  <2>2. DefaultsAreKnown' <=> DefaultsAreKnown
    BY <1>1, ToldFrame
  <2>3. \A paths : RoutesTold(paths, Len(template.events), TRUE)' <=> RoutesTold(paths, n, TRUE)'
    BY <1>1, <1>3
  <2>4. Apart(template)' <=> Apart(template)
    BY <1>1 DEF Apart, OwnRoute, TwiceIntegrated, ReservedNames, UnheededDefault, Accepts
  <2>5. DefaultPathTwice(template)' <=> DefaultPathTwice(template)
    BY <1>1 DEF DefaultPathTwice, PathsOf
  <2>6. Written' = Written
    BY <1>1 DEF Written
  <2>7. RoutesServed(old)' <=> /\ RoutesTold(old, n, TRUE)
                               /\ DOMAIN Written.paths \subseteq DOMAIN old
                               /\ \A p \in DOMAIN old : Served(p) \in DOMAIN new /\ new[Served(p)] = old[p]
                               /\ \A p \in DOMAIN new : \E q \in DOMAIN old : p = Served(q)
    BY <1>2, <1>3, <2>1, <2>3, <2>6 DEF RoutesServed
  <2> QED
    BY <2>2, <2>4, <2>5, <2>7 DEF MadeInv
<1>4. doc # NoDocument /\ IsDocument(doc)
  BY StepGrows DEF TypeInv, Next
<1>5. RoutesTold(old, n, TRUE) /\ DefaultsAreKnown
  <2>1. Late = TRUE
    BY <1>1 DEF Late
  <2> QED
    BY <1>1, <1>3, <1>4, <2>1 DEF RoutesInv
<1>6. ~PartlyIntegrated(template)
  BY <1>4, PartIsOwn DEF Apart, TypeInv, Written
<1>7. DOMAIN Written.paths \subseteq DOMAIN old
  BY <1>1, <1>3, <1>4, <1>6 DEF PathsInv, PathsKept
<1>8. ASSUME NEW p \in DOMAIN old
      PROVE  Served(p) \in DOMAIN new /\ new[Served(p)] = old[p]
  <2>1. CASE FinishRest
    <3>1. new = old
      BY <1>3, <1>4, <2>1, FinishRestAdds, OpenApiPostprocessMoves
    <3> QED
      BY <1>8, <2>1, <3>1, FinishRestAdds DEF Served
  <2>2. CASE FinishHttp
    <3>1. PICK f : /\ ~IsRest /\ IsDocument(f) /\ f.paths = old
                   /\ IF template.failOnWarnings THEN doc' = UpdateDefaultPath(f) ELSE doc' = f
      BY <1>3, <1>4, <2>2, FinishHttpAdds DEF Grown
    <3>2. CASE ~template.failOnWarnings
      BY <1>3, <1>8, <3>1, <3>2 DEF Served
    <3>3. CASE template.failOnWarnings
      <4>1. PICK g : g = UpdateDefaultPath(f)
        OBVIOUS
      <4>2. /\ DefaultPath \notin DOMAIN f.paths => g.paths = f.paths
            /\ DefaultPath \in DOMAIN f.paths =>
                 /\ DOMAIN g.paths = (DOMAIN f.paths \ {DefaultPath}) \cup {SlashedDefaultPath}
                 /\ g.paths[SlashedDefaultPath] = f.paths[DefaultPath]
                 /\ \A q \in DOMAIN f.paths \ {DefaultPath, SlashedDefaultPath} : g.paths[q] = f.paths[q]
        BY <3>1, <4>1, UpdateDefaultPathMoves
      <4>3. new = g.paths /\ f.paths = old
        BY <1>3, <3>1, <3>3, <4>1
      <4>4. CASE DefaultPath \notin DOMAIN old
        BY <1>8, <4>2, <4>3, <4>4 DEF Served
      <4>5. CASE p = DefaultPath
        BY <1>8, <3>1, <3>3, <4>2, <4>3, <4>5 DEF Served
      <4>6. CASE DefaultPath \in DOMAIN old /\ p # DefaultPath
        <5>1. \A q \in DOMAIN old : q \in PathsOf(template)
          BY <1>1, <1>3, <1>4 DEF PathsOf, PathsInv, Written
        <5>2. p # SlashedDefaultPath
          BY <1>4, <1>8, <3>1, <3>3, <4>6, <5>1 DEF DefaultPathTwice, IsRest, Written, TypeInv
        <5> QED
          BY <1>8, <4>2, <4>3, <4>6, <5>2 DEF Served
      <4> QED
        BY <4>4, <4>5, <4>6
    <3> QED
      BY <3>2, <3>3
  <2> QED
    BY <2>1, <2>2
<1>9. ASSUME NEW p \in DOMAIN new
      PROVE  \E q \in DOMAIN old : p = Served(q)
  <2>1. CASE FinishRest
    <3>1. new = old
      BY <1>3, <1>4, <2>1, FinishRestAdds, OpenApiPostprocessMoves
    <3> QED
      BY <1>9, <2>1, <3>1, FinishRestAdds DEF Served
  <2>2. CASE FinishHttp
    <3>1. PICK f : /\ ~IsRest /\ IsDocument(f) /\ f.paths = old
                   /\ IF template.failOnWarnings THEN doc' = UpdateDefaultPath(f) ELSE doc' = f
      BY <1>3, <1>4, <2>2, FinishHttpAdds DEF Grown
    <3>2. CASE ~template.failOnWarnings
      BY <1>3, <1>9, <3>1, <3>2 DEF Served
    <3>3. CASE template.failOnWarnings
      <4>1. PICK g : g = UpdateDefaultPath(f)
        OBVIOUS
      <4>2. /\ DefaultPath \notin DOMAIN f.paths => g.paths = f.paths
            /\ DefaultPath \in DOMAIN f.paths =>
                 DOMAIN g.paths = (DOMAIN f.paths \ {DefaultPath}) \cup {SlashedDefaultPath}
        BY <3>1, <4>1, UpdateDefaultPathMoves
      <4>3. new = g.paths /\ f.paths = old
        BY <1>3, <3>1, <3>3, <4>1
      <4>4. \A q : q # DefaultPath => Served(q) = q
        BY DEF Served
      <4>5. Served(DefaultPath) = SlashedDefaultPath
        BY <3>1, <3>3 DEF Served
      <4> QED
        BY <1>9, <4>2, <4>3, <4>4, <4>5
    <3> QED
      BY <3>2, <3>3
  <2> QED
    BY <2>1, <2>2
<1> QED
  BY <1>5, <1>7, <1>8, <1>9

(* No other step makes a definition.                                       *)
LEMMA NextMadeInv ==
  ASSUME TypeInv, PathsInv, RoutesInv, MadeInv, [Next]_vars
  PROVE  MadeInv'
<1>1. CASE FinishHttp \/ FinishRest
  BY <1>1, FinishServesRoutes
<1>2. CASE UNCHANGED vars
  <2>1. template' = template /\ doc' = doc /\ at' = at
    BY <1>2 DEF vars
  <2>2. \A p : Served(p)' = Served(p)
    BY <2>1 DEF Served, IsRest
  <2>3. Written' = Written
    BY <2>1 DEF Written
  <2>4. \A paths : RoutesTold(paths, Len(template.events), TRUE)' <=> RoutesTold(paths, Len(template.events), TRUE)
    <3>1. PICK n : n = Len(template.events)
      OBVIOUS
    <3>2. \A paths : RoutesTold(paths, n, TRUE)' <=> RoutesTold(paths, n, TRUE)
      BY <2>1, ToldFrame
    <3>3. \A paths : RoutesTold(paths, Len(template.events), TRUE)' <=> RoutesTold(paths, n, TRUE)'
      BY <2>1, <3>1
    <3> QED
      BY <3>1, <3>2, <3>3
  <2>5. \A paths : RoutesServed(paths)' <=> RoutesServed(paths)
    BY <2>1, <2>2, <2>3, <2>4 DEF RoutesServed
  <2>6. Apart(template)' <=> Apart(template)
    BY <2>1 DEF Apart, OwnRoute, TwiceIntegrated, ReservedNames, UnheededDefault, Accepts
  <2>7. DefaultPathTwice(template)' <=> DefaultPathTwice(template)
    BY <2>1 DEF DefaultPathTwice, PathsOf
  <2>8. DefaultsAreKnown' <=> DefaultsAreKnown
    BY <2>1, ToldFrame
  <2> QED
    BY <2>1, <2>5, <2>6, <2>7, <2>8 DEF MadeInv
<1>3. CASE ~(FinishHttp \/ FinishRest) /\ ~UNCHANGED vars
  <2>1. at' # "made"
    BY <1>3 DEF Next, vars, GoOn, Refuse, AddEvent, RefuseEvent, StartApi, SkipCors, RefuseCors, AddRestCors,
       AddHttpCorsSettings, SkipAuth, RefuseAuth, AddRestAuth, AddHttpAuth, AddGatewayResponsesStep,
       AddBinaryMediaTypesStep, AddModelsStep, AddEndpointExtension, AddHttpTags, Done
  <2> QED
    BY <2>1 DEF MadeInv
<1> QED
  BY <1>1, <1>2, <1>3

(* The credentials of a function's route are those of an AWS_IAM caller.   *)
LEMMA CredentialsAsked ==
  ASSUME IsRest, NEW e, IsEvent(e), e.by = "function", Unset \notin {IAM, "NONE"},
         ~(Default = IAM /\ e.authorizer = Unset /\ (e.auth \/ (e.method = "options" /\ ~template.preflightAuth)))
  PROVE  CredentialsOf(e) = RoleAsked(e)
<1>1. PICK role : role = IF e.role # Unset THEN e.role ELSE template.role
  OBVIOUS
<1>2. CredentialsOf(e) =
        IF e.authorizer = IAM \/ (Default = IAM /\ ~e.auth)
        THEN IF InvokeRole(role) = "NONE" THEN Unset ELSE InvokeRole(role) ELSE Unset
  BY <1>1 DEF CredentialsOf, Credentials
<1>3. RoleAsked(e) = IF AuthorizerOf(e) # IAM \/ role = "NONE" THEN Unset ELSE InvokeRole(role)
  BY <1>1 DEF RoleAsked
<1>4. InvokeRole(role) = "NONE" <=> role = "NONE"
  BY DEF InvokeRole
<1>5. AuthorizerOf(e) = IAM <=> e.authorizer = IAM \/ (Default = IAM /\ ~e.auth)
  BY DEF AuthorizerOf, IsEvent
<1> QED
  BY <1>2, <1>3, <1>4, <1>5

(* An event's route asks for what the event and the API say.               *)
LEMMA EventGuarded ==
  ASSUME TypeInv, NEW paths, RoutesServed(paths), DefaultsAreKnown, ~ReservedNames(template),
         ~KeyOfPreflight(template), ~PartialIam(template),
         Made, AcceptsEvents, NEW k \in 1..Len(template.events), NEW e, e = template.events[k],
         NEW d \in DefinitionsOf(doc, Served(e.path), e.method)
  PROVE  /\ Required(d) = Asked(e)
         /\ IsRest /\ e.by = "function" => d.credentials = RoleAsked(e)
<1>1. PICK n, p, m : n = Len(template.events) /\ p = e.path /\ m = e.method
  OBVIOUS
<1>2. /\ RoutesTold(paths, n, TRUE)
      /\ \A q \in DOMAIN paths : Served(q) \in DOMAIN doc.paths /\ doc.paths[Served(q)] = paths[q]
  BY <1>1 DEF RoutesServed
<1>3. k \in EventsPut(n) /\ OnRoute(k, p, m) /\ Accepts(template)
  BY <1>1 DEF AcceptsEvents, EventsPut, Accepts, OnRoute, IsRest
<1>4. p \in DOMAIN paths /\ AcceptedEvent(e)
  BY <1>1, <1>2, <1>3 DEF RoutesTold, Everywhere
<1>5. PICK i, j : IsAt(doc.paths, Served(p), i, m, j, d)
  BY <1>1, <1>2, <1>4, DefinitionsAt
<1>6. IsAt(paths, p, i, m, j, d)
  BY <1>2, <1>4, <1>5 DEF IsAt
<1>7. ToldByEvent(n, TRUE, p, m, d)
  BY <1>2, <1>3, <1>6 DEF RoutesTold, Told
<1>8. PICK l \in EventsPut(n) :
        /\ OnRoute(l, p, m)
        /\ d.integration = IntegrationOf(template.events[l])
        /\ d.credentials = CredentialsOf(template.events[l])
        /\ Given(TRUE, m, d, EventSecurity(template.events[l]))
  BY <1>7 DEF ToldByEvent
<1>9. l = k
  BY <1>1, <1>2, <1>3, <1>8 DEF RoutesTold
<1>10. d.integration \in {"lambda", "machine"} /\ d.credentials = CredentialsOf(e)
  BY <1>8, <1>9 DEF IntegrationOf
<1>11. d.security = Final(m, EventSecurity(e))
  BY <1>8, <1>9, <1>10 DEF Given, HasIntegrationIn
<1>12. IsEvent(e) /\ Unset \notin {IAM, "NONE", "required", "not required"} \cup DOMAIN Authorizers
  BY EventsAre, ApiDefinitionAssumption DEF TypeInv, Authorizers
<1>13. RequiredOf(Final(m, EventSecurity(e))) = Asked(e)
  <2>1. CASE ~IsRest
    BY <1>1, <1>4, <1>12, <2>1, HttpEventAsked
  <2>2. CASE IsRest
    <3>1. ~(template.key /\ ~template.preflightKey /\ e.method = "options" /\ e.key = "required")
      BY <1>3, <2>2 DEF KeyOfPreflight, IsRest, Accepts
    <3> QED
      BY <1>1, <1>4, <1>12, <2>2, <3>1, RestEventAsked
  <2> QED
    BY <2>1, <2>2
<1>14. ASSUME IsRest, e.by = "function"
       PROVE  d.credentials = RoleAsked(e)
  <2>1. ~(Default = IAM /\ e.authorizer = Unset /\ (e.auth \/ (e.method = "options" /\ ~template.preflightAuth)))
    BY <1>3, <1>14 DEF PartialIam, IsRest, Accepts, Default
  <2> QED
    BY <1>10, <1>12, <1>14, <2>1, CredentialsAsked
<1> QED
  BY <1>11, <1>13, <1>14 DEF Required, RequiredOf

(* A method that is no event's keeps what it asks for.                     *)
LEMMA AuthorGuarded ==
  ASSUME TypeInv, NEW paths, RoutesServed(paths), DefaultsAreKnown, ~ReservedNames(template),
         ~NoneAndMore(template), ~WrittenKey(template), Made,
         NEW p \in DOMAIN Written.paths, NEW i \in DOMAIN doc.paths[Served(p)],
         NEW m \in DOMAIN doc.paths[Served(p)][i], NEW j \in DOMAIN doc.paths[Served(p)][i][m],
         NEW d, d = doc.paths[Served(p)][i][m][j]
  PROVE  /\ d.integration = "mock" => Required(d) = AskedWithout(m, <<>>)
         /\ d.integration = "author" => Required(d) = AskedWithout(m, Written.paths[p][i][m][j].security)
<1>1. PICK n : n = Len(template.events)
  OBVIOUS
<1>2. /\ RoutesTold(paths, n, TRUE)
      /\ p \in DOMAIN paths /\ doc.paths[Served(p)] = paths[p]
  BY <1>1 DEF RoutesServed
<1>3. IsAt(paths, p, i, m, j, d)
  BY <1>2 DEF IsAt
<1>4. Told(n, TRUE, p, i, m, j, d)
  BY <1>2, <1>3 DEF RoutesTold
<1>5. Written # NoDocument /\ IsWritten(Written)
  BY ApiDefinitionAssumption DEF TypeInv, Written, Made
<1>6. Unset \notin {IAM, "NONE", "required", "not required"} \cup DOMAIN Authorizers
  BY ApiDefinitionAssumption DEF TypeInv, Authorizers
<1>7. ASSUME d.integration \in {"mock", "author"}
      PROVE  ToldByAuthor(TRUE, p, i, m, j, d) \/ ToldByCors(n, TRUE, m, d)
  <2>1. ~ToldByEvent(n, TRUE, p, m, d)
    BY <1>7 DEF ToldByEvent, IntegrationOf
  <2> QED
    BY <1>4, <2>1 DEF Told
<1>8. ASSUME NEW w, IsAt(Written.paths, p, i, m, j, w)
      PROVE  /\ w = Written.paths[p][i][m][j] /\ w.integration \in {"none", "author"}
             /\ w.security \in Seq(ToSet(w.security))
             /\ w \in DefinitionsOf(Written, p, m) /\ m \in MethodsOf(Written, p)
  <2>1. w \in DefinitionsOf(Written, p, m)
    BY <1>8, DefinitionsAt
  <2>2. m \in MethodsOf(Written, p)
    BY <1>8 DEF IsAt, MethodsOf
  <2> QED
    BY <1>5, <1>8, <2>1, <2>2 DEF IsAt, IsWritten
<1>9. ASSUME d.integration = "mock"
      PROVE  Required(d) = AskedWithout(m, <<>>)
  <2>1. ToldByCors(n, TRUE, m, d)
    BY <1>7, <1>8, <1>9 DEF ToldByAuthor
  <2>2. d.security = Final(m, <<>>)
    BY <1>9, <2>1 DEF ToldByCors, Given, HasIntegrationIn
  <2>3. NamesIn(<<>>) = {} /\ <<>> \in Seq({})
    BY DEF NamesIn
  <2>4. RequiredOf(Final(m, <<>>)) = AskedWithout(m, <<>>)
    BY <1>6, <2>3, AuthorAsked
  <2> QED
    BY <2>2, <2>4 DEF Required, RequiredOf
<1>10. ASSUME d.integration = "author"
       PROVE  Required(d) = AskedWithout(m, Written.paths[p][i][m][j].security)
  <2>1. ~ToldByCors(n, TRUE, m, d)
    BY <1>10 DEF ToldByCors
  <2>2. PICK w : IsAt(Written.paths, p, i, m, j, w) /\ Given(TRUE, m, d, w.security)
    BY <1>7, <1>10, <2>1 DEF ToldByAuthor
  <2>3. PICK s : s = w.security
    OBVIOUS
  <2>4. d.security = Final(m, s)
    BY <1>10, <2>2, <2>3 DEF Given, HasIntegrationIn
  <2>5. s \in Seq(ToSet(s))
    BY <1>8, <2>2, <2>3
  <2>6. IsRest /\ "NONE" \in NamesIn(s) => NamesIn(s) \cap Named = {}
    BY <1>5, <1>8, <2>2, <2>3 DEF NoneAndMore, Named, IsRest, Written, Authorizers
  <2>7. IsRest /\ template.key => NamesIn(s) \cap KeyNames = {}
    BY <1>5, <1>8, <2>2, <2>3 DEF WrittenKey, IsRest, Written
  <2>8. RequiredOf(Final(m, s)) = AskedWithout(m, s)
    BY <1>6, <2>5, <2>6, <2>7, AuthorAsked
  <2> QED
    BY <1>8, <2>2, <2>3, <2>4, <2>8 DEF Required, RequiredOf
<1> QED
  BY <1>9, <1>10

-----------------------------------------------------------------------------
(* Which definitions the security of a method names.                       *)

(* NONE names no definition.                                               *)
TrueNames(s) == NamesIn(s) \ {"NONE"}

(* The names are those of what is required.                                *)
LEMMA NamesRequired ==
  ASSUME NEW s
  PROVE  /\ \A n : n \in NamesIn(s) <=> \E x \in ToSet(s) : x.name = n
         /\ TrueNames(s) = {x.name : x \in RequiredOf(s)}
<1>1. \A n : n \in NamesIn(s) <=> \E x \in ToSet(s) : x.name = n
  BY DEF NamesIn, ToSet
<1> QED
  BY <1>1 DEF TrueNames, RequiredOf

(* The default authorizer's is the only new name that its pass brings.     *)
LEMMA DefaultPassNames ==
  ASSUME NEW R, NEW s \in Seq(R), Requirement(Default, DefaultScopes) \in R, NEW m
  PROVE  /\ DefaultPass(m, s) \in Seq(R)
         /\ TrueNames(DefaultPass(m, s)) \subseteq TrueNames(s) \cup ({Default} \ {Unset})
<1>1. PICK r : r = Requirement(Default, DefaultScopes)
  OBVIOUS
<1>2. PICK others : others = NotNaming(s, Named)
  OBVIOUS
<1>3. PICK own : own = Naming(s, Named)
  OBVIOUS
<1>4. PICK t : t = DefaultSecurity(s, Default, Authorizers)
  OBVIOUS
<1>5. others \in Seq(R) /\ ToSet(others) \subseteq ToSet(s)
  BY <1>2, NotNamingKeeps
<1>6. own \in Seq(R) /\ ToSet(own) \subseteq ToSet(s)
  BY <1>3, NamingKeeps
<1>7. t = IF "NONE" \in NamesIn(others)
          THEN RemoveAt(others, Min({i \in DOMAIN others : others[i].name = "NONE"}))
          ELSE others \o (IF own = <<>> THEN <<r>> ELSE own)
  BY <1>1, <1>2, <1>3, <1>4 DEF DefaultSecurity, Named, DefaultScopes
<1>8. t \in Seq(R) /\ RequiredOf(t) \subseteq RequiredOf(s) \cup {r}
  <2>1. CASE "NONE" \in NamesIn(others)
    <3>1. PICK K : K = {k \in DOMAIN others : others[k].name = "NONE"}
      OBVIOUS
    <3>2. K # {} /\ K \subseteq Nat
      BY <1>5, <2>1, <3>1 DEF NamesIn
    <3>3. \E k \in K : \A l \in K : k <= l
      BY <3>2, LeastIsIn
    <3>4. Min(K) \in K
      BY <3>3 DEF Min
    <3>5. PICK i \in DOMAIN others : i = Min(K) /\ others[i].name = "NONE"
      BY <3>1, <3>4
    <3>6. RemoveAt(others, i) \in Seq(R) /\ RequiredOf(RemoveAt(others, i)) = RequiredOf(others)
      BY <1>5, <3>5, RemoveNone
    <3> QED
      BY <1>5, <1>7, <2>1, <3>1, <3>5, <3>6 DEF RequiredOf
  <2>2. CASE "NONE" \notin NamesIn(others)
    <3>1. PICK more : more = IF own = <<>> THEN <<r>> ELSE own
      OBVIOUS
    <3>2. more \in Seq(R) /\ ToSet(more) \subseteq ToSet(s) \cup {r}
      BY <1>1, <1>6, <3>1, OneSet
    <3>3. t \in Seq(R) /\ ToSet(t) = ToSet(others) \cup ToSet(more)
      <4>1. t = others \o more
        BY <1>7, <2>2, <3>1
      <4> QED
        BY <1>5, <3>2, <4>1, BothSet
    <3> QED
      BY <1>5, <3>2, <3>3 DEF RequiredOf
  <2> QED
    BY <2>1, <2>2
<1>9. r.name = Default
  BY <1>1 DEF Requirement
<1>10. TrueNames(t) \subseteq TrueNames(s) \cup {Default}
  BY <1>8, <1>9, NamesRequired
<1>11. DefaultPass(m, s) \in {s, t} /\ (Default = Unset => DefaultPass(m, s) = s)
  BY <1>4 DEF DefaultPass
<1>12. CASE DefaultPass(m, s) = s
  BY <1>12
<1>13. CASE DefaultPass(m, s) = t /\ Default # Unset
  BY <1>8, <1>10, <1>13
<1> QED
  BY <1>11, <1>12, <1>13

(* That of keys takes both marks away, and may bring the one of a key.     *)
LEMMA KeyPassNames ==
  ASSUME NEW R, NEW s \in Seq(R), NEW m
  PROVE  /\ TrueNames(KeyPass(m, s)) \subseteq TrueNames(s) \cup (IF template.key THEN {"api_key"} ELSE {})
         /\ template.key => "api_key_false" \notin TrueNames(KeyPass(m, s))
<1>1. PICK k : k = Requirement("api_key", Unset)
  OBVIOUS
<1>2. k.name = "api_key"
  BY <1>1 DEF Requirement
<1>3. PICK t : t = KeyPass(m, s)
  OBVIOUS
<1>4. \A r \in RequiredOf(t) :
        \/ r \in RequiredOf(s) /\ (template.key => r.name \notin KeyNames)
        \/ template.key /\ r = k
  BY <1>1, <1>3, KeyPassRequires
<1>5. TrueNames(t) = {x.name : x \in RequiredOf(t)} /\ TrueNames(s) = {x.name : x \in RequiredOf(s)}
  BY NamesRequired
<1> QED
  BY <1>2, <1>3, <1>4, <1>5 DEF KeyNames

(* What both make of the names of a method.                                *)
LEMMA FinalNames ==
  ASSUME NEW R, NEW s \in Seq(R), NEW m
  PROVE  /\ TrueNames(Final(m, s)) \subseteq
              TrueNames(s) \cup ({Default} \ {Unset}) \cup (IF IsRest /\ template.key THEN {"api_key"} ELSE {})
         /\ IsRest /\ template.key => "api_key_false" \notin TrueNames(Final(m, s))
<1>1. PICK r : r = Requirement(Default, DefaultScopes)
  OBVIOUS
<1>2. PICK S : S = R \cup {r}
  OBVIOUS
<1>3. s \in Seq(S) /\ r \in S
  BY <1>2, SeqWider
<1>4. CASE IsRest
  <2>1. PICK t : t = DefaultPass(m, s)
    OBVIOUS
  <2>2. t \in Seq(S) /\ TrueNames(t) \subseteq TrueNames(s) \cup ({Default} \ {Unset})
    BY <1>1, <1>3, <2>1, DefaultPassNames
  <2>3. Final(m, s) = KeyPass(m, t)
    BY <1>4, <2>1 DEF Final
  <2>4. /\ TrueNames(KeyPass(m, t)) \subseteq TrueNames(t) \cup (IF template.key THEN {"api_key"} ELSE {})
        /\ template.key => "api_key_false" \notin TrueNames(KeyPass(m, t))
    BY <2>2, KeyPassNames
  <2> QED
    BY <1>4, <2>2, <2>3, <2>4
<1>5. CASE ~IsRest
  <2>1. \/ Final(m, s) = s
        \/ Final(m, s) = <<r>> /\ Default # Unset
    BY <1>1, <1>5 DEF Final, HttpPass
  <2>2. ToSet(<<r>>) = {r}
    BY OneSet
  <2>3. TrueNames(<<r>>) \subseteq {r.name}
    BY <2>2, NamesRequired DEF RequiredOf
  <2>4. r.name = Default
    BY <1>1 DEF Requirement
  <2>5. CASE Final(m, s) = s
    BY <1>5, <2>5
  <2>6. CASE Final(m, s) = <<r>> /\ Default # Unset
    BY <1>5, <2>3, <2>4, <2>6
  <2> QED
    BY <2>1, <2>5, <2>6
<1> QED
  BY <1>4, <1>5

(* What the events that are put into a REST API's document ask for beside  *)
(* the API's own authorizers.                                              *)
AskedFor(n) ==
  IF ~IsRest THEN {}
  ELSE (IF \E k \in EventsPut(n) : template.events[k].authorizer = IAM THEN {IAM} ELSE {}) \cup
       (IF \E k \in EventsPut(n) : template.events[k].key = "required" THEN {"api_key"} ELSE {})

(* Once the Auth step is done, the API's authorizers and its key too.      *)
Promised(n, late) ==
  AskedFor(n) \cup
    (IF late THEN KnownAuthorizers \cup (IF IsRest /\ template.key THEN {"api_key"} ELSE {}) ELSE {})

(* A method of the author's names what neither his document defines nor    *)
(* the API or its events.                                                  *)
AsksFor(e, n) ==
  \/ n = IAM /\ e.authorizer = IAM
  \/ n = "api_key" /\ e.key = "required"
KnownTo(t) ==
  DOMAIN t.authorizers \cup (IF (IF t.kind = "rest" THEN t.default = IAM ELSE t.iam) THEN {IAM} ELSE {}) \cup
    (IF t.kind # "rest" THEN {}
     ELSE {n \in {IAM, "api_key"} :
             \/ n = "api_key" /\ t.key
             \/ t.managed /\ \E k \in 1..Len(t.events) : AsksFor(t.events[k], n)})
UndefinedNames(t) ==
  /\ t.doc # NoDocument
  /\ \E p \in DOMAIN t.doc.paths : \E m \in MethodsOf(t.doc, p) : \E w \in DefinitionsOf(t.doc, p, m) :
       ~(TrueNames(w.security) \subseteq DOMAIN t.doc.definitions \cup DOMAIN t.doc.schemes \cup KnownTo(t))

(* The names of an event's route at a REST API,                            *)
LEMMA RestEventNames ==
  ASSUME IsRest, NEW e, IsEvent(e), AcceptedEvent(e), NEW m,
         Unset \notin {IAM, "NONE", "required", "not required"} \cup DOMAIN Authorizers,
         DefaultsAreKnown
  PROVE  TrueNames(Final(m, EventSecurity(e))) \subseteq
           KnownAuthorizers \cup (IF template.key THEN {"api_key"} ELSE {}) \cup
           (IF e.authorizer = IAM THEN {IAM} ELSE {}) \cup (IF e.key = "required" THEN {"api_key"} ELSE {})
<1>1. PICK a, k : a = AuthorizedBy(e) /\ k = KeyMark(e)
  OBVIOUS
<1>2. PICK s : s = EventSecurity(e)
  OBVIOUS
<1>3. /\ s \in Seq({a, k})
      /\ ToSet(s) = (IF e.authorizer = Unset THEN {} ELSE {a}) \cup (IF e.key = Unset THEN {} ELSE {k})
  BY <1>1, <1>2, EventSecuritySet
<1>4. a.name = e.authorizer /\ k.name = IF e.key = "required" THEN "api_key" ELSE "api_key_false"
  BY <1>1 DEF AuthorizedBy, KeyMark, Requirement
<1>5. /\ TrueNames(Final(m, s)) \subseteq
           TrueNames(s) \cup ({Default} \ {Unset}) \cup (IF template.key THEN {"api_key"} ELSE {})
      /\ template.key => "api_key_false" \notin TrueNames(Final(m, s))
  BY <1>3, FinalNames
<1>6. ~RefusedAuth(e)
  BY DEF AcceptedEvent
<1>7. /\ e.authorizer \in {Unset, IAM, "NONE"} \cup DOMAIN Authorizers
      /\ e.key \in {Unset, "required", "not required"} /\ (e.key = "not required" => template.key)
  BY <1>6 DEF RefusedAuth, IsEvent
<1>8. \A n \in TrueNames(s) : /\ n # "NONE"
                              /\ \/ e.authorizer # Unset /\ n = e.authorizer
                                 \/ e.key # Unset /\ n = k.name
  <2>1. TrueNames(s) = {x.name : x \in RequiredOf(s)}
    BY NamesRequired
  <2>2. \A x \in RequiredOf(s) : /\ x.name # "NONE"
                                 /\ \/ x = a /\ e.authorizer # Unset
                                    \/ x = k /\ e.key # Unset
    BY <1>3 DEF RequiredOf
  <2> QED
    BY <1>4, <2>1, <2>2
<1>9. DOMAIN Authorizers \subseteq KnownAuthorizers /\ Default \in {Unset} \cup KnownAuthorizers
  BY DEF KnownAuthorizers, DefaultsAreKnown
<1>10. \A n \in TrueNames(s) :
         \/ n \in KnownAuthorizers \/ (n = IAM /\ e.authorizer = IAM)
         \/ (e.key = "required" /\ n = "api_key") \/ (template.key /\ n = "api_key_false")
  <2> SUFFICES ASSUME NEW n \in TrueNames(s)
               PROVE  \/ n \in KnownAuthorizers \/ (n = IAM /\ e.authorizer = IAM)
                      \/ (e.key = "required" /\ n = "api_key") \/ (template.key /\ n = "api_key_false")
    OBVIOUS
  <2>1. CASE e.authorizer # Unset /\ n = e.authorizer
    BY <1>7, <1>8, <1>9, <2>1
  <2>2. CASE e.key # Unset /\ n = k.name
    BY <1>4, <1>7, <2>2
  <2> QED
    BY <1>8, <2>1, <2>2
<1> QED
  BY <1>2, <1>5, <1>9, <1>10

(* and at an HTTP API.                                                     *)
LEMMA HttpEventNames ==
  ASSUME ~IsRest, NEW e, IsEvent(e), AcceptedEvent(e), NEW m, DefaultsAreKnown
  PROVE  TrueNames(Final(m, EventSecurity(e))) \subseteq KnownAuthorizers
<1>1. PICK w : w = WithDefault(e)
  OBVIOUS
<1>2. PICK a : a = AuthorizedBy(w)
  OBVIOUS
<1>3. a.name = w.authorizer
  BY <1>2 DEF AuthorizedBy, Requirement
<1>4. PICK s : s = EventSecurity(e)
  OBVIOUS
<1>5. s = IF e.auth THEN <<a>> ELSE <<>>
  BY <1>1, <1>2, <1>4 DEF EventSecurity
<1>6. e.auth => w.authorizer \in {"NONE"} \cup KnownAuthorizers
  BY <1>1 DEF AcceptedEvent, RefusedHttpAuth, KnownAuthorizers
<1>7. s \in Seq({a}) /\ ToSet(s) = IF e.auth THEN {a} ELSE {}
  <2>1. <<a>> \in Seq({a}) /\ ToSet(<<a>>) = {a}
    BY OneSet
  <2>2. <<>> \in Seq({a}) /\ ToSet(<<>>) = {}
    BY EmptySet
  <2> QED
    BY <1>5, <2>1, <2>2
<1>8. TrueNames(s) \subseteq KnownAuthorizers
  <2>1. TrueNames(s) = {x.name : x \in RequiredOf(s)}
    BY NamesRequired
  <2> QED
    BY <1>3, <1>6, <1>7, <2>1 DEF RequiredOf
<1>9. TrueNames(Final(m, s)) \subseteq TrueNames(s) \cup ({Default} \ {Unset})
  BY <1>7, FinalNames
<1> QED
  BY <1>4, <1>8, <1>9 DEF DefaultsAreKnown

(* Each name that a route of the definition asks for is promised, or of    *)
(* the author's document.                                                  *)
LEMMA RouteNames ==
  ASSUME TypeInv, NEW paths, RoutesServed(paths), DefaultsAreKnown, ~UndefinedNames(template), Made,
         NEW p \in DOMAIN doc.paths, NEW m, NEW d \in DefinitionsOf(doc, p, m), HasIntegrationIn(d)
  PROVE  TrueNames(d.security) \subseteq
           Promised(integrated, TRUE) \cup DOMAIN Written.definitions \cup DOMAIN Written.schemes
<1>1. PICK n : n = Len(template.events)
  OBVIOUS
<1>2. PICK q : /\ q \in DOMAIN paths /\ p = Served(q)
               /\ RoutesTold(paths, n, TRUE) /\ doc.paths[p] = paths[q]
  BY <1>1 DEF RoutesServed
<1>3. PICK i, j : IsAt(doc.paths, p, i, m, j, d)
  BY DefinitionsAt
<1>4. IsAt(paths, q, i, m, j, d)
  BY <1>2, <1>3 DEF IsAt
<1>5. Told(n, TRUE, q, i, m, j, d)
  BY <1>2, <1>4 DEF RoutesTold
<1>6. PICK known : known = Promised(integrated, TRUE)
  OBVIOUS
<1>7. integrated = n
  BY <1>1 DEF TypeInv, Made
<1>8. /\ KnownAuthorizers \subseteq known
      /\ IsRest /\ template.key => "api_key" \in known
      /\ AskedFor(n) \subseteq known
  BY <1>6, <1>7 DEF Promised
<1>9. Default \in {Unset} \cup known
  BY <1>8 DEF DefaultsAreKnown
<1>10. \A s : d.security = Final(m, s) /\ s \in Seq(ToSet(s)) => TrueNames(d.security) \subseteq TrueNames(s) \cup known
  <2> SUFFICES ASSUME NEW s, d.security = Final(m, s), s \in Seq(ToSet(s))
               PROVE  TrueNames(d.security) \subseteq TrueNames(s) \cup known
    OBVIOUS
  <2>1. TrueNames(Final(m, s)) \subseteq
              TrueNames(s) \cup ({Default} \ {Unset}) \cup (IF IsRest /\ template.key THEN {"api_key"} ELSE {})
    BY FinalNames
  <2> QED
    BY <1>8, <1>9, <2>1
<1>11. CASE ToldByEvent(n, TRUE, q, m, d)
  <2>1. PICK k \in EventsPut(n) : Given(TRUE, m, d, EventSecurity(template.events[k]))
    BY <1>11 DEF ToldByEvent
  <2>2. PICK e : e = template.events[k]
    OBVIOUS
  <2>3. d.security = Final(m, EventSecurity(e))
    BY <2>1, <2>2 DEF Given
  <2>4. AcceptedEvent(e)
    BY <1>2, <2>2 DEF RoutesTold
  <2>5. IsEvent(e) /\ Unset \notin {IAM, "NONE", "required", "not required"} \cup DOMAIN Authorizers
    BY <1>1, <2>2, EventsAre, ApiDefinitionAssumption DEF TypeInv, Authorizers, EventsPut
  <2>6. CASE ~IsRest
    BY <1>6, <1>8, <2>3, <2>4, <2>5, <2>6, HttpEventNames
  <2>7. CASE IsRest
    <3>1. /\ e.authorizer = IAM => IAM \in known
          /\ e.key = "required" => "api_key" \in known
      BY <1>8, <2>2, <2>7 DEF AskedFor
    <3>2. TrueNames(Final(m, EventSecurity(e))) \subseteq
           KnownAuthorizers \cup (IF template.key THEN {"api_key"} ELSE {}) \cup
           (IF e.authorizer = IAM THEN {IAM} ELSE {}) \cup (IF e.key = "required" THEN {"api_key"} ELSE {})
      BY <2>4, <2>5, <2>7, RestEventNames
    <3> QED
      BY <1>6, <1>8, <2>3, <2>7, <3>1, <3>2
  <2> QED
    BY <1>6, <2>6, <2>7
<1>12. CASE ToldByAuthor(TRUE, q, i, m, j, d)
  <2>1. PICK w : IsAt(Written.paths, q, i, m, j, w) /\ Given(TRUE, m, d, w.security)
    BY <1>12 DEF ToldByAuthor
  <2>2. PICK s : s = w.security
    OBVIOUS
  <2>3. d.security = Final(m, s)
    BY <2>1, <2>2 DEF Given
  <2>4. Written # NoDocument /\ IsWritten(Written)
    BY ApiDefinitionAssumption DEF TypeInv, Written, Made
  <2>5. s \in Seq(ToSet(s))
    BY <2>1, <2>2, <2>4 DEF IsAt, IsWritten
  <2>6. w \in DefinitionsOf(Written, q, m) /\ q \in DOMAIN Written.paths /\ m \in MethodsOf(Written, q)
    BY <2>1, DefinitionsAt DEF IsAt, MethodsOf
  <2>7. TrueNames(s) \subseteq DOMAIN Written.definitions \cup DOMAIN Written.schemes \cup KnownTo(template)
    BY <2>2, <2>4, <2>6 DEF UndefinedNames, Written
  <2>8. KnownTo(template) \subseteq known
    <3>1. ASSUME IsRest, template.managed, NEW k \in 1..Len(template.events), NEW x, AsksFor(template.events[k], x)
          PROVE  x \in known
      <4>1. k \in EventsPut(n)
        BY <1>1, <3>1 DEF EventsPut, Accepts
      <4> QED
        BY <1>8, <3>1, <4>1 DEF AskedFor, AsksFor
    <3>2. CASE IsRest
      BY <1>8, <3>1, <3>2 DEF KnownAuthorizers, KnownTo, Authorizers, Default, IsRest
    <3>3. CASE ~IsRest
      BY <1>8, <3>3 DEF KnownAuthorizers, KnownTo, Authorizers, Default, IsRest
    <3> QED
      BY <3>2, <3>3
  <2>9. TrueNames(d.security) \subseteq TrueNames(s) \cup known
    BY <1>10, <2>3, <2>5
  <2> QED
    BY <1>6, <2>7, <2>8, <2>9
<1>13. CASE ToldByCors(n, TRUE, m, d)
  <2>1. d.security = Final(m, <<>>)
    BY <1>13 DEF ToldByCors, Given
  <2>2. <<>> \in Seq(ToSet(<<>>))
    BY EmptySet
  <2>3. TrueNames(<<>>) = {}
    BY DEF TrueNames, NamesIn
  <2>4. TrueNames(d.security) \subseteq TrueNames(<<>>) \cup known
    BY <1>10, <2>1, <2>2
  <2> QED
    BY <1>6, <2>3, <2>4
<1> QED
  BY <1>5, <1>11, <1>12, <1>13 DEF Told

-----------------------------------------------------------------------------
(* What is promised is defined.                                            *)

(* An event's Auth defines AWS_IAM and the API key, if it asks for them.   *)
LEMMA AuthDefines ==
  ASSUME IsRest, NEW d, NEW f, IsDocument(f), NEW e, NEW integration, integration # "none", NEW credentials,
         Routed(d, f, e, integration, credentials, <<>>), DOMAIN f.paths[e.path] # {}
  PROVE  /\ e.authorizer = IAM /\ IAM # Unset => IAM \in DOMAIN AddAuthToSwagger(f, e).definitions
         /\ e.key = "required" /\ "required" # Unset => "api_key" \in DOMAIN AddAuthToSwagger(f, e).definitions
<1>1. PICK a : a = AuthorizedBy(e)
  OBVIOUS
<1>2. a.name = e.authorizer
  BY <1>1 DEF AuthorizedBy, Requirement
<1>3. PICK g : g = IF e.authorizer = Unset THEN f ELSE SetMethodAuthorizer(f, e, Authorizers)
  OBVIOUS
<1>4. PICK k : k = IF e.key = Unset THEN g ELSE SetMethodApiKeyHandling(g, e)
  OBVIOUS
<1>5. k = AddAuthToMethod(f, e, Authorizers)
  BY <1>3, <1>4 DEF AddAuthToMethod
<1>6. IsDocument(g) /\ (e.authorizer = IAM /\ IAM # Unset => IAM \in DOMAIN g.definitions)
  <2>1. CASE e.authorizer = Unset
    BY <1>3, <2>1
  <2>2. CASE e.authorizer # Unset
    <3>1. PICK h : h = WithRequirement(f, e, a)
      OBVIOUS
    <3>2. Append(<<>>, a) = <<a>>
      OBVIOUS
    <3>3. Routed(d, h, e, integration, credentials, <<a>>) /\ IsDocument(h) /\ SameRoutes(f.paths, h.paths)
      BY <3>1, <3>2, RoutedRequirement, WithRequirementEdits, EditedIsDocument DEF Edited
    <3>4. PICK starts : starts = \E y \in DefinitionsOf(h, e.path, e.method) : StartsWithIam(y)
      OBVIOUS
    <3>5. g = WithIamIf(h, starts)
      <4> DEFINE made == WithRequirement(f, e, AuthorizedBy(e))
      <4>1. SetMethodAuthorizer(f, e, Authorizers) =
              WithIamIf(made, \E y \in DefinitionsOf(made, e.path, e.method) : StartsWithIam(y))
        BY DEF SetMethodAuthorizer, WithRequirement, AuthorizedBy
      <4>2. h = made
        BY <1>1, <3>1
      <4> HIDE DEF made
      <4> QED
        BY <1>3, <2>2, <3>4, <4>1, <4>2
    <3>6. ASSUME e.authorizer = IAM
          PROVE  starts
      <4>1. /\ e.path \in DOMAIN h.paths
            /\ \A i \in DOMAIN h.paths[e.path] :
                 /\ e.method \in DOMAIN h.paths[e.path][i] /\ DOMAIN h.paths[e.path][i][e.method] # {}
                 /\ \A j \in DOMAIN h.paths[e.path][i][e.method] : h.paths[e.path][i][e.method][j].security = <<a>>
        BY <3>3 DEF Routed, RouteIs, IsSo
      <4>2. PICK i : i \in DOMAIN h.paths[e.path]
        BY <3>3, <4>1 DEF SameRoutes
      <4>3. PICK j : j \in DOMAIN h.paths[e.path][i][e.method]
        BY <4>1, <4>2
      <4>4. PICK y : y = h.paths[e.path][i][e.method][j]
        OBVIOUS
      <4>5. y \in DefinitionsOf(h, e.path, e.method)
        BY <4>1, <4>2, <4>3, <4>4, DefinitionsAt DEF IsAt
      <4>6. y.security = <<a>>
        BY <4>1, <4>2, <4>3, <4>4
      <4>7. <<a>> # <<>> /\ <<a>>[1] = a
        OBVIOUS
      <4>8. StartsWithIam(y)
        BY <1>2, <3>6, <4>6, <4>7 DEF StartsWithIam
      <4> QED
        BY <3>4, <4>5, <4>8
    <3>7. IsDocument(g)
      BY <3>3, <3>5, WithIamIfEdits DEF PartsKept
    <3>8. starts => IAM \in DOMAIN g.definitions
      BY <3>3, <3>5 DEF WithIamIf, AddAwsIamSecurityDefinition, IsDocument, DocumentParts, ++, Only
    <3> QED
      BY <3>6, <3>7, <3>8
  <2> QED
    BY <2>1, <2>2
<1>7. /\ IsDocument(k) /\ DOMAIN g.definitions \subseteq DOMAIN k.definitions
      /\ e.key = "required" /\ "required" # Unset => "api_key" \in DOMAIN k.definitions
  <2>1. CASE e.key = Unset
    BY <1>4, <1>6, <2>1
  <2>2. CASE e.key # Unset
    <3>1. PICK r : r = KeyMark(e)
      OBVIOUS
    <3>2. PICK l : l = WithRequirement(g, e, r)
      OBVIOUS
    <3>3. IsDocument(l) /\ DOMAIN g.definitions \subseteq DOMAIN l.definitions
      BY <1>6, <3>2, WithRequirementEdits DEF Edited, Kept, PartsKept
    <3>4. k = IF e.key = "required" THEN AddApiKeySecurityDefinition(l) ELSE l
      BY <1>4, <2>2, <3>1, <3>2 DEF SetMethodApiKeyHandling, WithRequirement, KeyMark
    <3>5. /\ IsDocument(AddApiKeySecurityDefinition(l))
          /\ DOMAIN AddApiKeySecurityDefinition(l).definitions = DOMAIN l.definitions \cup {"api_key"}
      BY <3>3 DEF AddApiKeySecurityDefinition, IsDocument, DocumentParts, ++, Only
    <3> QED
      BY <3>3, <3>4, <3>5
  <2> QED
    BY <2>1, <2>2
<1>8. AddAuthToSwagger(f, e).definitions = k.definitions
  BY <1>5, <1>7 DEF AddAuthToSwagger, AddCustomStatements, AddResourcePolicy, IsDocument, DocumentParts
<1> QED
  BY <1>6, <1>7, <1>8

(* So do the events of functions and of state machines.                    *)
LEMMA EventDefines ==
  ASSUME TypeInv, AddEvent, AcceptsEvents, IsRest, RoutesTold(doc.paths, integrated, FALSE),
         ~TwiceIntegrated(template), ~OwnRoute(template), ItemsInv(doc.paths)
  PROVE  /\ Event.authorizer = IAM => IAM \in DOMAIN doc'.definitions
         /\ Event.key = "required" => "api_key" \in DOMAIN doc'.definitions
<1>1. PICK e : e = Event
  OBVIOUS
<1>2. doc # NoDocument /\ IsDocument(doc)
  BY DEF AcceptsEvents, TypeInv
<1>3. Free(doc.paths, e.path, e.method)
  BY <1>1, NextRouteFree
<1>4. PICK new : new = doc'
  OBVIOUS
<1>5. PICK integration, c : /\ integration # "none"
                            /\ \/ /\ integration = "machine" /\ c = "role of the machine"
                                  /\ new = AddAuthToSwagger(Integrate(doc, e.path, e.method, integration, c), e)
                               \/ new = AddModelOf(AddAuthToSwagger(Integrate(doc, e.path, e.method, integration, c), e), e)
  <2>1. CASE e.by = "machine"
    <3>1. new = AddAuthToSwagger(Integrate(doc, e.path, e.method, "machine", "role of the machine"), e)
      BY <1>1, <1>4, <2>1 DEF AddEvent, IntegrateMachine, AddStateMachineIntegration
    <3> QED
      BY <3>1
  <2>2. CASE e.by # "machine"
    <3>1. PICK c : c = CredentialsOf(e)
      OBVIOUS
    <3>2. AddLambdaIntegration(doc, e, Default, template.role) = Integrate(doc, e.path, e.method, "lambda", c)
      BY <2>2, <3>1 DEF AddLambdaIntegration, CredentialsOf
    <3>3. new = AddModelOf(AddAuthToSwagger(Integrate(doc, e.path, e.method, "lambda", c), e), e)
      BY <1>1, <1>4, <2>2, <3>2 DEF AddEvent, IntegrateFunction
    <3> QED
      BY <3>3
  <2> QED
    BY <2>1, <2>2
<1>6. PICK f : f = Integrate(doc, e.path, e.method, integration, c)
  OBVIOUS
<1>7. Routed(doc, f, e, integration, c, <<>>)
  BY <1>2, <1>3, <1>6, IntegrateRoute DEF Routed
<1>8. IsDocument(f)
  BY <1>2, <1>6, Integrating DEF PartsKept
<1>9. DOMAIN f.paths[e.path] # {}
  BY <1>2, <1>6, Integrating DEF ItemsInv
<1>10. PICK g : g = AddAuthToSwagger(f, e)
  OBVIOUS
<1>11. /\ e.authorizer = IAM => IAM \in DOMAIN g.definitions
       /\ e.key = "required" => "api_key" \in DOMAIN g.definitions
  BY <1>5, <1>7, <1>8, <1>9, <1>10, AuthDefines, ApiDefinitionAssumption
<1>12. IsDocument(g)
  BY <1>8, <1>10, AddAuthToSwaggerEdits, EditedIsDocument
<1>13. DOMAIN g.definitions \subseteq DOMAIN new.definitions
  BY <1>5, <1>6, <1>10, <1>12, AddModelOfEdits DEF Edited, Kept, PartsKept
<1> QED
  BY <1>1, <1>4, <1>11, <1>13

(* What is promised is in securityDefinitions, or moved from there; at an  *)
(* HTTP API it is in components.                                           *)
IsHeld(d, names) ==
  \/ names \subseteq DOMAIN d.definitions
  \/ Moves(d) /\ d.definitions = <<>> /\ names \subseteq DOMAIN d.schemes
PromisedInv ==
  doc # NoDocument /\ at # "refused" /\ Apart(template) =>
    /\ IsRest /\ ~Late => Promised(integrated, FALSE) \subseteq DOMAIN doc.definitions
    /\ IsRest /\ Late => IsHeld(doc, Promised(integrated, TRUE))
    /\ IsRest /\ at = "made" /\ Moves(doc) => doc.definitions = <<>>
    /\ ~IsRest /\ Late => Promised(integrated, TRUE) \subseteq DOMAIN doc.schemes

(* What is promised depends on the template only.                          *)
LEMMA PromisedFrame ==
  ASSUME template' = template
  PROVE  /\ \A n, late : Promised(n, late)' = Promised(n, late)
         /\ IsRest' <=> IsRest
         /\ Apart(template)' <=> Apart(template)
         /\ \A d : Moves(d)' <=> Moves(d)
         /\ \A d, names : IsHeld(d, names)' <=> IsHeld(d, names)
<1>1. (IsRest' <=> IsRest) /\ Authorizers' = Authorizers /\ Default' = Default
  BY DEF IsRest, Authorizers, Default
<1>2. KnownAuthorizers' = KnownAuthorizers
  BY <1>1 DEF KnownAuthorizers
<1>3. \A n : EventsPut(n)' = EventsPut(n)
  BY DEF EventsPut
<1>4. \A n : AskedFor(n)' = AskedFor(n)
  BY <1>1, <1>3 DEF AskedFor
<1>5. \A n, late : Promised(n, late)' = Promised(n, late)
  BY <1>1, <1>2, <1>4 DEF Promised
<1>6. Apart(template)' <=> Apart(template)
  BY DEF Apart, OwnRoute, TwiceIntegrated, ReservedNames, UnheededDefault, Accepts
<1>7. \A d : Moves(d)' <=> Moves(d)
  BY DEF Moves
<1>8. \A d, names : IsHeld(d, names)' <=> IsHeld(d, names)
  BY <1>7 DEF IsHeld
<1> QED
  BY <1>1, <1>5, <1>6, <1>7, <1>8

(* Moving keeps what is held where it is looked for.                       *)
LEMMA MovedHeld ==
  ASSUME NEW d, IsDocument(d), NEW names, IsHeld(d, names)
  PROVE  /\ IsHeld(OpenApiPostprocess(d), names)
         /\ Moves(OpenApiPostprocess(d)) => OpenApiPostprocess(d).definitions = <<>>
<1>1. PICK e : e = OpenApiPostprocess(d)
  OBVIOUS
<1>2. CASE ~Moves(d)
  BY <1>2, OpenApiPostprocessMoves
<1>3. CASE Moves(d)
  <2>1. /\ e.version = d.version /\ e.definitions = <<>>
        /\ e.schemes = (IF d.definitions # <<>> THEN d.definitions ELSE d.schemes)
    BY <1>1, <1>3, OpenApiPostprocessMoves
  <2>2. DOMAIN <<>> = {}
    OBVIOUS
  <2>3. Moves(e)
    BY <1>3, <2>1 DEF Moves
  <2>4. names \subseteq DOMAIN e.schemes
    <3>1. CASE d.definitions = <<>>
      BY <2>1, <2>2, <3>1 DEF IsHeld
    <3>2. CASE d.definitions # <<>>
      BY <2>1, <3>2 DEF IsHeld
    <3> QED
      BY <3>1, <3>2
  <2> QED
    BY <1>1, <2>1, <2>3, <2>4 DEF IsHeld
<1> QED
  BY <1>2, <1>3

(* The Auth step of a REST API defines its authorizers and its key,        *)
LEMMA RestAuthPromises ==
  ASSUME TypeInv, AddRestAuth, Promised(integrated, FALSE) \subseteq DOMAIN doc.definitions
  PROVE  IsHeld(doc', Promised(integrated, TRUE))
<1>1. doc # NoDocument /\ IsRest /\ IsDocument(doc)
  BY DEF AddRestAuth, RefusedApiAuth, TypeInv
<1>2. PICK f0 : f0 = WithAuthorizers(doc)
  OBVIOUS
<1>3. PICK f : f = WithApiKeys(f0)
  OBVIOUS
<1>4. PICK g : g = WithPolicy(f)
  OBVIOUS
<1>5. doc' = OpenApiPostprocess(g)
  BY <1>2, <1>3, <1>4 DEF AddRestAuth, GoOn
<1>6. /\ IsDocument(f0)
      /\ DOMAIN doc.definitions \subseteq DOMAIN f0.definitions /\ KnownAuthorizers \subseteq DOMAIN f0.definitions
  <2>1. CASE KnownAuthorizers = {}
    BY <1>1, <1>2, <2>1, WithAuthorizersEdits
  <2>2. CASE KnownAuthorizers # {}
    <3>1. PICK a : a = AddAuthorizersSecurityDefinitions(doc, DefinitionsMade)
      OBVIOUS
    <3>2. DOMAIN DefinitionsMade = KnownAuthorizers
      BY DEF DefinitionsMade
    <3>3. IsDocument(a) /\ DOMAIN a.definitions = KnownAuthorizers \cup DOMAIN doc.definitions
      BY <1>1, <3>1, <3>2 DEF AddAuthorizersSecurityDefinitions, IsDocument, DocumentParts, ++
    <3>4. PICK t : t = template
      OBVIOUS
    <3>5. Edited(a, SetPathDefaultAuthorizer(a, t.default, t.authorizers, t.preflightAuth))
      BY <3>3, SetPathDefaultAuthorizerEdits
    <3>6. f0 \in {a, SetPathDefaultAuthorizer(a, t.default, t.authorizers, t.preflightAuth)}
      BY <1>2, <2>2, <3>1, <3>4 DEF WithAuthorizers, Authorizers, Default
    <3> QED
      BY <3>3, <3>5, <3>6 DEF Edited, Kept, PartsKept
  <2> QED
    BY <2>1, <2>2
<1>7. /\ IsDocument(f) /\ DOMAIN f0.definitions \subseteq DOMAIN f.definitions
      /\ template.key => "api_key" \in DOMAIN f.definitions
  <2>1. CASE ~template.key
    BY <1>3, <1>6, <2>1 DEF WithApiKeys
  <2>2. CASE template.key
    <3>1. PICK a : a = AddApiKeySecurityDefinition(f0)
      OBVIOUS
    <3>2. IsDocument(a) /\ DOMAIN a.definitions = DOMAIN f0.definitions \cup {"api_key"}
      BY <1>6, <3>1 DEF AddApiKeySecurityDefinition, IsDocument, DocumentParts, ++, Only
    <3>3. PICK preflight : preflight = template.preflightKey
      OBVIOUS
    <3>4. Edited(a, SetPathDefaultApiKeyRequired(a, preflight))
      BY <3>2, SetPathDefaultApiKeyRequiredEdits
    <3>5. f = SetPathDefaultApiKeyRequired(a, preflight)
      BY <1>3, <2>2, <3>1, <3>3 DEF WithApiKeys
    <3> QED
      BY <3>2, <3>4, <3>5 DEF Edited, Kept, PartsKept
  <2> QED
    BY <2>1, <2>2
<1>8. IsDocument(g) /\ g.definitions = f.definitions
  BY <1>4, <1>7, WithPolicyCovers DEF PartsKept
<1>9. Promised(integrated, TRUE) \subseteq DOMAIN g.definitions
  BY <1>6, <1>7, <1>8 DEF Promised
<1>10. IsHeld(g, Promised(integrated, TRUE))
  BY <1>9 DEF IsHeld
<1>11. PICK names : names = Promised(integrated, TRUE)
  OBVIOUS
<1> QED
  BY <1>5, <1>8, <1>10, <1>11, MovedHeld

(* and that of an HTTP API its authorizers.                                *)
LEMMA HttpAuthPromises ==
  ASSUME TypeInv, AddHttpAuth
  PROVE  Promised(integrated, TRUE) \subseteq DOMAIN doc'.schemes
<1>1. doc # NoDocument /\ ~IsRest /\ IsDocument(doc)
  BY DEF AddHttpAuth, RefusedApiAuth, TypeInv
<1>2. PICK a : a = AddAuthorizersSecuritySchemes(doc, DefinitionsMade)
  OBVIOUS
<1>3. DOMAIN DefinitionsMade = KnownAuthorizers
  BY DEF DefinitionsMade
<1>4. IsDocument(a) /\ DOMAIN a.schemes = KnownAuthorizers \cup DOMAIN doc.schemes
  BY <1>1, <1>2, <1>3 DEF AddAuthorizersSecuritySchemes, IsDocument, DocumentParts, ++
<1>5. PICK t : t = template
  OBVIOUS
<1>6. Edited(a, SetHttpPathDefaultAuthorizer(a, t.default, t.authorizers))
  BY <1>4, SetHttpPathDefaultAuthorizerEdits
<1>7. doc' \in {a, SetHttpPathDefaultAuthorizer(a, t.default, t.authorizers)}
  BY <1>2, <1>5 DEF AddHttpAuth, GoOn, Authorizers, Default
<1>8. KnownAuthorizers \subseteq DOMAIN doc'.schemes
  BY <1>4, <1>6, <1>7 DEF Edited, Kept, PartsKept
<1> QED
  BY <1>1, <1>8 DEF Promised, AskedFor

(* An early promise is one of events only: none before the first.          *)
LEMMA InitPromisedInv ==
  ASSUME Init
  PROVE  PromisedInv
<1>1. EventsPut(integrated) = {} /\ ~Late /\ at = "events"
  BY DEF Init, EventsPut, Late
<1>2. Promised(integrated, FALSE) = {}
  BY <1>1 DEF Promised, AskedFor
<1> QED
  BY <1>1, <1>2 DEF PromisedInv

(* An event that is put into the document has it define what it asks for.  *)
LEMMA EventPromises ==
  ASSUME TypeInv, PathsInv, RoutesInv, PromisedInv, AddEvent
  PROVE  PromisedInv'
<1>1. template' = template /\ integrated' = integrated + 1 /\ at = "events" /\ at' = "events"
  BY DEF AddEvent
<1>2. PICK n, new : n = integrated /\ new = doc'
  OBVIOUS
<1>3. PICK more : more = Promised(n + 1, FALSE)
  OBVIOUS
<1>4. Promised(integrated, FALSE)' = more
  <2>1. \A m, l : Promised(m, l)' = Promised(m, l)
    BY <1>1, PromisedFrame
  <2>2. Promised(integrated, FALSE)' = Promised(n + 1, FALSE)'
    BY <1>1, <1>2
  <2> QED
    BY <1>3, <2>1, <2>2
<1>5. (IsRest' <=> IsRest) /\ (Apart(template)' <=> Apart(template)) /\ ~Late /\ ~Late'
  BY <1>1, PromisedFrame DEF Late
<1> SUFFICES ASSUME new # NoDocument, Apart(template), IsRest
             PROVE  more \subseteq DOMAIN new.definitions
  BY <1>1, <1>2, <1>4, <1>5 DEF PromisedInv
<1>6. doc # NoDocument
  BY <1>2, StepGrows DEF Next
<1>7. Promised(n, FALSE) \subseteq DOMAIN doc.definitions
  BY <1>1, <1>2, <1>5, <1>6 DEF PromisedInv
<1>8. n \in Nat
  BY <1>2 DEF TypeInv
<1>9. CASE ~AcceptsEvents
  <2>1. new = doc /\ ~Accepts(template)
    BY <1>2, <1>6, <1>9 DEF AddEvent, AcceptsEvents, Accepts, IsRest
  <2>2. EventsPut(n + 1) = {}
    BY <2>1 DEF EventsPut
  <2>3. more = {}
    BY <1>3, <2>2 DEF Promised, AskedFor
  <2> QED
    BY <2>3
<1>10. CASE AcceptsEvents
  <2>1. Accepts(template)
    BY <1>10 DEF AcceptsEvents, Accepts, IsRest
  <2>2. EventsPut(n + 1) = EventsPut(n) \cup {n + 1}
    BY <1>8, <2>1 DEF EventsPut
  <2>3. PICK e : e = template.events[n + 1]
    OBVIOUS
  <2>4. more \subseteq Promised(n, FALSE) \cup (IF e.authorizer = IAM THEN {IAM} ELSE {})
                                           \cup (IF e.key = "required" THEN {"api_key"} ELSE {})
    BY <1>3, <2>2, <2>3 DEF Promised, AskedFor
  <2>5. RoutesTold(doc.paths, integrated, FALSE) /\ ~TwiceIntegrated(template) /\ ~OwnRoute(template)
    <3>1. RoutesTold(doc.paths, integrated, Late)
      BY <1>1, <1>6 DEF RoutesInv
    <3>2. Late = FALSE
      BY <1>1 DEF Late
    <3> QED
      BY <3>1, <3>2 DEF Apart
  <2>6. ItemsInv(doc.paths)
    BY <1>1, <1>6 DEF PathsInv
  <2>7. /\ e.authorizer = IAM => IAM \in DOMAIN new.definitions
        /\ e.key = "required" => "api_key" \in DOMAIN new.definitions
    BY <1>2, <1>10, <2>3, <2>5, <2>6, EventDefines DEF Event
  <2>8. DOMAIN doc.definitions \subseteq DOMAIN new.definitions
    BY <1>2, <1>10, AddEventPuts DEF EventPut, PartsKept
  <2> QED
    BY <1>7, <2>4, <2>7, <2>8
<1> QED
  BY <1>9, <1>10

(* What has to be shown of such a step, in terms of the state before it.   *)
LEMMA PromisedNext ==
  ASSUME template' = template, integrated' = integrated, NEW new, new = doc',
         new # NoDocument /\ at' # "refused" /\ Apart(template) =>
           /\ IsRest /\ ~Late' => Promised(integrated, FALSE) \subseteq DOMAIN new.definitions
           /\ IsRest /\ Late' => IsHeld(new, Promised(integrated, TRUE))
           /\ IsRest /\ at' = "made" /\ Moves(new) => new.definitions = <<>>
           /\ ~IsRest /\ Late' => Promised(integrated, TRUE) \subseteq DOMAIN new.schemes
  PROVE  PromisedInv'
<1>1. PICK n : n = integrated
  OBVIOUS
<1>2. PICK early, late : early = Promised(n, FALSE) /\ late = Promised(n, TRUE)
  OBVIOUS
<1>3. /\ Promised(integrated, FALSE)' = early /\ Promised(integrated, TRUE)' = late
      /\ IsRest' <=> IsRest
      /\ Apart(template)' <=> Apart(template)
      /\ Moves(doc)' <=> Moves(new)
      /\ IsHeld(doc, Promised(integrated, TRUE))' <=> IsHeld(new, late)
  <2>1. \A m, l : Promised(m, l)' = Promised(m, l)
    BY PromisedFrame
  <2>2. Promised(integrated, FALSE)' = Promised(n, FALSE)' /\ Promised(integrated, TRUE)' = Promised(n, TRUE)'
    BY <1>1
  <2>3. /\ Moves(doc)' <=> Moves(new)'
        /\ IsHeld(doc, Promised(integrated, TRUE))' <=> IsHeld(new, late)'
    <3>1. late' = late /\ new' = new
      OBVIOUS
    <3> QED
      BY <1>1, <1>2, <2>1, <2>2 DEF Moves, IsHeld
  <2> QED
    BY <1>2, <2>1, <2>2, <2>3, PromisedFrame
<1> QED
  BY <1>1, <1>2, <1>3 DEF PromisedInv

(* Steps that leave all definitions where they are, and make no definition *)
(* of a REST API.                                                          *)
LEMMA KeptPromised ==
  ASSUME PromisedInv, template' = template, integrated' = integrated, at # "refused", doc # NoDocument,
         doc'.version = doc.version, doc'.definitions = doc.definitions,
         DOMAIN doc.schemes \subseteq DOMAIN doc'.schemes, Late' <=> Late,
         at' = "made" => at = "made" \/ ~IsRest
  PROVE  PromisedInv'
<1>1. PICK new : new = doc'
  OBVIOUS
<1>2. Moves(new) <=> Moves(doc)
  BY <1>1 DEF Moves
<1>3. \A names : IsHeld(doc, names) => IsHeld(new, names)
  BY <1>1, <1>2 DEF IsHeld
<1>4. Apart(template) =>
        /\ IsRest /\ ~Late => Promised(integrated, FALSE) \subseteq DOMAIN doc.definitions
        /\ IsRest /\ Late => IsHeld(doc, Promised(integrated, TRUE))
        /\ IsRest /\ at = "made" /\ Moves(doc) => doc.definitions = <<>>
        /\ ~IsRest /\ Late => Promised(integrated, TRUE) \subseteq DOMAIN doc.schemes
  BY DEF PromisedInv
<1> QED
  BY <1>1, <1>2, <1>3, <1>4, PromisedNext

(* Without Auth the API promises no more than the events did.              *)
LEMMA NothingPromised ==
  ASSUME SkipAuth
  PROVE  \A n : /\ Promised(n, TRUE) = Promised(n, FALSE)
                /\ ~IsRest => Promised(n, TRUE) = {}
<1>1. Authorizers = <<>> /\ Default = Unset /\ ~template.key /\ ~template.iam
  BY DEF SkipAuth, HasAuth
<1>2. DOMAIN Authorizers = {}
  BY <1>1
<1>3. KnownAuthorizers = {}
  BY <1>1, <1>2, ApiDefinitionAssumption DEF KnownAuthorizers
<1> QED
  BY <1>1, <1>3 DEF Promised, AskedFor

(* Every step keeps the promises.                                          *)
LEMMA NextPromisedInv ==
  ASSUME TypeInv, PathsInv, RoutesInv, PromisedInv, [Next]_vars
  PROVE  PromisedInv'
<1>1. template' = template
  BY StepLeavesTemplate
<1>2. PICK new : new = doc'
  OBVIOUS
<1> SUFFICES ASSUME new # NoDocument, at' # "refused"
             PROVE  PromisedInv'
  BY <1>2 DEF PromisedInv
<1>3. doc # NoDocument /\ IsDocument(doc)
  BY <1>2, StepGrows DEF TypeInv
<1>4. CASE AddEvent
  BY <1>4, EventPromises
<1> SUFFICES ASSUME ~AddEvent
             PROVE  PromisedInv'
  BY <1>4
<1>5. integrated' = integrated /\ at # "refused"
  BY DEF Next, vars, GoOn, Refuse, RefuseEvent, StartApi, SkipCors, RefuseCors, AddRestCors,
       AddHttpCorsSettings, SkipAuth, RefuseAuth, AddRestAuth, AddHttpAuth, AddGatewayResponsesStep,
       AddBinaryMediaTypesStep, AddModelsStep, AddEndpointExtension, AddHttpTags, FinishHttp, FinishRest, Done
<1>6. Apart(template) =>
        /\ IsRest /\ ~Late => Promised(integrated, FALSE) \subseteq DOMAIN doc.definitions
        /\ IsRest /\ Late => IsHeld(doc, Promised(integrated, TRUE))
        /\ ~IsRest /\ Late => Promised(integrated, TRUE) \subseteq DOMAIN doc.schemes
  BY <1>3, <1>5 DEF PromisedInv
<1>7. CASE StartApi \/ SkipCors \/ Done \/ UNCHANGED vars
  <2>1. doc' = doc /\ (Late' <=> Late) /\ (at' = "made" => at = "made")
    BY <1>7 DEF StartApi, SkipCors, Done, GoOn, Refuse, Late, vars
  <2> QED
    BY <1>1, <1>3, <1>5, <2>1, KeptPromised
<1>8. CASE RefuseEvent \/ RefuseCors \/ RefuseAuth
  BY <1>8 DEF RefuseEvent, RefuseCors, RefuseAuth, Refuse
<1>9. CASE AddRestCors
  <2>1. (Late' <=> Late) /\ at' # "made"
    BY <1>9 DEF AddRestCors, GoOn, Late
  <2>2. doc'.definitions = doc.definitions /\ doc'.schemes = doc.schemes /\ doc'.version = doc.version
    BY <1>9, AddRestCorsAdds DEF Kept, PartsKept
  <2> QED
    BY <1>1, <1>3, <1>5, <2>1, <2>2, KeptPromised
<1>10. CASE SetsAside
  <2>1. (Late' <=> Late) /\ at' # "made"
    BY <1>10 DEF SetsAside, AddHttpCorsSettings, AddGatewayResponsesStep, AddBinaryMediaTypesStep,
       AddEndpointExtension, AddHttpTags, GoOn, Refuse, Late
  <2>2. doc'.definitions = doc.definitions /\ doc'.schemes = doc.schemes /\ doc'.version = doc.version
    BY <1>10, SetsAsideSets DEF Aside, PartsKept
  <2> QED
    BY <1>1, <1>3, <1>5, <2>1, <2>2, KeptPromised
<1>11. CASE SkipAuth
  <2>1. new = doc /\ Late' /\ ~Late /\ at' # "made"
    BY <1>2, <1>11 DEF SkipAuth, GoOn, Late
  <2>2. /\ Promised(integrated, TRUE) = Promised(integrated, FALSE)
        /\ ~IsRest => Promised(integrated, TRUE) = {}
    BY <1>11, NothingPromised
  <2>3. IsRest /\ Apart(template) => IsHeld(doc, Promised(integrated, TRUE))
    BY <1>6, <2>1, <2>2 DEF IsHeld
  <2> QED
    BY <1>1, <1>2, <1>5, <2>1, <2>2, <2>3, PromisedNext
<1>12. CASE AddRestAuth
  <2>1. Late' /\ ~Late /\ at' # "made" /\ IsRest
    BY <1>12 DEF AddRestAuth, GoOn, Late
  <2>2. Apart(template) => IsHeld(doc', Promised(integrated, TRUE))
    BY <1>6, <1>12, <2>1, RestAuthPromises
  <2> QED
    BY <1>1, <1>2, <1>5, <2>1, <2>2, PromisedNext
<1>13. CASE AddHttpAuth
  <2>1. Late' /\ at' # "made" /\ ~IsRest
    BY <1>13 DEF AddHttpAuth, GoOn, Late
  <2>2. Promised(integrated, TRUE) \subseteq DOMAIN doc'.schemes
    BY <1>13, HttpAuthPromises
  <2> QED
    BY <1>1, <1>2, <1>5, <2>1, <2>2, PromisedNext
<1>14. CASE AddModelsStep
  <2>1. Late' /\ Late /\ at' # "made" /\ IsRest
    BY <1>14 DEF AddModelsStep, GoOn, Refuse, Late, TypeInv
  <2>2. CASE doc' = doc
    BY <1>1, <1>3, <1>5, <2>1, <2>2, KeptPromised
  <2>3. CASE doc' # doc
    <3>1. PICK f : /\ IsDocument(f) /\ f = [doc EXCEPT !.models = @ \cup template.models]
                   /\ doc' = OpenApiPostprocess(f)
      BY <1>14, <2>3, AddModelsStepAdds
    <3>2. f.version = doc.version /\ f.definitions = doc.definitions /\ f.schemes = doc.schemes
      BY <1>3, <3>1 DEF IsDocument, DocumentParts
    <3>3. PICK names : names = Promised(integrated, TRUE)
      OBVIOUS
    <3>4. IsHeld(doc, names) => IsHeld(f, names)
      BY <3>2 DEF IsHeld, Moves
    <3>5. Apart(template) => IsHeld(OpenApiPostprocess(f), names)
      BY <1>6, <2>1, <3>1, <3>3, <3>4, MovedHeld
    <3> QED
      BY <1>1, <1>2, <1>5, <2>1, <3>1, <3>3, <3>5, PromisedNext
  <2> QED
    BY <2>2, <2>3
<1>15. CASE FinishHttp
  <2>1. Late' /\ Late
    BY <1>15 DEF FinishHttp, Refuse, Late
  <2>2. ~IsRest /\ DOMAIN doc.schemes \subseteq DOMAIN new.schemes
    <3>1. CASE doc' = doc
      BY <1>2, <1>15, <3>1, FinishHttpAdds
    <3>2. CASE doc' # doc
      <4>1. PICK f : /\ Grown(doc, f) /\ f.schemes = doc.schemes
                     /\ IF template.failOnWarnings THEN doc' = UpdateDefaultPath(f) ELSE doc' = f
        BY <1>15, <3>2, FinishHttpAdds
      <4>2. IsDocument(f)
        BY <4>1 DEF Grown
      <4>3. PartsKept(f, UpdateDefaultPath(f))
        BY <4>2, UpdateDefaultPathMoves
      <4>4. DOMAIN f.schemes \subseteq DOMAIN new.schemes
        BY <1>2, <4>1, <4>3 DEF PartsKept
      <4> QED
        BY <1>15, <4>1, <4>4, FinishHttpAdds
    <3> QED
      BY <3>1, <3>2
  <2> QED
    BY <1>1, <1>2, <1>5, <1>6, <2>1, <2>2, PromisedNext
<1>16. CASE FinishRest
  <2>1. Late' /\ Late /\ IsRest /\ new = OpenApiPostprocess(doc)
    BY <1>2, <1>3, <1>16 DEF FinishRest, Late
  <2>2. PICK names : names = Promised(integrated, TRUE)
    OBVIOUS
  <2>3. Apart(template) => IsHeld(new, names) /\ (Moves(new) => new.definitions = <<>>)
    BY <1>3, <1>6, <2>1, <2>2, MovedHeld
  <2> QED
    BY <1>1, <1>2, <1>5, <2>1, <2>2, <2>3, PromisedNext
<1> QED
  BY <1>7, <1>8, <1>9, <1>10, <1>11, <1>12, <1>13, <1>14, <1>15, <1>16 DEF Next, SetsAside

-----------------------------------------------------------------------------
(* Which models and validators the methods name.                           *)

IsNamed(x, models, validators) ==
  DOMAIN x = DOMAIN NoMethod /\ x.model \in models /\ x.validator \in validators
NamesOnly(paths, models, validators) ==
  \A p, i, m, j, x : IsAt(paths, p, i, m, j, x) => IsNamed(x, models, validators)

(* More names may be known,                                                *)
LEMMA NamedWider ==
  ASSUME NEW paths, NEW models, NEW validators, NamesOnly(paths, models, validators),
         NEW more, models \subseteq more, NEW others, validators \subseteq others
  PROVE  NamesOnly(paths, more, others)
BY DEF NamesOnly, IsNamed

(* and of one route it is enough to look at that route.                    *)
LEMMA RouteNamed ==
  ASSUME NEW old, NEW new, NEW path, NEW method, NEW models, NEW validators,
         Others(old, new, path, method), NamesOnly(old, models, validators),
         \A i, j, x : IsAt(new, path, i, method, j, x) => IsNamed(x, models, validators)
  PROVE  NamesOnly(new, models, validators)
BY DEF NamesOnly, Others

(* An integration names nothing,                                           *)
LEMMA IntegrateNamed ==
  ASSUME NEW d, IsDocument(d), NEW path, NEW method, NEW integration, NEW credentials,
         NEW models, NEW validators, Unset \in models, Unset \in validators,
         NamesOnly(d.paths, models, validators)
  PROVE  /\ NamesOnly(Integrate(d, path, method, integration, credentials).paths, models, validators)
         /\ path \in DOMAIN Integrate(d, path, method, integration, credentials).paths
<1>1. PICK old, new : old = d.paths /\ new = Integrate(d, path, method, integration, credentials).paths
  OBVIOUS
<1>2. /\ Others(old, new, path, method)
      /\ HasOrGets(old, new, path, method)
      /\ EachIntegrated(old, new, path, method, integration, credentials)
  BY <1>1, IntegrateEach
<1>3. IsNamed(NoMethod, models, validators)
  BY DEF IsNamed, NoMethod, Method
<1>4. \A x, y : IsNamed(y, models, validators) /\ IntegratedAs(x, y, integration, credentials)
                => IsNamed(x, models, validators)
  BY DEF IsNamed, IntegratedAs, NoMethod, Method
<1>5. \A i, j, x : IsAt(new, path, i, method, j, x) => IsNamed(x, models, validators)
  BY <1>1, <1>2, <1>3, <1>4 DEF EachIntegrated, NamesOnly
<1>6. NamesOnly(new, models, validators)
  BY <1>1, <1>2, <1>5, RouteNamed
<1> QED
  BY <1>1, <1>2, <1>6 DEF HasOrGets

(* nor does a requirement.                                                 *)
LEMMA RequirementNamed ==
  ASSUME NEW d, IsDocument(d), NEW event, event.path \in DOMAIN d.paths, NEW requirement,
         NEW models, NEW validators, NamesOnly(d.paths, models, validators)
  PROVE  /\ NamesOnly(WithRequirement(d, event, requirement).paths, models, validators)
         /\ DOMAIN WithRequirement(d, event, requirement).paths = DOMAIN d.paths
<1> DEFINE e == WithRequirement(d, event, requirement)
           Edit(x) == IF HasIntegrationIn(x) THEN [x EXCEPT !.security = Append(@, requirement)] ELSE x
           Item(item) == [item EXCEPT ![event.method] = [j \in DOMAIN @ |-> Edit(@[j])]]
<1>1. e.paths = [d.paths EXCEPT ![event.path] = [i \in DOMAIN d.paths[event.path] |-> Item(d.paths[event.path][i])]]
  <2>1. e = [d EXCEPT !.paths[event.path] = [i \in DOMAIN @ |-> Item(@[i])]]
    BY DEF OnMethodDefinitions, WithRequirement
  <2> HIDE DEF e, Item
  <2> QED
    BY <2>1 DEF IsDocument, DocumentParts
<1>2. \A x : IsNamed(x, models, validators) => IsNamed(Edit(x), models, validators)
  BY DEF IsNamed, NoMethod, Method
<1>3. \A item : /\ DOMAIN Item(item) = DOMAIN item
                /\ \A m \in DOMAIN item : m # event.method => Item(item)[m] = item[m]
                /\ event.method \in DOMAIN item =>
                     /\ DOMAIN Item(item)[event.method] = DOMAIN item[event.method]
                     /\ \A j \in DOMAIN item[event.method] : Item(item)[event.method][j] = Edit(item[event.method][j])
  <2> HIDE DEF Edit
  <2> QED
    OBVIOUS
<1> HIDE DEF e, Item, Edit
<1>4. /\ DOMAIN e.paths = DOMAIN d.paths
      /\ \A p \in DOMAIN d.paths : p # event.path => e.paths[p] = d.paths[p]
      /\ DOMAIN e.paths[event.path] = DOMAIN d.paths[event.path]
      /\ \A i \in DOMAIN d.paths[event.path] : e.paths[event.path][i] = Item(d.paths[event.path][i])
  BY <1>1
<1>5. Others(d.paths, e.paths, event.path, event.method)
  BY <1>3, <1>4, RouteEditedOthers DEF RouteEdited
<1>6. ASSUME NEW i, NEW j, NEW x, IsAt(e.paths, event.path, i, event.method, j, x)
      PROVE  IsNamed(x, models, validators)
  <2>1. PICK y : y = d.paths[event.path][i][event.method][j]
    OBVIOUS
  <2>2. IsAt(d.paths, event.path, i, event.method, j, y) /\ x = Edit(y)
    BY <1>3, <1>4, <1>6, <2>1 DEF IsAt
  <2> QED
    BY <1>2, <2>2 DEF NamesOnly
<1>7. NamesOnly(e.paths, models, validators)
  BY <1>5, <1>6, RouteNamed
<1> QED
  BY <1>4, <1>7 DEF e

(* A model is named where the document keeps models when it is made,       *)
Where(d) == IF d.version = "swagger" THEN "definitions" ELSE "schemas"
LEMMA ModelNamed ==
  ASSUME NEW d, IsDocument(d), NEW event, event.path \in DOMAIN d.paths,
         NEW models, NEW validators, NamesOnly(d.paths, models, validators), <<Where(d), event.model>> \in models
  PROVE  /\ NamesOnly(AddRequestModelToMethod(d, event).paths, models, validators)
         /\ DOMAIN AddRequestModelToMethod(d, event).paths = DOMAIN d.paths
<1> DEFINE e == AddRequestModelToMethod(d, event)
           Edit(x) == IF HasIntegrationIn(x) THEN [x EXCEPT !.model = <<Where(d), event.model>>] ELSE x
           Item(item) == [item EXCEPT ![event.method] = [j \in DOMAIN @ |-> Edit(@[j])]]
<1>1. e.paths = [d.paths EXCEPT ![event.path] = [i \in DOMAIN d.paths[event.path] |-> Item(d.paths[event.path][i])]]
  <2>1. e = [d EXCEPT !.paths[event.path] = [i \in DOMAIN @ |-> Item(@[i])]]
    BY DEF OnMethodDefinitions, AddRequestModelToMethod, Where
  <2> HIDE DEF e, Item
  <2> QED
    BY <2>1 DEF IsDocument, DocumentParts
<1>2. \A x : IsNamed(x, models, validators) => IsNamed(Edit(x), models, validators)
  BY DEF IsNamed, NoMethod, Method
<1>3. \A item : /\ DOMAIN Item(item) = DOMAIN item
                /\ \A m \in DOMAIN item : m # event.method => Item(item)[m] = item[m]
                /\ event.method \in DOMAIN item =>
                     /\ DOMAIN Item(item)[event.method] = DOMAIN item[event.method]
                     /\ \A j \in DOMAIN item[event.method] : Item(item)[event.method][j] = Edit(item[event.method][j])
  <2> HIDE DEF Edit
  <2> QED
    OBVIOUS
<1> HIDE DEF e, Item, Edit
<1>4. /\ DOMAIN e.paths = DOMAIN d.paths
      /\ \A p \in DOMAIN d.paths : p # event.path => e.paths[p] = d.paths[p]
      /\ DOMAIN e.paths[event.path] = DOMAIN d.paths[event.path]
      /\ \A i \in DOMAIN d.paths[event.path] : e.paths[event.path][i] = Item(d.paths[event.path][i])
  BY <1>1
<1>5. Others(d.paths, e.paths, event.path, event.method)
  BY <1>3, <1>4, RouteEditedOthers DEF RouteEdited
<1>6. ASSUME NEW i, NEW j, NEW x, IsAt(e.paths, event.path, i, event.method, j, x)
      PROVE  IsNamed(x, models, validators)
  <2>1. PICK y : y = d.paths[event.path][i][event.method][j]
    OBVIOUS
  <2>2. IsAt(d.paths, event.path, i, event.method, j, y) /\ x = Edit(y)
    BY <1>3, <1>4, <1>6, <2>1 DEF IsAt
  <2> QED
    BY <1>2, <2>2 DEF NamesOnly
<1>7. NamesOnly(e.paths, models, validators)
  BY <1>5, <1>6, RouteNamed
<1> QED
  BY <1>4, <1>7 DEF e

(* and a validator is one that the document then has.                      *)
LEMMA ValidatorNamed ==
  ASSUME NEW d, IsDocument(d), NEW event, event.path \in DOMAIN d.paths,
         NEW models, NEW validators, NamesOnly(d.paths, models, validators), event.validator \in validators
  PROVE  /\ NamesOnly(AddRequestValidatorToMethod(d, event).paths, models, validators)
         /\ event.validator \in AddRequestValidatorToMethod(d, event).validators
<1> DEFINE v == [d EXCEPT !.validators = @ \cup {event.validator}]
           e == AddRequestValidatorToMethod(d, event)
           Edit(x) == IF HasIntegrationIn(x) THEN [x EXCEPT !.validator = event.validator] ELSE x
           Item(item) == [item EXCEPT ![event.method] = [j \in DOMAIN @ |-> Edit(@[j])]]
<1>0. IsDocument(v) /\ v.paths = d.paths /\ event.validator \in v.validators
  BY DEF IsDocument, DocumentParts
<1>1. /\ e.validators = v.validators
      /\ e.paths = [d.paths EXCEPT ![event.path] =
                      [i \in DOMAIN d.paths[event.path] |-> Item(d.paths[event.path][i])]]
  <2>1. e = [v EXCEPT !.paths[event.path] = [i \in DOMAIN @ |-> Item(@[i])]]
    BY DEF OnMethodDefinitions, AddRequestValidatorToMethod
  <2> HIDE DEF e, Item, v
  <2> QED
    BY <1>0, <2>1 DEF IsDocument, DocumentParts
<1>2. \A x : IsNamed(x, models, validators) => IsNamed(Edit(x), models, validators)
  BY DEF IsNamed, NoMethod, Method
<1>3. \A item : /\ DOMAIN Item(item) = DOMAIN item
                /\ \A m \in DOMAIN item : m # event.method => Item(item)[m] = item[m]
                /\ event.method \in DOMAIN item =>
                     /\ DOMAIN Item(item)[event.method] = DOMAIN item[event.method]
                     /\ \A j \in DOMAIN item[event.method] : Item(item)[event.method][j] = Edit(item[event.method][j])
  <2> HIDE DEF Edit
  <2> QED
    OBVIOUS
<1> HIDE DEF e, Item, Edit
<1>4. /\ DOMAIN e.paths = DOMAIN d.paths
      /\ \A p \in DOMAIN d.paths : p # event.path => e.paths[p] = d.paths[p]
      /\ DOMAIN e.paths[event.path] = DOMAIN d.paths[event.path]
      /\ \A i \in DOMAIN d.paths[event.path] : e.paths[event.path][i] = Item(d.paths[event.path][i])
  BY <1>1
<1>5. Others(d.paths, e.paths, event.path, event.method)
  BY <1>3, <1>4, RouteEditedOthers DEF RouteEdited
<1>6. ASSUME NEW i, NEW j, NEW x, IsAt(e.paths, event.path, i, event.method, j, x)
      PROVE  IsNamed(x, models, validators)
  <2>1. PICK y : y = d.paths[event.path][i][event.method][j]
    OBVIOUS
  <2>2. IsAt(d.paths, event.path, i, event.method, j, y) /\ x = Edit(y)
    BY <1>3, <1>4, <1>6, <2>1 DEF IsAt
  <2> QED
    BY <1>2, <2>2 DEF NamesOnly
<1>7. NamesOnly(e.paths, models, validators)
  BY <1>5, <1>6, RouteNamed
<1>8. event.validator \in e.validators
  BY <1>0, <1>1
<1> QED
  BY <1>7, <1>8 DEF e

(* The Auth of a REST API's event says nothing of models.                  *)
LEMMA AuthNamed ==
  ASSUME NEW f, IsDocument(f), NEW e, e.path \in DOMAIN f.paths,
         NEW models, NEW validators, NamesOnly(f.paths, models, validators)
  PROVE  /\ NamesOnly(AddAuthToSwagger(f, e).paths, models, validators)
         /\ DOMAIN AddAuthToSwagger(f, e).paths = DOMAIN f.paths
<1>1. PICK g : g = IF e.authorizer = Unset THEN f ELSE SetMethodAuthorizer(f, e, Authorizers)
  OBVIOUS
<1>2. IsDocument(g) /\ NamesOnly(g.paths, models, validators) /\ DOMAIN g.paths = DOMAIN f.paths
  <2>1. CASE e.authorizer = Unset
    BY <1>1, <2>1
  <2>2. CASE e.authorizer # Unset
    <3>1. PICK h : h = WithRequirement(f, e, AuthorizedBy(e))
      OBVIOUS
    <3>2. NamesOnly(h.paths, models, validators) /\ DOMAIN h.paths = DOMAIN f.paths /\ IsDocument(h)
      BY <3>1, RequirementNamed, WithRequirementEdits, EditedIsDocument
    <3>3. \E b : g = WithIamIf(h, b)
      <4> DEFINE made == WithRequirement(f, e, AuthorizedBy(e))
      <4>1. SetMethodAuthorizer(f, e, Authorizers) =
              WithIamIf(made, \E y \in DefinitionsOf(made, e.path, e.method) : StartsWithIam(y))
        BY DEF SetMethodAuthorizer, WithRequirement, AuthorizedBy
      <4>2. h = made
        BY <3>1
      <4> HIDE DEF made
      <4> QED
        BY <1>1, <2>2, <4>1, <4>2
    <3>4. g.paths = h.paths /\ IsDocument(g)
      BY <3>2, <3>3 DEF WithIamIf, AddAwsIamSecurityDefinition, IsDocument, DocumentParts
    <3> QED
      BY <3>2, <3>4
  <2> QED
    BY <2>1, <2>2
<1>3. PICK h : h = IF e.key = Unset THEN g ELSE SetMethodApiKeyHandling(g, e)
  OBVIOUS
<1>4. NamesOnly(h.paths, models, validators) /\ DOMAIN h.paths = DOMAIN f.paths
  <2>1. CASE e.key = Unset
    BY <1>2, <1>3, <2>1
  <2>2. CASE e.key # Unset
    <3>1. PICK l : l = WithRequirement(g, e, KeyMark(e))
      OBVIOUS
    <3>2. NamesOnly(l.paths, models, validators) /\ DOMAIN l.paths = DOMAIN f.paths /\ IsDocument(l)
      BY <1>2, <3>1, RequirementNamed, WithRequirementEdits, EditedIsDocument
    <3>3. h \in {l, AddApiKeySecurityDefinition(l)}
      BY <1>3, <2>2, <3>1 DEF SetMethodApiKeyHandling, WithRequirement, KeyMark
    <3>4. h.paths = l.paths
      BY <3>2, <3>3 DEF AddApiKeySecurityDefinition, IsDocument, DocumentParts
    <3> QED
      BY <3>2, <3>4
  <2> QED
    BY <2>1, <2>2
<1>5. h = AddAuthToMethod(f, e, Authorizers)
  BY <1>1, <1>3 DEF AddAuthToMethod
<1>6. IsDocument(h)
  BY <1>5, AddAuthToMethodEdits, EditedIsDocument
<1>7. AddAuthToSwagger(f, e).paths = h.paths
  BY <1>5, <1>6 DEF AddAuthToSwagger, AddCustomStatements, AddResourcePolicy, IsDocument, DocumentParts
<1> QED
  BY <1>4, <1>7

(* What an event says of models and validators is of the template and of   *)
(* the document.                                                           *)
LEMMA ModelOfNamed ==
  ASSUME NEW f, IsDocument(f), NEW e, e.path \in DOMAIN f.paths,
         NEW models, NamesOnly(f.paths, models, {Unset} \cup f.validators),
         e.model # Unset => <<Where(f), e.model>> \in models
  PROVE  NamesOnly(AddModelOf(f, e).paths, models, {Unset} \cup AddModelOf(f, e).validators)
<1>1. PICK g : g = IF e.model = Unset THEN f ELSE AddRequestModelToMethod(f, e)
  OBVIOUS
<1>2. /\ IsDocument(g) /\ g.validators = f.validators /\ e.path \in DOMAIN g.paths
      /\ NamesOnly(g.paths, models, {Unset} \cup f.validators)
  <2>1. CASE e.model = Unset
    BY <1>1, <2>1
  <2>2. CASE e.model # Unset
    <3>1. g = AddRequestModelToMethod(f, e)
      BY <1>1, <2>2
    <3>2. NamesOnly(g.paths, models, {Unset} \cup f.validators) /\ DOMAIN g.paths = DOMAIN f.paths
      BY <2>2, <3>1, ModelNamed
    <3>3. IsDocument(g)
      BY <3>1, AddRequestModelToMethodEdits, EditedIsDocument
    <3>4. g.validators = f.validators
      BY <3>1 DEF AddRequestModelToMethod, OnMethodDefinitions, IsDocument, DocumentParts
    <3> QED
      BY <3>2, <3>3, <3>4
  <2> QED
    BY <2>1, <2>2
<1>3. PICK h : h = AddRequestValidatorToMethod(g, e)
  OBVIOUS
<1>4. AddModelOf(f, e) = IF e.model = Unset \/ e.validator = Unset THEN g ELSE h
  BY <1>1, <1>3 DEF AddModelOf
<1>5. g.validators \subseteq h.validators
  BY <1>2, <1>3, AddRequestValidatorToMethodEdits DEF Edited, Kept, PartsKept
<1>6. PICK known : known = {Unset, e.validator} \cup g.validators
  OBVIOUS
<1>7. NamesOnly(g.paths, models, known)
  BY <1>2, <1>6, NamedWider
<1>8. NamesOnly(h.paths, models, known) /\ e.validator \in h.validators
  BY <1>2, <1>3, <1>6, <1>7, ValidatorNamed
<1>9. NamesOnly(h.paths, models, {Unset} \cup h.validators)
  BY <1>5, <1>6, <1>8, NamedWider
<1> QED
  BY <1>2, <1>4, <1>9

(* The models that a method may name: the author's, and a REST API's own.  *)
MayName(t) ==
  {Unset} \cup {<<Where(t.doc), n>> :
                  n \in t.doc.models \cup t.doc.schemas \cup (IF t.kind = "rest" THEN t.models ELSE {})}
(* A method of the author's names a model or a validator that there is not.*)
UndefinedModels(t) ==
  /\ t.doc # NoDocument
  /\ \E p \in DOMAIN t.doc.paths : \E m \in MethodsOf(t.doc, p) : \E w \in DefinitionsOf(t.doc, p, m) :
       w.model \notin MayName(t) \/ w.validator \notin {Unset} \cup t.doc.validators
NamedInv ==
  doc # NoDocument /\ ~UndefinedModels(template) =>
    /\ NamesOnly(doc.paths, MayName(template), {Unset} \cup doc.validators)
    /\ ~IsRest => doc.schemas = Written.schemas

(* The author's document names what there is.                              *)
LEMMA InitNamedInv ==
  ASSUME Init
  PROVE  NamedInv
<1> SUFFICES ASSUME doc # NoDocument, ~UndefinedModels(template)
             PROVE  NamesOnly(doc.paths, MayName(template), {Unset} \cup doc.validators)
  BY DEF NamedInv, Init, Written
<1>1. doc = template.doc /\ IsWritten(doc)
  BY ApiDefinitionAssumption DEF Init
<1> SUFFICES ASSUME NEW p, NEW i, NEW m, NEW j, NEW x, IsAt(doc.paths, p, i, m, j, x)
             PROVE  IsNamed(x, MayName(template), {Unset} \cup doc.validators)
  BY DEF NamesOnly
<1>2. x \in DefinitionsOf(doc, p, m) /\ p \in DOMAIN doc.paths /\ m \in MethodsOf(doc, p)
  BY DefinitionsAt DEF IsAt, MethodsOf
<1>3. DOMAIN x = DOMAIN NoMethod
  BY <1>1 DEF IsAt, IsWritten
<1>4. x.model \in MayName(template) /\ x.validator \in {Unset} \cup doc.validators
  BY <1>1, <1>2 DEF UndefinedModels
<1> QED
  BY <1>3, <1>4 DEF IsNamed

(* Every event's route names what there is.                                *)
LEMMA EventNamed ==
  ASSUME TypeInv, AddEvent, AcceptsEvents,
         NamesOnly(doc.paths, MayName(template), {Unset} \cup doc.validators)
  PROVE  NamesOnly(doc'.paths, MayName(template), {Unset} \cup doc'.validators)
<1>1. PICK new : new = doc'
  OBVIOUS
<1>2. PICK e : e = Event
  OBVIOUS
<1>3. PICK models, known : models = MayName(template) /\ known = {Unset} \cup doc.validators
  OBVIOUS
<1>4. Unset \in models /\ Unset \in known /\ NamesOnly(doc.paths, models, known)
  BY <1>3 DEF MayName
<1>5. doc # NoDocument /\ IsDocument(doc) /\ doc.version = Written.version
  BY DEF AcceptsEvents, TypeInv
<1>6. CASE IsRest
  <2>1. PICK integration, c :
               \/ new = AddAuthToSwagger(Integrate(doc, e.path, e.method, integration, c), e)
               \/ new = AddModelOf(AddAuthToSwagger(Integrate(doc, e.path, e.method, integration, c), e), e)
    <3>1. CASE e.by = "machine"
      BY <1>1, <1>2, <1>6, <3>1 DEF AddEvent, IntegrateMachine, AddStateMachineIntegration
    <3>2. CASE e.by # "machine"
      <4>1. PICK c : c = CredentialsOf(e)
        OBVIOUS
      <4>2. AddLambdaIntegration(doc, e, Default, template.role) = Integrate(doc, e.path, e.method, "lambda", c)
        BY <1>6, <3>2, <4>1 DEF AddLambdaIntegration, CredentialsOf
      <4>3. new = AddModelOf(AddAuthToSwagger(Integrate(doc, e.path, e.method, "lambda", c), e), e)
        BY <1>1, <1>2, <1>6, <3>2, <4>2 DEF AddEvent, IntegrateFunction
      <4> QED
        BY <4>3
    <3> QED
      BY <3>1, <3>2
  <2>2. PICK f : f = Integrate(doc, e.path, e.method, integration, c)
    OBVIOUS
  <2>3. NamesOnly(f.paths, models, known) /\ e.path \in DOMAIN f.paths
    BY <1>4, <1>5, <2>2, IntegrateNamed
  <2>4. PartsKept(doc, f)
    BY <1>5, <2>2, Integrating
  <2>5. PICK g : g = AddAuthToSwagger(f, e)
    OBVIOUS
  <2>6. NamesOnly(g.paths, models, known) /\ e.path \in DOMAIN g.paths
    BY <2>3, <2>4, <2>5, AuthNamed DEF PartsKept
  <2>7. PartsKept(f, g)
    BY <2>4, <2>5, AddAuthToSwaggerEdits DEF PartsKept, Edited, Kept
  <2>8. IsDocument(g) /\ g.version = Written.version /\ doc.validators \subseteq g.validators
    BY <1>5, <2>4, <2>7 DEF PartsKept
  <2>9. NamesOnly(g.paths, models, {Unset} \cup g.validators)
    BY <1>3, <2>6, <2>8, NamedWider
  <2>10. e.model # Unset => <<Where(g), e.model>> \in models
    <3>1. e.model # Unset => e.model \in template.models
      BY <1>2, <1>6 DEF AddEvent, RefusedModel
    <3>2. Where(g) = Where(Written)
      BY <2>8 DEF Where
    <3> QED
      BY <1>3, <1>6, <3>1, <3>2 DEF MayName, Written, IsRest
  <2>11. NamesOnly(AddModelOf(g, e).paths, models, {Unset} \cup AddModelOf(g, e).validators)
    BY <2>6, <2>8, <2>9, <2>10, ModelOfNamed
  <2> QED
    BY <1>1, <1>3, <2>1, <2>2, <2>5, <2>9, <2>11
<1>7. CASE ~IsRest
  <2>1. PICK f : f = AddHttpLambdaIntegration(doc, e)
    OBVIOUS
  <2>2. IsDocument(f) /\ NamesOnly(f.paths, models, known) /\ e.path \in DOMAIN f.paths
    <3>1. CASE HasIntegration(doc, e.path, e.method)
      BY <1>4, <1>5, <2>1, <3>1 DEF AddHttpLambdaIntegration, HasIntegration, HasPath
    <3>2. CASE ~HasIntegration(doc, e.path, e.method)
      <4>1. f = Integrate(doc, e.path, e.method, "lambda", Unset)
        BY <2>1, <3>2 DEF AddHttpLambdaIntegration
      <4> QED
        BY <1>4, <1>5, <4>1, IntegrateNamed, Integrating DEF PartsKept
    <3> QED
      BY <3>1, <3>2
  <2>3. PICK w : w = WithDefault(e)
    OBVIOUS
  <2>4. new = f \/ new = SetHttpMethodAuthorizer(f, w, Authorizers)
    BY <1>1, <1>2, <1>7, <2>1, <2>3 DEF AddEvent, IntegrateHttp
  <2>5. CASE new = f
    BY <1>1, <1>3, <1>5, <2>2, <2>5, AddEventPuts, NamedWider DEF EventPut, PartsKept
  <2>6. CASE new = SetHttpMethodAuthorizer(f, w, Authorizers)
    <3>1. w.path = e.path
      <4>1. integrated + 1 \in DOMAIN template.events
        BY EventsAre DEF TypeInv, AddEvent
      <4>2. IsEvent(e)
        BY <1>2, <4>1, ApiDefinitionAssumption DEF TypeInv, Event
      <4> QED
        BY <2>3, <4>2 DEF WithDefault, IsEvent, EventParts
    <3>2. \E r : new = WithRequirement(f, w, r)
      <4> DEFINE r == Requirement(w.authorizer,
                        IF w.authorizer \notin DOMAIN Authorizers \ {IAM} THEN Unset
                        ELSE IF w.scopes THEN "of the event"
                        ELSE IF Authorizers[w.authorizer].scopes THEN "of the authorizer" ELSE Unset)
      <4>1. SetHttpMethodAuthorizer(f, w, Authorizers) = WithRequirement(f, w, r)
        BY DEF SetHttpMethodAuthorizer, WithRequirement
      <4> HIDE DEF r
      <4> QED
        BY <2>6, <4>1
    <3>3. NamesOnly(new.paths, models, known)
      BY <2>2, <3>1, <3>2, RequirementNamed
    <3>4. doc.validators \subseteq new.validators
      BY <1>1, AddEventPuts DEF EventPut, PartsKept
    <3> QED
      BY <1>1, <1>3, <3>3, <3>4, NamedWider
  <2> QED
    BY <2>4, <2>5, <2>6
<1> QED
  BY <1>6, <1>7

(* Nor do CORS,                                                            *)
LEMMA CorsNamed ==
  ASSUME NEW old, NEW new, CorsAdded(old, new),
         NEW models, NEW validators, Unset \in models, Unset \in validators, NamesOnly(old, models, validators)
  PROVE  NamesOnly(new, models, validators)
<1>1. \A allow : \A j \in DOMAIN <<OptionsMethodForCors(allow)>> :
         IsNamed(<<OptionsMethodForCors(allow)>>[j], models, validators)
  BY DEF OptionsMethodForCors, Method, NoMethod, IsNamed
<1> SUFFICES ASSUME NEW p, NEW i, NEW m, NEW j, NEW x, IsAt(new, p, i, m, j, x)
             PROVE  IsNamed(x, models, validators)
  BY DEF NamesOnly
<1>2. p \in DOMAIN old /\ i \in DOMAIN old[p]
  BY DEF CorsAdded, IsAt
<1>3. CASE m \in DOMAIN old[p][i]
  <2>1. new[p][i][m] = old[p][i][m]
    BY <1>2, <1>3 DEF CorsAdded
  <2>2. IsAt(old, p, i, m, j, x)
    BY <1>2, <1>3, <2>1 DEF IsAt
  <2> QED
    BY <2>2 DEF NamesOnly
<1>4. CASE m \notin DOMAIN old[p][i]
  <2>1. m = "options" /\ \E allow : new[p][i]["options"] = <<OptionsMethodForCors(allow)>>
    BY <1>2, <1>4 DEF CorsAdded, IsAt
  <2> QED
    BY <1>1, <2>1 DEF IsAt
<1> QED
  BY <1>3, <1>4

(* the defaults of the API                                                 *)
LEMMA PassedNamed ==
  ASSUME NEW old, NEW new, Passed(old, new), NEW models, NEW validators, NamesOnly(old, models, validators)
  PROVE  NamesOnly(new, models, validators)
<1> SUFFICES ASSUME NEW p, NEW i, NEW m, NEW j, NEW x, IsAt(new, p, i, m, j, x)
             PROVE  IsNamed(x, models, validators)
  BY DEF NamesOnly
<1>1. PICK y : y = old[p][i][m][j]
  OBVIOUS
<1>2. IsAt(old, p, i, m, j, y) /\ x = new[p][i][m][j]
  BY <1>1 DEF Passed, SameDefinitions, IsAt
<1>3. IsNamed(y, models, validators)
  BY <1>2 DEF NamesOnly
<1>4. Follows(x, y, Final(m, y.security))
  BY <1>2, <1>3 DEF Passed, IsNamed
<1> QED
  BY <1>3, <1>4 DEF Follows, IsNamed

(* and the slash before the default path.                                  *)
LEMMA DefaultPathNamed ==
  ASSUME NEW d, IsDocument(d), NEW models, NEW validators, NamesOnly(d.paths, models, validators)
  PROVE  NamesOnly(UpdateDefaultPath(d).paths, models, validators)
<1>1. PICK old, new : old = d.paths /\ new = UpdateDefaultPath(d).paths
  OBVIOUS
<1>2. CASE DefaultPath \notin DOMAIN old
  BY <1>1, <1>2, UpdateDefaultPathMoves
<1>3. CASE DefaultPath \in DOMAIN old
  <2>1. /\ DOMAIN new = (DOMAIN old \ {DefaultPath}) \cup {SlashedDefaultPath}
        /\ new[SlashedDefaultPath] = old[DefaultPath]
        /\ \A p \in DOMAIN old \ {DefaultPath, SlashedDefaultPath} : new[p] = old[p]
    BY <1>1, <1>3, UpdateDefaultPathMoves
  <2>2. \A p \in DOMAIN new : \E q \in DOMAIN old : new[p] = old[q]
    BY <1>3, <2>1
  <2>3. \A p, i, m, j, x : IsAt(new, p, i, m, j, x) => \E q : IsAt(old, q, i, m, j, x)
    BY <2>2 DEF IsAt
  <2>4. NamesOnly(old, models, validators)
    BY <1>1
  <2>5. NamesOnly(new, models, validators)
    BY <2>3, <2>4 DEF NamesOnly
  <2> QED
    BY <1>1, <2>5
<1> QED
  BY <1>2, <1>3

(* Every step names what there is.                                         *)
LEMMA NextNamedInv ==
  ASSUME TypeInv, NamedInv, [Next]_vars
  PROVE  NamedInv'
<1>1. template' = template
  BY StepLeavesTemplate
<1>2. PICK new : new = doc'
  OBVIOUS
<1>3. PICK models : models = MayName(template)
  OBVIOUS
<1>4. /\ UndefinedModels(template)' <=> UndefinedModels(template)
      /\ MayName(template)' = models
      /\ IsRest' <=> IsRest
      /\ Written' = Written
  BY <1>1, <1>3 DEF UndefinedModels, MayName, IsRest, Written
<1> SUFFICES ASSUME new # NoDocument, ~UndefinedModels(template)
             PROVE  NamedInv'
  BY <1>2, <1>4 DEF NamedInv
<1>5. doc # NoDocument /\ IsDocument(doc)
  BY <1>2, StepGrows DEF TypeInv
<1>6. PICK known, after : known = {Unset} \cup doc.validators /\ after = {Unset} \cup new.validators
  OBVIOUS
<1>7. /\ NamesOnly(doc.paths, models, known) /\ (~IsRest => doc.schemas = Written.schemas)
      /\ Unset \in models /\ Unset \in known
  BY <1>3, <1>5, <1>6 DEF NamedInv, MayName
<1>8. doc.validators \subseteq new.validators /\ known \subseteq after
  <2>1. doc' = doc \/ Grown(doc, doc')
    BY StepGrows
  <2> QED
    BY <1>2, <1>6, <2>1 DEF Grown
<1>9. ASSUME NamesOnly(new.paths, models, known) \/ NamesOnly(new.paths, models, after),
             ~IsRest => new.schemas = doc.schemas
      PROVE  NamedInv'
  <2>1. NamesOnly(new.paths, models, after)
    BY <1>8, <1>9, NamedWider
  <2>2. PICK paths, validators : paths = new.paths /\ validators = new.validators
    OBVIOUS
  <2> QED
    BY <1>2, <1>4, <1>6, <1>7, <1>9, <2>1, <2>2 DEF NamedInv, NamesOnly
<1>10. CASE AddEvent
  <2>1. ~IsRest => new.schemas = doc.schemas
    BY <1>2, <1>10, AddEventPuts DEF EventPut, PartsKept
  <2>2. CASE AcceptsEvents
    BY <1>2, <1>3, <1>6, <1>7, <1>9, <1>10, <2>1, <2>2, EventNamed
  <2>3. CASE ~AcceptsEvents
    BY <1>2, <1>7, <1>9, <1>10, <2>1, <2>3 DEF AddEvent
  <2> QED
    BY <2>2, <2>3
<1>11. CASE Leaves \/ UNCHANGED vars
  <2>1. new = doc
    BY <1>2, <1>11, LeavesLeaves DEF vars
  <2> QED
    BY <1>7, <1>9, <2>1
<1>12. CASE SetsAside
  BY <1>2, <1>7, <1>9, <1>12, SetsAsideSets DEF Aside, PartsKept
<1>13. CASE AddRestCors
  <2>1. PICK paths : new = AddCorsTo(paths)
    BY <1>2, <1>13 DEF AddRestCors, GoOn
  <2>2. CorsAdded(doc.paths, new.paths)
    BY <1>5, <2>1, CorsAdds
  <2>3. PICK old, now : old = doc.paths /\ now = new.paths
    OBVIOUS
  <2>4. NamesOnly(now, models, known)
    BY <1>7, <2>2, <2>3, CorsNamed
  <2> QED
    BY <1>9, <1>13, <2>3, <2>4 DEF AddRestCors
<1>14. CASE AddRestAuth \/ AddHttpAuth
  <2>1. PICK old, now : old = doc.paths /\ now = new.paths
    OBVIOUS
  <2>2. Passed(old, now)
    BY <1>2, <1>14, <2>1, RestAuthPassed, HttpAuthPassed
  <2>3. NamesOnly(now, models, known)
    BY <1>7, <2>1, <2>2, PassedNamed
  <2>4. ~IsRest => new.schemas = doc.schemas
    BY <1>2, <1>14, AddRestAuthAdds, AddHttpAuthAdds DEF Edited, Kept, PartsKept
  <2> QED
    BY <1>9, <2>1, <2>3, <2>4
<1>15. CASE AddModelsStep
  <2>1. IsRest
    BY <1>15 DEF AddModelsStep, TypeInv
  <2>2. CASE new = doc
    BY <1>7, <1>9, <2>1, <2>2
  <2>3. CASE new # doc
    <3>1. PICK f : /\ IsDocument(f) /\ f = [doc EXCEPT !.models = @ \cup template.models]
                   /\ new = OpenApiPostprocess(f)
      BY <1>2, <1>15, <2>3, AddModelsStepAdds
    <3>2. f.paths = doc.paths
      BY <1>5, <3>1 DEF IsDocument, DocumentParts
    <3>3. new.paths = f.paths
      BY <3>1, OpenApiPostprocessMoves
    <3> QED
      BY <1>7, <1>9, <2>1, <3>2, <3>3
  <2> QED
    BY <2>2, <2>3
<1>16. CASE FinishHttp
  <2>1. CASE new = doc
    BY <1>7, <1>9, <2>1
  <2>2. CASE new # doc
    <3>1. PICK f : /\ Grown(doc, f) /\ f.paths = doc.paths /\ f.schemas = doc.schemas
                   /\ new = f \/ new = UpdateDefaultPath(f)
      BY <1>2, <1>16, <2>2, FinishHttpAdds
    <3>2. IsDocument(f) /\ NamesOnly(f.paths, models, known)
      BY <1>7, <3>1 DEF Grown
    <3>3. NamesOnly(UpdateDefaultPath(f).paths, models, known) /\ UpdateDefaultPath(f).schemas = f.schemas
      BY <3>2, DefaultPathNamed, UpdateDefaultPathMoves DEF PartsKept
    <3> QED
      BY <1>9, <3>1, <3>2, <3>3
  <2> QED
    BY <2>1, <2>2
<1>17. CASE FinishRest
  <2>1. IsRest /\ new.paths = doc.paths
    BY <1>2, <1>5, <1>17, OpenApiPostprocessMoves DEF FinishRest
  <2> QED
    BY <1>7, <1>9, <2>1
<1> QED
  BY <1>10, <1>11, <1>12, <1>13, <1>14, <1>15, <1>16, <1>17 DEF Next, Leaves, SetsAside

(* Definitions of an OpenAPI 3 document that are made and not moved, as    *)
(* OpenApiVersion says 2.0.                                                *)
LeavesDefinitions(t) ==
  /\ t.doc # NoDocument /\ t.kind = "rest" /\ t.doc.version = "openapi" /\ t.version = "2"
  /\ \/ DOMAIN t.authorizers # {} \/ t.default = IAM \/ t.key
     \/ t.managed /\ \E k \in 1..Len(t.events) : t.events[k].authorizer = IAM \/ t.events[k].key = "required"

(* What is promised is defined where it is looked for,                     *)
LEMMA PromisedDefined ==
  ASSUME TypeInv, PromisedInv, Made, Apart(template), ~LeavesDefinitions(template)
  PROVE  Promised(integrated, TRUE) \subseteq DOMAIN Defined
<1>1. doc # NoDocument /\ Written # NoDocument /\ IsDocument(doc) /\ doc.version = Written.version /\ Late
  BY DEF Made, TypeInv, Late
<1>2. PICK names : names = Promised(integrated, TRUE)
  OBVIOUS
<1>3. /\ IsRest => IsHeld(doc, names) /\ (Moves(doc) => doc.definitions = <<>>)
      /\ ~IsRest => names \subseteq DOMAIN doc.schemes
  BY <1>1, <1>2 DEF PromisedInv, Made
<1>4. Defined = IF doc.version = "openapi" THEN doc.schemes ELSE doc.definitions
  BY <1>1 DEF Defined, Openapi3
<1>5. CASE ~IsRest
  <2>1. doc.version = "openapi"
    BY <1>1, <1>5, ApiDefinitionAssumption DEF TypeInv, Written, IsRest
  <2> QED
    BY <1>2, <1>3, <1>4, <1>5, <2>1
<1>6. CASE IsRest /\ doc.version # "openapi"
  <2>1. ~Moves(doc)
    BY <1>1, <1>6 DEF Moves, IsDocument
  <2> QED
    BY <1>2, <1>3, <1>4, <1>6, <2>1 DEF IsHeld
<1>7. CASE IsRest /\ doc.version = "openapi" /\ Moves(doc)
  <2>1. doc.definitions = <<>> /\ DOMAIN <<>> = {}
    BY <1>3, <1>7
  <2> QED
    BY <1>2, <1>3, <1>4, <1>7, <2>1 DEF IsHeld
<1>8. CASE IsRest /\ doc.version = "openapi" /\ ~Moves(doc)
  <2>1. template.version = "2"
    BY <1>8 DEF Moves
  <2>2. /\ DOMAIN Authorizers = {} /\ Default # IAM /\ ~template.key
        /\ template.managed => \A k \in 1..Len(template.events) :
             template.events[k].authorizer # IAM /\ template.events[k].key # "required"
    BY <1>1, <1>8, <2>1 DEF LeavesDefinitions, Written, Authorizers, Default, IsRest
  <2>3. KnownAuthorizers = {}
    BY <1>8, <2>2 DEF KnownAuthorizers
  <2>4. integrated = Len(template.events)
    BY DEF TypeInv, Made
  <2>5. AskedFor(integrated) = {}
    BY <1>8, <2>2, <2>4 DEF AskedFor, EventsPut, Accepts, IsRest
  <2>6. names = {}
    BY <1>2, <2>2, <2>3, <2>5 DEF Promised
  <2> QED
    BY <1>2, <2>6
<1> QED
  BY <1>5, <1>6, <1>7, <1>8

(* and so are the models that methods may name.                            *)
LEMMA MayNameDefined ==
  ASSUME TypeInv, ModelsInv, NamedInv, Made, ~UndefinedModels(template),
         ~Misplaced(template), ~ReplacesComponents(template), ~LeavesModels(template)
  PROVE  MayName(template) \subseteq {Unset} \cup ModelsDefined
<1>1. doc # NoDocument /\ Written # NoDocument /\ IsDocument(doc) /\ doc.version = Written.version
  BY DEF Made, TypeInv
<1>2. PICK names : names = Written.models \cup Written.schemas \cup (IF IsRest THEN template.models ELSE {})
  OBVIOUS
<1>3. MayName(template) = {Unset} \cup {<<Where(doc), n>> : n \in names}
  BY <1>1, <1>2 DEF MayName, Written, IsRest, Where
<1>4. names \subseteq IF Openapi3 THEN doc.schemas ELSE doc.models
  <2>1. CASE IsRest
    BY <1>1, <1>2, <2>1 DEF ModelsInv, Made
  <2>2. CASE ~IsRest
    <3>1. doc.version = "openapi"
      BY <1>1, <2>2, ApiDefinitionAssumption DEF TypeInv, Written, IsRest
    <3>2. Written.models = {}
      BY <1>1, <3>1 DEF Misplaced, Written
    <3>3. doc.schemas = Written.schemas
      BY <1>1, <2>2 DEF NamedInv
    <3> QED
      BY <1>1, <1>2, <2>2, <3>1, <3>2, <3>3 DEF Openapi3
  <2> QED
    BY <2>1, <2>2
<1>5. CASE Openapi3
  <2>1. Where(doc) = "schemas"
    BY <1>5 DEF Where, Openapi3
  <2> QED
    BY <1>3, <1>4, <1>5, <2>1 DEF ModelsDefined
<1>6. CASE ~Openapi3
  <2>1. Where(doc) = "definitions"
    BY <1>1, <1>6 DEF Where, Openapi3, IsDocument
  <2> QED
    BY <1>3, <1>4, <1>6, <2>1 DEF ModelsDefined
<1> QED
  BY <1>5, <1>6

(* Every name of a method is promised or the author's, and defined.        *)
LEMMA IInvNamesDefined ==
  ASSUME TypeInv, DefinitionsInv, ModelsInv, MadeInv, PromisedInv, NamedInv, Apart(template),
         ~DefaultPathTwice(template), ~Misplaced(template), ~ReplacesComponents(template),
         ~LeavesModels(template), ~LeavesDefinitions(template), ~UndefinedNames(template),
         ~UndefinedModels(template)
  PROVE  NamesDefined
<1> SUFFICES ASSUME Made, NEW p \in DOMAIN doc.paths, NEW m \in MethodsOf(doc, p),
                    NEW d \in DefinitionsOf(doc, p, m), HasIntegrationIn(d)
             PROVE  /\ NamesIn(d.security) \ {"NONE"} \subseteq DOMAIN Defined
                    /\ d.model # Unset => d.model \in ModelsDefined
                    /\ d.validator # Unset => d.validator \in doc.validators
  BY DEF NamesDefined
<1>1. PICK paths : RoutesServed(paths) /\ DefaultsAreKnown
  BY DEF MadeInv, Made
<1>2. TrueNames(d.security) \subseteq
        Promised(integrated, TRUE) \cup DOMAIN Written.definitions \cup DOMAIN Written.schemes
  BY <1>1, RouteNames
<1>3. DOMAIN Written.definitions \cup DOMAIN Written.schemes \subseteq DOMAIN Defined
  BY DEF DefinitionsInv, Made
<1>4. Promised(integrated, TRUE) \subseteq DOMAIN Defined
  BY PromisedDefined
<1>5. TrueNames(d.security) \subseteq DOMAIN Defined
  BY <1>2, <1>3, <1>4
<1>6. PICK i, j : IsAt(doc.paths, p, i, m, j, d)
  BY DefinitionsAt
<1>7. IsNamed(d, MayName(template), {Unset} \cup doc.validators)
  BY <1>6 DEF NamedInv, NamesOnly, Made
<1>8. MayName(template) \subseteq {Unset} \cup ModelsDefined
  BY MayNameDefined
<1> QED
  BY <1>5, <1>7, <1>8 DEF IsNamed, TrueNames

-----------------------------------------------------------------------------
(* All of it together.                                                     *)
IInv ==
  /\ TypeInv /\ PathsInv /\ GrownInv /\ DefinitionsInv /\ ModelsInv /\ PolicyInv /\ ServedInv
  /\ RoutesInv /\ MadeInv /\ PromisedInv /\ NamedInv

(* The inductive invariant holds at first,                                 *)
LEMMA InitIInv ==
  ASSUME Init
  PROVE  IInv
<1>1. doc = template.doc /\ at = "events" /\ integrated = 0 /\ Written = doc
  BY DEF Init, Written
<1>2. TypeInv /\ PathsInv
  BY InitTypeInv, InitPathsInv
<1>3. GrownInv
  BY <1>1, <1>2 DEF GrownInv, Grown, TypeInv
<1>4. DefinitionsInv
  BY <1>1, <1>2 DEF DefinitionsInv, Misplaced, Defined, Openapi3, Moves, TypeInv, IsDocument
<1>5. ModelsInv
  BY <1>1, <1>2 DEF ModelsInv, Misplaced, Openapi3, Moves, TypeInv, IsDocument
<1>6. PolicyInv
  BY <1>1 DEF PolicyInv, Authorized, EventsCovered
<1>7. ServedInv /\ MadeInv
  BY <1>1 DEF ServedInv, MadeInv
<1>8. RoutesInv
  BY InitRoutesInv
<1>9. PromisedInv /\ NamedInv
  BY InitPromisedInv, InitNamedInv
<1> QED
  BY <1>2, <1>3, <1>4, <1>5, <1>6, <1>7, <1>8, <1>9 DEF IInv

(* At every state of every API's translation, whatever its document and    *)
(* its events: the document is one; the author's paths and integrations,   *)
(* definitions and models are where the steps so far leave them; the       *)
(* policy covers the routes that are integrated or authorized by then;     *)
(* each route has the integration and security that its event, its author  *)
(* or CORS gave it, with the API's defaults once they are worked in; and   *)
(* what a method names has been promised by then or is the author's,       *)
(* models and validators among it.                                         *)
THEOREM SpecIInv == Spec => []IInv
<1>1. Init => IInv
  BY InitIInv
<1>2. IInv /\ [Next]_vars => IInv'
  BY NextTypeInv, NextPathsInv, NextGrownInv, NextDefinitionsInv, NextModelsInv, NextPolicyInv, NextServedInv,
     NextRoutesInv, NextMadeInv, NextPromisedInv, NextNamedInv DEF IInv
<1> QED
  BY <1>1, <1>2, PTL DEF Spec

(* What is kept in its place until the definition is made is not lost.     *)
LEMMA IInvNothingLost ==
  ASSUME IInv, ~PartlyIntegrated(template), ~Misplaced(template), ~ReplacesComponents(template),
         ~LeavesModels(template), ~DefaultPathTwice(template)
  PROVE  NothingLost
<1> SUFFICES ASSUME Made
             PROVE  NothingLost
  BY DEF NothingLost
<1>1. doc # NoDocument /\ at = "made"
  BY DEF Made
<1>2. DOMAIN Written.definitions \cup DOMAIN Written.schemes \subseteq DOMAIN Defined
  BY <1>1 DEF IInv, DefinitionsInv
<1>3. Written.models \cup Written.schemas \cup template.models \subseteq
         (IF Openapi3 THEN doc.schemas ELSE doc.models) \/ ~IsRest
  BY <1>1 DEF IInv, ModelsInv
<1>4. Grown(Written, doc)
  BY <1>1 DEF IInv, GrownInv
<1>5. ASSUME NEW p \in DOMAIN Written.paths, NEW i \in DOMAIN Written.paths[p], NEW m \in DOMAIN Written.paths[p][i],
             NEW j \in DOMAIN Written.paths[p][i][m], HasIntegrationIn(Written.paths[p][i][m][j])
      PROVE  doc.paths[Served(p)][i][m][j].integration = Written.paths[p][i][m][j].integration
  <2>1. IsWritten(Written)
    BY <1>1, ApiDefinitionAssumption DEF IInv, TypeInv, Written
  <2>2. "integration" \in DOMAIN Written.paths[p][i][m][j]
    BY <2>1 DEF IsWritten, NoMethod, Method
  <2>3. Integrated(Written.paths, p, i, m, j, Written.paths[p][i][m][j].integration)
    BY <2>2 DEF Integrated
  <2>4. Integrated(doc.paths, Served(p), i, m, j, Written.paths[p][i][m][j].integration)
    BY <1>1, <1>5, <2>3 DEF IInv, ServedInv, HasIntegrationIn
  <2> QED
    BY <2>4 DEF Integrated
<1> QED
  BY <1>2, <1>3, <1>4, <1>5 DEF NothingLost, Grown

(* What is covered once all is authorized is covered when it is made.      *)
LEMMA IInvPolicyCovers ==
  ASSUME IInv, ~SlashedPolicy(template)
  PROVE  PolicyCovers
<1>1. \A c, p, m : Covered(c, p, m) <=> CoveredBy(doc.policy, c, p, m)
  BY DEF Covered, CoveredBy, StatementsOf
<1>2. Made /\ IsRest => /\ RoutesCovered(doc)
                        /\ template.managed => EventsCovered(doc.policy, Len(template.events))
  BY DEF IInv, PolicyInv, TypeInv, Made, Authorized
<1> QED
  BY <1>1, <1>2 DEF PolicyCovers, RoutesCovered, EventsCovered

(* Once every route is told of, each is asked what it should be.           *)
LEMMA IInvRoutesGuarded ==
  ASSUME TypeInv, MadeInv, Apart(template), ~DefaultPathTwice(template), ~KeyOfPreflight(template),
         ~PartialIam(template), ~NoneAndMore(template), ~WrittenKey(template)
  PROVE  RoutesGuarded
<1> SUFFICES ASSUME Made
             PROVE  RoutesGuarded
  BY DEF RoutesGuarded
<1>1. DefaultsAreKnown /\ ~ReservedNames(template)
  BY DEF Made, MadeInv, Apart
<1>2. PICK paths : RoutesServed(paths)
  BY DEF Made, MadeInv
<1>3. ASSUME NEW k \in 1..Len(template.events), AcceptsEvents,
             NEW d \in DefinitionsOf(doc, Served(template.events[k].path), template.events[k].method)
      PROVE  /\ Required(d) = Asked(template.events[k])
             /\ IsRest /\ template.events[k].by = "function" => d.credentials = RoleAsked(template.events[k])
  <2>1. PICK e : e = template.events[k]
    OBVIOUS
  <2> QED
    BY <1>1, <1>2, <1>3, <2>1, EventGuarded
<1>4. ASSUME NEW p \in DOMAIN Written.paths, NEW i \in DOMAIN doc.paths[Served(p)],
             NEW m \in DOMAIN doc.paths[Served(p)][i], NEW j \in DOMAIN doc.paths[Served(p)][i][m]
      PROVE  LET d == doc.paths[Served(p)][i][m][j]
             IN  /\ d.integration = "mock" => Required(d) = AskedWithout(m, <<>>)
                 /\ d.integration = "author" =>
                      Required(d) = AskedWithout(m, Written.paths[p][i][m][j].security)
  <2>1. PICK d : d = doc.paths[Served(p)][i][m][j]
    OBVIOUS
  <2> QED
    BY <1>1, <1>2, <2>1, AuthorGuarded
<1> QED
  BY <1>3, <1>4 DEF RoutesGuarded, Written

(* What an author's document has is still there when the definition is     *)
(* made, whatever events, authorizers, keys, models, tags and CORS         *)
(* settings are put into it: if no event's route has an integration in one *)
(* item or branch of its path only, the document has things where its      *)
(* version has them, nothing made takes the place of its components, and   *)
(* the default path is there once.                                         *)
THEOREM NothingLostHolds ==
  ASSUME \A t \in Templates : /\ ~PartlyIntegrated(t) /\ ~Misplaced(t) /\ ~ReplacesComponents(t)
                              /\ ~LeavesModels(t) /\ ~DefaultPathTwice(t)
  PROVE  Spec => []NothingLost
<1>1. IInv => NothingLost
  BY IInvNothingLost DEF IInv, TypeInv
<1> QED
  BY <1>1, SpecIInv, PTL

(* The policy of a REST API is about every route of its definition,        *)
(* preflight routes too, and an event's about its own route, if no path    *)
(* with a policy ends in a slash.                                          *)
THEOREM PolicyCoversHolds ==
  ASSUME \A t \in Templates : ~SlashedPolicy(t)
  PROVE  Spec => []PolicyCovers
<1>1. IInv => PolicyCovers
  BY IInvPolicyCovers DEF IInv, TypeInv
<1> QED
  BY <1>1, SpecIInv, PTL

(* Every route of the definition that is made asks of its callers exactly  *)
(* what its event says, or else the API: by the right authorizer and its   *)
(* scopes or by none, with an API key or without, and with the credentials *)
(* of an AWS_IAM caller; preflight routes what the API says of them; and   *)
(* the author's methods what they asked before, beside the API's defaults. *)
(* So it is for any documents, any number of events and any authorizers,   *)
(* if no event is for a route of the author's or for that of another in    *)
(* his document, no authorizer has a name that means something else, a     *)
(* REST API with a default authorizer has authorizers, the default path is *)
(* there once, no OPTIONS event needs a key where preflight requests need  *)
(* none, no function's event leaves an AWS_IAM default half applied, and   *)
(* no method of the author's at a REST API names NONE beside an            *)
(* authorizer, or a key where the API has keys.                            *)
THEOREM RoutesGuardedHolds ==
  ASSUME \A t \in Templates :
           /\ ~OwnRoute(t) /\ ~TwiceIntegrated(t) /\ ~ReservedNames(t) /\ ~UnheededDefault(t)
           /\ ~DefaultPathTwice(t) /\ ~KeyOfPreflight(t) /\ ~PartialIam(t) /\ ~NoneAndMore(t) /\ ~WrittenKey(t)
  PROVE  Spec => []RoutesGuarded
<1>1. IInv => RoutesGuarded
  BY IInvRoutesGuarded DEF IInv, TypeInv, Apart
<1> QED
  BY <1>1, SpecIInv, PTL

(* Whatever a method of the definition that is made names is there: the    *)
(* definitions of its security, the model of its body and its validator.   *)
(* So it is for any documents, any number of events and any authorizers    *)
(* and models, if, beside what the theorem above asks of an event's route  *)
(* and of an authorizer's name, the document has things where its version  *)
(* has them, nothing made takes the place of its components, its own       *)
(* definitions and models come with it, and its author and its events name *)
(* only what he or the API defines.                                        *)
THEOREM NamesDefinedHolds ==
  ASSUME \A t \in Templates :
           /\ ~OwnRoute(t) /\ ~TwiceIntegrated(t) /\ ~ReservedNames(t) /\ ~UnheededDefault(t)
           /\ ~DefaultPathTwice(t) /\ ~Misplaced(t) /\ ~ReplacesComponents(t)
           /\ ~LeavesModels(t) /\ ~LeavesDefinitions(t) /\ ~UndefinedNames(t) /\ ~UndefinedModels(t)
  PROVE  Spec => []NamesDefined
<1>1. IInv => NamesDefined
  BY IInvNamesDefined DEF IInv, TypeInv, Apart
<1> QED
  BY <1>1, SpecIInv, PTL
==============================================================================
