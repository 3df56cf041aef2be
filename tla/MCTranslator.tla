---------------------------- MODULE MCTranslator ----------------------------
(* Instances of Translator for TLC: a function, a function or state        *)
(* machine, an API, the implicit APIs, a layer version, a connector written*)
(* as a resource or inside the function, and resources of the caller.      *)
EXTENDS Translator, FiniteSets

MCIds == {"f", "g", "a", "implicit", "http", "l", "lHash", "fConn", "b", "x", "app"}

None == [i \in MCIds |-> {}]

(* The choices that matter: who has events, whether the API is managed,    *)
(* which ids that would be generated are taken, how the connector is       *)
(* written (inside the function, as a resource, or both: a clash).         *)
Template(g, taken, body, events, conn, embedded) ==
  [plugins |-> IF events = {} THEN <<"custom">> ELSE <<>>,
   kind |-> [i \in MCIds |->
               CASE i = "f" -> "function" [] i = "g" -> g [] i = "a" -> "api"
                 [] i = "l" -> "layer" [] i = "b" -> "bucket"
                 [] i \in taken -> "cfn"
                 [] i = "fConn" -> conn [] OTHER -> "absent"],
   ownBody |-> body,
   events |-> [None EXCEPT !["f"] = events, !["g"] = {"a"}],
   extra |-> [None EXCEPT !["f"] = {"x"}, !["g"] = {"b"}],
   newId |-> [[i \in MCIds |-> i] EXCEPT !["l"] = "lHash"],
   connectors |-> embedded,
   deploys |-> IF taken = {} THEN {"f"} ELSE {},
   refs |-> {<<"f", "l">>, <<"x", "g">>, <<"l", "b">>}]

Inside == {<<"f", "fConn">>}

MCPluginNames ==
  {"custom", "app", "definitionBody", "implicitRest", "implicitHttp", "globals",
   "policyTemplates"}
MCPluginLists == {<<>>, <<"custom">>, <<"app">>, <<"custom", "globals">>}

(* What is taken is "x", or the ids of the implicit APIs in a template     *)
(* without events for them: then the caller's resource is put back.        *)
MCTemplates ==
  {Template(g, taken, body, events, c[1], c[2]) :
     g \in EventKinds, taken \in {{}, {"x"}}, body \in {{}, {"a"}},
     events \in {{}, {"a", "implicit"}},
     c \in {<<"absent", Inside>>, <<"connector", {}>>, <<"connector", Inside>>}}
  \cup {Template("function", {"implicit", "http"}, {}, events, "absent", Inside) :
          events \in {{}, {"a"}}}
  \cup {[Template("function", {}, {}, {"a", "http"}, "absent", {})
           EXCEPT !.plugins = names] : names \in MCPluginLists}

MCImplicitApis ==
  [p \in ImplicitPlugins |-> IF p = "implicitRest" THEN "implicit" ELSE "http"]

MCCodeDeployIds == [None EXCEPT !["f"] = {"app"}]


-----------------------------------------------------------------------------
(* Templates for which the code overwrites a resource without noticing: not*)
(* in the run, where NothingOverwritten would fail for each.  The caller   *)
(* has a resource, of CloudFormation or of SAM, with the id of an implicit *)
(* API that events are for; or one with the id of the CodeDeploy           *)
(* application; two resources generate the same id, as function "A" with   *)
(* event "BC" and function "AB" with event "C" do; two embedded connectors *)
(* get the same full id.                                                   *)
Plain == [plugins |-> <<>>,
          kind |-> [i \in MCIds |-> CASE i \in {"f", "g"} -> "function"
                                      [] OTHER -> "absent"],
          ownBody |-> {}, events |-> None, extra |-> None,
          newId |-> [i \in MCIds |-> i], connectors |-> {}, deploys |-> {},
          refs |-> {}]

MCTakenByImplicitApi ==
  {[Plain EXCEPT !.kind[id] = k, !.events["f"] = {id}] :
     id \in {"implicit", "http"}, k \in {"cfn", "bucket", "api", "function"}}

MCTakenByCodeDeploy ==
  {[Plain EXCEPT !.kind["app"] = "cfn", !.deploys = {"f"}]}

MCSameGeneratedId ==
  {[Plain EXCEPT !.extra["f"] = {"x"}, !.extra["g"] = {"x"}],
   [Plain EXCEPT !.connectors = {<<"f", "fConn">>, <<"g", "fConn">>}]}
=============================================================================
