---------------------------- MODULE MCConnectors ----------------------------
(***************************************************************************)
(* Connectors for TLC: two connectors among a function with a role of      *)
(* SAM's, one with a role of its own, two state machines, a queue with a   *)
(* mapping, a table and, outside the template, a topic and a queue.        *)
(***************************************************************************)
EXTENDS Connectors, TLC

CONSTANTS A, B, F, H, S, D, Q, T, M, R, E, X, Y

MCPlain == {F, H, S, D, Q, T, M, R, E}
MCOutside == {X, Y}
MCConnectorIds == {A, B}
MCTypeOf ==
  F :> "function" @@ H :> "function" @@ S :> "machine" @@ D :> "machine" @@ Q :> "queue" @@ T :> "table"
    @@ M :> "mapping" @@ R :> "role" @@ E :> "rule" @@ X :> "topic" @@ Y :> "queue"
MCKnown == X :> {"Arn"} @@ Y :> {"Arn", "QueueUrl"}
MCRefsOf == [p \in MCPlain |-> CASE p \in {F, S, D} -> {R} [] p = M -> {F, Q} [] p = E -> {S} [] OTHER -> {}]
MCRoleOf ==
  [pair \in MCPlain \X (MCPlain \cup MCOutside) |->
     IF pair[1] \in {F, S, D} \/ pair = <<E, S>> THEN R ELSE NoRole]

Connector(s, ds, ps, deps) == [source |-> s, destinations |-> ds, permissions |-> ps, dependsOn |-> deps]

FirstConnectors ==
  {Connector(s, ds, ps, deps) :
     s \in {F, H, S, Q, T, E, X},
     ds \in {<<d>> : d \in {F, S, D, T, Y}} \cup {<<T, Y>>, <<T, S>>, <<D, S>>, <<F, D>>},
     ps \in {{"Read"}, {"Read", "Write"}, {"Write"}}, deps \in {{}, {B}}}
SecondConnectors ==
  {Connector(s, ds, ps, deps) :
     s \in {F, S, Q}, ds \in {<<>>, <<F>>, <<S>>, <<T, D>>}, ps \in {{"Read", "Write"}}, deps \in {{}, {A}}}

DependsOnOf == [p \in MCPlain |-> {}]
Written == {DependsOnOf, [DependsOnOf EXCEPT ![S] = {A, T}, ![F] = {A, B}], [DependsOnOf EXCEPT ![M] = {B}]}

AllTemplates ==
  {[order |-> o, dependsOn |-> w, connectors |-> (A :> a @@ B :> b)] :
     o \in {<<A, B>>, <<B, A>>}, w \in Written, a \in FirstConnectors, b \in SecondConnectors}

MCTemplates == {t \in AllTemplates : Early(t)}

(* Some that are not, of which OrderKept fails.                            *)
ChainedTemplates ==
  {t \in AllTemplates :
     t.dependsOn = DependsOnOf /\ t.order = <<B, A>> /\ t.connectors[A].source = F /\ t.connectors[A].dependsOn = {}}
=============================================================================
