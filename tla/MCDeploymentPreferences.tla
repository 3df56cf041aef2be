----------------------- MODULE MCDeploymentPreferences -----------------------
(* Three functions whose preferences differ in their conditions; each is   *)
(* plain, or has one of the traits of a preference.                        *)
EXTENDS DeploymentPreferences, TLC

CONSTANTS f1, f2, f3, c1, c2, c3

MCFunctions == {f1, f2, f3}
MCConditions == {c1, c2, c3}

Plain(c) == [condition |-> c, passthrough |-> TRUE, enabled |-> TRUE,
             wellFormed |-> TRUE, alarmsOk |-> TRUE, ownRole |-> FALSE, alias |-> TRUE]

Traits(c) ==
  {Plain(c), [Plain(c) EXCEPT !.passthrough = FALSE], [Plain(c) EXCEPT !.ownRole = TRUE],
   [Plain(c) EXCEPT !.enabled = FALSE],
   [Plain(c) EXCEPT !.enabled = FALSE, !.wellFormed = FALSE, !.alias = FALSE]}

Broken(c) ==
  {[Plain(c) EXCEPT !.wellFormed = FALSE], [Plain(c) EXCEPT !.alarmsOk = FALSE],
   [Plain(c) EXCEPT !.alias = FALSE]}

All(conditions) == UNION {Traits(c) : c \in conditions}

MCTemplates ==
  {(f1 :> p1) @@ (f2 :> p2) @@ (f3 :> p3) :
     p1 \in All({c1, NoCondition}), p2 \in All({c1, c2, NoCondition}),
     p3 \in All({c3}) \cup Broken(c3) \cup {Plain(NoCondition)}}
=============================================================================
