-------------------------- MODULE MCSharedUsagePlan --------------------------
(* Three APIs: usage plans and conditions of all kinds, then policies of   *)
(* all kinds with the plan shared by all.                                  *)
EXTENDS SharedUsagePlan, TLC

CONSTANTS a1, a2, a3, c1, c2

MCApis == {a1, a2, a3}
MCConditions == {c1, c2}

Plain(plan, condition, settings) ==
  [usagePlan |-> plan, condition |-> condition, deletion |-> "none", update |-> "none",
   settings |-> settings]
Careful(deletion, update) ==
  [usagePlan |-> "SHARED", condition |-> NoCondition, deletion |-> deletion, update |-> update,
   settings |-> FALSE]

PlansAndConditions ==
  {Plain(plan, c, FALSE) : plan \in {"PER_API", "SHARED"}, c \in {c1, c2, NoCondition}}
    \cup {Plain("NONE", c1, FALSE)}
PoliciesOfOne ==
  {Careful(p, p) : p \in Policies}
    \cup {Careful("Delete", "Retain"), Careful("Retain", "Delete"), Careful("none", "Snapshot")}

Three(first, second, third) ==
  {(a1 :> x) @@ (a2 :> y) @@ (a3 :> z) : x \in first, y \in second, z \in third}

MCTemplates ==
  [conditions : BOOLEAN, apis : Three(PlansAndConditions, PlansAndConditions, PlansAndConditions)]
    \cup
  [conditions : {TRUE}, apis : Three(PoliciesOfOne, PoliciesOfOne, PoliciesOfOne)]
=============================================================================
