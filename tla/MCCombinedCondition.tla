------------------------- MODULE MCCombinedCondition -------------------------
(* Lists of up to MaxLength conditions, repeated ones included, with Fn::Or *)
(* of three operands: up to three new conditions.                           *)
EXTENDS CombinedCondition

CONSTANTS c1, c2, MaxLength

MCConditions == {c1, c2}
MCLists == UNION {[1..n -> MCConditions] : n \in 0..MaxLength}
=============================================================================
