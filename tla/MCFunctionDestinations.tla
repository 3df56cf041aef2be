----------------------- MODULE MCFunctionDestinations -----------------------
(* Two functions; the second is plain, so that what the first leaves for   *)
(* it shows.                                                               *)
EXTENDS FunctionDestinations, TLC

CONSTANTS f1, f2, c1, c2

MCFunctions == {f1, f2}
MCConditions == {c1, c2}

NoCell == [present |-> FALSE, type |-> "none", kind |-> "absent",
           condition |-> NoCondition, queue |-> NoQueue]
At(type, kind, condition) ==
  [present |-> TRUE, type |-> type, kind |-> kind, condition |-> condition, queue |-> NoQueue]

Asked ==
  {NoCell, At("SQS", "absent", NoCondition), At("SQS", "arn", NoCondition),
   At("SQS", "makeIf", c2), At("SQS", "makeUnless", c2)}
Odd ==
  {At("Lambda", "arn", NoCondition), At("Lambda", "makeUnless", c2), At("none", "arn", NoCondition),
   At("none", "makeIf", c2)}

Slot2(s, f) == [slot \in Slots |-> IF slot = "OnSuccess" THEN s ELSE f]

Fn(condition, role, roleIf, ignore, slots) ==
  [condition |-> condition, role |-> role, roleIf |-> roleIf, ignore |-> ignore, slots |-> slots]

Roles == {<<"absent", NoCondition>>, <<"arn", NoCondition>>, <<"makeIf", c2>>, <<"makeUnless", c2>>}

(* The first function: destinations of all kinds, then roles of all kinds. *)
Firsts ==
  {Fn(c, "absent", NoCondition, i, Slot2(s, NoCell)) :
     c \in {c1, NoCondition}, i \in {"nothing", "all", "another"}, s \in Asked \cup Odd}
  \cup
  {Fn(c, r[1], r[2], "nothing", Slot2(s, o)) :
     c \in {c1, NoCondition}, r \in Roles, s \in Asked,
     o \in {At("SQS", "absent", NoCondition), At("SQS", "makeUnless", c1)}}
Seconds ==
  {Fn(c, "absent", NoCondition, i, Slot2(s, NoCell)) :
     c \in {c2, NoCondition}, i \in {"nothing", "another"},
     s \in {NoCell, At("SQS", "absent", NoCondition), At("none", "makeIf", c1)}}

AllTemplates ==
  {[globals |-> Slot2(g, NoCell), functions |-> (f1 :> a) @@ (f2 :> b)] :
     g \in Asked, a \in Firsts, b \in Seconds}

(* RolesNeedFunctions fails where a role loses the condition, and the      *)
(* others where a queue is shared or gets the condition of its function    *)
(* beside its own: these templates are not in the run.                     *)
MCTemplates == {t \in AllTemplates : ~(SharesQueue(t) \/ RoleLosesCondition(t) \/ NestsConditions(t))}
SharingTemplates == {t \in AllTemplates : SharesQueue(t) /\ ~(RoleLosesCondition(t) \/ NestsConditions(t))}
NestingTemplates == {t \in AllTemplates : NestsConditions(t) /\ ~(RoleLosesCondition(t) \/ SharesQueue(t))}
=============================================================================
