-------------------------- MODULE CombinedCondition --------------------------
(***************************************************************************)
(* make_combined_condition: one condition that holds when any of a list of *)
(* conditions does.  An Fn::Or takes MaxConditions operands at most, so    *)
(* the first ones of the list are replaced, group by group, by a new       *)
(* condition at its end.  The new conditions are named by a number, the    *)
(* last one by the bare name, here 0.                                      *)
(***************************************************************************)
EXTENDS Integers, Sequences

CONSTANTS
  TemplateConditions, \* conditions of the template
  MaxConditions,      \* operands of an Fn::Or
  Lists               \* the lists to combine

ASSUME CombineAssumption ==
  /\ TemplateConditions \cap Nat = {}
  /\ MaxConditions \in Nat /\ MaxConditions >= 2
  /\ Lists \subseteq Seq(TemplateConditions)

VARIABLES
  toCombine, \* the list to combine
  list,      \* conditions_list
  number,    \* zero_based_num_conditions
  ors,       \* conditions: the new names, and the operands of each Fn::Or
  result     \* "running", "none": nothing to combine, or "combined"

combineVars == <<toCombine, list, number, ors, result>>

Bare == 0

Members(s) == {s[i] : i \in 1..Len(s)}

NumberOfConditions(length) == 1 + (length - 2) \div (MaxConditions - 1)

CombineInit ==
  /\ toCombine \in Lists
  /\ list = toCombine
  /\ ors = [n \in {} |-> <<>>]
  /\ IF Len(toCombine) < 2
       THEN number = 0 /\ result = "none"
       ELSE number = NumberOfConditions(Len(toCombine)) - 1 /\ result = "running"

(* conditions_list[:max] and conditions_list[max:].                        *)
Taken(s) == SubSeq(s, 1, IF Len(s) < MaxConditions THEN Len(s) ELSE MaxConditions)
Remaining_DropsOne(s) == SubSeq(s, MaxConditions + 2, Len(s))
Remaining(s) == SubSeq(s, MaxConditions + 1, Len(s))

CountDown(n) == IF n > 0 THEN n - 1 ELSE n

Combine ==
  /\ result = "running"
  /\ Len(list) > 1
  /\ ors' = [n \in DOMAIN ors \cup {number} |-> IF n = number THEN Taken(list) ELSE ors[n]]
  /\ list' = Append(Remaining(list), number)
  /\ number' = CountDown(number)
  /\ UNCHANGED <<toCombine, result>>

Return ==
  /\ result = "running"
  /\ Len(list) <= 1
  /\ result' = "combined"
  /\ UNCHANGED <<toCombine, list, number, ors>>

CombineNext == Combine \/ Return
CombineSpec == CombineInit /\ [][CombineNext]_combineVars

-----------------------------------------------------------------------------
CombineTypeOK ==
  /\ toCombine \in Seq(TemplateConditions)
  /\ list \in Seq(TemplateConditions \cup Nat)
  /\ number \in Nat
  /\ DOMAIN ors \subseteq Nat
  /\ \A n \in DOMAIN ors : ors[n] \in Seq(TemplateConditions \cup Nat)
  /\ result \in {"running", "none", "combined"}

(* Fn::Or accepts up to MaxConditions conditions, and needs two.           *)
OrAccepted == \A n \in DOMAIN ors : Len(ors[n]) \in 2..MaxConditions

(* The bare name, which the caller puts on its resources, is the condition *)
(* the whole list ends in.                                                 *)
EndsInBareName == result = "combined" => list = <<Bare>> /\ Bare \in DOMAIN ors

(* Whatever the conditions of the template are worth, and the new ones     *)
(* accordingly, the list holds as often as the given one: the combined     *)
(* condition is the disjunction of all that were given.                    *)
Worth(truth) == \A n \in DOMAIN ors : truth[n] <=> \E c \in Members(ors[n]) : truth[c]

MeansAny ==
  \A truth \in [TemplateConditions \cup DOMAIN ors -> BOOLEAN] :
    Worth(truth) => ((\E c \in Members(list) : truth[c]) <=> \E c \in Members(toCombine) : truth[c])

(* Whatever was given, what the callers refer to is a disjunction of it    *)
(* that CloudFormation takes.                                              *)
AcceptedDisjunction == OrAccepted /\ EndsInBareName /\ MeansAny

(* A name is given to one new condition only.                              *)
NamesTakenOnce == [][\A n \in DOMAIN ors : ors'[n] = ors[n]]_combineVars
=============================================================================
