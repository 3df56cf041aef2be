--------------------- MODULE FunctionDestinationsProofs ---------------------
(***************************************************************************)
(* What is proved of the destinations of functions.                        *)
(*                                                                         *)
(* What a function is translated to depends on the template alone as long  *)
(* as no function has filled in a destination that another one takes from  *)
(* the Globals.  The invariant says so: what is already in the template is *)
(* what the template asks for the functions that are done (ResourcesAre),  *)
(* and the cells of the others are as they were written (CellsWait).  The  *)
(* conditions that are added keep a meaning that their name determines     *)
(* (MeaningsIn), so that one that is written twice does not change.        *)
(***************************************************************************)
EXTENDS FunctionDestinations, TLAPS

(* What the template asks of a slot, and of a function.                    *)
Cell0(f, slot) == Merged(given, f, slot)
Asks(f, slot) == Cell0(f, slot).present /\ NeedsQueue(Cell0(f, slot))

MadeFor(f, slot) ==
  IF Asks(f, slot)
    THEN {[id |-> QueueId(f, slot), condition |-> QueueCondition(Cell0(f, slot), f), refs |-> {}]}
    ELSE {}

SendsFor(f, slot) ==
  IF Asks(f, slot) THEN {Sends(slot, QueueId(f, slot), PropertyCondition(Cell0(f, slot), f))}
  ELSE IF Cell0(f, slot).present THEN {Sends(slot, NoQueue, NoCondition)}
  ELSE {}

RefsFor(f) ==
  {[to |-> s.queue, when |-> s.condition] :
     s \in {s \in SendsFor(f, "OnSuccess") \cup SendsFor(f, "OnFailure") : s.queue # NoQueue}}

ResourcesFor(f) ==
  MadeFor(f, "OnSuccess") \cup MadeFor(f, "OnFailure")
    \cup {LambdaFunction(f), Resource(ConfigId(f), ConditionOf(f), RefsFor(f))}
    \cup (IF MakesRole(f) THEN {Resource(RoleId(f), RoleCondition(f), RefsFor(f))} ELSE {})

(* The conditions that are named for them are defined; only queues and     *)
(* topics are made.                                                        *)
SlotNamed(f, slot, defined) ==
  Asks(f, slot) =>
    /\ Cell0(f, slot).type = "SQS"
    /\ {PropertyCondition(Cell0(f, slot), f), QueueCondition(Cell0(f, slot), f)}
         \subseteq DOMAIN defined \cup {NoCondition}

-----------------------------------------------------------------------------
(* The meanings that conditions have by their names.                       *)
Base(c) == {truth \in Truths : truth[c]}

MeaningsIn(defined) ==
  /\ \A c \in Conditions : c \in DOMAIN defined /\ defined[c] = Base(c)
  /\ \A c \in Conditions, f \in Functions :
       NotName(c, f) \in DOMAIN defined => defined[NotName(c, f)] = Truths \ Base(c)
  /\ \A c \in Conditions :
       RoleNotName(c) \in DOMAIN defined => defined[RoleNotName(c)] = Truths \ Base(c)
  /\ \A c \in Conditions, d \in Conditions \cup Negations, f \in Functions :
       AndName(c, d, f) \in DOMAIN defined => defined[AndName(c, d, f)] = NoMeaning

Grown(less, more) ==
  /\ DOMAIN less \subseteq DOMAIN more
  /\ \A n \in DOMAIN less : more[n] = less[n]

(* A cell that is still to be filled in is as a template may have it.      *)
CellKnown(cell) ==
  NeedsQueue(cell) =>
    /\ cell.condition \in Conditions \cup {NoCondition}
    /\ cell.kind \in {"makeIf", "makeUnless"} <=> cell.condition # NoCondition

Shape ==
  /\ given \in Templates
  /\ cells = [owner \in Functions \cup {Globals} |-> [slot \in Slots |-> cells[owner][slot]]]
  /\ todo \subseteq Functions
  /\ current \notin todo
  /\ \/ step = "next" /\ current = Globals
     \/ step \in Slots \cup {"role"} /\ current \in Functions
  /\ \A owner \in Functions \cup {Globals}, slot \in Slots : CellKnown(cells[owner][slot])
  /\ MeaningsIn(conditions)

(* A role that is in the template is there with its function.              *)
RolesAre ==
  /\ \A r \in made : r.id \in Queues
  /\ \A r \in resources, f \in Functions :
       r.id = RoleId(f) =>
         /\ r.condition = RoleCondition(f)
         /\ LambdaFunction(f) \in resources
         /\ Branch(f) \in DOMAIN conditions \cup {NoCondition}

(* The slots of the current function that are still to come, and those of  *)
(* the functions still to come, are as the template has them.              *)
CellsWait ==
  \A f \in Functions, slot \in Slots :
    f \in todo \/ (f = current /\ (step = "OnSuccess" \/ step = slot)) =>
      CellOf(f, slot) = Cell0(f, slot)

Passed(slot) == step = "role" \/ (step = "OnFailure" /\ slot = "OnSuccess")

CurrentSoFar ==
  \A f \in Functions : f = current =>
    /\ made = UNION {MadeFor(f, slot) : slot \in {slot \in Slots : Passed(slot)}}
    /\ sends = UNION {SendsFor(f, slot) : slot \in {slot \in Slots : Passed(slot)}}
    /\ \A slot \in Slots : Passed(slot) => SlotNamed(f, slot, conditions)

Done == Functions \ (todo \cup {current})

ResourcesAre ==
  ~errors =>
    /\ resources = UNION {ResourcesFor(f) : f \in Done}
    /\ \A f \in Done :
         /\ \A slot \in Slots : SlotNamed(f, slot, conditions)
         /\ Branch(f) \in DOMAIN conditions \cup {NoCondition}

AsGiven == ~SharesQueue(given) => CellsWait /\ CurrentSoFar /\ ResourcesAre
IInv == Shape /\ RolesAre /\ AsGiven

-----------------------------------------------------------------------------
(* Templates.                                                              *)

(* The parts of a template that is considered.                             *)
LEMMA TemplateParts ==
  ASSUME NEW t \in Templates
  PROVE  /\ t \in Template /\ WellFormed(t)
         /\ \A slot \in Slots : t.globals[slot] \in Cell /\ Written(t.globals[slot])
         /\ \A f \in Functions :
              /\ t.functions[f] \in Function
              /\ \A slot \in Slots :
                   t.functions[f].slots[slot] \in Cell /\ Written(t.functions[f].slots[slot])
              /\ t.functions[f].role \in {"makeIf", "makeUnless"} <=> t.functions[f].roleIf # NoCondition
<1>1. t \in Template /\ WellFormed(t)
  BY DestinationsAssumption
<1>2. t.globals \in [Slots -> Cell] /\ t.functions \in [Functions -> Function]
  BY <1>1 DEF Template
<1>3. \A f \in Functions : t.functions[f].slots \in [Slots -> Cell]
  BY <1>2 DEF Function
<1> QED BY <1>1, <1>2, <1>3 DEF WellFormed

(* The merge of two cells as a template may have them is such a cell.      *)
LEMMA MergeWritten ==
  ASSUME NEW global \in Cell, NEW local \in Cell, Written(global), Written(local)
  PROVE  Merge(global, local) \in Cell /\ Written(Merge(global, local))
<1> DEFINE type == IF local.type = "none" THEN global.type ELSE local.type
<1>1. CASE ~local.present \/ ~global.present
  BY <1>1 DEF Merge
<1>2. CASE local.present /\ global.present /\ local.kind = "absent"
  <2>1. Merge(global, local) = [global EXCEPT !.type = type]
    BY <1>2 DEF Merge, Cell
  <2> QED BY <2>1, <1>2 DEF Cell, Written
<1>3. CASE local.present /\ global.present /\ local.kind # "absent"
  <2>1. Merge(global, local) = [local EXCEPT !.type = type]
    BY <1>3 DEF Merge, Cell
  <2> QED BY <2>1, <1>3 DEF Cell, Written
<1> QED BY <1>1, <1>2, <1>3 DEF Cell

(* What the template asks of a slot is a cell as a template may have it.   *)
LEMMA AskedWritten ==
  ASSUME given \in Templates, NEW f \in Functions, NEW slot \in Slots
  PROVE  Cell0(f, slot) \in Cell /\ Written(Cell0(f, slot))
BY TemplateParts, MergeWritten DEF Cell0, Merged

(* A cell as a template may have it is known.                              *)
LEMMA WrittenKnown ==
  ASSUME NEW cell, Written(cell)
  PROVE  CellKnown(cell)
BY DEF Written, CellKnown

(* The conditions of a function and of its role.                           *)
LEMMA FunctionConditions ==
  ASSUME given \in Templates, NEW f \in Functions
  PROVE  /\ ConditionOf(f) \in Conditions \cup {NoCondition}
         /\ given.functions[f].roleIf \in Conditions \cup {NoCondition}
         /\ given.functions[f].role = "makeUnless" => given.functions[f].roleIf \in Conditions
BY TemplateParts DEF ConditionOf, Function

-----------------------------------------------------------------------------
(* Names.                                                                  *)

(* Names are different when they are built differently or from different   *)
(* parts, and none is NoCondition.                                         *)
LEMMA NamesDiffer ==
  /\ NoCondition \notin Conditions
  /\ \A c \in Conditions, f \in Functions :
       /\ NotName(c, f) \notin Conditions \cup {NoCondition}
       /\ NotName(c, f) \in Negations
       /\ \A c2 \in Conditions, f2 \in Functions : NotName(c, f) = NotName(c2, f2) => c = c2
       /\ \A c2 \in Conditions : NotName(c, f) # RoleNotName(c2)
  /\ \A c \in Conditions :
       /\ RoleNotName(c) \notin Conditions \cup {NoCondition}
       /\ RoleNotName(c) \notin Negations
       /\ \A c2 \in Conditions : RoleNotName(c) = RoleNotName(c2) => c = c2
  /\ \A c \in Conditions, d \in Conditions \cup Negations, f \in Functions :
       /\ AndName(c, d, f) \notin Conditions \cup {NoCondition}
       /\ AndName(c, d, f) \notin Negations
       /\ \A c2 \in Conditions : AndName(c, d, f) # RoleNotName(c2)
       /\ \A c2 \in Conditions, d2 \in Conditions \cup Negations, f2 \in Functions :
            AndName(c, d, f) = AndName(c2, d2, f2) => c = c2 /\ d = d2
<1>1. \A c \in Conditions, f \in Functions : NotName(c, f) \in Negations
  BY DEF Negations
<1>2. \A c \in Conditions, f \in Functions : NotName(c, f) \in Added
  BY <1>1 DEF Added
<1>3. \A c \in Conditions : RoleNotName(c) \in Added
  BY DEF Added
<1>4. \A c \in Conditions, d \in Conditions \cup Negations, f \in Functions : AndName(c, d, f) \in Added
  BY DEF Added
<1>5. Conditions \cap Added = {} /\ NoCondition \notin Conditions \cup Added /\ Globals \notin Functions
  BY DestinationsAssumption DEF Names
<1>6. \A c \in Conditions, f \in Functions :
        /\ \A c2 \in Conditions, f2 \in Functions : NotName(c, f) = NotName(c2, f2) => c = c2
        /\ \A c2 \in Conditions : NotName(c, f) # RoleNotName(c2)
  BY <1>5 DEF NotName, RoleNotName
<1>7. \A c, d, f, c2, d2, f2 :
        /\ AndName(c, d, f) = AndName(c2, d2, f2) => c = c2 /\ d = d2
        /\ AndName(c, d, f) # NotName(c2, f2)
        /\ AndName(c, d, f) # RoleNotName(c2)
  BY DEF AndName, NotName, RoleNotName
<1>8. \A c, c2 : RoleNotName(c) = RoleNotName(c2) => c = c2
  BY DEF RoleNotName
<1>9. \A c \in Conditions : RoleNotName(c) \notin Negations
  BY <1>6 DEF Negations
<1>10. \A c, d, f : AndName(c, d, f) \notin Negations
  BY <1>7 DEF Negations
<1> QED BY <1>1, <1>2, <1>3, <1>4, <1>5, <1>6, <1>7, <1>8, <1>9, <1>10

(* The ids of queues, roles, configurations and functions are apart.       *)
LEMMA IdsDiffer ==
  /\ \A f \in Functions, g \in Functions, slot \in Slots, slot2 \in Slots :
       /\ QueueId(f, slot) = QueueId(g, slot2) => f = g /\ slot = slot2
       /\ QueueId(f, slot) \in Queues
       /\ QueueId(f, slot) # g
       /\ QueueId(f, slot) # RoleId(g)
       /\ QueueId(f, slot) # ConfigId(g)
  /\ \A f \in Functions, g \in Functions :
       /\ RoleId(f) = RoleId(g) => f = g
       /\ RoleId(f) # g
       /\ RoleId(f) # ConfigId(g)
       /\ RoleId(f) \notin Queues
       /\ ConfigId(f) # g
  /\ NoQueue \notin Queues
<1>1. \A f, g, slot, slot2 :
        /\ QueueId(f, slot) = QueueId(g, slot2) => f = g /\ slot = slot2
        /\ QueueId(f, slot) # RoleId(g)
        /\ QueueId(f, slot) # ConfigId(g)
        /\ RoleId(f) = RoleId(g) => f = g
        /\ RoleId(f) # ConfigId(g)
  BY DEF QueueId, RoleId, ConfigId
<1>2. \A f \in Functions, slot \in Slots : QueueId(f, slot) \in Queues
  BY DEF Queues
<1>3. \A f \in Functions, g \in Functions :
        /\ RoleId(f) # g /\ ConfigId(f) # g
        /\ \A slot \in Slots : QueueId(f, slot) # g
  BY <1>2, DestinationsAssumption
<1>4. \A f \in Functions : RoleId(f) \notin Queues
  BY <1>1 DEF Queues
<1> QED BY <1>1, <1>2, <1>3, <1>4, DestinationsAssumption

-----------------------------------------------------------------------------
(* Conditions that are added.                                              *)

(* A condition that is added with the meaning of its name changes none     *)
(* that is there.                                                          *)
LEMMA WithKeeps ==
  ASSUME NEW defined, NEW name, NEW meaning,
         name \in DOMAIN defined => defined[name] = meaning
  PROVE  /\ DOMAIN With(defined, name, meaning) = DOMAIN defined \cup {name}
         /\ With(defined, name, meaning)[name] = meaning
         /\ Grown(defined, With(defined, name, meaning))
BY DEF With, Grown

(* Adding conditions twice is adding conditions.                           *)
LEMMA GrownTwice ==
  ASSUME NEW a, NEW b, NEW c, Grown(a, b), Grown(b, c)
  PROVE  Grown(a, c)
BY DEF Grown

(* Adding none is, too.                                                    *)
LEMMA GrownItself == \A a : Grown(a, a)
BY DEF Grown

(* The negation of a condition of the template, under the name that a      *)
(* function gives it.                                                      *)
LEMMA NegationKeeps ==
  ASSUME NEW defined, MeaningsIn(defined), NEW c \in Conditions, NEW f \in Functions
  PROVE  LET more == With(defined, NotName(c, f), Truths \ defined[c])
         IN  MeaningsIn(more) /\ Grown(defined, more) /\ NotName(c, f) \in DOMAIN more
<1> DEFINE name == NotName(c, f)
           more == With(defined, name, Truths \ Base(c))
<1>0. defined[c] = Base(c) /\ (name \in DOMAIN defined => defined[name] = Truths \ Base(c))
  BY DEF MeaningsIn
<1>1. /\ DOMAIN more = DOMAIN defined \cup {name}
      /\ more[name] = Truths \ Base(c)
      /\ Grown(defined, more)
  BY <1>0, WithKeeps
<1> HIDE DEF more
<1>2. \A n \in DOMAIN defined : n \in DOMAIN more /\ more[n] = defined[n]
  BY <1>1 DEF Grown
<1>3. \A b \in Conditions : b \in DOMAIN more /\ more[b] = Base(b)
  BY <1>2 DEF MeaningsIn
<1>4. \A b \in Conditions, g \in Functions :
        NotName(b, g) \in DOMAIN more => more[NotName(b, g)] = Truths \ Base(b)
  BY <1>1, <1>2, NamesDiffer DEF MeaningsIn
<1>5. \A b \in Conditions :
        RoleNotName(b) \in DOMAIN more => more[RoleNotName(b)] = Truths \ Base(b)
  BY <1>1, <1>2, NamesDiffer DEF MeaningsIn
<1>6. \A b \in Conditions, d \in Conditions \cup Negations, g \in Functions :
        AndName(b, d, g) \in DOMAIN more => more[AndName(b, d, g)] = NoMeaning
  BY <1>1, <1>2, NamesDiffer DEF MeaningsIn
<1>7. MeaningsIn(more)
  BY <1>3, <1>4, <1>5, <1>6 DEF MeaningsIn
<1>8. more = With(defined, NotName(c, f), Truths \ defined[c])
  BY <1>0 DEF more
<1> QED BY <1>1, <1>7, <1>8

(* The negation that the role of a function takes.                         *)
LEMMA RoleNegationKeeps ==
  ASSUME NEW defined, MeaningsIn(defined), NEW c \in Conditions
  PROVE  LET more == With(defined, RoleNotName(c), Truths \ defined[c])
         IN  MeaningsIn(more) /\ Grown(defined, more) /\ RoleNotName(c) \in DOMAIN more
<1> DEFINE name == RoleNotName(c)
           more == With(defined, name, Truths \ Base(c))
<1>0. defined[c] = Base(c) /\ (name \in DOMAIN defined => defined[name] = Truths \ Base(c))
  BY DEF MeaningsIn
<1>1. /\ DOMAIN more = DOMAIN defined \cup {name}
      /\ more[name] = Truths \ Base(c)
      /\ Grown(defined, more)
  BY <1>0, WithKeeps
<1> HIDE DEF more
<1>2. \A n \in DOMAIN defined : n \in DOMAIN more /\ more[n] = defined[n]
  BY <1>1 DEF Grown
<1>3. \A b \in Conditions : b \in DOMAIN more /\ more[b] = Base(b)
  BY <1>2 DEF MeaningsIn
<1>4. \A b \in Conditions, g \in Functions :
        NotName(b, g) \in DOMAIN more => more[NotName(b, g)] = Truths \ Base(b)
  BY <1>1, <1>2, NamesDiffer DEF MeaningsIn
<1>5. \A b \in Conditions :
        RoleNotName(b) \in DOMAIN more => more[RoleNotName(b)] = Truths \ Base(b)
  BY <1>1, <1>2, NamesDiffer DEF MeaningsIn
<1>6. \A b \in Conditions, d \in Conditions \cup Negations, g \in Functions :
        AndName(b, d, g) \in DOMAIN more => more[AndName(b, d, g)] = NoMeaning
  BY <1>1, <1>2, NamesDiffer DEF MeaningsIn
<1>7. MeaningsIn(more)
  BY <1>3, <1>4, <1>5, <1>6 DEF MeaningsIn
<1>8. more = With(defined, RoleNotName(c), Truths \ defined[c])
  BY <1>0 DEF more
<1> QED BY <1>1, <1>7, <1>8

(* What is to be the conjunction of the condition of a function with that  *)
(* of a destination has no meaning: its operands are references.           *)
LEMMA NoConjunction ==
  ASSUME NEW c \in Names, NEW d, NEW defined
  PROVE  MakeAnd({Reference(c), Reference(d)}, defined) = NoMeaning
BY DestinationsAssumption DEF MakeAnd

(* Adding it changes nothing that has one.                                 *)
LEMMA ConjunctionKeeps ==
  ASSUME NEW defined, MeaningsIn(defined), NEW c \in Conditions,
         NEW d \in Conditions \cup Negations, NEW f \in Functions
  PROVE  LET more == With(defined, AndName(c, d, f), NoMeaning)
         IN  MeaningsIn(more) /\ Grown(defined, more) /\ AndName(c, d, f) \in DOMAIN more
<1> DEFINE name == AndName(c, d, f)
           more == With(defined, name, NoMeaning)
<1>0. name \in DOMAIN defined => defined[name] = NoMeaning
  BY DEF MeaningsIn
<1>1. /\ DOMAIN more = DOMAIN defined \cup {name}
      /\ more[name] = NoMeaning
      /\ Grown(defined, more)
  BY <1>0, WithKeeps
<1> HIDE DEF more
<1>2. \A n \in DOMAIN defined : n \in DOMAIN more /\ more[n] = defined[n]
  BY <1>1 DEF Grown
<1>3. \A b \in Conditions : b \in DOMAIN more /\ more[b] = Base(b)
  BY <1>2 DEF MeaningsIn
<1>4. \A b \in Conditions, g \in Functions :
        NotName(b, g) \in DOMAIN more => more[NotName(b, g)] = Truths \ Base(b)
  BY <1>1, <1>2, NamesDiffer DEF MeaningsIn
<1>5. \A b \in Conditions :
        RoleNotName(b) \in DOMAIN more => more[RoleNotName(b)] = Truths \ Base(b)
  BY <1>1, <1>2, NamesDiffer DEF MeaningsIn
<1>6. \A b \in Conditions, e \in Conditions \cup Negations, g \in Functions :
        AndName(b, e, g) \in DOMAIN more => more[AndName(b, e, g)] = NoMeaning
  BY <1>1, <1>2 DEF MeaningsIn
<1>7. MeaningsIn(more)
  BY <1>3, <1>4, <1>5, <1>6 DEF MeaningsIn
<1> QED BY <1>1, <1>7 DEF more

(* The conditions that are named for a queue.                              *)
LEMMA PropertyNames ==
  ASSUME NEW cell, NeedsQueue(cell), CellKnown(cell), NEW f \in Functions
  PROVE  \/ /\ cell.kind = "absent" /\ cell.condition = NoCondition
            /\ PropertyCondition(cell, f) = NoCondition
         \/ /\ cell.kind = "makeIf" /\ cell.condition \in Conditions
            /\ PropertyCondition(cell, f) = cell.condition
         \/ /\ cell.kind = "makeUnless" /\ cell.condition \in Conditions
            /\ PropertyCondition(cell, f) = NotName(cell.condition, f)
BY NamesDiffer DEF CellKnown, NeedsQueue, PropertyCondition

(* Making a queue defines the conditions it names.                         *)
LEMMA QueueConditionKeeps ==
  ASSUME given \in Templates, MeaningsIn(conditions),
         NEW cell, NeedsQueue(cell), CellKnown(cell), NEW f \in Functions
  PROVE  LET more == WithQueueCondition(cell, f)
         IN  /\ MeaningsIn(more) /\ Grown(conditions, more)
             /\ {PropertyCondition(cell, f), QueueCondition(cell, f)} \subseteq DOMAIN more \cup {NoCondition}
<1> DEFINE c == ConditionOf(f)
           d == PropertyCondition(cell, f)
           negated == WithNegation(cell, f)
           more == WithQueueCondition(cell, f)
<1>0. c \in Conditions \cup {NoCondition}
  BY FunctionConditions
<1>1. /\ MeaningsIn(negated) /\ Grown(conditions, negated)
      /\ d \in DOMAIN negated \cup {NoCondition}
      /\ d \in Conditions \cup Negations \cup {NoCondition}
  <2>1. CASE cell.kind = "makeUnless"
    <3>1. cell.condition \in Conditions /\ d = NotName(cell.condition, f)
      BY <2>1, PropertyNames
    <3>2. negated = With(conditions, NotName(cell.condition, f), Truths \ conditions[cell.condition])
      BY <2>1 DEF WithNegation
    <3> HIDE DEF negated, d
    <3>3. MeaningsIn(negated) /\ Grown(conditions, negated) /\ NotName(cell.condition, f) \in DOMAIN negated
      BY <3>1, <3>2, NegationKeeps
    <3> QED BY <3>1, <3>3, NamesDiffer
  <2>2. CASE cell.kind # "makeUnless"
    <3>1. negated = conditions
      BY <2>2 DEF WithNegation
    <3>2. d \in Conditions \cup {NoCondition}
      BY <2>2, PropertyNames
    <3> QED BY <3>1, <3>2, GrownItself DEF MeaningsIn
  <2> QED BY <2>1, <2>2
<1>2. CASE c = NoCondition \/ d = NoCondition
  <2>1. more = negated
    BY <1>2 DEF WithQueueCondition
  <2>2. QueueCondition(cell, f) \in {c, d}
    BY <1>2 DEF QueueCondition
  <2>3. c \in DOMAIN negated \cup {NoCondition}
    BY <1>0, <1>1 DEF MeaningsIn
  <2> QED BY <2>1, <2>2, <2>3, <1>1
<1>3. CASE c # NoCondition /\ d # NoCondition
  <2>1. more = With(negated, AndName(c, d, f), NoMeaning)
    <3>1. c \in Names
      BY <1>0, <1>3 DEF Names
    <3> QED BY <1>3, <3>1, NoConjunction DEF WithQueueCondition
  <2>2. QueueCondition(cell, f) = AndName(c, d, f)
    BY <1>3 DEF QueueCondition
  <2> HIDE DEF c, d, negated, more
  <2>3. MeaningsIn(more) /\ Grown(negated, more) /\ AndName(c, d, f) \in DOMAIN more
    BY <1>0, <1>1, <1>3, <2>1, ConjunctionKeeps
  <2>4. Grown(conditions, more)
    BY <1>1, <2>3, GrownTwice
  <2>5. d \in DOMAIN more
    BY <1>1, <1>3, <2>3 DEF Grown
  <2> QED BY <2>2, <2>3, <2>4, <2>5 DEF d, more
<1> QED BY <1>2, <1>3

(* A name that is defined as a set of truths is a condition, which holds   *)
(* under them.                                                             *)
LEMMA TruthsMeant ==
  ASSUME NEW name \in DOMAIN conditions, name # NoCondition,
         NEW truths \in SUBSET Truths, conditions[name] = truths
  PROVE  Meaning(name) = truths /\ IsCondition(name)
BY DestinationsAssumption DEF Meaning, IsCondition

(* A condition of the template is one, and holds where it is true.         *)
LEMMA BaseMeant ==
  ASSUME MeaningsIn(conditions), NEW c \in Conditions
  PROVE  Meaning(c) = Base(c) /\ IsCondition(c)
<1>1. c \in DOMAIN conditions /\ conditions[c] = Base(c) /\ c # NoCondition
  BY NamesDiffer DEF MeaningsIn
<1>2. Base(c) \in SUBSET Truths
  BY DEF Base
<1> QED BY <1>1, <1>2, TruthsMeant

(* So is its negation, which holds where it is not.                        *)
LEMMA NegationMeant ==
  ASSUME MeaningsIn(conditions), NEW c \in Conditions, NEW name \in DOMAIN conditions,
         (\E f \in Functions : name = NotName(c, f)) \/ name = RoleNotName(c)
  PROVE  Meaning(name) = Truths \ Base(c) /\ IsCondition(name)
<1>1. conditions[name] = Truths \ Base(c)
  BY DEF MeaningsIn
<1>2. name # NoCondition
  BY NamesDiffer
<1> QED BY <1>1, <1>2, TruthsMeant

(* When the condition of a destination holds.                              *)
LEMMA PropertyMeaning ==
  ASSUME MeaningsIn(conditions), NEW cell, NeedsQueue(cell), CellKnown(cell), NEW f \in Functions,
         PropertyCondition(cell, f) \in DOMAIN conditions \cup {NoCondition}
  PROVE  /\ IsCondition(PropertyCondition(cell, f))
         /\ Meaning(PropertyCondition(cell, f)) =
              {truth \in Truths : \/ cell.kind = "absent"
                                  \/ cell.kind = "makeIf" /\ truth[cell.condition]
                                  \/ cell.kind = "makeUnless" /\ ~truth[cell.condition]}
<1>1. CASE cell.kind = "absent"
  BY <1>1, PropertyNames DEF Meaning, IsCondition
<1>2. CASE cell.kind = "makeIf"
  <2>1. cell.condition \in Conditions /\ PropertyCondition(cell, f) = cell.condition
    BY <1>2, PropertyNames
  <2>2. Meaning(cell.condition) = Base(cell.condition) /\ IsCondition(cell.condition)
    BY <2>1, BaseMeant
  <2> QED BY <1>2, <2>1, <2>2 DEF Base
<1>3. CASE cell.kind = "makeUnless"
  <2>1. cell.condition \in Conditions /\ PropertyCondition(cell, f) = NotName(cell.condition, f)
    BY <1>3, PropertyNames
  <2>2. NotName(cell.condition, f) \in DOMAIN conditions
    BY <2>1, NamesDiffer
  <2>3. /\ Meaning(NotName(cell.condition, f)) = Truths \ Base(cell.condition)
        /\ IsCondition(NotName(cell.condition, f))
    BY <2>1, <2>2, NegationMeant
  <2> QED BY <1>3, <2>1, <2>3 DEF Base
<1> QED BY <1>1, <1>2, <1>3 DEF NeedsQueue

(* That of a function is one, too, and holds under some of the truths.     *)
LEMMA OwnMeaning ==
  ASSUME given \in Templates, MeaningsIn(conditions), NEW f \in Functions
  PROVE  Meaning(ConditionOf(f)) \subseteq Truths /\ IsCondition(ConditionOf(f))
<1>1. CASE ConditionOf(f) = NoCondition
  BY <1>1 DEF Meaning, IsCondition
<1>2. CASE ConditionOf(f) \in Conditions
  BY <1>2, BaseMeant DEF Base
<1> QED BY <1>1, <1>2, FunctionConditions

(* The condition of a queue holds when the function's and the              *)
(* destination's do, if not both have one.                                 *)
LEMMA QueueMeaning ==
  ASSUME given \in Templates, MeaningsIn(conditions),
         NEW cell, NeedsQueue(cell), CellKnown(cell), NEW f \in Functions,
         PropertyCondition(cell, f) \in DOMAIN conditions \cup {NoCondition},
         ConditionOf(f) = NoCondition \/ PropertyCondition(cell, f) = NoCondition
  PROVE  /\ IsCondition(QueueCondition(cell, f))
         /\ Meaning(QueueCondition(cell, f)) =
              Meaning(ConditionOf(f)) \cap Meaning(PropertyCondition(cell, f))
<1> DEFINE c == ConditionOf(f)
           d == PropertyCondition(cell, f)
<1>1. /\ Meaning(c) \subseteq Truths /\ Meaning(d) \subseteq Truths
      /\ IsCondition(c) /\ IsCondition(d)
  BY PropertyMeaning, OwnMeaning
<1>2. CASE d = NoCondition
  <2>1. QueueCondition(cell, f) = c
    BY <1>2 DEF QueueCondition
  <2> QED BY <1>1, <1>2, <2>1 DEF Meaning
<1>3. CASE d # NoCondition /\ c = NoCondition
  <2>1. QueueCondition(cell, f) = d
    BY <1>3 DEF QueueCondition
  <2> QED BY <1>1, <1>3, <2>1 DEF Meaning
<1> QED BY <1>2, <1>3

-----------------------------------------------------------------------------
(* Steps.                                                                  *)

(* What the template asks for does not change.                             *)
LEMMA SameAsked ==
  ASSUME given' = given
  PROVE  /\ SharesQueue(given)' <=> SharesQueue(given)
         /\ \A f : /\ ConditionOf(f)' = ConditionOf(f)
                   /\ Branch(f)' = Branch(f)
                   /\ RoleCondition(f)' = RoleCondition(f)
                   /\ LambdaFunction(f)' = LambdaFunction(f)
                   /\ MakesRole(f)' <=> MakesRole(f)
         /\ \A f, slot : /\ Cell0(f, slot)' = Cell0(f, slot)
                         /\ OwnerOf(f, slot)' = OwnerOf(f, slot)
                         /\ Asks(f, slot)' <=> Asks(f, slot)
         /\ \A cell, f : QueueCondition(cell, f)' = QueueCondition(cell, f)
<1>1. SharesQueue(given)' <=> SharesQueue(given)
  BY DEF SharesQueue
<1>2. \A f : /\ ConditionOf(f)' = ConditionOf(f)
             /\ Branch(f)' = Branch(f)
             /\ MakesRole(f)' <=> MakesRole(f)
  BY DEF ConditionOf, Branch, MakesRole
<1>3. \A f : RoleCondition(f)' = RoleCondition(f) /\ LambdaFunction(f)' = LambdaFunction(f)
  BY <1>2 DEF RoleCondition, LambdaFunction
<1>4. \A f, slot : Cell0(f, slot)' = Cell0(f, slot)
  BY DEF Cell0
<1>5. \A f, slot : OwnerOf(f, slot)' = OwnerOf(f, slot)
  BY DEF OwnerOf, IsShared
<1>6. \A f, slot : Asks(f, slot)' <=> Asks(f, slot)
  BY <1>4 DEF Asks
<1>7. \A cell, f : QueueCondition(cell, f)' = QueueCondition(cell, f)
  BY <1>2 DEF QueueCondition
<1> QED BY <1>1, <1>2, <1>3, <1>4, <1>5, <1>6, <1>7

(* Nor does what it has a function translated to.                          *)
LEMMA SameResources ==
  ASSUME given' = given
  PROVE  /\ \A f, slot : MadeFor(f, slot)' = MadeFor(f, slot) /\ SendsFor(f, slot)' = SendsFor(f, slot)
         /\ \A f : ResourcesFor(f)' = ResourcesFor(f)
<1>1. \A f, slot : QueueCondition(Cell0(f, slot), f)' = QueueCondition(Cell0(f, slot), f)
  BY SameAsked DEF QueueCondition
<1>2. \A f, slot : PropertyCondition(Cell0(f, slot), f)' = PropertyCondition(Cell0(f, slot), f)
  BY SameAsked DEF PropertyCondition
<1>3. \A f, slot : MadeFor(f, slot)' = MadeFor(f, slot)
  BY <1>1, SameAsked DEF MadeFor
<1>4. \A f, slot : Cell0(f, slot).present' <=> Cell0(f, slot).present
  BY SameAsked
<1>5. \A f, slot : SendsFor(f, slot)' = SendsFor(f, slot)
  BY <1>2, <1>4, SameAsked DEF SendsFor
<1>6. \A f : RefsFor(f)' = RefsFor(f)
  BY <1>5 DEF RefsFor
<1>7. \A f : ResourcesFor(f)' = ResourcesFor(f)
  BY <1>3, <1>6, SameAsked DEF ResourcesFor
<1> QED BY <1>3, <1>5, <1>7

(* The cell of a slot is one of those that Shape speaks about.             *)
LEMMA CellIsKnown ==
  ASSUME Shape, NEW f \in Functions, NEW slot \in Slots
  PROVE  OwnerOf(f, slot) \in Functions \cup {Globals} /\ CellKnown(CellOf(f, slot))
BY DEF Shape, OwnerOf, CellOf

(* The shape is kept, and conditions that are defined keep their meaning.  *)
LEMMA ShapeStep ==
  ASSUME Shape, [Next]_vars
  PROVE  Shape' /\ Grown(conditions, conditions')
<1>0. Globals \notin Functions
  BY DestinationsAssumption
<1>1. CASE UNCHANGED vars
  <2>1. MeaningsIn(conditions)' <=> MeaningsIn(conditions)
    BY <1>1 DEF vars, MeaningsIn
  <2> QED BY <1>1, <2>1, GrownItself DEF vars, Shape
<1>2. ASSUME NEW f \in Functions, Begin(f)
      PROVE  Shape' /\ Grown(conditions, conditions')
  <2>1. MeaningsIn(conditions)'
    BY <1>2 DEF Begin, Shape, MeaningsIn
  <2> QED BY <1>2, <2>1, GrownItself DEF Begin, Shape, Slots
<1>3. ASSUME NEW slot \in Slots, SkipSlot(slot)
      PROVE  Shape' /\ Grown(conditions, conditions')
  <2>1. MeaningsIn(conditions)'
    BY <1>3 DEF SkipSlot, Shape, MeaningsIn
  <2> QED BY <1>3, <2>1, GrownItself DEF SkipSlot, Shape, After, Slots
<1>4. ASSUME NEW slot \in Slots, MakeQueue(slot)
      PROVE  Shape' /\ Grown(conditions, conditions')
  <2> DEFINE cell == CellOf(current, slot)
             filled == [cell EXCEPT !.kind = "made", !.queue = QueueId(current, slot),
                                    !.condition = PropertyCondition(cell, current)]
  <2>1. step = slot /\ current \in Functions /\ given' = given /\ current' = current /\ todo' = todo
    BY <1>4, <1>0 DEF MakeQueue, Shape, Slots
  <2>2. step' = After(slot) /\ NeedsQueue(cell) /\ conditions' = WithQueueCondition(cell, current)
    BY <1>4 DEF MakeQueue
  <2>3. CellKnown(cell) /\ OwnerOf(current, slot) \in Functions \cup {Globals}
    BY <2>1, CellIsKnown
  <2>4. cells' = [cells EXCEPT ![OwnerOf(current, slot)][slot] = filled]
    BY <1>4 DEF MakeQueue
  <2>5. CellKnown(filled)
    BY DEF CellKnown, NeedsQueue
  <2>6. MeaningsIn(conditions')  /\ Grown(conditions, conditions')
    <3> HIDE DEF cell
    <3> QED BY <2>1, <2>2, <2>3, QueueConditionKeeps DEF Shape
  <2> HIDE DEF filled
  <2>7. cells' = [o \in Functions \cup {Globals} |-> [s \in Slots |-> cells'[o][s]]]
    BY <2>3, <2>4 DEF Shape
  <2>8. \A o \in Functions \cup {Globals}, s \in Slots : CellKnown(cells'[o][s])
    BY <2>3, <2>4, <2>5 DEF Shape
  <2>9. MeaningsIn(conditions)'
    BY <2>6 DEF MeaningsIn
  <2>10. step' \in Slots \cup {"role"}
    BY <2>2 DEF After, Slots
  <2>11. \A o \in Functions \cup {Globals}, s \in Slots : CellKnown(cells[o][s])'
    BY <2>8 DEF CellKnown, NeedsQueue
  <2> QED BY <2>1, <2>6, <2>7, <2>9, <2>10, <2>11 DEF Shape
<1>5. ASSUME NEW slot \in Slots, UseDestination(slot)
      PROVE  Shape' /\ Grown(conditions, conditions')
  <2>1. MeaningsIn(conditions)'
    BY <1>5 DEF UseDestination, Shape, MeaningsIn
  <2> QED BY <1>5, <2>1, GrownItself DEF UseDestination, Shape, After, Slots
<1>6. ASSUME NEW slot \in Slots, RejectSlot(slot)
      PROVE  Shape' /\ Grown(conditions, conditions')
  <2> DEFINE cell == CellOf(current, slot)
  <2>1. step = slot /\ current \in Functions /\ given' = given /\ current' = Globals /\ todo' = todo
        /\ step' = "next" /\ cells' = cells
    BY <1>6, <1>0 DEF RejectSlot, Shape, Slots
  <2>2. CellKnown(cell)
    BY <2>1, CellIsKnown
  <2>3. MeaningsIn(conditions') /\ Grown(conditions, conditions')
    <3>1. CASE cell.type = "none"
      BY <1>6, <3>1, GrownItself DEF RejectSlot, Shape
    <3>2. CASE cell.type # "none"
      <4>1. NeedsQueue(cell) /\ conditions' = WithQueueCondition(cell, current)
        BY <1>6, <3>2 DEF RejectSlot
      <4> HIDE DEF cell
      <4> QED BY <2>1, <2>2, <4>1, QueueConditionKeeps DEF Shape
    <3> QED BY <3>1, <3>2
  <2>4. MeaningsIn(conditions)'
    BY <2>3 DEF MeaningsIn
  <2>5. Globals \notin todo
    BY <1>0 DEF Shape
  <2> QED BY <2>1, <2>3, <2>4, <2>5 DEF Shape
<1>7. ASSUME Return
      PROVE  Shape' /\ Grown(conditions, conditions')
  <2>1. current \in Functions /\ given' = given /\ current' = Globals /\ todo' = todo
        /\ step' = "next" /\ cells' = cells
    BY <1>7, <1>0 DEF Return, Shape
  <2>2. MeaningsIn(conditions') /\ Grown(conditions, conditions')
    <3>1. CASE given.functions[current].role = "makeUnless"
      <4>1. given.functions[current].roleIf \in Conditions
        BY <2>1, <3>1, FunctionConditions DEF Shape
      <4> QED BY <1>7, <3>1, <4>1, RoleNegationKeeps DEF Return, Shape
    <3>2. CASE given.functions[current].role # "makeUnless"
      BY <1>7, <3>2, GrownItself DEF Return, Shape
    <3> QED BY <3>1, <3>2
  <2>3. MeaningsIn(conditions)'
    BY <2>2 DEF MeaningsIn
  <2>4. Globals \notin todo
    BY <1>0 DEF Shape
  <2> QED BY <2>1, <2>2, <2>3, <2>4 DEF Shape
<1> QED BY <1>1, <1>2, <1>3, <1>4, <1>5, <1>6, <1>7 DEF Next

(* The roles that are in the template stay there with their functions.     *)
LEMMA RolesStep ==
  ASSUME Shape, RolesAre, [Next]_vars
  PROVE  RolesAre'
<1>0. Globals \notin Functions
  BY DestinationsAssumption
<1>1. /\ Grown(conditions, conditions')
      /\ given' = given
  BY ShapeStep DEF vars, Next, Begin, SkipSlot, MakeQueue, UseDestination, RejectSlot, Return
<1>2. \A f : Branch(f)' = Branch(f) /\ RoleCondition(f)' = RoleCondition(f) /\ LambdaFunction(f)' = LambdaFunction(f)
  BY <1>1, SameAsked
<1>3. ASSUME resources' = resources, \A r \in made' : r.id \in Queues
      PROVE  RolesAre'
  BY <1>1, <1>2, <1>3 DEF RolesAre, Grown
<1>4. CASE UNCHANGED vars
  BY <1>4, <1>3 DEF vars, RolesAre
<1>5. ASSUME NEW f \in Functions, Begin(f)
      PROVE  RolesAre'
  BY <1>5, <1>3 DEF Begin, RolesAre
<1>6. ASSUME NEW slot \in Slots, SkipSlot(slot) \/ UseDestination(slot) \/ RejectSlot(slot)
      PROVE  RolesAre'
  BY <1>6, <1>3 DEF SkipSlot, UseDestination, RejectSlot, RolesAre
<1>7. ASSUME NEW slot \in Slots, MakeQueue(slot)
      PROVE  RolesAre'
  <2>1. current \in Functions
    BY <1>7, <1>0 DEF MakeQueue, Shape, Slots
  <2>2. QueueId(current, slot) \in Queues
    BY <2>1, IdsDiffer
  <2>3. made' = made \cup {[id |-> QueueId(current, slot),
                            condition |-> QueueCondition(CellOf(current, slot), current), refs |-> {}]}
        /\ resources' = resources
    BY <1>7 DEF MakeQueue
  <2> QED BY <1>3, <2>2, <2>3 DEF RolesAre
<1>8. ASSUME Return
      PROVE  RolesAre'
  <2>1. current \in Functions /\ made' = made
    BY <1>8, <1>0 DEF Return, Shape
  <2>2. resources' = resources \cup made \cup {LambdaFunction(current), EventInvokeConfig(current)}
                       \cup (IF MakesRole(current) THEN {Role(current)} ELSE {})
    BY <1>8 DEF Return
  <2>3. LambdaFunction(current).id = current /\ EventInvokeConfig(current).id = ConfigId(current)
    BY DEF LambdaFunction, EventInvokeConfig, Resource
  <2>4. Role(current).id = RoleId(current) /\ Role(current).condition = RoleCondition(current)
    BY DEF Role, Resource
  <2>5. Branch(current) \in DOMAIN conditions' \cup {NoCondition}
    <3> DEFINE c == given.functions[current].roleIf
    <3>1. CASE given.functions[current].role = "makeUnless"
      <4>1. c \in Conditions /\ Branch(current) = RoleNotName(c)
        BY <2>1, <3>1, FunctionConditions DEF Shape, Branch
      <4>2. conditions' = With(conditions, RoleNotName(c), Truths \ conditions[c])
        BY <1>8, <3>1 DEF Return
      <4> HIDE DEF c
      <4>3. RoleNotName(c) \in DOMAIN conditions'
        BY <4>1, <4>2, RoleNegationKeeps DEF Shape
      <4> QED BY <4>1, <4>3
    <3>2. CASE given.functions[current].role # "makeUnless"
      <4>1. Branch(current) \in Conditions \cup {NoCondition}
        BY <2>1, <3>2, FunctionConditions DEF Shape, Branch
      <4>2. conditions' = conditions
        BY <1>8, <3>2 DEF Return
      <4> QED BY <4>1, <4>2 DEF Shape, MeaningsIn
    <3> QED BY <3>1, <3>2
  <2>6. ASSUME NEW r \in resources', NEW f \in Functions, r.id = RoleId(f)
        PROVE  /\ r.condition = RoleCondition(f)
               /\ LambdaFunction(f) \in resources'
               /\ Branch(f) \in DOMAIN conditions' \cup {NoCondition}
    <3>1. CASE r \in resources
      BY <1>1, <2>2, <2>6, <3>1 DEF RolesAre, Grown
    <3>2. CASE r \in made
      BY <2>6, <3>2, IdsDiffer DEF RolesAre
    <3>3. CASE r \in {LambdaFunction(current), EventInvokeConfig(current)}
      BY <2>1, <2>3, <2>6, <3>3, IdsDiffer
    <3>4. CASE r = Role(current)
      <4>1. f = current
        BY <2>1, <2>4, <2>6, <3>4, IdsDiffer
      <4> QED BY <2>2, <2>4, <2>5, <3>4, <4>1
    <3> QED BY <2>2, <3>1, <3>2, <3>3, <3>4
  <2>7. \A r \in made' : r.id \in Queues
    BY <2>1 DEF RolesAre
  <2>8. \A r \in resources', f \in Functions :
          r.id = RoleId(f) =>
            /\ r.condition = RoleCondition(f)'
            /\ LambdaFunction(f)' \in resources'
            /\ Branch(f)' \in DOMAIN conditions' \cup {NoCondition}
    BY <1>2, <2>6
  <2>9. \A f : RoleId(f)' = RoleId(f)
    BY DEF RoleId
  <2> QED BY <2>7, <2>8, <2>9 DEF RolesAre
<1> QED BY <1>4, <1>5, <1>6, <1>7, <1>8 DEF Next

(* Cells: filling in a destination leaves those of the other slots and of  *)
(* the other functions alone, when no other function takes it from the     *)
(* Globals.                                                                *)
LEMMA CellsStep ==
  ASSUME Shape, ~SharesQueue(given), CellsWait, [Next]_vars
  PROVE  CellsWait'
<1>0. Globals \notin Functions
  BY DestinationsAssumption
<1>1. given' = given
  BY DEF vars, Next, Begin, SkipSlot, MakeQueue, UseDestination, RejectSlot, Return
<1>2. \A f, slot : Cell0(f, slot)' = Cell0(f, slot) /\ OwnerOf(f, slot)' = OwnerOf(f, slot)
  BY <1>1, SameAsked
<1>3. ASSUME cells' = cells,
             \A f \in Functions, slot \in Slots :
               f \in todo' \/ (f = current' /\ (step' = "OnSuccess" \/ step' = slot)) =>
               f \in todo \/ (f = current /\ (step = "OnSuccess" \/ step = slot))
      PROVE  CellsWait'
  <2>1. \A f, slot : CellOf(f, slot)' = CellOf(f, slot)
    BY <1>2, <1>3 DEF CellOf
  <2> QED BY <1>2, <1>3, <2>1 DEF CellsWait
<1>4. CASE UNCHANGED vars
  BY <1>4, <1>3 DEF vars
<1>5. ASSUME NEW f \in Functions, Begin(f)
      PROVE  CellsWait'
  BY <1>5, <1>3 DEF Begin
<1>6. ASSUME NEW slot \in Slots, SkipSlot(slot) \/ UseDestination(slot)
      PROVE  CellsWait'
  <2>1. cells' = cells /\ todo' = todo /\ current' = current /\ step = slot /\ step' = After(slot)
    BY <1>6 DEF SkipSlot, UseDestination
  <2> QED BY <1>3, <2>1 DEF After, Slots
<1>7. ASSUME NEW slot \in Slots, RejectSlot(slot)
      PROVE  CellsWait'
  BY <1>0, <1>3, <1>7 DEF RejectSlot, Slots
<1>8. CASE Return
  BY <1>0, <1>3, <1>8 DEF Return, Slots
<1>9. ASSUME NEW slot \in Slots, MakeQueue(slot)
      PROVE  CellsWait'
  <2> DEFINE cell == CellOf(current, slot)
             filled == [cell EXCEPT !.kind = "made", !.queue = QueueId(current, slot),
                                    !.condition = PropertyCondition(cell, current)]
  <2>1. step = slot /\ current \in Functions /\ current' = current /\ todo' = todo /\ step' = After(slot)
    BY <1>9, <1>0 DEF MakeQueue, Shape, Slots
  <2>2. cells' = [cells EXCEPT ![OwnerOf(current, slot)][slot] = filled] /\ NeedsQueue(cell)
    BY <1>9 DEF MakeQueue
  <2>3. cell = Cell0(current, slot)
    BY <2>1 DEF CellsWait
  <2> HIDE DEF filled, cell
  <2>4. ASSUME NEW g \in Functions, NEW s \in Slots,
               g \in todo' \/ (g = current' /\ (step' = "OnSuccess" \/ step' = s))
        PROVE  cells'[OwnerOf(g, s)][s] = Cell0(g, s)
    <3>1. g \in todo \/ (g = current /\ (step = "OnSuccess" \/ step = s))
      BY <2>1, <2>4 DEF After, Slots
    <3>2. cells[OwnerOf(g, s)][s] = Cell0(g, s)
      BY <3>1 DEF CellsWait, CellOf
    <3>3. ~(s = slot /\ OwnerOf(g, s) = OwnerOf(current, slot))
      <4> SUFFICES ASSUME s = slot, OwnerOf(g, slot) = OwnerOf(current, slot)
                   PROVE  FALSE
        OBVIOUS
      <4>1. g # current
        BY <2>1, <2>4 DEF After, Slots, Shape
      <4>2. IsShared(given, g, slot) /\ IsShared(given, current, slot)
        BY <4>1, <2>1, <1>0 DEF OwnerOf
      <4>3. given.globals[slot].kind = "arn"
        BY <4>1, <4>2, <2>1 DEF SharesQueue, IsShared
      <4>4. Cell0(current, slot) = given.globals[slot]
        BY <4>2 DEF Cell0, Merged, Merge, IsShared
      <4> QED BY <4>3, <4>4, <2>2, <2>3 DEF NeedsQueue
    <3>4. OwnerOf(g, s) \in Functions \cup {Globals} /\ OwnerOf(current, slot) \in Functions \cup {Globals}
      BY <2>1, CellIsKnown
    <3> HIDE DEF OwnerOf
    <3>5. cells'[OwnerOf(g, s)][s] = cells[OwnerOf(g, s)][s]
      BY <2>2, <3>3, <3>4 DEF Shape
    <3> QED BY <3>2, <3>5
  <2>5. \A g, s : CellOf(g, s)' = cells'[OwnerOf(g, s)][s]
    BY <1>2 DEF CellOf
  <2> QED BY <1>2, <2>4, <2>5 DEF CellsWait
<1> QED BY <1>4, <1>5, <1>6, <1>7, <1>8, <1>9 DEF Next

(* The names of a slot stay defined when conditions are added.             *)
LEMMA NamedGrown ==
  ASSUME NEW less, NEW more, Grown(less, more), NEW f, NEW slot, SlotNamed(f, slot, less)
  PROVE  SlotNamed(f, slot, more)
BY DEF Grown, SlotNamed

(* What names a slot asks for does not change in a step.                   *)
LEMMA NamedStep ==
  ASSUME given' = given, NEW f, NEW slot, SlotNamed(f, slot, conditions')
  PROVE  SlotNamed(f, slot, conditions)'
<1>1. Asks(f, slot)' <=> Asks(f, slot)
  BY SameAsked
<1>2. QueueCondition(Cell0(f, slot), f)' = QueueCondition(Cell0(f, slot), f)
  BY SameAsked DEF QueueCondition
<1>3. PropertyCondition(Cell0(f, slot), f)' = PropertyCondition(Cell0(f, slot), f)
  BY SameAsked DEF PropertyCondition
<1>4. Cell0(f, slot).type' = Cell0(f, slot).type
  BY SameAsked
<1> QED BY <1>1, <1>2, <1>3, <1>4 DEF SlotNamed

(* The work on the current function, when a slot is passed.                *)
LEMMA SoFarPassed ==
  ASSUME CurrentSoFar, given' = given, current' = current,
         Grown(conditions, conditions'),
         NEW slot \in Slots, step = slot, step' = After(slot),
         \A f \in Functions : f = current =>
           /\ made' = made \cup MadeFor(f, slot)
           /\ sends' = sends \cup SendsFor(f, slot)
           /\ SlotNamed(f, slot, conditions')
  PROVE  CurrentSoFar'
<1>1. \A s \in Slots : Passed(s)' <=> Passed(s) \/ s = slot
  BY DEF Passed, After, Slots
<1>2. \A f, s : MadeFor(f, s)' = MadeFor(f, s) /\ SendsFor(f, s)' = SendsFor(f, s)
  BY SameResources
<1>3. ASSUME NEW f \in Functions, f = current
      PROVE  /\ made' = UNION {MadeFor(f, s)' : s \in {s \in Slots : Passed(s)'}}
             /\ sends' = UNION {SendsFor(f, s)' : s \in {s \in Slots : Passed(s)'}}
             /\ \A s \in Slots : Passed(s)' => SlotNamed(f, s, conditions)'
  <2>1. made = UNION {MadeFor(f, s) : s \in {s \in Slots : Passed(s)}}
    BY <1>3 DEF CurrentSoFar
  <2>2. sends = UNION {SendsFor(f, s) : s \in {s \in Slots : Passed(s)}}
    BY <1>3 DEF CurrentSoFar
  <2>3. made' = UNION {MadeFor(f, s)' : s \in {s \in Slots : Passed(s)'}}
    BY <1>1, <1>2, <1>3, <2>1
  <2>4. sends' = UNION {SendsFor(f, s)' : s \in {s \in Slots : Passed(s)'}}
    BY <1>1, <1>2, <1>3, <2>2
  <2>5. \A s \in Slots : Passed(s)' => SlotNamed(f, s, conditions')
    BY <1>1, <1>3, NamedGrown DEF CurrentSoFar
  <2> QED BY <2>3, <2>4, <2>5, NamedStep
<1> QED BY <1>3 DEF CurrentSoFar

(* The work on the current function follows what the template asks of it.  *)
LEMMA SoFarStep ==
  ASSUME Shape, CellsWait, CurrentSoFar, [Next]_vars
  PROVE  CurrentSoFar'
<1>0. Globals \notin Functions
  BY DestinationsAssumption
<1>1. given' = given /\ Grown(conditions, conditions')
  BY ShapeStep DEF vars, Next, Begin, SkipSlot, MakeQueue, UseDestination, RejectSlot, Return
<1>2. \A f, slot : MadeFor(f, slot)' = MadeFor(f, slot) /\ SendsFor(f, slot)' = SendsFor(f, slot)
  BY <1>1, SameResources
<1>3. CASE UNCHANGED vars
  <2>1. \A slot : Passed(slot)' <=> Passed(slot)
    BY <1>3 DEF vars, Passed
  <2>2. \A f, slot : SlotNamed(f, slot, conditions) => SlotNamed(f, slot, conditions)'
    BY <1>3, <1>1, NamedStep DEF vars
  <2> QED BY <1>2, <1>3, <2>1, <2>2 DEF vars, CurrentSoFar
<1>4. ASSUME NEW f \in Functions, Begin(f)
      PROVE  CurrentSoFar'
  <2>1. \A slot \in Slots : ~Passed(slot)'
    BY <1>4 DEF Begin, Passed
  <2>2. made' = {} /\ sends' = {}
    BY <1>4 DEF Begin
  <2> QED BY <2>1, <2>2 DEF CurrentSoFar
<1>5. ASSUME current' = Globals
      PROVE  CurrentSoFar'
  BY <1>0, <1>5 DEF CurrentSoFar
<1>6. ASSUME NEW slot \in Slots, RejectSlot(slot)
      PROVE  CurrentSoFar'
  BY <1>5, <1>6 DEF RejectSlot
<1>7. CASE Return
  BY <1>5, <1>7 DEF Return
<1>8. ASSUME NEW slot \in Slots, step = slot
      PROVE  \A f \in Functions : f = current => CellOf(f, slot) = Cell0(f, slot)
  BY <1>8 DEF CellsWait
<1>9. ASSUME NEW slot \in Slots, SkipSlot(slot)
      PROVE  CurrentSoFar'
  <2>1. step = slot /\ step' = After(slot) /\ current' = current /\ made' = made /\ sends' = sends
    BY <1>9 DEF SkipSlot
  <2>2. ASSUME NEW f \in Functions, f = current
        PROVE  MadeFor(f, slot) = {} /\ SendsFor(f, slot) = {} /\ SlotNamed(f, slot, conditions')
    <3>1. ~Cell0(f, slot).present
      BY <1>8, <1>9, <2>1, <2>2 DEF SkipSlot
    <3> QED BY <3>1 DEF Asks, MadeFor, SendsFor, SlotNamed
  <2> QED BY <1>1, <2>1, <2>2, SoFarPassed
<1>10. ASSUME NEW slot \in Slots, MakeQueue(slot)
       PROVE  CurrentSoFar'
  <2>1. step = slot /\ step' = After(slot) /\ current' = current
    BY <1>10 DEF MakeQueue
  <2>2. ASSUME NEW f \in Functions, f = current
        PROVE  /\ made' = made \cup MadeFor(f, slot)
               /\ sends' = sends \cup SendsFor(f, slot)
               /\ SlotNamed(f, slot, conditions')
    <3>1. CellOf(f, slot) = Cell0(f, slot)
      BY <1>8, <2>1, <2>2
    <3>2. Asks(f, slot) /\ NeedsQueue(Cell0(f, slot))
      BY <1>10, <3>1, <2>2 DEF MakeQueue, Asks
    <3>3. conditions' = WithQueueCondition(Cell0(f, slot), f)
      BY <1>10, <3>1, <2>2 DEF MakeQueue
    <3>4. /\ made' = made \cup {[id |-> QueueId(f, slot),
                                 condition |-> QueueCondition(Cell0(f, slot), f), refs |-> {}]}
          /\ sends' = sends \cup {Sends(slot, QueueId(f, slot), PropertyCondition(Cell0(f, slot), f))}
      BY <1>10, <3>1, <2>2 DEF MakeQueue
    <3>5. CellKnown(Cell0(f, slot))
      BY AskedWritten, WrittenKnown DEF Shape
    <3>6. SlotNamed(f, slot, conditions')
      <4>1. Cell0(f, slot).type = "SQS"
        BY <1>10, <3>1, <2>2 DEF MakeQueue
      <4> QED BY <3>2, <3>3, <3>5, <4>1, QueueConditionKeeps DEF Shape, SlotNamed
    <3> QED BY <3>2, <3>4, <3>6 DEF MadeFor, SendsFor
  <2> QED BY <1>1, <2>1, <2>2, SoFarPassed
<1>11. ASSUME NEW slot \in Slots, UseDestination(slot)
       PROVE  CurrentSoFar'
  <2>1. step = slot /\ step' = After(slot) /\ current' = current /\ made' = made
    BY <1>11 DEF UseDestination
  <2>2. ASSUME NEW f \in Functions, f = current
        PROVE  /\ MadeFor(f, slot) = {}
               /\ sends' = sends \cup SendsFor(f, slot)
               /\ SlotNamed(f, slot, conditions')
    <3>1. CellOf(f, slot) = Cell0(f, slot)
      BY <1>8, <2>1, <2>2
    <3>2. Cell0(f, slot).present /\ ~NeedsQueue(Cell0(f, slot)) /\ ~Asks(f, slot)
      BY <1>11, <3>1, <2>2 DEF UseDestination, Asks
    <3>3. sends' = sends \cup {Sends(slot, Cell0(f, slot).queue, Cell0(f, slot).condition)}
      BY <1>11, <3>1, <2>2 DEF UseDestination
    <3>4. Cell0(f, slot).queue = NoQueue /\ Cell0(f, slot).condition = NoCondition
      BY <3>2, AskedWritten DEF Shape, Written, NeedsQueue
    <3> QED BY <3>2, <3>3, <3>4 DEF MadeFor, SendsFor, SlotNamed
  <2> QED BY <1>1, <2>1, <2>2, SoFarPassed
<1> QED BY <1>3, <1>4, <1>6, <1>7, <1>9, <1>10, <1>11 DEF Next

(* What a function returns is what the template asks of it.                *)
LEMMA ReturnedAsAsked ==
  ASSUME Shape, CurrentSoFar, Return, NEW f \in Functions, f = current
  PROVE  /\ resources' = resources \cup ResourcesFor(f)
         /\ \A slot \in Slots : SlotNamed(f, slot, conditions)
         /\ Branch(f) \in DOMAIN conditions' \cup {NoCondition}
<1>1. \A slot \in Slots : Passed(slot)
  BY DEF Return, Passed
<1>2. /\ made = UNION {MadeFor(f, slot) : slot \in Slots}
      /\ sends = UNION {SendsFor(f, slot) : slot \in Slots}
      /\ \A slot \in Slots : SlotNamed(f, slot, conditions)
  <2>1. {slot \in Slots : Passed(slot)} = Slots
    BY <1>1
  <2> HIDE DEF Slots
  <2> QED BY <1>1, <2>1 DEF CurrentSoFar
<1>3. /\ made = MadeFor(f, "OnSuccess") \cup MadeFor(f, "OnFailure")
      /\ sends = SendsFor(f, "OnSuccess") \cup SendsFor(f, "OnFailure")
  BY <1>2 DEF Slots
<1>4. SendRefs = RefsFor(f)
  BY <1>3 DEF SendRefs, RefsFor
<1>5. resources' = resources \cup ResourcesFor(f)
  <2>1. resources' = resources \cup made \cup {LambdaFunction(f), EventInvokeConfig(f)}
                       \cup (IF MakesRole(f) THEN {Role(f)} ELSE {})
    BY DEF Return
  <2>2. EventInvokeConfig(f) = Resource(ConfigId(f), ConditionOf(f), RefsFor(f))
    BY <1>4 DEF EventInvokeConfig
  <2>3. Role(f) = Resource(RoleId(f), RoleCondition(f), RefsFor(f))
    BY <1>4 DEF Role
  <2> QED BY <1>3, <2>1, <2>2, <2>3 DEF ResourcesFor
<1>6. Branch(f) \in DOMAIN conditions' \cup {NoCondition}
  <2> DEFINE c == given.functions[f].roleIf
  <2>1. CASE given.functions[f].role = "makeUnless"
    <3>1. c \in Conditions /\ Branch(f) = RoleNotName(c)
      BY <2>1, FunctionConditions DEF Shape, Branch
    <3>2. conditions' = With(conditions, RoleNotName(c), Truths \ conditions[c])
      BY <2>1 DEF Return
    <3> HIDE DEF c
    <3>3. RoleNotName(c) \in DOMAIN conditions'
      BY <3>1, <3>2, RoleNegationKeeps DEF Shape
    <3> QED BY <3>1, <3>3
  <2>2. CASE given.functions[f].role # "makeUnless"
    <3>1. Branch(f) \in Conditions \cup {NoCondition}
      BY <2>2, FunctionConditions DEF Shape, Branch
    <3>2. conditions' = conditions
      BY <2>2 DEF Return
    <3> QED BY <3>1, <3>2 DEF Shape, MeaningsIn
  <2> QED BY <2>1, <2>2
<1> QED BY <1>2, <1>5, <1>6

(* What is in the template is what it asks for the functions that are      *)
(* done, in every step.                                                    *)
LEMMA ResourcesStep ==
  ASSUME Shape, CurrentSoFar, ResourcesAre, [Next]_vars
  PROVE  ResourcesAre'
<1>0. Globals \notin Functions
  BY DestinationsAssumption
<1>1. given' = given /\ Grown(conditions, conditions')
  BY ShapeStep DEF vars, Next, Begin, SkipSlot, MakeQueue, UseDestination, RejectSlot, Return
<1>2. \A f : ResourcesFor(f)' = ResourcesFor(f) /\ Branch(f)' = Branch(f)
  BY <1>1, SameResources, SameAsked
<1>3. ASSUME NEW f, NEW slot, SlotNamed(f, slot, conditions)
      PROVE  SlotNamed(f, slot, conditions)'
  BY <1>1, <1>3, NamedGrown, NamedStep
<1>4. \A n \in DOMAIN conditions : n \in DOMAIN conditions'
  BY <1>1 DEF Grown
<1>5. ASSUME resources' = resources, errors' = errors, Done' = Done
      PROVE  ResourcesAre'
  BY <1>2, <1>3, <1>4, <1>5 DEF ResourcesAre
<1>6. CASE UNCHANGED vars
  BY <1>5, <1>6 DEF vars, Done
<1>7. ASSUME NEW f \in Functions, Begin(f)
      PROVE  ResourcesAre'
  <2>1. Done' = Done
    BY <1>0, <1>7 DEF Begin, Done, Shape, Slots
  <2> QED BY <1>5, <1>7, <2>1 DEF Begin
<1>8. ASSUME NEW slot \in Slots, SkipSlot(slot) \/ MakeQueue(slot) \/ UseDestination(slot)
      PROVE  ResourcesAre'
  BY <1>5, <1>8 DEF SkipSlot, MakeQueue, UseDestination, Done
<1>9. ASSUME NEW slot \in Slots, RejectSlot(slot)
      PROVE  ResourcesAre'
  BY <1>9 DEF RejectSlot, ResourcesAre
<1>10. CASE Return
  <2> SUFFICES ASSUME ~errors
               PROVE  /\ resources' = UNION {ResourcesFor(f)' : f \in Done'}
                      /\ \A f \in Done' :
                           /\ \A slot \in Slots : SlotNamed(f, slot, conditions)'
                           /\ Branch(f)' \in DOMAIN conditions' \cup {NoCondition}
    BY <1>10 DEF Return, ResourcesAre
  <2> PICK f : f = current
    OBVIOUS
  <2>1. f \in Functions
    BY <1>0, <1>10 DEF Return, Shape
  <2>2. Done' = Done \cup {f}
    BY <1>0, <1>10, <2>1 DEF Return, Done, Shape
  <2>3. resources = UNION {ResourcesFor(g) : g \in Done}
    BY DEF ResourcesAre
  <2>4. /\ resources' = resources \cup ResourcesFor(f)
        /\ \A slot \in Slots : SlotNamed(f, slot, conditions)
        /\ Branch(f) \in DOMAIN conditions' \cup {NoCondition}
    BY <1>10, <2>1, ReturnedAsAsked
  <2>5. resources' = UNION {ResourcesFor(g)' : g \in Done'}
    BY <1>2, <2>2, <2>3, <2>4
  <2>6. ASSUME NEW g \in Done'
        PROVE  /\ \A slot \in Slots : SlotNamed(g, slot, conditions)'
               /\ Branch(g)' \in DOMAIN conditions' \cup {NoCondition}
    BY <1>2, <1>3, <1>4, <2>2, <2>4, <2>6 DEF ResourcesAre
  <2> QED BY <2>5, <2>6
<1> QED BY <1>6, <1>7, <1>8, <1>9, <1>10 DEF Next

-----------------------------------------------------------------------------
(* The invariant.                                                          *)

(* At the start nothing is done and no destination is filled in.           *)
LEMMA InitIInv == Init => IInv
<1> SUFFICES ASSUME Init PROVE IInv
  OBVIOUS
<1>0. /\ given \in Templates /\ todo = Functions /\ current = Globals /\ step = "next"
      /\ made = {} /\ sends = {} /\ resources = {} /\ errors = FALSE
      /\ conditions = [c \in Conditions |-> Base(c)]
      /\ Globals \notin Functions
  BY DestinationsAssumption DEF Init, Base
<1>1. cells = [owner \in Functions \cup {Globals} |-> [slot \in Slots |->
                IF owner = Globals THEN given.globals[slot] ELSE Cell0(owner, slot)]]
  BY DEF Init, Cell0
<1>2. \A owner \in Functions \cup {Globals}, slot \in Slots : CellKnown(cells[owner][slot])
  BY <1>0, <1>1, TemplateParts, AskedWritten, WrittenKnown
<1>3. cells = [owner \in Functions \cup {Globals} |-> [slot \in Slots |-> cells[owner][slot]]]
  BY <1>1
<1>4. MeaningsIn(conditions)
  BY <1>0, NamesDiffer DEF MeaningsIn
<1>5. Shape
  BY <1>0, <1>2, <1>3, <1>4 DEF Shape
<1>6. RolesAre
  BY <1>0 DEF RolesAre
<1>7. CellsWait
  <2> SUFFICES ASSUME NEW f \in Functions, NEW slot \in Slots
               PROVE  CellOf(f, slot) = Cell0(f, slot)
    BY DEF CellsWait
  <2>1. CASE IsShared(given, f, slot)
    BY <1>0, <1>1, <2>1 DEF CellOf, OwnerOf, Cell0, Merged, Merge, IsShared
  <2>2. CASE ~IsShared(given, f, slot)
    BY <1>0, <1>1, <2>2 DEF CellOf, OwnerOf
  <2> QED BY <2>1, <2>2
<1>8. CurrentSoFar
  BY <1>0 DEF CurrentSoFar
<1>9. ResourcesAre
  BY <1>0 DEF ResourcesAre, Done
<1> QED BY <1>5, <1>6, <1>7, <1>8, <1>9 DEF IInv, AsGiven

(* Every step keeps the invariant.                                         *)
LEMMA NextIInv == IInv /\ [Next]_vars => IInv'
<1> SUFFICES ASSUME IInv, [Next]_vars PROVE IInv'
  OBVIOUS
<1>1. Shape' /\ RolesAre'
  BY ShapeStep, RolesStep DEF IInv
<1>2. SharesQueue(given)' <=> SharesQueue(given)
  <2>1. given' = given
    BY DEF vars, Next, Begin, SkipSlot, MakeQueue, UseDestination, RejectSlot, Return
  <2> QED BY <2>1, SameAsked
<1>3. AsGiven'
  BY <1>2, CellsStep, SoFarStep, ResourcesStep DEF IInv, AsGiven
<1> QED BY <1>1, <1>3 DEF IInv

(* The invariant holds.                                                    *)
THEOREM DestinationsInvariant == Spec => []IInv
BY InitIInv, NextIInv, PTL DEF Spec

-----------------------------------------------------------------------------
(* Roles.                                                                  *)

(* The branch of a role that is made is a condition when its Role property *)
(* has one.                                                                *)
LEMMA BranchNames ==
  ASSUME given \in Templates, NEW f \in Functions
  PROVE  Branch(f) = NoCondition <=> given.functions[f].roleIf = NoCondition
BY FunctionConditions, NamesDiffer DEF Branch

(* The condition of a branch holds under some of the truths.               *)
LEMMA BranchMeaning ==
  ASSUME given \in Templates, MeaningsIn(conditions), NEW f \in Functions,
         Branch(f) \in DOMAIN conditions \cup {NoCondition}
  PROVE  Meaning(Branch(f)) \subseteq Truths /\ IsCondition(Branch(f))
<1> DEFINE c == given.functions[f].roleIf
<1>1. CASE Branch(f) = NoCondition
  BY <1>1 DEF Meaning, IsCondition
<1>2. CASE Branch(f) # NoCondition /\ given.functions[f].role = "makeUnless"
  <2>1. c \in Conditions /\ Branch(f) = RoleNotName(c)
    BY <1>2, FunctionConditions DEF Branch
  <2>2. RoleNotName(c) \in DOMAIN conditions
    BY <1>2, <2>1
  <2> HIDE DEF c
  <2>3. Meaning(RoleNotName(c)) = Truths \ Base(c) /\ IsCondition(RoleNotName(c))
    BY <2>1, <2>2, NegationMeant
  <2> QED BY <2>1, <2>3
<1>3. CASE Branch(f) # NoCondition /\ given.functions[f].role # "makeUnless"
  <2>1. Branch(f) \in Conditions
    BY <1>3, FunctionConditions DEF Branch
  <2> QED BY <2>1, BaseMeant DEF Base
<1> QED BY <1>1, <1>2, <1>3

(* What is created under a condition that a resource of that id has.       *)
LEMMA CreatedBy ==
  ASSUME NEW r \in resources
  PROVE  Meaning(r.condition) \subseteq CreatedWhen(r.id)
BY DEF CreatedWhen

(* The invariant implies that roles are created only with their functions. *)
LEMMA RolesFromInvariant ==
  ASSUME IInv, ~RoleLosesCondition(given)
  PROVE  RolesNeedFunctions
<1> SUFFICES ASSUME NEW f \in Functions, NEW r \in resources, r.id = RoleId(f)
             PROVE  Meaning(r.condition) \subseteq CreatedWhen(f)
  BY DEF RolesNeedFunctions, CreatedWhen
<1>1. /\ r.condition = RoleCondition(f)
      /\ LambdaFunction(f) \in resources
      /\ Branch(f) \in DOMAIN conditions \cup {NoCondition}
  BY DEF IInv, RolesAre
<1>2. LambdaFunction(f).id = f /\ LambdaFunction(f).condition = ConditionOf(f)
  BY DEF LambdaFunction, Resource
<1>3. Meaning(ConditionOf(f)) \subseteq CreatedWhen(f)
  BY <1>1, <1>2, CreatedBy
<1>4. given \in Templates /\ MeaningsIn(conditions)
  BY DEF IInv, Shape
<1>5. CASE Branch(f) = NoCondition
  BY <1>1, <1>3, <1>5 DEF RoleCondition
<1>6. CASE Branch(f) # NoCondition
  <2>1. ConditionOf(f) = NoCondition
    BY <1>4, <1>6, BranchNames DEF RoleLosesCondition, ConditionOf
  <2>2. r.condition = Branch(f)
    BY <1>1, <1>6 DEF RoleCondition
  <2>3. Meaning(r.condition) \subseteq Truths
    BY <1>1, <1>4, <2>2, BranchMeaning
  <2>4. Meaning(ConditionOf(f)) = Truths
    BY <2>1 DEF Meaning
  <2> QED BY <1>3, <2>3, <2>4
<1> QED BY <1>5, <1>6

(* Whenever the translation is done, the role that is made for a function  *)
(* is created only with the function, if no role that is made under a      *)
(* condition belongs to a function that has one of its own.                *)
THEOREM RolesNeedFunctionsHolds == Spec => [](~RoleLosesCondition(given) => RolesNeedFunctions)
<1>1. IInv => (~RoleLosesCondition(given) => RolesNeedFunctions)
  BY RolesFromInvariant
<1> QED BY <1>1, DestinationsInvariant, PTL

-----------------------------------------------------------------------------
(* Queues.                                                                 *)

(* When the translation is done, all functions are.                        *)
LEMMA AllDone ==
  ASSUME IInv, ~SharesQueue(given), Returned
  PROVE  /\ given \in Templates /\ MeaningsIn(conditions)
         /\ resources = UNION {ResourcesFor(f) : f \in Functions}
         /\ \A f \in Functions :
              /\ \A slot \in Slots : SlotNamed(f, slot, conditions)
              /\ Branch(f) \in DOMAIN conditions \cup {NoCondition}
<1>1. Shape /\ ResourcesAre /\ ~errors
  BY DEF IInv, AsGiven, Returned
<1>2. current \notin Functions /\ todo = {}
  BY <1>1, DestinationsAssumption DEF Shape, Returned, Slots
<1>3. Done = Functions
  BY <1>2 DEF Done
<1> QED BY <1>1, <1>3 DEF ResourcesAre, Shape

(* The ids of what a function is translated to.                            *)
LEMMA ResourceIds ==
  ASSUME NEW f \in Functions, NEW r \in ResourcesFor(f)
  PROVE  \/ \E slot \in Slots : r \in MadeFor(f, slot)
         \/ r = LambdaFunction(f)
         \/ r = Resource(ConfigId(f), ConditionOf(f), RefsFor(f))
         \/ MakesRole(f) /\ r = Resource(RoleId(f), RoleCondition(f), RefsFor(f))
BY DEF ResourcesFor, Slots

(* A resource with the id of a queue is the queue of that function and     *)
(* slot.                                                                   *)
LEMMA QueueIsMade ==
  ASSUME NEW f \in Functions, NEW g \in Functions, NEW slot \in Slots,
         NEW r \in ResourcesFor(g), r.id = QueueId(f, slot)
  PROVE  g = f /\ r \in MadeFor(f, slot)
<1>1. LambdaFunction(g).id = g
  BY DEF LambdaFunction, Resource
<1>2. Resource(ConfigId(g), ConditionOf(g), RefsFor(g)).id = ConfigId(g)
  BY DEF Resource
<1>3. Resource(RoleId(g), RoleCondition(g), RefsFor(g)).id = RoleId(g)
  BY DEF Resource
<1>4. PICK s \in Slots : r \in MadeFor(g, s)
  BY <1>1, <1>2, <1>3, ResourceIds, IdsDiffer
<1>5. r.id = QueueId(g, s)
  BY <1>4 DEF MadeFor
<1>6. f = g /\ slot = s
  <2>1. QueueId(f, slot) = QueueId(g, s)
    BY <1>5
  <2> QED BY <2>1, IdsDiffer
<1> QED BY <1>4, <1>6

(* The condition of a slot, of the function or of the queue, when a queue  *)
(* is made for it.                                                         *)
LEMMA SlotMeaning ==
  ASSUME IInv, ~SharesQueue(given), ~NestsConditions(given), Returned,
         NEW f \in Functions, NEW slot \in Slots, Asks(f, slot)
  PROVE  LET cell == Cell0(f, slot)
         IN  /\ NeedsQueue(cell) /\ CellKnown(cell)
             /\ PropertyCondition(cell, f) \in DOMAIN conditions \cup {NoCondition}
             /\ IsCondition(QueueCondition(cell, f))
             /\ Meaning(QueueCondition(cell, f)) =
                  Meaning(ConditionOf(f)) \cap Meaning(PropertyCondition(cell, f))
<1> PICK cell : cell = Cell0(f, slot)
  OBVIOUS
<1>1. cell.present /\ NeedsQueue(cell) /\ CellKnown(cell)
  BY AllDone, AskedWritten, WrittenKnown DEF Asks
<1>2. cell.type = "SQS" /\ PropertyCondition(cell, f) \in DOMAIN conditions \cup {NoCondition}
  BY AllDone DEF SlotNamed
<1>3. ConditionOf(f) = NoCondition \/ PropertyCondition(cell, f) = NoCondition
  <2>1. CASE cell.kind \in {"makeIf", "makeUnless"}
    BY <1>1, <1>2, <2>1 DEF NestsConditions, Cell0, ConditionOf
  <2>2. CASE cell.kind = "absent"
    BY <1>1, <2>2, PropertyNames
  <2> QED BY <1>1, <2>1, <2>2 DEF NeedsQueue
<1> QED BY <1>1, <1>2, <1>3, AllDone, QueueMeaning

(* When the queue of a slot is created.                                    *)
LEMMA QueueCreated ==
  ASSUME IInv, ~SharesQueue(given), ~NestsConditions(given), Returned,
         NEW f \in Functions, NEW slot \in Slots
  PROVE  CreatedWhen(QueueId(f, slot)) =
           IF Asks(f, slot)
             THEN Meaning(ConditionOf(f)) \cap Meaning(PropertyCondition(Cell0(f, slot), f))
             ELSE {}
<1> DEFINE queue == [id |-> QueueId(f, slot),
                     condition |-> QueueCondition(Cell0(f, slot), f), refs |-> {}]
           ofQueue == {r \in resources : r.id = QueueId(f, slot)}
<1>0. MadeFor(f, slot) \subseteq ResourcesFor(f)
  BY DEF ResourcesFor, Slots
<1>1. ofQueue = MadeFor(f, slot)
  <2>1. ASSUME NEW r \in ofQueue
        PROVE  r \in MadeFor(f, slot)
    <3>1. PICK g \in Functions : r \in ResourcesFor(g)
      BY <2>1, AllDone
    <3> QED BY <2>1, <3>1, QueueIsMade
  <2>2. ASSUME NEW r \in MadeFor(f, slot)
        PROVE  r \in ofQueue
    BY <1>0, <2>2, AllDone DEF MadeFor
  <2> QED BY <2>1, <2>2
<1>2. CreatedWhen(QueueId(f, slot)) = UNION {Meaning(r.condition) : r \in ofQueue}
  BY DEF CreatedWhen
<1>3. CASE ~Asks(f, slot)
  BY <1>1, <1>2, <1>3 DEF MadeFor
<1>4. CASE Asks(f, slot)
  <2>1. ofQueue = {queue}
    BY <1>1, <1>4 DEF MadeFor
  <2> HIDE DEF ofQueue
  <2>2. CreatedWhen(QueueId(f, slot)) = Meaning(queue.condition)
    BY <1>2, <2>1
  <2>3. Meaning(QueueCondition(Cell0(f, slot), f)) =
          Meaning(ConditionOf(f)) \cap Meaning(PropertyCondition(Cell0(f, slot), f))
    BY <1>4, SlotMeaning
  <2> QED BY <1>4, <2>2, <2>3
<1> QED BY <1>3, <1>4

(* The cell of a slot, after the Globals merge, asks for a queue when the  *)
(* template wants one.                                                     *)
LEMMA WantsIs ==
  ASSUME given \in Templates, NEW f \in Functions, NEW slot \in Slots, NEW truth
  PROVE  Wants(f, slot, truth) <=>
           LET cell == Cell0(f, slot)
           IN  /\ cell.present
               /\ \/ cell.kind = "absent"
                  \/ cell.kind = "makeIf" /\ truth[cell.condition]
                  \/ cell.kind = "makeUnless" /\ ~truth[cell.condition]
<1> DEFINE local == given.functions[f].slots[slot]
           global == given.globals[slot]
           all == given.functions[f].ignore = "all"
           WantsOf(cell) == \/ cell.kind = "absent"
                            \/ cell.kind = "makeIf" /\ truth[cell.condition]
                            \/ cell.kind = "makeUnless" /\ ~truth[cell.condition]
<1>1. local \in Cell /\ Written(local) /\ global \in Cell /\ Written(global)
  BY TemplateParts
<1>2. Wants(f, slot, truth) <=>
        /\ local.present \/ (~all /\ global.present)
        /\ WantsOf(IF local.kind = "absent" /\ ~all /\ global.present THEN global ELSE local)
  BY DEF Wants, Applies
<1>3. Cell0(f, slot) = IF all THEN local ELSE Merge(global, local)
  BY DEF Cell0, Merged
<1> HIDE DEF WantsOf, local, global, all
<1>4. CASE all \/ ~local.present \/ ~global.present
  <2>1. ~local.present => local.kind = "absent"
    BY <1>1 DEF Written
  <2>2. Cell0(f, slot) = IF all \/ local.present THEN local ELSE global
    BY <1>3, <1>4 DEF Merge
  <2>3. Wants(f, slot, truth) <=> Cell0(f, slot).present /\ WantsOf(Cell0(f, slot))
    BY <1>2, <1>4, <2>1, <2>2
  <2> QED BY <2>3 DEF WantsOf
<1>5. CASE ~all /\ local.present /\ global.present
  <2> PICK type : type = IF local.type = "none" THEN global.type ELSE local.type
    OBVIOUS
  <2>1. CASE local.kind = "absent"
    <3>1. Cell0(f, slot) = [global EXCEPT !.type = type]
      BY <1>1, <1>3, <1>5, <2>1 DEF Merge, Cell
    <3>2. /\ Cell0(f, slot).present = global.present
          /\ Cell0(f, slot).kind = global.kind
          /\ Cell0(f, slot).condition = global.condition
      BY <1>1, <3>1 DEF Cell
    <3>3. WantsOf(Cell0(f, slot)) <=> WantsOf(global)
      BY <3>2 DEF WantsOf
    <3>4. Wants(f, slot, truth) <=> Cell0(f, slot).present /\ WantsOf(Cell0(f, slot))
      BY <1>2, <1>5, <2>1, <3>2, <3>3
    <3> QED BY <3>4 DEF WantsOf
  <2>2. CASE local.kind # "absent"
    <3>1. Cell0(f, slot) = [local EXCEPT !.type = type]
      BY <1>1, <1>3, <1>5, <2>2 DEF Merge, Cell
    <3>2. /\ Cell0(f, slot).present = local.present
          /\ Cell0(f, slot).kind = local.kind
          /\ Cell0(f, slot).condition = local.condition
      BY <1>1, <3>1 DEF Cell
    <3>3. WantsOf(Cell0(f, slot)) <=> WantsOf(local)
      BY <3>2 DEF WantsOf
    <3>4. Wants(f, slot, truth) <=> Cell0(f, slot).present /\ WantsOf(Cell0(f, slot))
      BY <1>2, <1>5, <2>2, <3>2, <3>3
    <3> QED BY <3>4 DEF WantsOf
  <2> QED BY <2>1, <2>2
<1> QED BY <1>4, <1>5

(* The invariant implies that queues are created as the template says.     *)
LEMMA QueuesFromInvariant ==
  ASSUME IInv, ~SharesQueue(given), ~NestsConditions(given)
  PROVE  QueuesAsWritten
<1> SUFFICES ASSUME Returned, NEW f \in Functions, NEW slot \in Slots
             PROVE  CreatedWhen(QueueId(f, slot)) =
                      {truth \in Meaning(ConditionOf(f)) : Wants(f, slot, truth)}
  BY DEF QueuesAsWritten
<1> PICK cell : cell = Cell0(f, slot)
  OBVIOUS
<1>0. given \in Templates /\ MeaningsIn(conditions)
  BY AllDone
<1>1. CellKnown(cell) /\ Written(cell) /\ Meaning(ConditionOf(f)) \subseteq Truths
  BY <1>0, AskedWritten, WrittenKnown, OwnMeaning
<1>2. \A truth : Wants(f, slot, truth) <=>
                   /\ cell.present
                   /\ \/ cell.kind = "absent"
                      \/ cell.kind = "makeIf" /\ truth[cell.condition]
                      \/ cell.kind = "makeUnless" /\ ~truth[cell.condition]
  BY <1>0, WantsIs
<1>3. CASE Asks(f, slot)
  <2>1. cell.present /\ NeedsQueue(cell)
    BY <1>3 DEF Asks
  <2>2. PropertyCondition(cell, f) \in DOMAIN conditions \cup {NoCondition}
    BY <1>3, AllDone DEF SlotNamed
  <2>3. Meaning(PropertyCondition(cell, f)) =
          {truth \in Truths : \/ cell.kind = "absent"
                              \/ cell.kind = "makeIf" /\ truth[cell.condition]
                              \/ cell.kind = "makeUnless" /\ ~truth[cell.condition]}
    BY <1>0, <1>1, <2>1, <2>2, PropertyMeaning
  <2>4. CreatedWhen(QueueId(f, slot)) = Meaning(ConditionOf(f)) \cap Meaning(PropertyCondition(cell, f))
    BY <1>3, QueueCreated
  <2> QED BY <1>1, <1>2, <2>1, <2>3, <2>4
<1>4. CASE ~Asks(f, slot)
  <2>1. CreatedWhen(QueueId(f, slot)) = {}
    BY <1>4, QueueCreated
  <2>2. \A truth : ~Wants(f, slot, truth)
    BY <1>2, <1>4 DEF Asks, NeedsQueue
  <2> QED BY <2>1, <2>2
<1> QED BY <1>3, <1>4

(* Whenever the translation is done, the queue of a slot of a function is  *)
(* created in exactly the cases in which the template, with its Globals,   *)
(* leaves the destination of that slot to SAM, if no two functions take a  *)
(* destination that is filled in from the Globals, and no function with a  *)
(* condition has a queue that is made under another one.                   *)
THEOREM QueuesAsWrittenHolds ==
  Spec => [](~SharesQueue(given) /\ ~NestsConditions(given) => QueuesAsWritten)
<1>1. IInv => (~SharesQueue(given) /\ ~NestsConditions(given) => QueuesAsWritten)
  BY QueuesFromInvariant
<1> QED BY <1>1, DestinationsInvariant, PTL

-----------------------------------------------------------------------------
(* References.                                                             *)

(* What the configuration and the role of a function refer to.             *)
LEMMA RefsAre ==
  ASSUME NEW f \in Functions, NEW ref \in RefsFor(f)
  PROVE  \E slot \in Slots :
           /\ Asks(f, slot)
           /\ ref = [to |-> QueueId(f, slot), when |-> PropertyCondition(Cell0(f, slot), f)]
<1>1. PICK s \in SendsFor(f, "OnSuccess") \cup SendsFor(f, "OnFailure") :
        s.queue # NoQueue /\ ref = [to |-> s.queue, when |-> s.condition]
  BY DEF RefsFor
<1>2. PICK slot \in Slots : s \in SendsFor(f, slot)
  BY <1>1 DEF Slots
<1>3. Asks(f, slot) /\ s = Sends(slot, QueueId(f, slot), PropertyCondition(Cell0(f, slot), f))
  BY <1>1, <1>2 DEF SendsFor, Sends
<1> QED BY <1>1, <1>3 DEF Sends

(* Their references are found when the function's condition and that of    *)
(* the destination hold, and their conditions are defined.                 *)
LEMMA RefsFound ==
  ASSUME IInv, ~SharesQueue(given), ~NestsConditions(given), Returned,
         NEW f \in Functions, NEW ref \in RefsFor(f)
  PROVE  /\ IsCondition(ref.when)
         /\ Meaning(ref.when) \subseteq Truths
         /\ Meaning(ConditionOf(f)) \cap Meaning(ref.when) \subseteq CreatedWhen(ref.to)
<1>1. PICK slot \in Slots :
        /\ Asks(f, slot)
        /\ ref = [to |-> QueueId(f, slot), when |-> PropertyCondition(Cell0(f, slot), f)]
  BY RefsAre
<1>2. /\ Meaning(PropertyCondition(Cell0(f, slot), f)) \subseteq Truths
      /\ IsCondition(PropertyCondition(Cell0(f, slot), f))
  <2>1. NeedsQueue(Cell0(f, slot)) /\ CellKnown(Cell0(f, slot))
    BY <1>1, SlotMeaning
  <2>2. PropertyCondition(Cell0(f, slot), f) \in DOMAIN conditions \cup {NoCondition}
    BY <1>1, SlotMeaning
  <2> QED BY <2>1, <2>2, AllDone, PropertyMeaning
<1> QED BY <1>1, <1>2, QueueCreated

(* The invariant implies that what is referred to is found.                *)
LEMMA ReferencesFromInvariant ==
  ASSUME IInv, ~SharesQueue(given), ~RoleLosesCondition(given), ~NestsConditions(given)
  PROVE  ReferencesFound
<1> SUFFICES ASSUME Returned, NEW r \in resources
             PROVE  /\ ConditionsDefined(r)
                    /\ \A ref \in r.refs :
                         Meaning(r.condition) \cap Meaning(ref.when) \subseteq CreatedWhen(ref.to)
  BY DEF ReferencesFound
<1>0. given \in Templates /\ MeaningsIn(conditions)
  BY AllDone
<1>1. PICK f \in Functions : r \in ResourcesFor(f)
  BY AllDone
<1>2. IsCondition(Branch(f))
  <2>1. Branch(f) \in DOMAIN conditions \cup {NoCondition}
    BY AllDone
  <2> QED BY <1>0, <2>1, BranchMeaning
<1>3. IsCondition(ConditionOf(f))
  BY <1>0, OwnMeaning
<1>4. ConditionsDefined(r) <=> IsCondition(r.condition) /\ \A ref \in r.refs : IsCondition(ref.when)
  BY DEF ConditionsDefined
<1>5. ASSUME NEW slot \in Slots, r \in MadeFor(f, slot)
      PROVE  r.refs = {} /\ IsCondition(r.condition)
  <2>1. Asks(f, slot)
    BY <1>5 DEF MadeFor
  <2>2. IsCondition(QueueCondition(Cell0(f, slot), f))
    BY <2>1, SlotMeaning
  <2> QED BY <1>5, <2>1, <2>2 DEF MadeFor
<1>6. CASE r = LambdaFunction(f)
  <2>1. /\ r.condition = ConditionOf(f)
        /\ r.refs = IF MakesRole(f) THEN {[to |-> RoleId(f), when |-> Branch(f)]} ELSE {}
    BY <1>6 DEF LambdaFunction, Resource
  <2>2. CASE ~MakesRole(f)
    BY <1>3, <1>4, <2>1, <2>2
  <2>3. CASE MakesRole(f)
    <3> DEFINE role == Resource(RoleId(f), RoleCondition(f), RefsFor(f))
    <3>1. role \in ResourcesFor(f)
      BY <2>3 DEF ResourcesFor
    <3>2. role \in resources
      BY <3>1, AllDone
    <3>3. role.id = RoleId(f) /\ role.condition = RoleCondition(f)
      BY DEF Resource
    <3> HIDE DEF role
    <3>4. Meaning(RoleCondition(f)) \subseteq CreatedWhen(RoleId(f))
      BY <3>2, <3>3, CreatedBy
    <3>5. Meaning(ConditionOf(f)) \cap Meaning(Branch(f)) \subseteq Meaning(RoleCondition(f))
      BY DEF RoleCondition
    <3>6. \A ref \in r.refs : ref.to = RoleId(f) /\ ref.when = Branch(f)
      BY <2>1, <2>3
    <3> QED BY <1>2, <1>3, <1>4, <2>1, <3>4, <3>5, <3>6
  <2> QED BY <2>2, <2>3
<1>7. CASE r = Resource(ConfigId(f), ConditionOf(f), RefsFor(f))
  <2>1. r.condition = ConditionOf(f) /\ r.refs = RefsFor(f)
    BY <1>7 DEF Resource
  <2> QED BY <1>3, <1>4, <2>1, RefsFound
<1>8. CASE r = Resource(RoleId(f), RoleCondition(f), RefsFor(f))
  <2>1. r.condition = RoleCondition(f) /\ r.refs = RefsFor(f)
    BY <1>8 DEF Resource
  <2>2. RoleCondition(f) = ConditionOf(f) \/ ConditionOf(f) = NoCondition
    BY <1>0, BranchNames DEF RoleCondition, RoleLosesCondition, ConditionOf
  <2>3. Meaning(RoleCondition(f)) \cap Truths \subseteq Meaning(ConditionOf(f))
    BY <2>2 DEF Meaning
  <2>4. IsCondition(r.condition)
    BY <1>2, <1>3, <2>1 DEF RoleCondition
  <2>5. ASSUME NEW ref \in r.refs
        PROVE  /\ IsCondition(ref.when)
               /\ Meaning(r.condition) \cap Meaning(ref.when) \subseteq CreatedWhen(ref.to)
    BY <2>1, <2>3, <2>5, RefsFound
  <2> QED BY <1>4, <2>4, <2>5
<1> QED BY <1>1, <1>4, <1>5, <1>6, <1>7, <1>8, ResourceIds

(* Whenever the translation is done, the conditions that are named are     *)
(* defined and, under every truth of them, a resource that is created      *)
(* finds what it refers to: if no two functions take a destination that is *)
(* filled in from the Globals, no role loses its function's condition, and *)
(* no function with a condition has a queue that is made under another.    *)
THEOREM ReferencesFoundHolds ==
  Spec => [](~SharesQueue(given) /\ ~RoleLosesCondition(given) /\ ~NestsConditions(given) => ReferencesFound)
<1>1. IInv => (~SharesQueue(given) /\ ~RoleLosesCondition(given) /\ ~NestsConditions(given) => ReferencesFound)
  BY ReferencesFromInvariant
<1> QED BY <1>1, DestinationsInvariant, PTL
=============================================================================
