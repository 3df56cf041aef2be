------------------------ MODULE FunctionDestinations ------------------------
(***************************************************************************)
(* SamFunction.to_cloudformation: the queues and topics SAM makes for the  *)
(* destinations of a function's EventInvokeConfig, the execution role that *)
(* may send to them, and the conditions that these resources get.          *)
(*                                                                         *)
(* Functions are translated one after the other and share two things: the  *)
(* Conditions section, to which they add, and the objects that the Globals *)
(* merge hands to several of them, because it copies only one level.  Such *)
(* an object is a cell here: a destination that a function fills in is     *)
(* filled in for every function that has that cell.                        *)
(*                                                                         *)
(* The meaning of a condition is the set of assignments of truth to the    *)
(* template's own conditions under which it holds.                         *)
(***************************************************************************)
EXTENDS Integers, FiniteSets

CONSTANTS
  Functions, Globals,    \* owners of cells: the functions and the Globals section
  Conditions,            \* conditions of the template
  NoCondition, NoQueue,
  NoMeaning,             \* of a condition that is not one CloudFormation takes
  Templates              \* the templates considered, see Template

Slots == {"OnSuccess", "OnFailure"}
Truths == [Conditions -> BOOLEAN]

(* Names of conditions: those of the template and those a function adds.   *)
NotName(c, f) == <<"NOT", c, NoCondition, f>>
AndName(c, d, f) == <<"AND", c, d, f>>
RoleNotName(c) == <<"NOT", c, NoCondition, Globals>>

(* Ids of the resources that are generated for a function.                 *)
QueueId(f, slot) == <<"queue", f, slot>>
RoleId(f) == <<"role", f>>
ConfigId(f) == <<"config", f>>

Negations == {NotName(c, f) : c \in Conditions, f \in Functions}
Added ==
  Negations \cup {RoleNotName(c) : c \in Conditions}
    \cup {AndName(c, d, f) : c \in Conditions, d \in Conditions \cup Negations, f \in Functions}
Names == Conditions \cup Added
Reference(name) == <<"Condition", name>>   \* a map, {"Condition": name}
Queues == {QueueId(f, slot) : f \in Functions, slot \in Slots}

(* A destination: Destination is absent, an ARN, an If with NoValue in the *)
(* first or the second branch, or, once filled in, a queue that was made   *)
(* (under a condition, an ARN otherwise).  Types SNS and SQS behave alike, *)
(* so do Lambda, EventBridge and S3Bucket; "none" is a missing Type.       *)
Cell ==
  [present   : BOOLEAN,
   type      : {"SQS", "Lambda", "none"},
   kind      : {"absent", "arn", "makeIf", "makeUnless", "made"},
   condition : Names \cup {NoCondition},
   queue     : Queues \cup {NoQueue}]

(* A cell as a template has it: absent from it, or not filled in yet.      *)
Written(cell) == (~cell.present => cell.kind = "absent") /\ cell.kind # "made" /\ cell.queue = NoQueue
                   /\ cell.condition \in Conditions \cup {NoCondition}
                   /\ (cell.kind \in {"makeIf", "makeUnless"} <=> cell.condition # NoCondition)

Function ==
  [condition : Conditions \cup {NoCondition},
   role      : {"absent", "arn", "makeIf", "makeUnless"},
   roleIf    : Conditions \cup {NoCondition},
   ignore    : {"nothing", "all", "another"},  \* IgnoreGlobals
   slots     : [Slots -> Cell]]

Template == [globals : [Slots -> Cell], functions : [Functions -> Function]]

WellFormed(t) ==
  /\ \A slot \in Slots : Written(t.globals[slot])
  /\ \A f \in Functions :
       /\ \A slot \in Slots : Written(t.functions[f].slots[slot])
       /\ t.functions[f].role \in {"makeIf", "makeUnless"} <=> t.functions[f].roleIf # NoCondition

(* Generated names are built from those of the template, with a hash of    *)
(* the function's id or, for a role, NOT before the condition.  The code   *)
(* does not look whether the template has them already; these have not.    *)
ASSUME DestinationsAssumption ==
  /\ Globals \notin Functions
  /\ Conditions \cap Added = {}
  /\ Functions \cap (Queues \cup {RoleId(f) : f \in Functions} \cup {ConfigId(f) : f \in Functions}) = {}
  /\ NoCondition \notin Names
  /\ \A name \in Names : Reference(name) \notin Names
  /\ \A truths \in SUBSET Truths : truths # NoMeaning
  /\ NoQueue \notin Queues
  /\ \A t \in Templates : t \in Template /\ WellFormed(t)

-----------------------------------------------------------------------------
(* The Globals merge.  A map in both is merged into a new one, the         *)
(* function's entries first; a map in one only is taken as it is, shared;  *)
(* an IgnoreGlobals list merges with a deep copy of the globals.           *)
Merge(global, local) ==
  IF ~local.present THEN global
  ELSE IF ~global.present THEN local
  ELSE [(IF local.kind = "absent" THEN [global EXCEPT !.type = local.type] ELSE local)
          EXCEPT !.type = IF local.type = "none" THEN global.type ELSE local.type]

Merged(t, f, slot) ==
  IF t.functions[f].ignore = "all"
    THEN t.functions[f].slots[slot]
    ELSE Merge(t.globals[slot], t.functions[f].slots[slot])

IsShared_NotDeep(t, f, slot) ==
  t.functions[f].ignore # "all" /\ ~t.functions[f].slots[slot].present
    /\ t.globals[slot].present
IsShared(t, f, slot) ==
  t.functions[f].ignore = "nothing" /\ ~t.functions[f].slots[slot].present
    /\ t.globals[slot].present

VARIABLES
  given,      \* the template
  cells,      \* the objects that hold destinations, by owner and slot
  conditions, \* the Conditions section: meaning of each name that is defined
  todo,       \* functions still to translate
  current,    \* the function that is translated, or Globals when there is none
  step,       \* where its translation is
  made,       \* its queues so far
  sends,      \* where its events go so far, which its role may send to
  resources,  \* what is in the template already
  errors

vars == <<given, cells, conditions, todo, current, step, made, sends, resources, errors>>

Init ==
  /\ given \in Templates
  /\ cells = [owner \in Functions \cup {Globals} |-> [slot \in Slots |->
                IF owner = Globals THEN given.globals[slot] ELSE Merged(given, owner, slot)]]
  /\ conditions = [c \in Conditions |-> {truth \in Truths : truth[c]}]
  /\ todo = Functions
  /\ current = Globals
  /\ step = "next"
  /\ made = {} /\ sends = {}
  /\ resources = {}
  /\ errors = FALSE

ConditionOf(f) == given.functions[f].condition
OwnerOf(f, slot) == IF IsShared(given, f, slot) THEN Globals ELSE f
CellOf(f, slot) == cells[OwnerOf(f, slot)][slot]

Begin(f) ==
  /\ step = "next"
  /\ f \in todo
  /\ current' = f
  /\ todo' = todo \ {f}
  /\ step' = "OnSuccess"
  /\ made' = {} /\ sends' = {}
  /\ UNCHANGED <<given, cells, conditions, resources, errors>>

After(slot) == IF slot = "OnSuccess" THEN "OnFailure" ELSE "role"

SkipSlot(slot) ==
  /\ step = slot
  /\ ~CellOf(current, slot).present
  /\ step' = After(slot)
  /\ UNCHANGED <<given, cells, conditions, todo, current, made, sends, resources, errors>>

-----------------------------------------------------------------------------
(* _validate_and_inject_resource.  A queue is made when the destination is *)
(* absent, or absent under a condition: that condition and the function's, *)
(* in what is to be a conjunction of them, become the queue's.             *)
With(defined, name, meaning) ==
  [n \in DOMAIN defined \cup {name} |-> IF n = name THEN meaning ELSE defined[n]]

NeedsQueue(cell) == cell.kind \in {"absent", "makeIf", "makeUnless"}

PropertyCondition(cell, f) ==
  IF cell.kind = "makeUnless" THEN NotName(cell.condition, f) ELSE cell.condition

WithNegation(cell, f) ==
  IF cell.kind = "makeUnless"
    THEN With(conditions, NotName(cell.condition, f), Truths \ conditions[cell.condition])
    ELSE conditions

QueueCondition(cell, f) ==
  LET c == ConditionOf(f)
      d == PropertyCondition(cell, f)
  IN  CASE d = NoCondition -> c
        [] c = NoCondition -> d
        [] OTHER -> AndName(c, d, f)

(* make_and_condition takes names, each of which it makes a reference.     *)
(* _make_and_conditions gives it references: what comes of it refers to    *)
(* references, and CloudFormation takes no such condition.                 *)
MakeAnd(operands, defined) ==
  IF operands \subseteq Names
    THEN {truth \in Truths : \A name \in operands : truth \in defined[name]}
    ELSE NoMeaning

WithQueueCondition(cell, f) ==
  LET c == ConditionOf(f)
      d == PropertyCondition(cell, f)
      defined == WithNegation(cell, f)
  IN  IF c = NoCondition \/ d = NoCondition THEN defined
      ELSE With(defined, AndName(c, d, f), MakeAnd({Reference(c), Reference(d)}, defined))

Sends(slot, queue, condition) == [slot |-> slot, queue |-> queue, condition |-> condition]

MakeQueue(slot) ==
  LET cell == CellOf(current, slot)
      queue == QueueId(current, slot)
      condition == PropertyCondition(cell, current)
  IN  /\ step = slot
      /\ cell.present /\ cell.type = "SQS" /\ NeedsQueue(cell)
      /\ conditions' = WithQueueCondition(cell, current)
      /\ made' = made \cup {[id |-> queue, condition |-> QueueCondition(cell, current), refs |-> {}]}
      /\ sends' = sends \cup {Sends(slot, queue, condition)}
      /\ cells' = [cells EXCEPT ![OwnerOf(current, slot)][slot] =
                     [cell EXCEPT !.kind = "made", !.queue = queue, !.condition = condition]]
      /\ step' = After(slot)
      /\ UNCHANGED <<given, todo, current, resources, errors>>

(* What is in the destination already is used as it is.                    *)
UseDestination(slot) ==
  LET cell == CellOf(current, slot)
  IN  /\ step = slot
      /\ cell.present /\ cell.type # "none" /\ ~NeedsQueue(cell)
      /\ sends' = sends \cup {Sends(slot, cell.queue, cell.condition)}
      /\ step' = After(slot)
      /\ UNCHANGED <<given, cells, conditions, todo, current, made, resources, errors>>

(* Conditions are added before it is known that no queue can be made.      *)
RejectSlot(slot) ==
  LET cell == CellOf(current, slot)
  IN  /\ step = slot
      /\ cell.present
      /\ cell.type = "none" \/ (cell.type # "SQS" /\ NeedsQueue(cell))
      /\ conditions' = IF cell.type = "none" THEN conditions
                       ELSE WithQueueCondition(cell, current)
      /\ errors' = TRUE
      /\ step' = "next" /\ current' = Globals
      /\ UNCHANGED <<given, cells, todo, made, sends, resources>>

-----------------------------------------------------------------------------
(* The function, its EventInvokeConfig, and the execution role, which may  *)
(* send where the events go, are put in the template with the queues.      *)
SendRefs == {[to |-> s.queue, when |-> s.condition] : s \in {s \in sends : s.queue # NoQueue}}

Resource(id, condition, refs) == [id |-> id, condition |-> condition, refs |-> refs]

EventInvokeConfig(f) == Resource(ConfigId(f), ConditionOf(f), SendRefs)

(* _make_lambda_role: when the Role property is an If with NoValue in one  *)
(* branch, that branch becomes the role that is made; the role gets the    *)
(* condition of the branch, in place of the one of the function.           *)
Branch(f) ==
  LET c == given.functions[f].roleIf
  IN  IF given.functions[f].role = "makeUnless" THEN RoleNotName(c) ELSE c

MakesRole(f) == given.functions[f].role # "arn"

RoleCondition_NotNegated(f) ==
  IF given.functions[f].roleIf = NoCondition THEN ConditionOf(f) ELSE given.functions[f].roleIf
RoleCondition_NotPassed(f) == Branch(f)
RoleCondition(f) == IF Branch(f) = NoCondition THEN ConditionOf(f) ELSE Branch(f)

Role(f) == Resource(RoleId(f), RoleCondition(f), SendRefs)

LambdaFunction(f) ==
  Resource(f, ConditionOf(f),
           IF MakesRole(f) THEN {[to |-> RoleId(f), when |-> Branch(f)]} ELSE {})

Return ==
  /\ step = "role"
  /\ conditions' = IF given.functions[current].role = "makeUnless"
                     THEN With(conditions, RoleNotName(given.functions[current].roleIf),
                               Truths \ conditions[given.functions[current].roleIf])
                     ELSE conditions
  /\ resources' = resources \cup made \cup {LambdaFunction(current), EventInvokeConfig(current)}
                    \cup (IF MakesRole(current) THEN {Role(current)} ELSE {})
  /\ step' = "next" /\ current' = Globals
  /\ UNCHANGED <<given, cells, todo, made, sends, errors>>

Next ==
  \/ \E f \in Functions : Begin(f)
  \/ \E slot \in Slots : SkipSlot(slot) \/ MakeQueue(slot) \/ UseDestination(slot) \/ RejectSlot(slot)
  \/ Return

Spec == Init /\ [][Next]_vars

-----------------------------------------------------------------------------
Ref == [to : Queues \cup {RoleId(f) : f \in Functions}, when : Names \cup {NoCondition}]
QueueResource == [id : Queues, condition : Names \cup {NoCondition}, refs : {{}}]

TypeOK ==
  /\ given \in Template
  /\ cells \in [Functions \cup {Globals} -> [Slots -> Cell]]
  /\ DOMAIN conditions \subseteq Names
  /\ \A n \in DOMAIN conditions : conditions[n] = NoMeaning \/ conditions[n] \subseteq Truths
  /\ todo \subseteq Functions
  /\ current \in Functions \cup {Globals}
  /\ step \in Slots \cup {"next", "role"}
  /\ made \subseteq QueueResource
  /\ sends \subseteq [slot : Slots, queue : Queues \cup {NoQueue}, condition : Names \cup {NoCondition}]
  /\ \A r \in resources : r.condition \in Names \cup {NoCondition} /\ r.refs \subseteq Ref
  /\ errors \in BOOLEAN

(* When a condition holds; that of no condition always does, one that is   *)
(* none makes CloudFormation refuse the template.                          *)
Meaning(name) ==
  IF name = NoCondition THEN Truths
  ELSE IF conditions[name] = NoMeaning THEN {}
  ELSE conditions[name]
CreatedWhen(id) == UNION {Meaning(r.condition) : r \in {r \in resources : r.id = id}}

Returned == step = "next" /\ todo = {} /\ ~errors

(* Two functions take from the Globals a destination that is filled in for *)
(* the first of them: the queue, and its condition, are that one's.        *)
SharesQueue(t) ==
  \E slot \in Slots, f, g \in Functions :
    /\ f # g
    /\ t.globals[slot].present /\ t.globals[slot].kind # "arn"
    /\ \A h \in {f, g} : t.functions[h].ignore = "nothing" /\ ~t.functions[h].slots[slot].present

(* A role that is made under a condition replaces that of its function.    *)
RoleLosesCondition(t) ==
  \E f \in Functions : t.functions[f].condition # NoCondition /\ t.functions[f].roleIf # NoCondition

(* A function with a condition has a queue made under one: the conjunction *)
(* of the two is not a condition.                                          *)
NestsConditions(t) ==
  \E f \in Functions, slot \in Slots :
    LET cell == Merged(t, f, slot)
    IN  /\ t.functions[f].condition # NoCondition
        /\ cell.present /\ cell.type = "SQS" /\ cell.kind \in {"makeIf", "makeUnless"}

IsCondition(name) ==
  name = NoCondition \/ (name \in DOMAIN conditions /\ conditions[name] # NoMeaning)

ConditionsDefined(r) == \A name \in {r.condition} \cup {ref.when : ref \in r.refs} : IsCondition(name)

(* Conditions that are named, by a resource or by an If, are defined, as   *)
(* something that is a condition; and whatever conditions hold, a resource *)
(* that is created finds what it refers to: the configuration and the role *)
(* the queues, the function its role.                                      *)
ReferencesFound ==
  Returned => \A r \in resources :
    /\ ConditionsDefined(r)
    /\ \A ref \in r.refs :
         Meaning(r.condition) \cap Meaning(ref.when) \subseteq CreatedWhen(ref.to)

(* The template says, with its Globals, when SAM is to make a queue for a  *)
(* function: when a slot has no Destination of the function's own or, if   *)
(* the globals apply, of the globals.  That is when the function's own     *)
(* queue is created.                                                       *)
Applies(f, slot) == given.functions[f].ignore # "all" /\ given.globals[slot].present

Wants(f, slot, truth) ==
  LET local == given.functions[f].slots[slot]
      cell == IF local.kind = "absent" /\ Applies(f, slot) THEN given.globals[slot] ELSE local
  IN  /\ local.present \/ Applies(f, slot)
      /\ \/ cell.kind = "absent"
         \/ cell.kind = "makeIf" /\ truth[cell.condition]
         \/ cell.kind = "makeUnless" /\ ~truth[cell.condition]

QueuesAsWritten ==
  Returned => \A f \in Functions, slot \in Slots :
    CreatedWhen(QueueId(f, slot)) =
      {truth \in Meaning(ConditionOf(f)) : Wants(f, slot, truth)}

(* The role that is made for a function is created only with the function: *)
(* the function's condition is to be passed through to it.                 *)
RolesNeedFunctions ==
  Returned => \A f \in Functions : CreatedWhen(RoleId(f)) \subseteq CreatedWhen(f)
=============================================================================
