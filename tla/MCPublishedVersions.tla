-------------------------- MODULE MCPublishedVersions --------------------------
(***************************************************************************)
(* Stacks for PublishedVersions: sets of templates that differ in a few    *)
(* things, between which an author moves, three updates in a row.          *)
(*                                                                         *)
(* Left out, because the transform hashes what is written (see the README):*)
(*   - parameters whose value changes in settings and other properties of  *)
(*     functions, in names that are hashed, in the content of layers and   *)
(*     in the definitions of APIs;                                         *)
(*   - AutoPublishAliasAllProperties that comes or goes where versions are *)
(*     deleted: another id for the version that Lambda has already.        *)
(***************************************************************************)
EXTENDS PublishedVersions

As(x) == <<x, x>>
ByParameter(x) == <<"Ref", x>>

Function0 ==
  [code |-> As("a"), settings |-> As("a"), other |-> As("a"), name |-> As("f"), sha |-> Unset,
   all |-> FALSE, deletion |-> Unset, versionDeletion |-> Unset, capacity |-> FALSE]
Layer0 == [content |-> As("a"), publish |-> FALSE, metadata |-> "a", retention |-> Unset, deletion |-> Unset]
Api0 == [definition |-> As("a"), domain |-> Unset, always |-> FALSE]
Template0 == [function |-> Unset, layer |-> Unset, api |-> Unset, machine |-> Unset]

Policies == {Unset, "Delete", "Retain"}
FunctionStacks ==
  {{[Template0 EXCEPT !.function =
       [Function0 EXCEPT !.code = c, !.settings = s, !.other = o, !.all = a,
                         !.deletion = p[1], !.versionDeletion = p[2], !.capacity = p[3]]] :
      c \in {As("a"), ByParameter("a"), ByParameter("b")}, s \in {As("a"), As("b")}, o \in {As("a"), As("b")}} :
     a \in BOOLEAN, p \in {<<Unset, Unset, FALSE>>, <<"Retain", "Delete", FALSE>>, <<Unset, "Delete", FALSE>>,
                           <<Unset, Unset, TRUE>>, <<"Delete", "Retain", FALSE>>}}
NameStacks ==
  {{[Template0 EXCEPT !.function = [Function0 EXCEPT !.all = TRUE, !.name = n, !.settings = s]] :
      n \in {As("f"), As("g"), ByParameter("f")}, s \in {As("a"), As("b")}}}
ShaStacks ==
  {{[Template0 EXCEPT !.function = [Function0 EXCEPT !.sha = h, !.settings = s, !.all = a, !.versionDeletion = p]] :
      h \in {Unset, "x", "y"}, s \in {As("a"), As("b")}} :
     a \in BOOLEAN, p \in {Unset, "Delete"}}
LayerStacks ==
  {{[Template0 EXCEPT !.function = [Function0 EXCEPT !.all = a],
                      !.layer = [Layer0 EXCEPT !.content = c, !.publish = b, !.metadata = m, !.retention = r, !.deletion = p]] :
      c \in {As("a"), As("b")}, m \in {"a", "b"}, b \in BOOLEAN} :
     a \in BOOLEAN, r \in Policies, p \in {Unset, "Delete"}}
ApiStacks ==
  {{[Template0 EXCEPT !.function = [Function0 EXCEPT !.name = n],
                      !.api = [Api0 EXCEPT !.definition = d, !.always = a]] :
      n \in {As("f"), ByParameter("f"), ByParameter("g")}, d \in {As("a"), As("b")}} :
     a \in BOOLEAN}
DomainStacks ==
  {{[Template0 EXCEPT !.api = [Api0 EXCEPT !.domain = d, !.definition = f]] : d \in {Unset, "a"}, f \in {As("a"), As("b")}}}
MachineStacks ==
  {{[Template0 EXCEPT !.machine = [definition |-> d, replacement |-> r]] :
      d \in {As("a"), As("b"), ByParameter("b")}} : r \in Policies}

MCStacks == FunctionStacks \cup NameStacks \cup ShaStacks \cup LayerStacks \cup ApiStacks \cup DomainStacks \cup MachineStacks
=============================================================================
