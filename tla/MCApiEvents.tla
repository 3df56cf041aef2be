---------------------------- MODULE MCApiEvents ----------------------------
(* Two or three functions with up to two events each, of all kinds.        *)
EXTENDS ApiEvents, TLC

CONSTANTS c1, c2, c3

MCConditions == {c1, c2, c3}

Orders == <<"/", "orders">>
Order == <<"/", "orders", "/", "{", "id", "}">>
Lettered == <<"/", "orders", "/", "OB", "id", "CB">>
MCPaths == {Orders, Order, Lettered}

Unnamed(path, method) == [api |-> ImplicitApi, named |-> FALSE, path |-> path, method |-> method]
Named(api, path, method) == [api |-> api, named |-> TRUE, path |-> path, method |-> method]

Fn(condition, events) ==
  [condition |-> condition, deletion |-> "none", update |-> "none", events |-> events]
WithPolicies(function, deletion, update) ==
  [function EXCEPT !.deletion = deletion, !.update = update]

OneEvent ==
  {<<Unnamed(Orders, "get")>>, <<Unnamed(Orders, "GET")>>, <<Unnamed(Order, "any")>>,
   <<Named(ManagedApi, Orders, "post")>>, <<Named(UnmanagedApi, Orders, "get")>>,
   <<Named(MergedApi, Orders, "get")>>, <<Named(MergedApi, Order, "GET")>>,
   <<Named(MissingApi, Orders, "get")>>}
TwoEvents ==
  {<<Unnamed(Orders, "post"), Unnamed(Order, "get")>>,
   <<Named(ManagedApi, Orders, "get"), Unnamed(Orders, "any")>>,
   <<Unnamed(NoPath, "get"), Unnamed(Order, "post")>>,
   <<Named(ImplicitApi, Orders, "post"), Named(MergedApi, Order, "post")>>}

Some == {c1, c2, NoCondition}
Body == {<<Order, "get">>, <<Orders, "post">>}

Pairs(first, second) == {<<a, b>> : a \in first, b \in second}
Given(functions, own, body) == [functions |-> functions, own |-> own, body |-> body]

AllTemplates ==
  {Given(fs, own, Body) :
     fs \in Pairs({Fn(c, e) : c \in Some, e \in OneEvent \cup TwoEvents},
                  {Fn(c, e) : c \in {c2, NoCondition}, e \in OneEvent \cup TwoEvents}),
     own \in BOOLEAN}
  \cup
  {Given(<<Fn(a, <<Unnamed(Order, "get")>>), Fn(b, <<e>>), Fn(c, <<Unnamed(Order, "post")>>)>>, FALSE, Body) :
     a \in Some, b \in Some, c \in Some,
     e \in {Unnamed(Order, "any"), Unnamed(Orders, "get"), Named(ManagedApi, Order, "get")}}
  \cup
  {Given(<<WithPolicies(Fn(c1, <<Unnamed(Orders, "get")>>), d, u),
           WithPolicies(Fn(c2, <<e>>), "Delete", v)>>, FALSE, Body) :
     d \in DeletionPolicies, u \in UpdatePolicies, v \in UpdatePolicies,
     e \in {Unnamed(Orders, "post"), Named(ManagedApi, Orders, "post")}}

MCTemplates == {t \in AllTemplates : ~NamesOwn(t) /\ ~MergesBadly(t)}

-----------------------------------------------------------------------------
(* What MCTemplates leaves out, with the property that fails for it.       *)

TwiceTemplates ==   \* RoutesReachable
  {t \in AllTemplates : ~NamesOwn(t) /\ MergesTwice(t) /\ ~MergesIntoOwn(t)}

OverAuthorTemplates ==   \* RoutesReachable
  {t \in AllTemplates : ~NamesOwn(t) /\ ~MergesTwice(t) /\ MergesIntoOwn(t)}

OwnTemplates ==     \* ApisFollowFunctions
  {t \in AllTemplates : NamesOwn(t)}

(* The DefinitionBody of the merged API has no paths.                      *)
EmptyTemplates ==   \* RoutesReachable
  {Given(<<Fn(NoCondition, <<Named(MergedApi, Orders, m)>>)>>, FALSE, {}) : m \in {"get", "post"}}

(* Two paths of one API, with conditions of their own, and one name for    *)
(* both conditions.                                                        *)
NamesakeTemplates ==   \* RoutesReachable, NothingWithoutFunctions
  {Given(<<Fn(c1, <<Unnamed(Order, "get"), Unnamed(Lettered, "get")>>), Fn(c2, <<Unnamed(Order, "post")>>),
           Fn(c3, <<Unnamed(Lettered, "post")>>)>>, FALSE, Body)}
=============================================================================
