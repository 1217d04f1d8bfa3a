------------------------------ MODULE Routing ------------------------------
(***************************************************************************)
(* Routes and their middleware (router.go, group.go): Use, groups, nested  *)
(* groups, and the chain a route gets when it is registered.  A list of    *)
(* middleware is a slice of Go, a view of an array that other slices may   *)
(* share; append writes into the array while it has room.  Every call that *)
(* is given middleware brings one that was never given before.             *)
(***************************************************************************)
EXTENDS Naturals, Sequences

CONSTANTS MaxMiddleware, MaxGroups, MaxRoutes   \* bounds

VARIABLES
  arrays,     \* the arrays, each with the room it was made with
  router,     \* Router.middleware, with what Use was given
  groups,     \* the groups: prefixes are left out
  routes,     \* the routes: what runs around each and what should
  made        \* number of middleware so far

vars == <<arrays, router, groups, routes, made>>

Slice(array, len) == [array |-> array, len |-> len]
Nil == Slice(0, 0)
Items(s) == IF s.array = 0 THEN <<>> ELSE SubSeq(arrays[s.array].items, 1, s.len)
Room(s) == s.array # 0 /\ s.len < arrays[s.array].cap

\* The program has a slice of its own, the first array, to make groups with
\* (rt.NewGroup(prefix, common...)), which has room or not.
Common == Slice(1, 1)

Init ==
  /\ arrays \in {<<[items |-> <<1>>, cap |-> c]>> : c \in 1 .. 2}
  /\ router = [mws |-> Nil, said |-> <<>>]
  /\ groups = <<>> /\ routes = <<>> /\ made = 1

\* The runtime gives a new array as much room as it likes.
NewArray(items) == {Append(arrays, [items |-> items, cap |-> c]) : c \in Len(items) .. Len(items) + 1}

\* append(s, x): the arrays after it, and the slice.
Appended(s, x) ==
  IF Room(s)
  THEN {[arrays |-> [arrays EXCEPT ![s.array].items = Append(SubSeq(@, 1, s.len), x)],
         slice |-> Slice(s.array, s.len + 1)]}
  ELSE {[arrays |-> a, slice |-> Slice(Len(a), s.len + 1)] : a \in NewArray(Append(Items(s), x))}

\* The next middleware.
Fresh == made + 1
Make == made < MaxMiddleware /\ made' = Fresh

-----------------------------------------------------------------------------

\* Router.Use, and Trail.Use.
RouterUse ==
  /\ Make
  /\ \E a \in Appended(router.mws, Fresh) :
       /\ arrays' = a.arrays
       /\ router' = [mws |-> a.slice, said |-> Append(router.said, Fresh)]
  /\ UNCHANGED <<groups, routes>>

Group(mws, said, common) == [mws |-> mws, said |-> said, common |-> common]
AddGroup(g) == Len(groups) < MaxGroups /\ groups' = Append(groups, g)

\* Router.NewGroup, WithGroup, Resource and Resources keep the slice they get:
\* none, one made for the call, or the program's own.
NewGroup ==
  \/ AddGroup(Group(Nil, <<>>, FALSE)) /\ UNCHANGED <<arrays, router, routes, made>>
  \/ /\ Make
     /\ arrays' = Append(arrays, [items |-> <<Fresh>>, cap |-> 1])
     /\ AddGroup(Group(Slice(Len(arrays'), 1), <<Fresh>>, FALSE))
     /\ UNCHANGED <<router, routes>>
  \/ AddGroup(Group(Common, <<1>>, TRUE)) /\ UNCHANGED <<arrays, router, routes, made>>

\* Variant: append(g.middleware, mws...).
Combined_inPlace(s, x) == Appended(s, x)

\* A copy of the group's own, then the new ones.
Combined(s, x) ==
  {[arrays |-> a, slice |-> Slice(Len(a), s.len + 1)] : a \in NewArray(Append(Items(s), x))}

\* Group.NewGroup, and the calls that nest a group with it.
NewNested(g) ==
  /\ Make
  /\ \E a \in Combined(groups[g].mws, Fresh) :
       /\ arrays' = a.arrays
       /\ AddGroup(Group(a.slice, Append(groups[g].said, Fresh), groups[g].common))
  /\ UNCHANGED <<router, routes>>

GroupUse(g) ==
  /\ Make
  /\ \E a \in Appended(groups[g].mws, Fresh) :
       /\ arrays' = a.arrays
       /\ groups' = [groups EXCEPT ![g].mws = a.slice, ![g].said = Append(@, Fresh)]
  /\ UNCHANGED <<router, routes>>

\* chain: the first of the list is the outermost.
chain(h, mws) == mws \o h

\* The program's slice has room, and more than one group was made of it.
Entangled(g) ==
  /\ groups[g].common /\ arrays[1].cap > 1
  /\ \E h \in DOMAIN groups : h # g /\ groups[h].common

AddRoute(runs, said, loose) ==
  /\ Len(routes) < MaxRoutes
  /\ routes' = Append(routes, [runs |-> runs, said |-> said, loose |-> loose])
  /\ UNCHANGED <<arrays, router, groups, made>>

\* Router.HandleFunc of a route whose own chain is inner.
HandleFunc(inner, said, loose) ==
  AddRoute(chain(inner, Items(router.mws)), router.said \o said, loose)

\* Group.HandleFunc hands the router what it has chained.
HandleInGroup(g) == HandleFunc(chain(<<>>, Items(groups[g].mws)), groups[g].said, Entangled(g))

Next ==
  \/ RouterUse \/ NewGroup \/ HandleFunc(<<>>, <<>>, FALSE)
  \/ \E g \in DOMAIN groups : NewNested(g) \/ GroupUse(g) \/ HandleInGroup(g)

Spec == Init /\ [][Next]_vars

-----------------------------------------------------------------------------
(* Properties                                                              *)

\* Around every route runs exactly what Use and the group's makers were given
\* before it was registered, the router's first, then each group's from the
\* outside in; no call on another group shows in it.  This is so unless several
\* groups of the router are made of one slice of the program that has room.
RouteRunsItsOwn == \A i \in DOMAIN routes : ~routes[i].loose => routes[i].runs = routes[i].said
=============================================================================
