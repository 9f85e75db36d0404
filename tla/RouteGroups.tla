---------------------------- MODULE RouteGroups ----------------------------
(***************************************************************************)
(* Registration of routes.  Lists of middleware are Go slices: a view of   *)
(* the first cells of an array that other slices may view as well, so that *)
(* append writes into the shared array wherever there is room.  A route's  *)
(* chain is built from the cells as they are when it is registered.        *)
(***************************************************************************)
EXTENDS Integers, Sequences

CONSTANTS
  Global,     \* the handler's own middleware, outermost first
  Lists,      \* the lists of middleware that groups and routes are given
  MaxGroups,  \* BOUND: how many groups are made
  MaxRoutes   \* BOUND: how many routes are registered

ASSUME GlobalAssumption == Global \in Seq(STRING)
ASSUME ListsAssumption == Lists \subseteq Seq(STRING)
ASSUME MaxRoutesAssumption == MaxRoutes \in Nat

VARIABLES
  arrays,  \* the backing arrays
  groups,  \* each with its slice and, as history, what it was given
  routes   \* each with its chain and, as history, what it was given

groupVars == <<arrays, groups, routes>>

NoCell == "none"
Slice(array, len) == [array |-> array, len |-> len]
Cells(a, s) == SubSeq(a[s.array], 1, s.len)

\* runtime.growslice for pointers: double, or what is needed if that is more,
\* rounded up to a size class of the allocator.  BOUND: larger arrays are not
\* rounded.
SizeClasses == {0, 1, 2, 3, 4, 6, 8, 10, 12, 14, 16}
GrownCap(old, need) ==
  LET wanted == IF need > 2 * old THEN need ELSE 2 * old
      Fitting == {c \in SizeClasses : c >= wanted}
  IN IF Fitting = {} THEN wanted ELSE CHOOSE c \in Fitting : \A d \in Fitting : c <= d

Filled(cells, cap) == [i \in 1 .. cap |-> IF i <= Len(cells) THEN cells[i] ELSE NoCell]

\* append(s, ms...): the arrays after it, and the slice it returns.
Append2(a, s, ms) ==
  LET len == s.len + Len(ms)
      cap == Len(a[s.array])
  IN IF len <= cap
     THEN [arrays |-> [a EXCEPT ![s.array] =
                        [i \in 1 .. cap |->
                           IF i > s.len /\ i <= len THEN ms[i - s.len] ELSE @[i]]],
           slice |-> Slice(s.array, len)]
     ELSE [arrays |-> Append(a, Filled(Cells(a, s) \o ms, GrownCap(cap, len))),
           slice |-> Slice(Len(a) + 1, len)]

\* newWebHandler puts CORS in front of the four that main.go gives: five cells
\* are asked for and six are allocated.
GlobalSlice == Slice(1, Len(Global))

GroupsInit ==
  /\ arrays = <<Filled(Global, GrownCap(1, Len(Global)))>>
  /\ groups = <<>> /\ routes = <<>>

GroupArrayWithRoom(ms) == Filled(ms, Len(ms) + 2)
GroupArray(ms) == ms

\* WebHandler.Group keeps the list of its arguments, which has no room left.
NewGroup ==
  /\ Len(groups) < MaxGroups
  /\ \E ms \in Lists :
       /\ arrays' = Append(arrays, GroupArray(ms))
       /\ groups' = Append(groups, [slice |-> Slice(Len(arrays) + 1, Len(ms)),
                                    depth |-> 1, given |-> ms])
  /\ UNCHANGED routes

\* RouteGroup.Group.
SubGroup ==
  /\ Len(groups) < MaxGroups
  /\ \E g \in DOMAIN groups, ms \in Lists :
       LET combined == Append2(arrays, groups[g].slice, ms)
       IN /\ arrays' = combined.arrays
          /\ groups' = Append(groups, [slice |-> combined.slice, depth |-> groups[g].depth + 1,
                                       given |-> groups[g].given \o ms])
  /\ UNCHANGED routes

\* What RouteGroup.Handle hands to WebHandler.Handle.
WithGroupMiddleware(a, g, ms) == Append2(a, groups[g].slice, ms)

\* RouteGroup.Handle, WebHandler.Handle and buildHandlerChain.
Handle ==
  /\ Len(routes) < MaxRoutes
  /\ \E g \in DOMAIN groups, ms \in Lists :
       LET own == WithGroupMiddleware(arrays, g, ms)
           all == Append2(own.arrays, GlobalSlice, Cells(own.arrays, own.slice))
       IN /\ arrays' = all.arrays
          /\ routes' = Append(routes, [chain |-> Cells(all.arrays, all.slice),
                                       depth |-> groups[g].depth,
                                       given |-> Global \o groups[g].given \o ms])
  /\ UNCHANGED groups

Register == NewGroup \/ SubGroup \/ Handle

GroupsSpec == GroupsInit /\ [][Register]_groupVars
-----------------------------------------------------------------------------
(* routegroups.go: a route runs the handler's middleware, its groups' and  *)
(* its own, in this order and nobody else's, although their slices share   *)
(* arrays.  From the third level of groups on this fails: two slices may   *)
(* then end in the same cell.                                              *)
RoutesRunTheirOwn ==
  \A r \in DOMAIN routes : routes[r].depth <= 2 => routes[r].chain = routes[r].given
=============================================================================
