---------------------------- MODULE RoutePromise ----------------------------
(***************************************************************************)
(* What the routes of getNextHop promise to the packages that follow them, *)
(* with no timer, guard, job, worker or poll in sight: they are those of   *)
(* tables that were stored, they are replaced only by routes of tables at  *)
(* least as new, and only the end of the process forgets them.             *)
(***************************************************************************)
EXTENDS Naturals

CONSTANT Cities  \* the other cities

VARIABLES
    tables,   \* how many tables came from the central and from each city
    routes    \* the tables that the routes were computed from

promiseVars == <<tables, routes>>

Tables == [own : Nat, peers : [Cities -> Nat]]
None == [own |-> 0, peers |-> [c \in Cities |-> 0]]

NotOlder(g, f) ==
    /\ g.own >= f.own
    /\ \A c \in Cities : g.peers[c] >= f.peers[c]

Init == tables = None /\ routes = None

StoreOwn ==
    /\ tables'.own > tables.own
    /\ tables' = [tables EXCEPT !.own = tables'.own]
    /\ UNCHANGED routes

StorePeer(c) ==
    /\ tables' = [tables EXCEPT !.peers[c] = @ + 1]
    /\ UNCHANGED routes

Recompute ==
    /\ routes' \in Tables
    /\ NotOlder(routes', routes)
    /\ NotOlder(tables, routes')
    /\ UNCHANGED tables

\* The own table and the routes are memory.
Restart ==
    /\ tables' = [tables EXCEPT !.own = 0]
    /\ routes' = None

Next == StoreOwn \/ (\E c \in Cities : StorePeer(c)) \/ Recompute \/ Restart

Spec == Init /\ [][Next]_promiseVars
=============================================================================
