---------------------------- MODULE ShortestPaths ----------------------------
(***************************************************************************)
(* The two Dijkstras of the system, each over a matrix of tables: the      *)
(* worker of jobs-service computes the next hops the packages take, and    *)
(* the backend computes the routes it keeps for its quotes.  Each loop is  *)
(* a sequence of steps that visit one city; which of several closest       *)
(* cities comes first depends on the order of keys and is left open.       *)
(* Nothing here says that the two are given the same tables.               *)
(*                                                                         *)
(* One of the two metrics is modelled: they are computed apart.            *)
(***************************************************************************)
EXTENDS Integers, FiniteSets, Sequences

CONSTANTS
    Cities,
    Source,    \* CITY_ID
    NoCity,    \* null, or no entry
    Infinity,
    Weights,   \* the distances, or the costs, a table may hold
    Graphs     \* the matrices buildFullGraph may return

ASSUME ShortestPathsAssumption ==
    /\ IsFiniteSet(Cities)
    /\ Source \in Cities
    /\ NoCity \notin Cities
    /\ Infinity \notin Int
    /\ Weights \subseteq Int
    /\ Graphs \subseteq [Cities -> [Cities -> Weights \cup {Infinity}]]

VARIABLES
    weight,  \* weight[u][v]: the enabled entry for v in u's table
    worker,  \* runDijkstra: the cities visited, distances, previous
    quote    \* shortestPaths: the same in visited, dist, prev

vars == <<weight, worker, quote>>

-----------------------------------------------------------------------------
\* Arithmetic and order with Infinity.
Plus(a, b) == IF Infinity \in {a, b} THEN Infinity ELSE a + b
Less(a, b) == a # Infinity /\ (b = Infinity \/ a < b)

Start ==
    [done |-> {},
     dist |-> [c \in Cities |-> IF c = Source THEN 0 ELSE Infinity],
     prev |-> [c \in Cities |-> NoCity]]

Init ==
    /\ weight \in Graphs
    /\ worker = Start
    /\ quote = Start

\* Mutant of Closest: any city that was reached.
Closest_AnyReached(run) == {u \in Cities \ run.done : run.dist[u] # Infinity}

\* getClosestNode: a city that was reached and is not farther than another.
Closest(run) ==
    {u \in Cities \ run.done :
        /\ run.dist[u] # Infinity
        /\ \A v \in Cities \ run.done : ~Less(run.dist[v], run.dist[u])}

\* Visit u: update those of its neighbours that are nearer through it.
Visit(run, u, edge, targets) ==
    LET through(v) == Plus(run.dist[u], edge[v])
        nearer == {v \in targets : Less(through(v), run.dist[v])}
    IN  [done |-> run.done \cup {u},
         dist |-> [v \in Cities |-> IF v \in nearer THEN through(v)
                                                    ELSE run.dist[v]],
         prev |-> [v \in Cities |-> IF v \in nearer THEN u
                                                    ELSE run.prev[v]]]

\* Mutant of WorkerVisit: the cities that were visited are not updated, and
\* neither is the one that comes after them.
WorkerVisit_Twice(u) ==
    /\ u \in Closest(worker)
    /\ worker' = [Visit(worker, u, weight[u], Cities \ worker.done)
                    EXCEPT !.done = worker.done]
    /\ UNCHANGED <<weight, quote>>

\* updateNeighbors, for cities that are not visited yet.
WorkerVisit(u) ==
    /\ u \in Closest(worker)
    /\ worker' = Visit(worker, u, weight[u], Cities \ (worker.done \cup {u}))
    /\ UNCHANGED <<weight, quote>>

\* buildAdjacency: neither an edge to the city itself nor a negative one.
Edge(u, v) ==
    IF u = v \/ weight[u][v] = Infinity \/ weight[u][v] < 0
    THEN Infinity ELSE weight[u][v]

\* The loop of shortestPaths.
QuoteVisit(u) ==
    /\ u \in Closest(quote)
    /\ quote' = Visit(quote, u, [v \in Cities |-> Edge(u, v)], Cities)
    /\ UNCHANGED <<weight, worker>>

Next == \E u \in Cities : WorkerVisit(u) \/ QuoteVisit(u)

Spec == Init /\ [][Next]_vars

-----------------------------------------------------------------------------
(* The results, once no city is left that was reached.                     *)

\* getClosestNode finds none: closest, and u in shortestPaths, stay null.
Ended(run) == \A u \in Cities \ run.done : run.dist[u] = Infinity

\* reconstructPath: back along previous until there is none.
Path(run, v) ==
    LET back[n \in 0..Cardinality(Cities)] ==
            IF n = 0 THEN <<v>>
            ELSE LET rest == back[n - 1]
                     before == run.prev[Head(rest)]
                 IN  IF before = NoCity THEN rest ELSE <<before>> \o rest
    IN  back[Cardinality(Cities)]

\* calculatePathTotals
Total(path) ==
    LET sum[i \in 1..Len(path)] ==
            IF i = 1 THEN 0 ELSE sum[i - 1] + weight[path[i - 1]][path[i]]
    IN  sum[Len(path)]

\* buildDijkstraResults
WorkerResult(v) ==
    LET path == Path(worker, v)
    IN  IF Head(path) = Source
        THEN [nextHop |-> path[2], total |-> Total(path)]
        ELSE [nextHop |-> NoCity, total |-> Infinity]

\* The result of shortestPaths, and pathTo for a city it did not reach.
QuoteResult(v) ==
    IF quote.dist[v] = Infinity
    THEN [nextHop |-> NoCity, total |-> Infinity]
    ELSE [nextHop |-> Path(quote, v)[2], total |-> quote.dist[v]]
=============================================================================
