--------------------------- MODULE PathProperties ---------------------------
(***************************************************************************)
(* What must hold of ShortestPaths.                                        *)
(***************************************************************************)
EXTENDS ShortestPaths

\* The routes without a city twice, by definition.
Routes ==
    {path \in UNION {[1..n -> Cities] : n \in 2..Cardinality(Cities)} :
        /\ path[1] = Source
        /\ \A i, j \in DOMAIN path : path[i] = path[j] => i = j}

Open(path) == \A i \in 1..(Len(path) - 1) : weight[path[i]][path[i + 1]] # Infinity

\* The open routes to v.
RoutesTo(v) == {path \in Routes : path[Len(path)] = v /\ Open(path)}

\* The next hop of a result begins a cheapest route, its total is that of a
\* cheapest route, and a city without a route has no next hop.
Shortest(result, v) ==
    IF RoutesTo(v) = {}
    THEN result = [nextHop |-> NoCity, total |-> Infinity]
    ELSE /\ \A path \in RoutesTo(v) : Total(path) >= result.total
         /\ \E path \in RoutesTo(v) :
               path[2] = result.nextHop /\ Total(path) = result.total

\* On a given graph each program finds cheapest routes: the loops, the way back
\* along the predecessors and the totals (runDijkstra and buildDijkstraResults
\* of the worker, shortestPaths and pathTo of the backend) come to what the
\* definition says.  The rows a quote is read from may be of another graph.
ResultsAreShortest ==
    \A v \in Cities \ {Source} :
        /\ Ended(worker) => Shortest(WorkerResult(v), v)
        /\ Ended(quote) => Shortest(QuoteResult(v), v)

-----------------------------------------------------------------------------
(* The inductive invariant of PathProofs, in parts, for each of the runs.   *)

RunType(run) ==
    /\ run.done \subseteq Cities
    /\ run.dist \in [Cities -> Nat \cup {Infinity}]
    /\ run.prev \in [Cities -> Cities \cup {NoCity}]

\* The source is at 0, and nothing is before it.
Rooted(run) == run.dist[Source] = 0 /\ run.prev[Source] = NoCity

\* A city was reached over an open edge from one that was visited, and its
\* distance is the sum over that edge.
Tree(run) ==
    \A v \in Cities \ {Source} :
        IF run.dist[v] = Infinity
        THEN run.prev[v] = NoCity
        ELSE /\ run.prev[v] \in run.done
             /\ weight[run.prev[v]][v] # Infinity
             /\ run.dist[v] = run.dist[run.prev[v]] + weight[run.prev[v]][v]

\* No edge out of a visited city leads anywhere nearer than is known.
Relaxed(run) ==
    \A u \in run.done, v \in Cities :
        ~Less(Plus(run.dist[u], weight[u][v]), run.dist[v])

\* Visited cities were reached, and lie nearer than the others.
Nearest(run) ==
    \A u \in run.done :
        /\ run.dist[u] # Infinity
        /\ \A v \in Cities \ run.done : ~Less(run.dist[v], run.dist[u])

RunInv(run) == RunType(run) /\ Rooted(run) /\ Tree(run) /\ Relaxed(run) /\ Nearest(run)

WeightType == weight \in [Cities -> [Cities -> Weights \cup {Infinity}]]

IndInv == WeightType /\ RunInv(worker) /\ RunInv(quote)
=============================================================================
