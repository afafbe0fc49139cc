--------------------------- MODULE MCShortestPaths ---------------------------
(* TLC instance of ShortestPaths.                                          *)
EXTENDS PathProperties, TLC

\* All matrices without edges to the source or from a city to itself.
AllGraphs ==
    {[u \in Cities |-> [v \in Cities |->
        IF v \in {u, Source} THEN Infinity ELSE w[<<u, v>>]]] :
        w \in [{e \in Cities \X (Cities \ {Source}) : e[1] # e[2]}
                 -> Weights \cup {Infinity}]}
\* The other cities are interchangeable in all of the matrices together.
Others == Permutations(Cities \ {Source})
=============================================================================
