-------------------------- MODULE MCPackageTransit --------------------------
(* TLC instances of PackageTransit; handlers and drainers are             *)
(* interchangeable.                                                        *)
EXTENDS TransitProperties, TLC

\* Each transit is a package of its own, or all are passages of one package,
\* which the statuses are about.
EachItsOwn == [m \in Messages |-> m]
OneForAll == [m \in Messages |-> 1]

Once == [m \in Messages |-> 1]
LastTwice == [m \in Messages |-> IF m = Max(Transits) THEN 2 ELSE 1]

Symmetry == Permutations(Handlers) \cup Permutations(Drainers)
=============================================================================
