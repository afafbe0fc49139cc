SPECIFICATION Spec
CONSTANTS
    Cities = {a, b, c, d}
    Source = a
    NoCity = none
    Infinity = inf
    Weights = {0, 1}
    Graphs <- AllGraphs
SYMMETRY Others
INVARIANTS
    IndInv
    ResultsAreShortest
CHECK_DEADLOCK FALSE
