\* Two invocations of two attempts overlap, two things go wrong; an amount of
\* two, and budgets that pay for none, for one with nothing or with something
\* left, and for both.
SPECIFICATION FairSpec
CONSTANTS
    Workers = {w1, w2}
    Budgets = {1, 2, 3, 4}
    Prices = {2}
    Amounts = {2}
    MaxAmount = 2
    MaxRetries = 1
    MaxReceives = 2
    MaxFaults = 2
    Hops = {"hop", "none"}
    Insured = TRUE
INVARIANTS
    IndInv
    BooksBalance
    FailsWithReason
    OnePackagePerTick
    NoTickIsSkipped
    EndsWhenOver
PROPERTIES
    KeepsBudget
    ExecutionFinishes
\* The execution has ended, or was never started: nothing is left to do.
CHECK_DEADLOCK FALSE
