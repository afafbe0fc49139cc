\* No failure, runs that are cut short after one package, and three packages:
\* one for this city, which no route is ever found for when it is posted, one
\* that waits for a route behind it, and an insured one of this city without
\* hops behind both.
SPECIFICATION FairSpec
CONSTANTS
    Transits = {1, 2, 3}
    Statuses = {}
    Packages = {1, 2, 3}
    PackageOf <- EachItsOwn
    Exhausted = {3}
    Here = {1}
    Held = {1}
    Insured = {3}
    Ours = {3}
    Handlers = {h1}
    Drainers = {d1}
    BatchSize = 1
    MaxPerRun = 1
    MaxCopies <- Once
    MaxFaults = 0
INVARIANTS InsuredDeathIsSettled
PROPERTIES WaitingIsRouted
