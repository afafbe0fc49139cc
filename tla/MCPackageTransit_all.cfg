\* Two passages of an insured package: one that may wait for a route, and one
\* without hops that is sent or posted up to twice, with a status about the
\* package; two handlers, two tables that may drain at once, and one failure.
SPECIFICATION Spec
CONSTANTS
    Transits = {1, 2}
    Statuses = {9}
    Packages = {1}
    PackageOf <- OneForAll
    Exhausted = {2}
    Here = {}
    Held = {}
    Insured = {1}
    Ours = {}
    Handlers = {h1, h2}
    Drainers = {d1, d2}
    BatchSize = 2
    MaxPerRun = 2
    MaxCopies <- LastTwice
    MaxFaults = 1
SYMMETRY Symmetry
INVARIANTS
    IndInv
    InOnePlace
    BatchStillWaits
    InsuredOnce
    InsuredDeathIsSettled
