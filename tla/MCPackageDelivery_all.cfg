\* Two requests for one package, each with the package's key or with one of
\* its own, and one message to the city, over two connections at once and two
\* failures.
SPECIFICATION FairSpec
CONSTANTS
    MaxConns = 2
    Outgoing = {p1}
    Packages = {p1}
    ClientKeys = {k1}
    NoPackage = none
    OldPackage = old
    Elsewhere = {}
    Held = {p1}
    Inbound = {m1}
    MaxRequests = 2
    Prefetch = 1
    MaxFaults = 2
INVARIANTS
    IndInv
    NeverStranded
    AnswerHasItsRow
PROPERTIES
    KeepsReports
    Recovers
    QueueIsDrained
    RecordedIsReported
\* Everything was delivered and handled and nothing fails any more.
CHECK_DEADLOCK FALSE
