\* Two requests, one insured shipment, two payments, one failure: every
\* interleaving of two handlers around a crash or a thrown error.
SPECIFICATION FairSpec
CONSTANTS
    Shipments = {s1}
    NoShipment = none
    Requests = {r1, r2}
    MaxPayments = 2
    MaxFaults = 1
    Hops = {"hop", "none"}
    Insured = {s1}
    Flaky = TRUE
INVARIANTS
    IndInv
    CommittedAtMostOnce
    OneOutcomeHeard
    StatusIsBacked
PROPERTIES
    KeepsPromise
    SettledIsDispatched
    RequestsAreAnswered
\* Once the rows of the bound are used and settled nothing is left to do.
CHECK_DEADLOCK FALSE
