\* The customer cancels in one tab while the other one confirms.
SPECIFICATION Spec
CONSTANTS
    Shipments = {s1}
    NoShipment = none
    Requests = {r1, r2}
    MaxPayments = 1
    MaxFaults = 0
    Hops = {"hop"}
    Insured = {}
    Flaky = FALSE
SYMMETRY RequestSymmetry
INVARIANTS
    AuthorizedIsNotFailed
\* Once the rows of the bound are used and settled nothing is left to do.
CHECK_DEADLOCK FALSE
