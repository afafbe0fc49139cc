\* A crash between the claim of the package and its publication.
SPECIFICATION FairSpec
CONSTANTS
    Shipments = {s1}
    NoShipment = none
    Requests = {r1, r2}
    MaxPayments = 2
    MaxFaults = 1
    Hops = {"hop"}
    Insured = {}
    Flaky = FALSE
PROPERTIES
    ClaimedIsPublished
\* Once the rows of the bound are used and settled nothing is left to do.
CHECK_DEADLOCK FALSE
