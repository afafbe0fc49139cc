\* Two cities that run this code and one that does not, and one event: a request,
\* table or reconnection that nobody asked for, or a failure.  The central's
\* tables name one of the cities.  Six msgIds are more than are ever needed.
SPECIFICATION FairSpec
CONSTANTS
    Cities = {a, b}
    Others = {o}
    Central = central
    NoSender = nobody
    Signed = {a}
    MaxIds = 6
    MaxEvents = 1
PROPERTIES
    ExchangesEnd
    NoCircles
    OthersAreStored
\* Every table was stored or dropped and nobody asks any more.
CHECK_DEADLOCK FALSE
