\* Two cities that run this code and one that does not ask one another, and
\* nothing fails.  The central's tables name one of the cities.
SPECIFICATION FairSpec
CONSTANTS
    Cities = {a, b}
    Others = {o}
    Central = central
    NoSender = nobody
    Signed = {a}
    MaxIds = 6
    MaxEvents = 0
PROPERTIES
    KinIsStored
\* Every table was stored or dropped and nobody asks any more.
CHECK_DEADLOCK FALSE
