------------------------- MODULE TransitProperties -------------------------
(***************************************************************************)
(* What must hold of PackageTransit.                                       *)
(***************************************************************************)
EXTENDS PackageTransit

PcStates ==
    {"idle", "record", "accept", "deliver", "hold", "wait", "forward",
     "expire", "claimStatus", "notify", "claimCharge", "charge"}

RowTypes == {"none", "package-transit"} \cup PostedTypes

\* Every variable keeps the shape its table, map or field has.
TypeOK ==
    /\ inbox \in [Messages -> Nat]
    /\ arrived \in [Messages -> Nat]
    /\ seen \subseteq Messages
    /\ handler \in [Callers -> [pc : PcStates,
                                m : Messages \cup {NoMessage}]]
    /\ row \in [Transits -> RowTypes]
    /\ claims \subseteq {"pkg-status", "insurance"} \X Packages
    /\ routed \subseteq Packages \ Here
    /\ running \in BOOLEAN
    /\ cursor \in Transits \cup {0}
    /\ drain \in [Drainers ->
                    [pc : {"idle", "fetch", "route", "remove"},
                     batch : SUBSET Transits, full : BOOLEAN,
                     processed : 0..MaxPerRun,
                     m : Transits \cup {NoMessage}]]
    /\ recorded \in [Transits -> Nat]
    /\ received \in [Transits -> Nat]
    /\ forwarded \in [Transits -> Nat]
    /\ delivered \in [Transits -> Nat]
    /\ expired \in [Transits -> Nat]
    /\ dropped \subseteq Messages
    /\ notified \in [Packages -> Nat]
    /\ charged \in [Packages -> Nat]
    /\ faults \in 0..MaxFaults

InHand(m) == \E h \in Handlers : handler[h].m = m
Removing(m) == \E d \in Drainers : drain[d].pc = "remove" /\ drain[d].m = m

\* A handler that recorded the package and has not yet said what becomes of it.
TakingUp == {"accept", "deliver", "hold", "wait", "forward", "expire"}

Takes(h, m) == handler[h].pc \in TakingUp /\ handler[h].m = m

One(condition) == IF condition THEN 1 ELSE 0

\* Where a transit that was recorded is: with the handler that recorded it,
\* in a row that waits or that was posted, or gone for good.
InProgress(m) == Cardinality({h \in Handlers : Takes(h, m)})
Parked(m) == row[m] \in PostedTypes /\ ~Removing(m)

\* Without failures every package that was recorded, by a message or by POST
\* /packages, is in exactly one place: neither the subscriber's memory, nor
\* handlers, posts and the drain at work on the same table, nor a repeated
\* delivery loses it, forwards, delivers or expires it twice.
InOnePlace ==
    faults = 0 =>
      \A m \in Transits :
        recorded[m] = InProgress(m) + One(Parked(m))
                        + forwarded[m] + delivered[m] + expired[m]

\* The origin of an insured package is told once and its insurance is
\* charged once, over repeated messages, several passages of the package
\* through the city, handlers and drain that find it dead, and crashes.
InsuredOnce == \A p \in Packages : notified[p] <= 1 /\ charged[p] <= 1

\* The rows a run of the drain read into memory still wait when it comes to
\* them, whatever tables arrive meanwhile: it neither forwards a package
\* twice nor deletes a row that is gone (which would make the run throw).
BatchStillWaits ==
    \A d \in Drainers :
        /\ \A m \in drain[d].batch : row[m] = "pending-route"
        /\ drain[d].pc = "remove" => row[drain[d].m] = "pending-route"

\* A package that waits leaves the table once its destination stays routable,
\* or when it has no hops left, however many others wait before it without a
\* route, and however the cap cuts the runs short.
WaitingIsRouted ==
    \A m \in Transits :
        (m \in Exhausted \/ <>[](PackageOf[m] \in routed))
          => (row[m] = "pending-route" ~> row[m] # "pending-route")

\* Without failures the insurance of a package that died here is settled by
\* the time the calls are done, whoever found it dead, a handler or the drain,
\* and whoever claimed it first, this city or another one's status: a package
\* of this city is charged, the origin of another one is told.
InsuredDeathIsSettled ==
    (faults = 0 /\ \A x \in Callers : At(x, "idle"))
      => \A m \in Transits :
            LET p == PackageOf[m] IN
              expired[m] > 0 /\ p \in Insured
                => IF p \in Ours THEN charged[p] = 1 ELSE notified[p] = 1

-----------------------------------------------------------------------------
(* The inductive invariant of TransitProofs, in parts.                     *)

\* A handler in progress has a message, a transit for as long as it looks at
\* hops and destination.
HandlersHold ==
    \A h \in Callers :
        /\ handler[h].pc # "idle" => handler[h].m \in Messages
        /\ handler[h].pc \in TakingUp \cup {"record"}
              => handler[h].m \in Transits

\* The row that recorded the package excludes every other handler of its
\* idpk, every post of it, and the drain.
OneTaker ==
    \A m \in Transits, h \in Handlers :
        Takes(h, m) => /\ row[m] = "package-transit"
                       /\ \A g \in Handlers : Takes(g, m) => g = h

\* At most one run works, on rows that wait, and forwards one row after the
\* other.
SingleFlight ==
    /\ \A d \in Drainers :
          /\ drain[d].pc # "idle" => running
          /\ drain[d].pc = "idle" => drain[d].batch = {}
          /\ drain[d].pc = "remove" => /\ drain[d].m \in Transits
                                       /\ drain[d].m \notin drain[d].batch
    /\ \A c, d \in Drainers :
          drain[c].pc # "idle" /\ drain[d].pc # "idle" => c = d

\* A run goes on when its call to InsuranceService has returned.
CallsAreAwaited ==
    \A d \in Drainers : drain[d].pc # "remove" => At(d, "idle")

\* Who has a claim is alone with it, and has not used it yet.
ClaimsAreHeld ==
    /\ \A h \in Callers :
          /\ At(h, "notify") => /\ <<"pkg-status", Pkg(h)>> \in claims
                                /\ notified[Pkg(h)] = 0
          /\ At(h, "charge") => /\ <<"insurance", Pkg(h)>> \in claims
                                /\ charged[Pkg(h)] = 0
    /\ \A g, h \in Callers :
          /\ At(g, "notify") /\ At(h, "notify") /\ Pkg(g) = Pkg(h) => g = h
          /\ At(g, "charge") /\ At(h, "charge") /\ Pkg(g) = Pkg(h) => g = h
    /\ \A p \in Packages :
          /\ <<"pkg-status", p>> \notin claims => notified[p] = 0
          /\ <<"insurance", p>> \notin claims => charged[p] = 0

AtFor(pc, p) == \E h \in Callers : At(h, pc) /\ Pkg(h) = p

\* Without failures, a claim was used or is about to be.
Settled ==
    /\ \A m \in Transits :
          expired[m] > 0 /\ PackageOf[m] \in Insured =>
            \/ <<"pkg-status", PackageOf[m]>> \in claims
            \/ AtFor("claimStatus", PackageOf[m])
    /\ \A p \in Packages :
          /\ <<"pkg-status", p>> \in claims /\ p \in Ours =>
                <<"insurance", p>> \in claims \/ AtFor("claimCharge", p)
          /\ <<"pkg-status", p>> \in claims /\ p \notin Ours =>
                notified[p] = 1 \/ AtFor("notify", p)
          /\ <<"insurance", p>> \in claims =>
                charged[p] = 1 \/ AtFor("charge", p)

Settling == faults = 0 => Settled

IndInv ==
    /\ TypeOK
    /\ HandlersHold
    /\ OneTaker
    /\ SingleFlight
    /\ CallsAreAwaited
    /\ BatchStillWaits
    /\ InOnePlace
    /\ ClaimsAreHeld
    /\ InsuredOnce
    /\ Settling

-----------------------------------------------------------------------------
(* What the documentation says and the code does not do.                   *)

\* routing-subscriber.service.ts:51: "descarta mensajes ya procesados
\* (reentregas del broker)".
DroppedWasProcessed ==
    \A m \in Transits : m \in dropped /\ ~InHand(m) => recorded[m] > 0
=============================================================================
