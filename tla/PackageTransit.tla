--------------------------- MODULE PackageTransit ---------------------------
(***************************************************************************)
(* The packages that other cities send through this one.                   *)
(* RoutingSubscriberService takes a message from the city's queue, drops   *)
(* it if its msgId was seen, and hands package-transit to PackageService   *)
(* and package-status to InsuranceService; a distance table makes one of   *)
(* the handlers drain the packages that wait for a route.  The broker runs *)
(* up to prefetch handlers at once and delivers at least once.             *)
(*                                                                         *)
(* PackageEvent holds one row per idpk: inbound packages, packages that    *)
(* wait, and the claims pkg-status:<id> and insurance:<id>.  POST /packages *)
(* writes rows into it too, of any type and with any maxHops.  The ids that *)
(* were seen, the routes and the drain's cursor are memory of the process. *)
(*                                                                         *)
(* The broker is external.  Audit messages and acknowledgements to other   *)
(* cities are left out of the state: nothing here reads them back.         *)
(***************************************************************************)
EXTENDS Naturals, FiniteSets, FiniteSetsExt

CONSTANTS
    Transits,     \* packages in transit, by idpk: positive numbers
    Statuses,     \* package-status messages ("expired") from other cities
    Packages,
    PackageOf,    \* PackageOf[m]: the package message m is about
    Exhausted,    \* the transits with maxHops 0 (or less)
    Here,         \* the packages whose destination is this city
    Held,         \* those of them with a deliverNotBefore
    Insured,      \* the insured packages
    Ours,         \* the packages that started in this city
    Handlers,     \* prefetch: the messages in progress at once
    Drainers,     \* the handlers of distance tables
    BatchSize, MaxPerRun,  \* pendingBatchSize, pendingMaxPerRun
    MaxCopies,    \* bound: MaxCopies[m], how often m is delivered or posted
    MaxFaults     \* bound: crashes and thrown errors

ASSUME PackageTransitAssumption ==
    /\ IsFiniteSet(Transits) /\ Transits \subseteq Nat \ {0}
    /\ Transits \cap Statuses = {}
    /\ PackageOf \in [Transits \cup Statuses -> Packages]
    /\ IsFiniteSet(Handlers) /\ Handlers \cap Drainers = {}
    /\ Exhausted \subseteq Transits
    /\ Here \subseteq Packages
    /\ Held \subseteq Here
    /\ Insured \subseteq Packages
    /\ Ours \subseteq Packages
    /\ BatchSize \in Nat \ {0}
    /\ MaxPerRun \in Nat \ {0}
    /\ MaxCopies \in [Transits \cup Statuses -> Nat]
    /\ MaxFaults \in Nat

Messages == Transits \cup Statuses
NoMessage == 0

\* Whoever may call InsuranceService: a handler of a package-transit or a
\* package-status, and the drain.
Callers == Handlers \cup Drainers

VARIABLES
    inbox,      \* inbox[m]: copies of m that wait in the city's queue
    arrived,    \* arrived[m]: times m was delivered or posted
    seen,       \* the msgIds the subscriber remembers
    handler,    \* handler[h]: program counter and message of a handler, or
                \* of the call to InsuranceService a drain waits for
    row,        \* row[m]: type of the PackageEvent with idpk m, or "none"
    claims,     \* <<kind, package>>: the claim rows of PackageEvent
    routed,     \* the packages getNextHop has an answer for
    running,    \* pendingRunning
    cursor,     \* pendingRouteCursor; 0 is undefined
    drain,      \* drain[d]: the run of drainPendingRoutes of a handler
    recorded,   \* recorded[m]: how often the row of m was created
    received,   \* received[m]: package-received events published
    forwarded,  \* forwarded[m]: times the package of m went to a next hop
    delivered,  \* delivered[m]: times the package of m was delivered here
    expired,    \* expired[m]: times the package of m died here
    dropped,    \* the messages a repetition of which was dropped as seen
    notified,   \* notified[p]: package-status messages sent for p
    charged,    \* charged[p]: times the insurance of p was charged
    faults

vars == <<inbox, arrived, seen, handler, row, claims, routed, running,
          cursor, drain, recorded, received, forwarded, delivered, expired,
          dropped, notified, charged, faults>>

queueVars == <<inbox, arrived, seen, dropped>>
dbVars == <<row, claims, recorded>>
drainVars == <<running, cursor, drain>>
outVars == <<received, forwarded, delivered, expired, notified, charged>>

-----------------------------------------------------------------------------
Idle == [pc |-> "idle", m |-> NoMessage]
NoDrain == [pc |-> "idle", batch |-> {}, full |-> FALSE, processed |-> 0,
            m |-> NoMessage]

Init ==
    /\ inbox = [m \in Messages |-> 0]
    /\ arrived = [m \in Messages |-> 0]
    /\ seen = {}
    /\ handler = [h \in Callers |-> Idle]
    /\ row = [m \in Transits |-> "none"]
    /\ claims = {}
    /\ routed = {}
    /\ running = FALSE
    /\ cursor = 0
    /\ drain = [d \in Drainers |-> NoDrain]
    /\ recorded = [m \in Transits |-> 0]
    /\ received = [m \in Transits |-> 0]
    /\ forwarded = [m \in Transits |-> 0]
    /\ delivered = [m \in Transits |-> 0]
    /\ expired = [m \in Transits |-> 0]
    /\ dropped = {}
    /\ notified = [p \in Packages |-> 0]
    /\ charged = [p \in Packages |-> 0]
    /\ faults = 0

At(h, pc) == handler[h].pc = pc
Go(h, pc) == handler' = [handler EXCEPT ![h].pc = pc]
Done(h) == handler' = [handler EXCEPT ![h] = Idle]  \* channel.ack
Pkg(h) == PackageOf[handler[h].m]
Fault == faults < MaxFaults /\ faults' = faults + 1

-----------------------------------------------------------------------------
(* The queue and the subscriber.                                           *)

\* A sender delivers a message, and may do so again.
Arrive(m) ==
    /\ arrived[m] < MaxCopies[m]
    /\ arrived' = [arrived EXCEPT ![m] = @ + 1]
    /\ inbox' = [inbox EXCEPT ![m] = @ + 1]
    /\ UNCHANGED <<seen, dropped, handler, dbVars, routed, drainVars,
                   outVars, faults>>

\* The subscriber's handler up to its first await: isDuplicate marks the
\* msgId as seen before anything was done with the message.
Receive(h, m) ==
    /\ At(h, "idle")
    /\ inbox[m] > 0
    /\ inbox' = [inbox EXCEPT ![m] = @ - 1]
    /\ seen' = seen \cup {m}
    /\ IF m \in seen
       THEN dropped' = dropped \cup {m} /\ UNCHANGED handler
       ELSE /\ handler' = [handler EXCEPT
                ![h] = [pc |-> IF m \in Transits THEN "record"
                                                 ELSE "claimCharge",
                        m |-> m]]
            /\ UNCHANGED dropped
    /\ UNCHANGED <<arrived, dbVars, routed, drainVars, outVars, faults>>

\* pruneSeen: a msgId is older than the TTL, or one too many.
Forget(m) ==
    /\ m \in seen
    /\ seen' = seen \ {m}
    /\ UNCHANGED <<inbox, arrived, dropped, handler, dbVars, routed,
                   drainVars, outVars, faults>>

-----------------------------------------------------------------------------
(* PackagesService: POST /packages                                         *)

\* createPackage inserts the row that was posted, under a key that must be
\* free.  Its type is any string: "other" stands for all that no handler
\* works on, package-transit among them.
CreatePackage(m, type) ==
    /\ arrived[m] < MaxCopies[m]
    /\ row[m] = "none"
    /\ arrived' = [arrived EXCEPT ![m] = @ + 1]
    /\ row' = [row EXCEPT ![m] = type]
    /\ recorded' = [recorded EXCEPT ![m] = @ + 1]
    /\ UNCHANGED <<inbox, seen, dropped, handler, claims, routed, drainVars,
                   outVars, faults>>

PostedTypes == {"other", "pending-route", "pending-delivery"}

-----------------------------------------------------------------------------
(* PackageService.handlePackageTransit                                     *)

\* Mutant of RecordInbound: the repeated key is not told from a new row.
RecordInbound_AnyRow(h) ==
    /\ At(h, "record")
    /\ LET m == handler[h].m IN
         /\ row' = [row EXCEPT ![m] = IF @ = "none" THEN "package-transit"
                                                    ELSE @]
         /\ recorded' = [recorded EXCEPT
                           ![m] = IF row[m] = "none" THEN @ + 1 ELSE @]
    /\ Go(h, "accept")
    /\ UNCHANGED <<queueVars, claims, routed, drainVars, outVars, faults>>

\* recordInbound: the idpk is the key of the row.  A duplicate is
\* acknowledged to its sender and ends there.
RecordInbound(h) ==
    /\ At(h, "record")
    /\ LET m == handler[h].m IN
         \/ /\ row[m] = "none"
            /\ row' = [row EXCEPT ![m] = "package-transit"]
            /\ recorded' = [recorded EXCEPT ![m] = @ + 1]
            /\ Go(h, "accept")
         \/ /\ row[m] # "none"
            /\ Done(h)
            /\ UNCHANGED <<row, recorded>>
    /\ UNCHANGED <<queueVars, claims, routed, drainVars, outVars, faults>>

\* The acknowledgement, the package-received event, and the branch.  The
\* date of a held package may have come by now.
Accept(h) ==
    /\ At(h, "accept")
    /\ LET m == handler[h].m IN
         /\ received' = [received EXCEPT ![m] = @ + 1]
         /\ \/ Pkg(h) \in Here /\ Go(h, "deliver")
            \/ Pkg(h) \in Held /\ Go(h, "hold")
            \/ Pkg(h) \notin Here /\ m \in Exhausted /\ Go(h, "expire")
            \/ Pkg(h) \notin Here /\ m \notin Exhausted /\ Go(h, "forward")
    /\ UNCHANGED <<queueVars, dbVars, routed, drainVars, forwarded,
                   delivered, expired, notified, charged, faults>>

\* processFinalDestination
Deliver(h) ==
    /\ At(h, "deliver")
    /\ delivered' = [delivered EXCEPT ![handler[h].m] = @ + 1]
    /\ Done(h)
    /\ UNCHANGED <<queueVars, dbVars, routed, drainVars, received,
                   forwarded, expired, notified, charged, faults>>

\* Mutant of SavePending: the upsert leaves a row that exists as it is.
SavePending_KeepsType(h, pc, type) ==
    /\ At(h, pc)
    /\ row' = [row EXCEPT ![handler[h].m] = IF @ = "none" THEN type ELSE @]
    /\ Done(h)
    /\ UNCHANGED <<queueVars, claims, recorded, routed, drainVars, outVars,
                   faults>>

\* upsertPending: the row changes its type, or is created again.
SavePending(h, pc, type) ==
    /\ At(h, pc)
    /\ row' = [row EXCEPT ![handler[h].m] = type]
    /\ Done(h)
    /\ UNCHANGED <<queueVars, claims, recorded, routed, drainVars, outVars,
                   faults>>

SavePendingDelivery(h) == SavePending(h, "hold", "pending-delivery")
SavePendingRoute(h) == SavePending(h, "wait", "pending-route")

\* processForwarding: getNextHop is read and used without an await between.
Forward(h) ==
    /\ At(h, "forward")
    /\ \/ /\ Pkg(h) \in routed
          /\ forwarded' = [forwarded EXCEPT ![handler[h].m] = @ + 1]
          /\ Done(h)
       \/ /\ Pkg(h) \notin routed
          /\ Go(h, "wait")
          /\ UNCHANGED forwarded
    /\ UNCHANGED <<queueVars, dbVars, routed, drainVars, received,
                   delivered, expired, notified, charged, faults>>

\* maxHops is 0: the central is told, and the insurance.
Expire(h) ==
    /\ At(h, "expire")
    /\ expired' = [expired EXCEPT ![handler[h].m] = @ + 1]
    /\ IF Pkg(h) \in Insured THEN Go(h, "claimStatus") ELSE Done(h)
    /\ UNCHANGED <<queueVars, dbVars, routed, drainVars, received,
                   forwarded, delivered, notified, charged, faults>>

-----------------------------------------------------------------------------
(* InsuranceService                                                        *)

\* PackageEventsRepository.claim: who creates the row goes on.
ClaimFor(h, here, kind, next) ==
    /\ At(h, here)
    /\ IF <<kind, Pkg(h)>> \in claims
       THEN Done(h) /\ UNCHANGED claims
       ELSE Go(h, next) /\ claims' = claims \cup {<<kind, Pkg(h)>>}
    /\ UNCHANGED <<queueVars, row, recorded, routed, drainVars, outVars,
                   faults>>

\* Mutant of ClaimStatus: the claim is per message, not per package.
ClaimStatus_PerMessage(h) ==
    /\ At(h, "claimStatus")
    /\ Go(h, IF Pkg(h) \in Ours THEN "claimCharge" ELSE "notify")
    /\ UNCHANGED <<queueVars, dbVars, routed, drainVars, outVars, faults>>

\* handleUndeliverable; a package of this city is charged without a message.
ClaimStatus(h) ==
    ClaimFor(h, "claimStatus", "pkg-status",
             IF Pkg(h) \in Ours THEN "claimCharge" ELSE "notify")

Notify(h) ==
    /\ At(h, "notify")
    /\ notified' = [notified EXCEPT ![Pkg(h)] = @ + 1]
    /\ Done(h)
    /\ UNCHANGED <<queueVars, dbVars, routed, drainVars, received,
                   forwarded, delivered, expired, charged, faults>>

\* Mutant of ClaimCharge: it reuses the claim of handleUndeliverable.
ClaimCharge_StatusClaim(h) ==
    ClaimFor(h, "claimCharge", "pkg-status", "charge")

\* chargeInsurance
ClaimCharge(h) == ClaimFor(h, "claimCharge", "insurance", "charge")

Charge(h) ==
    /\ At(h, "charge")
    /\ charged' = [charged EXCEPT ![Pkg(h)] = @ + 1]
    /\ Done(h)
    /\ UNCHANGED <<queueVars, dbVars, routed, drainVars, received,
                   forwarded, delivered, expired, notified, faults>>

-----------------------------------------------------------------------------
(* The packages that wait for a route: processPendingRoutes, in the handler *)
(* of a distance table.                                                     *)

\* updateComputedRoutes: the orchestrator replaces the routes.
NewRoutes ==
    /\ \E known \in SUBSET (Packages \ Here) : routed' = known
    /\ UNCHANGED <<queueVars, handler, dbVars, drainVars, outVars, faults>>

\* Mutant of StartDrain: no single flight.
StartDrain_Always(d) ==
    /\ drain[d].pc = "idle"
    /\ running' = TRUE
    /\ drain' = [drain EXCEPT ![d].pc = "fetch"]
    /\ UNCHANGED <<queueVars, handler, dbVars, routed, cursor, outVars,
                   faults>>

\* Single flight: a table that finds a run in progress, or one too recent,
\* does nothing.
StartDrain(d) ==
    /\ drain[d].pc = "idle"
    /\ ~running
    /\ running' = TRUE
    /\ drain' = [drain EXCEPT ![d].pc = "fetch"]
    /\ UNCHANGED <<queueVars, handler, dbVars, routed, cursor, outVars,
                   faults>>

Waiting == {m \in Transits : row[m] = "pending-route"}

\* findPendingRoutes: the next rows in the order of idpk.
NextBatch(take) ==
    {m \in Waiting :
        /\ m > cursor
        /\ Cardinality({n \in Waiting : cursor < n /\ n < m}) < take}

EndRun(d, next) ==
    /\ drain' = [drain EXCEPT ![d] = NoDrain]
    /\ running' = FALSE
    /\ cursor' = next

Lesser(a, b) == IF a < b THEN a ELSE b

\* Mutant of FetchBatch: a run that is cut short forgets its place.
FetchBatch_FromStart(d) ==
    /\ drain[d].pc = "fetch"
    /\ LET take == Lesser(BatchSize, MaxPerRun - drain[d].processed)
           batch == NextBatch(take)
       IN  IF take = 0 \/ batch = {}
           THEN EndRun(d, 0)
           ELSE /\ drain' = [drain EXCEPT
                      ![d] = [drain[d] EXCEPT
                                !.pc = "route", !.batch = batch,
                                !.full = (Cardinality(batch) = take),
                                !.processed = @ + Cardinality(batch)]]
                /\ UNCHANGED <<running, cursor>>
    /\ UNCHANGED <<queueVars, handler, dbVars, routed, outVars, faults>>

\* The loop of drainPendingRoutes: the cap ends the run and keeps the
\* cursor, the end of the table ends it and resets the cursor.
FetchBatch(d) ==
    /\ drain[d].pc = "fetch"
    /\ LET take == Lesser(BatchSize, MaxPerRun - drain[d].processed)
           batch == NextBatch(take)
       IN  IF take = 0
           THEN EndRun(d, cursor)
           ELSE IF batch = {}
           THEN EndRun(d, 0)
           ELSE /\ drain' = [drain EXCEPT
                      ![d] = [drain[d] EXCEPT
                                !.pc = "route", !.batch = batch,
                                !.full = (Cardinality(batch) = take),
                                !.processed = @ + Cardinality(batch)]]
                /\ UNCHANGED <<running, cursor>>
    /\ UNCHANGED <<queueVars, handler, dbVars, routed, outVars, faults>>

\* routePendingRecord: a package without hops dies here, another one goes on
\* if there is a route, and stays if not.
RoutePending(d) ==
    /\ drain[d].pc = "route"
    /\ drain[d].batch # {}
    /\ LET m == Min(drain[d].batch)
           rest == [drain[d] EXCEPT !.batch = @ \ {m}]
           leaves == [rest EXCEPT !.pc = "remove", !.m = m]
       IN  /\ cursor' = m
           /\ \/ /\ m \in Exhausted
                 /\ expired' = [expired EXCEPT ![m] = @ + 1]
                 /\ drain' = [drain EXCEPT ![d] = leaves]
                 /\ IF PackageOf[m] \in Insured
                    THEN handler' = [handler EXCEPT
                                       ![d] = [pc |-> "claimStatus", m |-> m]]
                    ELSE UNCHANGED handler
                 /\ UNCHANGED forwarded
              \/ /\ m \notin Exhausted
                 /\ PackageOf[m] \in routed
                 /\ forwarded' = [forwarded EXCEPT ![m] = @ + 1]
                 /\ drain' = [drain EXCEPT ![d] = leaves]
                 /\ UNCHANGED <<handler, expired>>
              \/ /\ m \notin Exhausted
                 /\ PackageOf[m] \notin routed
                 /\ drain' = [drain EXCEPT ![d] = rest]
                 /\ UNCHANGED <<handler, forwarded, expired>>
    /\ UNCHANGED <<queueVars, dbVars, routed, running, received, delivered,
                   notified, charged, faults>>

\* removePending, once handleUndeliverable has returned: it deletes the row,
\* and the idpk with it.
RemovePending(d) ==
    /\ drain[d].pc = "remove"
    /\ At(d, "idle")
    /\ row' = [row EXCEPT ![drain[d].m] = "none"]
    /\ drain' = [drain EXCEPT ![d].pc = "route", ![d].m = NoMessage]
    /\ UNCHANGED <<queueVars, handler, claims, recorded, routed, running,
                   cursor, outVars, faults>>

\* A full batch is followed by another one; a short one was the last.
EndBatch(d) ==
    /\ drain[d].pc = "route"
    /\ drain[d].batch = {}
    /\ IF drain[d].full
       THEN /\ drain' = [drain EXCEPT ![d].pc = "fetch", ![d].full = FALSE]
            /\ UNCHANGED <<running, cursor>>
       ELSE EndRun(d, 0)
    /\ UNCHANGED <<queueVars, handler, dbVars, routed, outVars, faults>>

-----------------------------------------------------------------------------
(* Failures.                                                               *)

\* A statement or a send throws: nack with requeue.
Throw(h) ==
    /\ ~At(h, "idle")
    /\ Fault
    /\ inbox' = [inbox EXCEPT ![handler[h].m] = @ + 1]
    /\ Done(h)
    /\ UNCHANGED <<arrived, seen, dropped, dbVars, routed, drainVars,
                   outVars>>

\* A run throws, or the call to InsuranceService it waits for: the finally
\* clause clears pendingRunning, not the cursor.
DrainThrows(d) ==
    /\ drain[d].pc # "idle"
    /\ Fault
    /\ EndRun(d, cursor)
    /\ Done(d)
    /\ UNCHANGED <<queueVars, dbVars, routed, outVars>>

\* The process dies: the broker takes back what was not acknowledged, and
\* what was in memory is gone.
Crash ==
    /\ Fault
    /\ inbox' = [m \in Messages |->
                   inbox[m] + Cardinality({h \in Handlers :
                                             handler[h].m = m})]
    /\ handler' = [h \in Callers |-> Idle]
    /\ seen' = {}
    /\ routed' = {}
    /\ running' = FALSE
    /\ cursor' = 0
    /\ drain' = [d \in Drainers |-> NoDrain]
    /\ UNCHANGED <<arrived, dropped, dbVars, outVars>>

HandlerStep(h) ==
    \/ RecordInbound(h) \/ Accept(h) \/ Deliver(h)
    \/ SavePendingDelivery(h) \/ SavePendingRoute(h)
    \/ Forward(h) \/ Expire(h)

InsuranceStep(x) ==
    ClaimStatus(x) \/ Notify(x) \/ ClaimCharge(x) \/ Charge(x)

DrainStep(d) ==
    FetchBatch(d) \/ RoutePending(d) \/ RemovePending(d) \/ EndBatch(d)

Next ==
    \/ \E m \in Messages : Arrive(m) \/ Forget(m)
    \/ \E m \in Transits, type \in PostedTypes : CreatePackage(m, type)
    \/ \E x \in Callers : InsuranceStep(x)
    \/ \E h \in Handlers :
          HandlerStep(h) \/ Throw(h) \/ \E m \in Messages : Receive(h, m)
    \/ NewRoutes
    \/ \E d \in Drainers : StartDrain(d) \/ DrainStep(d) \/ DrainThrows(d)
    \/ Crash

Spec == Init /\ [][Next]_vars

\* Handlers go on, the broker delivers, and tables keep coming (the central
\* and the other cities send them for as long as the system runs).
FairSpec ==
    /\ Spec
    /\ \A h \in Handlers : WF_vars(HandlerStep(h))
    /\ \A x \in Callers : WF_vars(InsuranceStep(x))
    /\ \A m \in Messages : WF_vars(\E h \in Handlers : Receive(h, m))
    /\ \A d \in Drainers : WF_vars(DrainStep(d))
    /\ WF_vars(\E d \in Drainers : StartDrain(d))
=============================================================================
