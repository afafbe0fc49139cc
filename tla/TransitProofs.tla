---------------------------- MODULE TransitProofs ----------------------------
(***************************************************************************)
(* Theorems about PackageTransit, for any finite sets of transits and      *)
(* handlers and any number of drains, copies, posts and faults.  The       *)
(* invariant has five subjects, and each step of the program is looked at  *)
(* once for each of them: types; the row of a transit, which only one      *)
(* handler takes up (OneTaker); the run of the drain, which is alone       *)
(* (SingleFlight), waits for its call to InsuranceService                  *)
(* (CallsAreAwaited) and whose rows nobody else touches (RowsWait); the    *)
(* account of where a transit is (Account); and the claims of handlers and *)
(* drain, with what they led to (Settled).                                 *)
(***************************************************************************)
EXTENDS TransitProperties, FiniteSetTheorems, WellFoundedInduction, TLAPS

\* A set of numbers has a least one.
LEMMA LeastExists ==
  ASSUME NEW S \in SUBSET Nat, S # {}
  PROVE  Min(S) \in S /\ \A n \in S : Min(S) <= n
<1>1. PICK x \in S : \A y \in S : ~(<<y, x>> \in OpToRel(<, Nat))
  BY NatLessThanWellFounded, WFMin
<1>2. OpToRel(<, Nat) = {p \in Nat \X Nat : p[1] < p[2]}
  BY DEF OpToRel
<1>3. ASSUME NEW y \in S PROVE x <= y
  <2>1. <<y, x>> \in Nat \X Nat /\ <<y, x>>[1] = y /\ <<y, x>>[2] = x
    OBVIOUS
  <2>2. ~(y < x)
    BY <1>1, <1>2, <2>1
  <2> QED
    BY <2>2
<1> QED
  BY <1>3 DEF Min

\* A batch has as many rows as were asked for at most: each has another number
\* of waiting rows before it.
LEMMA BatchFits ==
  ASSUME NEW take \in Nat, cursor \in Nat
  PROVE  /\ NextBatch(take) \subseteq Transits
         /\ IsFiniteSet(NextBatch(take))
         /\ Cardinality(NextBatch(take)) <= take
         /\ Cardinality(NextBatch(take)) \in Nat
<1> DEFINE Before(m) == {n \in Waiting : cursor < n /\ n < m}
           B == NextBatch(take)
           f == [m \in B |-> Cardinality(Before(m))]
<1>1. /\ Waiting \subseteq Transits /\ IsFiniteSet(Transits)
      /\ \A m \in Transits : m \in Nat
  BY PackageTransitAssumption DEF Waiting
<1>2. IsFiniteSet(Waiting)
  BY <1>1, FS_Subset
<1>3. ASSUME NEW m \in B
      PROVE  /\ m \in Waiting /\ m \in Nat /\ cursor < m
             /\ IsFiniteSet(Before(m))
             /\ Cardinality(Before(m)) \in 0..(take - 1)
  <2>1. m \in Waiting /\ cursor < m /\ Cardinality(Before(m)) < take
    BY <1>3 DEF NextBatch
  <2>2. Before(m) \in SUBSET Waiting
    OBVIOUS
  <2>3. IsFiniteSet(Before(m))
    BY <1>2, <2>2, FS_Subset
  <2>4. Cardinality(Before(m)) \in Nat
    BY <2>3, FS_CardinalityType
  <2> HIDE DEF Before
  <2> QED
    BY <1>1, <2>1, <2>3, <2>4
<1>4. ASSUME NEW m \in B, NEW n \in B, m < n
      PROVE  f[m] # f[n]
  <2>0. /\ m \in Waiting /\ m \in Nat /\ n \in Nat /\ cursor < m
        /\ \A k \in Waiting : k \in Nat
    BY <1>1, <1>3
  <2> HIDE DEF B
  <2>1. ASSUME NEW k \in Before(m) PROVE k \in Before(n)
    <3>1. k \in Waiting /\ cursor < k /\ k < m
      OBVIOUS
    <3>2. k < n
      BY <2>0, <3>1, <1>4
    <3> QED
      BY <3>1, <3>2
  <2>2. m \in Before(n) /\ m \notin Before(m)
    BY <2>0, <1>4
  <2>3. IsFiniteSet(Before(n))
    BY <1>3
  <2> HIDE DEF Before
  <2>4. Cardinality(Before(m)) # Cardinality(Before(n))
    BY <2>1, <2>2, <2>3, FS_Subset
  <2> QED
    BY <2>4
<1>5. f \in Injection(B, 0..(take - 1))
  <2>1. f \in [B -> 0..(take - 1)]
    BY <1>3
  <2>2. \A m, n \in B : m = n \/ m < n \/ n < m
    <3>1. \A m \in B : m \in Nat
      BY <1>3
    <3> HIDE DEF B
    <3> QED
      BY <3>1
  <2>3. \A m, n \in B : f[m] = f[n] => m = n
    BY <1>4, <2>2
  <2> HIDE DEF f, B
  <2> QED
    BY <2>1, <2>3 DEF Injection, IsInjective
<1>6. 0 \in Int /\ take - 1 \in Int
  OBVIOUS
<1>7. /\ IsFiniteSet(0..(take - 1))
      /\ Cardinality(0..(take - 1)) = IF 0 > take - 1 THEN 0 ELSE (take - 1) - 0 + 1
  BY ONLY <1>6, FS_Interval
<1>8. Cardinality(0..(take - 1)) = take
  BY <1>7
<1>9. IsFiniteSet(B) /\ Cardinality(B) <= take
  <2> HIDE DEF B, f
  <2> QED
    BY <1>5, <1>7, <1>8, FS_Injection
<1>10. B \subseteq Transits
  BY <1>1, <1>3
<1>11. Cardinality(B) \in Nat
  BY <1>9, FS_CardinalityType
<1> QED
  BY <1>9, <1>10, <1>11

-----------------------------------------------------------------------------
(* Types.                                                                  *)

Messaging == [pc : PcStates, m : Messages \cup {NoMessage}]

\* A handler and a drain are different callers of InsuranceService.
LEMMA CallersApart ==
  /\ Handlers \subseteq Callers /\ Drainers \subseteq Callers
  /\ \A h \in Handlers : h \notin Drainers
  BY PackageTransitAssumption DEF Callers

\* A row of a type that is posted, or that a message leads to.
LEMMA TypesOfRows ==
  /\ \A type \in PostedTypes : type \in RowTypes
  /\ "none" \in RowTypes /\ "package-transit" \in RowTypes
  /\ "pending-route" \in PostedTypes /\ "pending-delivery" \in PostedTypes
  /\ "none" \notin PostedTypes /\ "package-transit" \notin PostedTypes
  BY DEF RowTypes, PostedTypes

\* The messages and packages of the handlers, as SMT wants them.
LEMMA Handles ==
  ASSUME TypeOK, HandlersHold, NEW h \in Callers, handler[h].pc # "idle"
  PROVE  /\ handler[h].m \in Messages
         /\ Pkg(h) \in Packages
         /\ handler[h].pc \in TakingUp \cup {"record"}
              => handler[h].m \in Transits
  BY PackageTransitAssumption DEF HandlersHold, Pkg, Messages

\* A handler that goes on keeps its message, one that is done has none.
LEMMA Moves ==
  ASSUME TypeOK, HandlersHold, NEW h \in Callers, handler[h].pc # "idle",
         NEW pc \in PcStates, pc # "record",
         pc \in TakingUp => handler[h].m \in Transits,
         Go(h, pc) \/ Done(h)
  PROVE  /\ handler' \in [Callers -> Messaging]
         /\ HandlersHold'
<1>1. handler \in [Callers -> Messaging]
  BY DEF TypeOK, Messaging
<1>2. CASE Go(h, pc)
  <2>1. /\ handler'[h].pc = pc /\ handler'[h].m = handler[h].m
        /\ \A g \in Callers : g # h => handler'[g] = handler[g]
        /\ handler' \in [Callers -> Messaging]
    BY <1>1, <1>2 DEF Go, Messaging
  <2> QED
    BY <2>1 DEF HandlersHold
<1>3. CASE Done(h)
  <2>1. /\ Idle \in Messaging /\ Idle.pc = "idle"
    BY DEF Idle, Messaging, PcStates
  <2>2. /\ handler'[h] = Idle
        /\ \A g \in Callers : g # h => handler'[g] = handler[g]
        /\ handler' \in [Callers -> Messaging]
    BY <1>1, <1>3, <2>1 DEF Done
  <2> QED
    BY <2>1, <2>2 DEF HandlersHold, TakingUp
<1> QED
  BY <1>2, <1>3

\* A failure is counted.
LEMMA FaultType ==
  ASSUME TypeOK, Fault
  PROVE  faults' \in 0..MaxFaults /\ faults' # 0
  BY PackageTransitAssumption DEF TypeOK, Fault

LEMMA QueueTypes ==
  ASSUME TypeOK, HandlersHold, NEW m \in Messages,
         \/ Arrive(m) \/ Forget(m) \/ \E h \in Handlers : Receive(h, m)
         \/ m \in Transits /\ \E type \in PostedTypes : CreatePackage(m, type)
  PROVE  TypeOK' /\ HandlersHold'
<1>1. CASE Arrive(m)
  BY <1>1, PackageTransitAssumption
     DEF Arrive, TypeOK, HandlersHold, dbVars, drainVars, outVars
<1>2. CASE Forget(m)
  BY <1>2 DEF Forget, TypeOK, HandlersHold, dbVars, drainVars, outVars
<1>3. ASSUME NEW h \in Handlers, Receive(h, m)
      PROVE  TypeOK' /\ HandlersHold'
  <2>1. /\ inbox' \in [Messages -> Nat] /\ seen' \subseteq Messages
        /\ dropped' \subseteq Messages
        /\ UNCHANGED <<arrived, dbVars, routed, drainVars, outVars, faults>>
    BY <1>3 DEF Receive, TypeOK
  <2>2. CASE UNCHANGED handler
    BY <2>1, <2>2 DEF TypeOK, HandlersHold, dbVars, drainVars, outVars
  <2>3. CASE handler' = [handler EXCEPT
                ![h] = [pc |-> IF m \in Transits THEN "record"
                                                 ELSE "claimCharge",
                        m |-> m]]
    <3> DEFINE new == [pc |-> IF m \in Transits THEN "record"
                                                ELSE "claimCharge",
                       m |-> m]
    <3>1. new \in [pc : PcStates, m : Messages \cup {NoMessage}]
      BY DEF PcStates
    <3>2. /\ new.m = m
          /\ new.pc \in TakingUp \cup {"record"} => m \in Transits
      BY DEF TakingUp
    <3> HIDE DEF new
    <3>3. /\ h \in Callers
          /\ handler'[h] = new
          /\ \A g \in Callers : g # h => handler'[g] = handler[g]
          /\ handler' \in [Callers -> [pc : PcStates,
                                       m : Messages \cup {NoMessage}]]
      BY <2>3, <3>1, CallersApart DEF TypeOK, new
    <3>4. HandlersHold'
      BY <3>2, <3>3 DEF HandlersHold
    <3> QED
      BY <2>1, <3>3, <3>4 DEF TypeOK, dbVars, drainVars, outVars
  <2> QED
    BY <1>3, <2>2, <2>3 DEF Receive
<1>4. ASSUME NEW type \in PostedTypes, m \in Transits, CreatePackage(m, type)
      PROVE  TypeOK' /\ HandlersHold'
  <2>1. /\ row' \in [Transits -> RowTypes]
        /\ recorded' \in [Transits -> Nat]
        /\ arrived' \in [Messages -> Nat]
    BY <1>4, TypesOfRows DEF CreatePackage, TypeOK
  <2> QED
    BY <1>4, <2>1 DEF CreatePackage, TypeOK, HandlersHold, drainVars, outVars
<1> QED
  BY <1>1, <1>2, <1>3, <1>4

LEMMA HandlerTypes ==
  ASSUME TypeOK, HandlersHold, NEW h \in Callers,
         HandlerStep(h) \/ InsuranceStep(h)
  PROVE  TypeOK' /\ HandlersHold'
<1> USE DEF At
<1> DEFINE m == handler[h].m
<1>1. CASE RecordInbound(h)
  <2>1. m \in Transits /\ handler[h].pc # "idle"
    BY <1>1, Handles DEF RecordInbound
  <2>2. handler' \in [Callers -> Messaging] /\ HandlersHold'
    BY <1>1, <2>1, Moves DEF RecordInbound, PcStates
  <2>3. /\ row' \in [Transits -> RowTypes]
        /\ recorded' \in [Transits -> Nat]
    <3>1. row \in [Transits -> RowTypes] /\ recorded \in [Transits -> Nat]
      BY DEF TypeOK
    <3>2. \/ UNCHANGED <<row, recorded>>
          \/ /\ row' = [row EXCEPT ![m] = "package-transit"]
             /\ recorded' = [recorded EXCEPT ![m] = @ + 1]
      BY <1>1 DEF RecordInbound
    <3> QED
      BY <2>1, <3>1, <3>2, TypesOfRows
  <2> QED
    BY <1>1, <2>2, <2>3
       DEF RecordInbound, TypeOK, Messaging, queueVars, drainVars, outVars
<1>2. CASE Accept(h)
  <2>1. m \in Transits /\ handler[h].pc # "idle"
    BY <1>2, Handles DEF Accept, TakingUp
  <2>2. handler' \in [Callers -> Messaging] /\ HandlersHold'
    BY <1>2, <2>1, Moves DEF Accept, PcStates
  <2>3. received' \in [Transits -> Nat]
    BY <1>2, <2>1 DEF Accept, TypeOK
  <2> QED
    BY <1>2, <2>2, <2>3
       DEF Accept, TypeOK, Messaging, queueVars, dbVars, drainVars
<1>3. CASE Deliver(h)
  <2>1. m \in Transits /\ handler[h].pc # "idle"
    BY <1>3, Handles DEF Deliver, TakingUp
  <2>2. handler' \in [Callers -> Messaging] /\ HandlersHold'
    BY <1>3, <2>1, Moves DEF Deliver, PcStates
  <2>3. delivered' \in [Transits -> Nat]
    BY <1>3, <2>1 DEF Deliver, TypeOK
  <2> QED
    BY <1>3, <2>2, <2>3
       DEF Deliver, TypeOK, Messaging, queueVars, dbVars, drainVars
<1>4. ASSUME NEW pc \in {"hold", "wait"},
             NEW type \in {"pending-delivery", "pending-route"},
             SavePending(h, pc, type)
      PROVE  TypeOK' /\ HandlersHold'
  <2>1. m \in Transits /\ handler[h].pc # "idle"
    BY <1>4, Handles DEF SavePending, TakingUp
  <2>2. handler' \in [Callers -> Messaging] /\ HandlersHold'
    BY <1>4, <2>1, Moves DEF SavePending, PcStates
  <2>3. row' \in [Transits -> RowTypes]
    BY <1>4, <2>1, TypesOfRows DEF SavePending, TypeOK
  <2> QED
    BY <1>4, <2>2, <2>3
       DEF SavePending, TypeOK, Messaging, queueVars, drainVars, outVars
<1>5. CASE Forward(h)
  <2>1. m \in Transits /\ handler[h].pc # "idle"
    BY <1>5, Handles DEF Forward, TakingUp
  <2>2. handler' \in [Callers -> Messaging] /\ HandlersHold'
    BY <1>5, <2>1, Moves DEF Forward, PcStates
  <2>3. forwarded' \in [Transits -> Nat]
    BY <1>5, <2>1 DEF Forward, TypeOK
  <2> QED
    BY <1>5, <2>2, <2>3
       DEF Forward, TypeOK, Messaging, queueVars, dbVars, drainVars
<1>6. CASE Expire(h)
  <2>1. m \in Transits /\ handler[h].pc # "idle"
    BY <1>6, Handles DEF Expire, TakingUp
  <2>2. handler' \in [Callers -> Messaging] /\ HandlersHold'
    BY <1>6, <2>1, Moves DEF Expire, PcStates
  <2>3. expired' \in [Transits -> Nat]
    BY <1>6, <2>1 DEF Expire, TypeOK
  <2> QED
    BY <1>6, <2>2, <2>3
       DEF Expire, TypeOK, Messaging, queueVars, dbVars, drainVars
<1>7. ASSUME NEW here \in {"claimStatus", "claimCharge"},
             NEW kind \in {"pkg-status", "insurance"},
             NEW next \in {"claimCharge", "notify", "charge"},
             ClaimFor(h, here, kind, next)
      PROVE  TypeOK' /\ HandlersHold'
  <2>1. Pkg(h) \in Packages /\ handler[h].pc # "idle"
    BY <1>7, Handles DEF ClaimFor
  <2>2. next \in PcStates /\ next # "record" /\ next \notin TakingUp
    BY <1>7 DEF PcStates, TakingUp
  <2>3. handler' \in [Callers -> Messaging] /\ HandlersHold'
    BY <1>7, <2>1, <2>2, Moves DEF ClaimFor
  <2>4. claims' \subseteq {"pkg-status", "insurance"} \X Packages
    BY <1>7, <2>1 DEF ClaimFor, TypeOK
  <2> QED
    BY <1>7, <2>3, <2>4
       DEF ClaimFor, TypeOK, Messaging, queueVars, drainVars, outVars
<1>8. CASE Notify(h) \/ Charge(h)
  <2>1. Pkg(h) \in Packages /\ handler[h].pc # "idle"
    BY <1>8, Handles DEF Notify, Charge
  <2>2. "notify" \in PcStates /\ "notify" \notin TakingUp /\ Done(h)
    BY <1>8 DEF PcStates, TakingUp, Notify, Charge
  <2>3. handler' \in [Callers -> Messaging] /\ HandlersHold'
    BY <2>1, <2>2, Moves
  <2>4. notified' \in [Packages -> Nat] /\ charged' \in [Packages -> Nat]
    <3>1. notified \in [Packages -> Nat] /\ charged \in [Packages -> Nat]
      BY DEF TypeOK
    <3>2. \/ UNCHANGED charged /\ notified' = [notified EXCEPT ![Pkg(h)] = @ + 1]
          \/ UNCHANGED notified /\ charged' = [charged EXCEPT ![Pkg(h)] = @ + 1]
      BY <1>8 DEF Notify, Charge
    <3> HIDE DEF At
    <3> QED
      BY <2>1, <3>1, <3>2
  <2> QED
    BY <1>8, <2>3, <2>4
       DEF Notify, Charge, TypeOK, Messaging, queueVars, dbVars, drainVars
<1> QED
  BY <1>1, <1>2, <1>3, <1>4, <1>5, <1>6, <1>7, <1>8
     DEF HandlerStep, InsuranceStep, SavePendingDelivery, SavePendingRoute,
         ClaimStatus, ClaimCharge

Draining == [pc : {"idle", "fetch", "route", "remove"},
             batch : SUBSET Transits, full : BOOLEAN,
             processed : 0..MaxPerRun, m : Transits \cup {NoMessage}]

\* A run that ends is as good as new.
LEMMA RunEnds ==
  ASSUME TypeOK, NEW d \in Drainers, NEW next, EndRun(d, next)
  PROVE  /\ drain' \in [Drainers -> Draining] /\ running' \in BOOLEAN
         /\ drain'[d].pc = "idle" /\ drain'[d].batch = {}
         /\ \A c \in Drainers : c # d => drain'[c] = drain[c]
         /\ running' = FALSE /\ cursor' = next
<1>1. NoDrain \in Draining /\ NoDrain.pc = "idle" /\ NoDrain.batch = {}
  BY PackageTransitAssumption DEF NoDrain, Draining
<1> QED
  BY <1>1 DEF EndRun, TypeOK, Draining

LEMMA DrainTypes ==
  ASSUME TypeOK, HandlersHold, NEW d \in Drainers,
         StartDrain(d) \/ DrainStep(d) \/ DrainThrows(d)
  PROVE  TypeOK' /\ HandlersHold'
<1>1. drain \in [Drainers -> Draining] /\ cursor \in Nat
      /\ \A m \in Transits : m \in Nat
  BY PackageTransitAssumption DEF TypeOK, Draining
<1>2. CASE StartDrain(d)
  <2>1. drain' \in [Drainers -> Draining]
    BY <1>1, <1>2 DEF StartDrain, Draining
  <2> QED
    BY <1>2, <2>1 DEF StartDrain, TypeOK, HandlersHold, Draining, queueVars,
                      dbVars, outVars
<1>3. CASE FetchBatch(d)
  <2> DEFINE take == Lesser(BatchSize, MaxPerRun - drain[d].processed)
             batch == NextBatch(take)
             next == [drain[d] EXCEPT
                        !.pc = "route", !.batch = batch,
                        !.full = (Cardinality(batch) = take),
                        !.processed = @ + Cardinality(batch)]
  <2>1. /\ drain[d] \in Draining /\ drain[d].processed \in 0..MaxPerRun
        /\ MaxPerRun \in Nat /\ BatchSize \in Nat
    BY <1>1, PackageTransitAssumption DEF Draining
  <2>2. take \in Nat /\ take <= MaxPerRun - drain[d].processed
    BY <2>1 DEF Lesser
  <2>3. /\ UNCHANGED <<queueVars, handler, dbVars, routed, outVars, faults>>
        /\ \/ EndRun(d, cursor)
           \/ EndRun(d, 0)
           \/ drain' = [drain EXCEPT ![d] = next] /\ UNCHANGED <<running, cursor>>
    <3>1. UNCHANGED <<queueVars, handler, dbVars, routed, outVars, faults>>
      BY <1>3 DEF FetchBatch
    <3>2. CASE take = 0
      BY <1>3, <3>1, <3>2 DEF FetchBatch
    <3>3. CASE take # 0 /\ batch = {}
      BY <1>3, <3>1, <3>3 DEF FetchBatch
    <3>4. CASE take # 0 /\ batch # {}
      <4>1. drain' = [drain EXCEPT ![d] = next] /\ UNCHANGED <<running, cursor>>
        BY <1>3, <3>4 DEF FetchBatch
      <4> HIDE DEF next
      <4> QED
        BY <3>1, <4>1
    <3> QED
      BY <3>2, <3>3, <3>4
  <2>4. CASE EndRun(d, cursor) \/ EndRun(d, 0)
    <3>0. cursor \in Transits \cup {0}
      BY DEF TypeOK
    <3>1. /\ drain' \in [Drainers -> Draining] /\ running' \in BOOLEAN
          /\ cursor' \in Transits \cup {0}
      BY <2>4, <3>0, RunEnds
    <3> QED
      BY <2>3, <3>1 DEF TypeOK, HandlersHold, Draining, queueVars, dbVars,
                        outVars
  <2>5. CASE drain' = [drain EXCEPT ![d] = next] /\ UNCHANGED <<running, cursor>>
    <3> HIDE DEF take
    <3>1. batch \subseteq Transits /\ Cardinality(batch) \in Nat
          /\ Cardinality(batch) <= take
      BY <1>1, <2>2, BatchFits
    <3>2. drain[d].processed + Cardinality(batch) \in 0..MaxPerRun
      BY <2>1, <2>2, <3>1
    <3>3. next \in Draining
      <4> HIDE DEF batch
      <4> QED
        BY <2>1, <3>1, <3>2 DEF Draining
    <3> HIDE DEF next
    <3>4. drain' \in [Drainers -> Draining]
      BY <1>1, <2>5, <3>3
    <3> QED
      BY <2>3, <2>5, <3>4 DEF TypeOK, HandlersHold, Draining, queueVars,
                              dbVars, outVars
  <2> HIDE DEF next
  <2> QED
    BY <2>3, <2>4, <2>5
<1>4. CASE RoutePending(d)
  <2> DEFINE m == Min(drain[d].batch)
             call == [pc |-> "claimStatus", m |-> m]
  <2>1. /\ drain[d].pc = "route" /\ drain[d].batch # {}
        /\ drain[d].batch \in SUBSET Nat /\ drain[d].batch \subseteq Transits
    BY <1>1, <1>4 DEF RoutePending, Draining
  <2>2. m \in Transits
    BY <2>1, LeastExists
  <2>3. /\ UNCHANGED <<queueVars, dbVars, routed, running, received, delivered,
                       notified, charged, faults>>
        /\ cursor' = m
        /\ forwarded' \in {forwarded, [forwarded EXCEPT ![m] = @ + 1]}
        /\ expired' \in {expired, [expired EXCEPT ![m] = @ + 1]}
        /\ handler' \in {handler, [handler EXCEPT ![d] = call]}
        /\ \/ drain' = [drain EXCEPT ![d] = [[drain[d] EXCEPT !.batch = @ \ {m}]
                                             EXCEPT !.pc = "remove", !.m = m]]
           \/ drain' = [drain EXCEPT ![d] = [drain[d] EXCEPT !.batch = @ \ {m}]]
    <3>1. CASE m \in Exhausted
      BY <1>4, <3>1 DEF RoutePending
    <3>2. CASE m \notin Exhausted
      BY <1>4, <3>2 DEF RoutePending
    <3> QED
      BY <3>1, <3>2
  <2> HIDE DEF m
  <2>4. [drain[d] EXCEPT !.batch = @ \ {m}] \in Draining
    BY <1>1, <2>1 DEF Draining
  <2>5. [[drain[d] EXCEPT !.batch = @ \ {m}] EXCEPT !.pc = "remove", !.m = m]
          \in Draining
    BY <2>2, <2>4 DEF Draining
  <2>6. drain' \in [Drainers -> Draining]
    BY <1>1, <2>3, <2>4, <2>5
  <2>7. forwarded' \in [Transits -> Nat] /\ expired' \in [Transits -> Nat]
    <3>1. forwarded \in [Transits -> Nat] /\ expired \in [Transits -> Nat]
      BY DEF TypeOK
    <3>2. forwarded' \in [Transits -> Nat]
      BY <2>2, <2>3, <3>1
    <3>3. expired' \in [Transits -> Nat]
      BY <2>2, <2>3, <3>1
    <3> QED
      BY <3>2, <3>3
  <2>8. /\ call \in Messaging /\ call.pc \notin TakingUp \cup {"record"}
        /\ call.m \in Messages
    BY <2>2 DEF Messaging, PcStates, Messages, TakingUp
  <2> HIDE DEF call
  <2>9. handler' \in [Callers -> Messaging] /\ HandlersHold'
    <3>1. d \in Callers /\ handler \in [Callers -> Messaging]
      BY CallersApart DEF TypeOK, Messaging
    <3> QED
      BY <2>3, <2>8, <3>1 DEF HandlersHold
  <2> QED
    BY <2>2, <2>3, <2>6, <2>7, <2>9 DEF TypeOK, Draining, Messaging, queueVars,
                                        dbVars
<1>5. CASE RemovePending(d)
  <2>1. row' \in [Transits -> RowTypes]
    BY <1>5, TypesOfRows DEF RemovePending, TypeOK
  <2>2. [drain[d] EXCEPT !.pc = "route", !.m = NoMessage] \in Draining
    BY <1>1 DEF Draining
  <2>3. drain' \in [Drainers -> Draining]
    BY <1>1, <1>5, <2>2 DEF RemovePending
  <2> QED
    BY <1>5, <2>1, <2>3 DEF RemovePending, TypeOK, HandlersHold, Draining,
                            queueVars, outVars
<1>6. CASE EndBatch(d)
  <2>1. CASE EndRun(d, 0)
    <3>1. /\ drain' \in [Drainers -> Draining] /\ running' \in BOOLEAN
          /\ cursor' \in Transits \cup {0}
      BY <2>1, RunEnds
    <3> QED
      BY <1>6, <3>1 DEF EndBatch, TypeOK, HandlersHold, Draining, queueVars,
                        dbVars, outVars
  <2>2. CASE /\ drain' = [drain EXCEPT ![d].pc = "fetch", ![d].full = FALSE]
             /\ UNCHANGED <<running, cursor>>
    <3>1. drain' = [drain EXCEPT ![d] = [drain[d] EXCEPT !.pc = "fetch",
                                                         !.full = FALSE]]
      BY <2>2
    <3>2. [drain[d] EXCEPT !.pc = "fetch", !.full = FALSE] \in Draining
      BY <1>1 DEF Draining
    <3>3. drain' \in [Drainers -> Draining]
      BY <1>1, <3>1, <3>2
    <3> QED
      BY <1>6, <2>2, <3>3 DEF EndBatch, TypeOK, HandlersHold, Draining,
                              queueVars, dbVars, outVars
  <2> QED
    BY <1>6, <2>1, <2>2 DEF EndBatch
<1>7. CASE DrainThrows(d)
  <2>1. /\ drain' \in [Drainers -> Draining] /\ running' \in BOOLEAN
        /\ cursor' = cursor
    BY <1>7, RunEnds DEF DrainThrows
  <2>2. faults' \in 0..MaxFaults
    BY <1>7, FaultType DEF DrainThrows
  <2>3. handler' \in [Callers -> Messaging] /\ HandlersHold'
    <3>1. d \in Callers /\ handler \in [Callers -> Messaging] /\ Done(d)
      BY <1>7, CallersApart DEF DrainThrows, TypeOK, Messaging
    <3>2. Idle \in Messaging /\ Idle.pc = "idle"
      BY DEF Idle, Messaging, PcStates
    <3>3. /\ handler' \in [Callers -> Messaging] /\ handler'[d] = Idle
          /\ \A g \in Callers : g # d => handler'[g] = handler[g]
      BY <3>1, <3>2 DEF Done
    <3> QED
      BY <3>2, <3>3 DEF HandlersHold, TakingUp
  <2> QED
    BY <1>7, <2>1, <2>2, <2>3 DEF DrainThrows, TypeOK, Draining, Messaging,
                                  queueVars, dbVars, outVars
<1> QED
  BY <1>2, <1>3, <1>4, <1>5, <1>6, <1>7 DEF DrainStep

LEMMA FailureTypes ==
  ASSUME TypeOK, HandlersHold,
         NewRoutes \/ Crash \/ \E h \in Handlers : Throw(h)
  PROVE  TypeOK' /\ HandlersHold'
<1>1. CASE NewRoutes
  BY <1>1 DEF NewRoutes, TypeOK, HandlersHold, queueVars, dbVars, drainVars,
              outVars
<1>2. ASSUME NEW h \in Handlers, Throw(h) PROVE TypeOK' /\ HandlersHold'
  <2>1. h \in Callers /\ handler[h].pc # "idle" /\ handler[h].m \in Messages
    BY <1>2, Handles, CallersApart DEF Throw, At
  <2>2. "notify" \in PcStates /\ "notify" \notin TakingUp /\ Done(h)
    BY <1>2 DEF PcStates, TakingUp, Throw
  <2>3. handler' \in [Callers -> Messaging] /\ HandlersHold'
    BY <2>1, <2>2, Moves
  <2>4. inbox' \in [Messages -> Nat]
    BY <1>2, <2>1 DEF Throw, TypeOK
  <2>5. faults' \in 0..MaxFaults
    BY <1>2, FaultType DEF Throw
  <2> QED
    BY <1>2, <2>3, <2>4, <2>5 DEF Throw, TypeOK, Messaging, dbVars, drainVars,
                                  outVars
<1>3. CASE Crash
  <2>1. /\ Idle \in Messaging /\ Idle.pc = "idle"
        /\ NoDrain \in Draining
    BY PackageTransitAssumption
       DEF Idle, Messaging, PcStates, NoDrain, Draining
  <2>2. /\ handler' = [h \in Callers |-> Idle]
        /\ drain' = [d \in Drainers |-> NoDrain]
        /\ seen' = {} /\ routed' = {} /\ running' = FALSE /\ cursor' = 0
        /\ UNCHANGED <<arrived, dropped, row, claims, recorded, outVars>>
    BY <1>3 DEF Crash, dbVars
  <2>3. \A m \in Messages : Cardinality({h \in Handlers : handler[h].m = m})
                               \in Nat
    <3>1. \A m \in Messages : IsFiniteSet({h \in Handlers : handler[h].m = m})
      BY PackageTransitAssumption, FS_Subset
    <3> QED
      BY <3>1, FS_CardinalityType
  <2>4. inbox' \in [Messages -> Nat]
    <3> DEFINE held(m) == Cardinality({h \in Handlers : handler[h].m = m})
    <3>1. inbox' = [m \in Messages |-> inbox[m] + held(m)]
      BY <1>3 DEF Crash
    <3>2. \A m \in Messages : held(m) \in Nat /\ inbox[m] \in Nat
      BY <2>3 DEF TypeOK
    <3> HIDE DEF held
    <3> QED
      BY <3>1, <3>2
  <2>5. faults' \in 0..MaxFaults
    BY <1>3, FaultType DEF Crash
  <2>6. HandlersHold'
    BY <2>1, <2>2 DEF HandlersHold, TakingUp
  <2>7. handler' \in [Callers -> Messaging] /\ drain' \in [Drainers -> Draining]
    BY <2>1, <2>2
  <2> QED
    BY <2>2, <2>4, <2>5, <2>6, <2>7 DEF TypeOK, Messaging, Draining, outVars
<1> QED
  BY <1>1, <1>2, <1>3

-----------------------------------------------------------------------------
(* The row of a transit, and who takes it up.                              *)

LEMMA Goes ==
  ASSUME TypeOK, NEW h \in Callers, NEW pc, Go(h, pc)
  PROVE  /\ handler'[h].pc = pc /\ handler'[h].m = handler[h].m
         /\ \A g \in Callers : g # h => handler'[g] = handler[g]
  BY DEF Go, TypeOK

LEMMA Ends ==
  ASSUME TypeOK, NEW h \in Callers, Done(h)
  PROVE  /\ handler'[h].pc = "idle"
         /\ \A g \in Callers : g # h => handler'[g] = handler[g]
  BY DEF Done, TypeOK, Idle

\* A handler never begins to take up a package, except by recording it.
NoNewTaker ==
    \A g \in Handlers :
        handler'[g] = handler[g] \/ handler'[g].pc \notin TakingUp

LEMMA FewerTakers ==
  ASSUME OneTaker, NoNewTaker, UNCHANGED row
  PROVE  OneTaker'
<1>1. \A g \in Handlers : \A m : Takes(g, m)' => Takes(g, m)
  BY DEF NoNewTaker, Takes
<1> QED
  BY <1>1 DEF OneTaker

LEMMA TakersStep ==
  ASSUME TypeOK, HandlersHold, OneTaker, NEW h \in Handlers, HandlerStep(h)
  PROVE  OneTaker'
<1> DEFINE m == handler[h].m
<1>0. h \in Callers /\ Handlers \subseteq Callers
  BY CallersApart
<1>1. CASE RecordInbound(h)
  <2>1. handler[h].pc = "record" /\ m \in Transits
    BY <1>0, <1>1, Handles DEF RecordInbound, At
  <2>2. CASE row[m] # "none"
    <3>1. Done(h) /\ UNCHANGED row
      BY <1>1, <2>2 DEF RecordInbound
    <3> QED
      BY <1>0, <3>1, Ends, FewerTakers DEF NoNewTaker, TakingUp
  <2>3. CASE row[m] = "none"
    <3>1. row' = [row EXCEPT ![m] = "package-transit"] /\ Go(h, "accept")
      BY <1>1, <2>3 DEF RecordInbound
    <3>2. /\ row'[m] = "package-transit"
          /\ \A n \in Transits : n # m => row'[n] = row[n]
      BY <2>1, <3>1 DEF TypeOK
    <3>3. /\ \A n : Takes(h, n)' <=> n = m
          /\ \A g \in Handlers, n \in Transits :
                g # h => (Takes(g, n)' <=> Takes(g, n))
      BY <1>0, <2>1, <3>1, Goes DEF Takes, TakingUp
    <3>4. \A g \in Handlers : ~Takes(g, m)
      BY <2>1, <2>3 DEF OneTaker
    <3> QED
      BY <3>2, <3>3, <3>4 DEF OneTaker
  <2> QED
    BY <2>2, <2>3
<1>2. CASE Accept(h) \/ Forward(h)
  <2>1. handler[h].pc \in TakingUp /\ m \in Transits /\ UNCHANGED row
    BY <1>0, <1>2, Handles DEF Accept, Forward, At, TakingUp, dbVars
  <2>2. CASE Done(h)
    BY <1>0, <2>1, <2>2, Ends, FewerTakers DEF NoNewTaker, TakingUp
  <2>3. ASSUME NEW pc \in TakingUp, Go(h, pc) PROVE OneTaker'
    <3>1. \A g \in Handlers, n \in Transits : Takes(g, n)' <=> Takes(g, n)
      BY <1>0, <2>1, <2>3, Goes DEF Takes
    <3> QED
      BY <2>1, <3>1 DEF OneTaker
  <2>4. Done(h) \/ \E pc \in TakingUp : Go(h, pc)
    BY <1>2 DEF Accept, Forward, TakingUp
  <2> QED
    BY <2>2, <2>3, <2>4
<1>3. CASE Deliver(h) \/ Expire(h)
  <2>1. UNCHANGED row /\ (Done(h) \/ Go(h, "claimStatus"))
    BY <1>3 DEF Deliver, Expire, dbVars
  <2> QED
    BY <1>0, <2>1, Goes, Ends, FewerTakers DEF NoNewTaker, TakingUp
<1>4. ASSUME NEW pc \in {"hold", "wait"}, NEW type, SavePending(h, pc, type)
      PROVE  OneTaker'
  <2>1. /\ Takes(h, m) /\ m \in Transits /\ Done(h)
        /\ row' = [row EXCEPT ![m] = type]
    BY <1>0, <1>4, Handles DEF SavePending, At, TakingUp, Takes
  <2>2. \A n \in Transits : n # m => row'[n] = row[n]
    BY <2>1 DEF TypeOK
  <2>3. \A g \in Handlers : \A n : Takes(g, n)' <=> g # h /\ Takes(g, n)
    BY <1>0, <2>1, Ends DEF Takes, TakingUp
  <2> QED
    BY <2>1, <2>2, <2>3 DEF OneTaker
<1> QED
  BY <1>1, <1>2, <1>3, <1>4
     DEF HandlerStep, SavePendingDelivery, SavePendingRoute

\* What everybody else does: a post finds no row, and the drain removes rows
\* that nobody takes up.
LEMMA OtherTakers ==
  ASSUME TypeOK, OneTaker, BatchStillWaits,
         \/ \E m \in Messages : Arrive(m) \/ Forget(m)
         \/ \E m \in Transits, type \in PostedTypes : CreatePackage(m, type)
         \/ \E x \in Callers : InsuranceStep(x)
         \/ \E h \in Handlers : Throw(h) \/ \E m \in Messages : Receive(h, m)
         \/ NewRoutes
         \/ \E d \in Drainers : StartDrain(d) \/ DrainStep(d) \/ DrainThrows(d)
         \/ Crash
  PROVE  OneTaker'
<1>0. Handlers \subseteq Callers /\ Drainers \subseteq Callers
  BY CallersApart
<1>1. ASSUME NEW m \in Messages, Arrive(m) \/ Forget(m)
      PROVE  OneTaker'
  BY <1>1, FewerTakers DEF Arrive, Forget, NoNewTaker, dbVars
<1>2. ASSUME NEW h \in Handlers, NEW m \in Messages, Receive(h, m)
      PROVE  OneTaker'
  <2>1. /\ UNCHANGED row
        /\ \/ UNCHANGED handler
           \/ \E pc \in {"record", "claimCharge"} :
                handler' = [handler EXCEPT ![h] = [pc |-> pc, m |-> m]]
    BY <1>2 DEF Receive, dbVars
  <2>2. NoNewTaker
    BY <1>0, <2>1 DEF NoNewTaker, TakingUp, TypeOK
  <2> QED
    BY <2>1, <2>2, FewerTakers
<1>3. ASSUME NEW m \in Transits, NEW type \in PostedTypes, CreatePackage(m, type)
      PROVE  OneTaker'
  <2>1. /\ row[m] = "none" /\ UNCHANGED handler
        /\ \A n \in Transits : n # m => row'[n] = row[n]
    BY <1>3 DEF CreatePackage, TypeOK
  <2> QED
    BY <2>1 DEF OneTaker, Takes
<1>4. ASSUME NEW x \in Callers, InsuranceStep(x)
      PROVE  OneTaker'
  <2>1. /\ UNCHANGED row
        /\ Done(x) \/ \E pc \in {"claimCharge", "notify", "charge"} : Go(x, pc)
    BY <1>4 DEF InsuranceStep, ClaimStatus, ClaimCharge, ClaimFor, Notify,
                Charge, dbVars
  <2>2. NoNewTaker
    BY <1>0, <2>1, Goes, Ends DEF NoNewTaker, TakingUp
  <2> QED
    BY <2>1, <2>2, FewerTakers
<1>5. ASSUME NEW h \in Callers, Done(h), UNCHANGED row
      PROVE  OneTaker'
  BY <1>0, <1>5, Ends, FewerTakers DEF NoNewTaker, TakingUp
<1>6. CASE NewRoutes
  BY <1>6, FewerTakers DEF NewRoutes, NoNewTaker, dbVars
<1>7. ASSUME NEW d \in Drainers, StartDrain(d) \/ FetchBatch(d) \/ EndBatch(d)
      PROVE  OneTaker'
  <2>1. UNCHANGED <<handler, row>>
    BY <1>7 DEF StartDrain, FetchBatch, EndBatch, dbVars
  <2> QED
    BY <2>1, FewerTakers DEF NoNewTaker
<1>8. ASSUME NEW d \in Drainers, RoutePending(d)
      PROVE  OneTaker'
  <2>1. /\ UNCHANGED row
        /\ \/ UNCHANGED handler
           \/ \E m : handler' = [handler EXCEPT
                                   ![d] = [pc |-> "claimStatus", m |-> m]]
    BY <1>8 DEF RoutePending, dbVars
  <2>2. NoNewTaker
    BY <1>0, <2>1 DEF NoNewTaker, TakingUp, TypeOK
  <2> QED
    BY <2>1, <2>2, FewerTakers
<1>9. ASSUME NEW d \in Drainers, RemovePending(d)
      PROVE  OneTaker'
  <2>1. /\ row' = [row EXCEPT ![drain[d].m] = "none"]
        /\ row[drain[d].m] = "pending-route"
        /\ UNCHANGED handler
    BY <1>9 DEF RemovePending, BatchStillWaits
  <2>2. \A n \in Transits : row[n] = "package-transit" => row'[n] = row[n]
    BY <2>1 DEF TypeOK
  <2> QED
    BY <2>1, <2>2 DEF OneTaker, Takes
<1>10. CASE Crash
  <2>1. handler' = [h \in Callers |-> Idle] /\ UNCHANGED row
    BY <1>10 DEF Crash, dbVars
  <2> QED
    BY <1>0, <2>1, FewerTakers DEF NoNewTaker, TakingUp, Idle
<1>11. CASE \/ \E h \in Handlers : Throw(h)
            \/ \E d \in Drainers : DrainThrows(d)
  BY <1>0, <1>5, <1>11 DEF Throw, DrainThrows, dbVars
<1> QED
  BY <1>1, <1>2, <1>3, <1>4, <1>6, <1>7, <1>8, <1>9, <1>10, <1>11
     DEF DrainStep

-----------------------------------------------------------------------------
(* The run of the drain, and the rows it holds.                            *)

LEMMA SameDrain ==
  ASSUME TypeOK, SingleFlight, BatchStillWaits, UNCHANGED <<running, drain>>,
         \A m \in Transits : row[m] = "pending-route" => row'[m] = row[m]
  PROVE  SingleFlight' /\ BatchStillWaits'
<1>1. \A d \in Drainers : drain[d].batch \subseteq Transits
  BY DEF TypeOK
<1> QED
  BY <1>1 DEF SingleFlight, BatchStillWaits

\* Nobody but the drain touches a row that waits for a route.
LEMMA RowsWait ==
  ASSUME TypeOK, HandlersHold, OneTaker,
         \/ \E m \in Messages : Arrive(m) \/ Forget(m)
         \/ \E m \in Transits, type \in PostedTypes : CreatePackage(m, type)
         \/ \E x \in Callers : InsuranceStep(x)
         \/ \E h \in Handlers :
               HandlerStep(h) \/ Throw(h) \/ \E m \in Messages : Receive(h, m)
         \/ NewRoutes
  PROVE  /\ UNCHANGED <<running, drain>>
         /\ \A m \in Transits : row[m] = "pending-route" => row'[m] = row[m]
<1>1. ASSUME NEW h \in Handlers, HandlerStep(h)
      PROVE  /\ UNCHANGED <<running, drain>>
             /\ \A m \in Transits : row[m] = "pending-route" => row'[m] = row[m]
  <2>1. CASE RecordInbound(h)
    BY <2>1 DEF RecordInbound, TypeOK, drainVars
  <2>2. ASSUME NEW pc \in {"hold", "wait"}, NEW type, SavePending(h, pc, type)
        PROVE  /\ UNCHANGED <<running, drain>>
               /\ \A m \in Transits :
                    row[m] = "pending-route" => row'[m] = row[m]
    <3>1. /\ Takes(h, handler[h].m) /\ handler[h].m \in Transits
          /\ row' = [row EXCEPT ![handler[h].m] = type]
          /\ UNCHANGED <<running, drain>>
      BY <2>2, Handles, CallersApart
         DEF SavePending, At, Takes, TakingUp, drainVars
    <3>2. row[handler[h].m] = "package-transit"
      BY <3>1 DEF OneTaker
    <3> QED
      BY <3>1, <3>2 DEF TypeOK
  <2>3. CASE UNCHANGED <<running, drain, row>>
    BY <2>3
  <2>4. CASE Accept(h) \/ Deliver(h) \/ Forward(h) \/ Expire(h)
    BY <2>4 DEF Accept, Deliver, Forward, Expire, dbVars, drainVars
  <2> QED
    BY <1>1, <2>1, <2>2, <2>4
       DEF HandlerStep, SavePendingDelivery, SavePendingRoute
<1>2. CASE \/ \E m \in Messages : Arrive(m) \/ Forget(m)
           \/ \E h \in Handlers : Throw(h) \/ \E m \in Messages : Receive(h, m)
           \/ NewRoutes
  BY <1>2 DEF Arrive, Forget, Throw, Receive, NewRoutes, dbVars, drainVars
<1>3. ASSUME NEW x \in Callers, InsuranceStep(x)
      PROVE  UNCHANGED <<running, drain, row>>
  BY <1>3 DEF InsuranceStep, ClaimStatus, Notify, ClaimCharge, Charge, ClaimFor,
              dbVars, drainVars
<1>4. ASSUME NEW m \in Transits, NEW type \in PostedTypes, CreatePackage(m, type)
      PROVE  /\ UNCHANGED <<running, drain>>
             /\ \A n \in Transits : row[n] = "pending-route" => row'[n] = row[n]
  BY <1>4 DEF CreatePackage, TypeOK, drainVars
<1> QED
  BY <1>1, <1>2, <1>3, <1>4

\* What a run does with the next row of its batch: it lets it die, forwards it
\* or leaves it.
LEMMA RoutesNext ==
  ASSUME TypeOK, BatchStillWaits, NEW d \in Drainers, RoutePending(d)
  PROVE  \E m, rest, leaves :
           /\ m \in drain[d].batch /\ drain[d].pc = "route"
           /\ m \in Transits /\ row[m] = "pending-route"
           /\ rest.pc = "route" /\ rest.batch = drain[d].batch \ {m}
           /\ leaves.pc = "remove" /\ leaves.m = m
           /\ leaves.batch = drain[d].batch \ {m}
           /\ UNCHANGED <<row, claims, recorded, running, delivered, notified,
                          charged, faults>>
           /\ \/ /\ drain' = [drain EXCEPT ![d] = leaves]
                 /\ expired' = [expired EXCEPT ![m] = @ + 1]
                 /\ UNCHANGED forwarded
                 /\ IF PackageOf[m] \in Insured
                    THEN handler' = [handler EXCEPT
                                       ![d] = [pc |-> "claimStatus", m |-> m]]
                    ELSE UNCHANGED handler
              \/ /\ drain' = [drain EXCEPT ![d] = leaves]
                 /\ forwarded' = [forwarded EXCEPT ![m] = @ + 1]
                 /\ UNCHANGED <<handler, expired>>
              \/ /\ drain' = [drain EXCEPT ![d] = rest]
                 /\ UNCHANGED <<handler, forwarded, expired>>
<1> DEFINE m == Min(drain[d].batch)
           rest == [drain[d] EXCEPT !.batch = @ \ {m}]
           leaves == [rest EXCEPT !.pc = "remove", !.m = m]
<1>1. /\ drain[d].pc = "route"
      /\ drain[d].batch \in SUBSET Nat /\ drain[d].batch \subseteq Transits
      /\ UNCHANGED <<row, claims, recorded, running, delivered, notified,
                     charged, faults>>
  BY PackageTransitAssumption DEF RoutePending, TypeOK, dbVars
<1>2. m \in drain[d].batch
  BY <1>1, LeastExists DEF RoutePending
<1>3. m \in Transits /\ row[m] = "pending-route"
  BY <1>1, <1>2 DEF BatchStillWaits
<1>4. /\ rest.pc = "route" /\ rest.batch = drain[d].batch \ {m}
      /\ leaves.pc = "remove" /\ leaves.m = m
      /\ leaves.batch = drain[d].batch \ {m}
  BY <1>1 DEF TypeOK
<1>5. CASE m \in Exhausted
  <2>1. /\ drain' = [drain EXCEPT ![d] = leaves]
        /\ expired' = [expired EXCEPT ![m] = @ + 1]
        /\ UNCHANGED forwarded
        /\ IF PackageOf[m] \in Insured
           THEN handler' = [handler EXCEPT
                              ![d] = [pc |-> "claimStatus", m |-> m]]
           ELSE UNCHANGED handler
    BY <1>5 DEF RoutePending
  <2> HIDE DEF m, rest, leaves
  <2> QED
    BY <1>1, <1>2, <1>3, <1>4, <2>1
<1>6. CASE m \notin Exhausted
  <2>1. \/ /\ drain' = [drain EXCEPT ![d] = leaves]
           /\ forwarded' = [forwarded EXCEPT ![m] = @ + 1]
           /\ UNCHANGED <<handler, expired>>
        \/ /\ drain' = [drain EXCEPT ![d] = rest]
           /\ UNCHANGED <<handler, forwarded, expired>>
    BY <1>6 DEF RoutePending
  <2> HIDE DEF m, rest, leaves
  <2> QED
    BY <1>1, <1>2, <1>3, <1>4, <2>1
<1> QED
  BY <1>5, <1>6

\* The run of d is alone, so that a step of it is all that matters.
Alone(d) ==
    /\ running
    /\ \A c \in Drainers : c # d => drain[c].pc = "idle" /\ drain[c].batch = {}

LEMMA RunIsAlone ==
  ASSUME SingleFlight, NEW d \in Drainers, drain[d].pc # "idle"
  PROVE  Alone(d)
  BY DEF SingleFlight, Alone

LEMMA StaysAlone ==
  ASSUME TypeOK, NEW d \in Drainers, NEW next,
         \A c \in Drainers : c # d => drain[c].pc = "idle" /\ drain[c].batch = {},
         drain' = [drain EXCEPT ![d] = next],
         next.pc # "idle" => running',
         next.pc = "idle" => next.batch = {},
         \A m \in next.batch : row'[m] = "pending-route",
         next.pc = "remove" => /\ row'[next.m] = "pending-route"
                               /\ next.m \in Transits
                               /\ next.m \notin next.batch
  PROVE  SingleFlight' /\ BatchStillWaits'
<1>1. /\ drain'[d] = next
      /\ \A c \in Drainers : c # d => /\ drain'[c].pc = "idle"
                                      /\ drain'[c].batch = {}
  BY DEF TypeOK
<1>2. SingleFlight'
  BY <1>1 DEF SingleFlight
<1>3. BatchStillWaits'
  BY <1>1 DEF BatchStillWaits
<1> QED
  BY <1>2, <1>3

LEMMA DrainRuns ==
  ASSUME TypeOK, SingleFlight, BatchStillWaits, NEW d \in Drainers,
         StartDrain(d) \/ DrainStep(d) \/ DrainThrows(d)
  PROVE  SingleFlight' /\ BatchStillWaits'
<1>1. ASSUME NEW next, EndRun(d, next), drain[d].pc # "idle"
      PROVE  SingleFlight' /\ BatchStillWaits'
  <2>1. /\ drain' = [drain EXCEPT ![d] = NoDrain]
        /\ NoDrain.pc = "idle" /\ NoDrain.batch = {}
    BY <1>1 DEF EndRun, NoDrain
  <2>2. Alone(d)
    BY <1>1, RunIsAlone
  <2> HIDE DEF NoDrain
  <2> QED
    BY <2>1, <2>2, StaysAlone DEF Alone
<1>2. CASE StartDrain(d)
  <2> DEFINE next == [drain[d] EXCEPT !.pc = "fetch"]
  <2>1. drain' = [drain EXCEPT ![d] = next] /\ running'
    BY <1>2 DEF StartDrain
  <2>2. next.pc = "fetch" /\ next.batch = {}
    BY <1>2 DEF StartDrain, TypeOK, SingleFlight
  <2>3. \A c \in Drainers : drain[c].pc = "idle" /\ drain[c].batch = {}
    BY <1>2 DEF StartDrain, SingleFlight
  <2> HIDE DEF next
  <2> QED
    BY <2>1, <2>2, <2>3, StaysAlone
<1>3. CASE FetchBatch(d)
  <2> DEFINE take == Lesser(BatchSize, MaxPerRun - drain[d].processed)
             batch == NextBatch(take)
             next == [drain[d] EXCEPT
                        !.pc = "route", !.batch = batch,
                        !.full = (Cardinality(batch) = take),
                        !.processed = @ + Cardinality(batch)]
  <2>1. drain[d].pc = "fetch" /\ Alone(d) /\ UNCHANGED row
    BY <1>3, RunIsAlone DEF FetchBatch, dbVars
  <2>2. CASE take = 0 \/ batch = {}
    BY <1>1, <1>3, <2>1, <2>2 DEF FetchBatch
  <2>3. CASE take # 0 /\ batch # {}
    <3>1. drain' = [drain EXCEPT ![d] = next] /\ UNCHANGED running
      BY <1>3, <2>3 DEF FetchBatch
    <3>2. next.pc = "route" /\ next.batch = batch
      BY DEF TypeOK
    <3>3. \A m \in batch : row'[m] = "pending-route"
      BY <2>1 DEF NextBatch, Waiting
    <3> HIDE DEF next, batch
    <3> QED
      BY <2>1, <3>1, <3>2, <3>3, StaysAlone DEF Alone
  <2> QED
    BY <2>2, <2>3
<1>4. CASE RoutePending(d)
  <2>1. PICK m, rest, leaves :
           /\ m \in drain[d].batch /\ drain[d].pc = "route"
           /\ m \in Transits /\ row[m] = "pending-route"
           /\ rest.pc = "route" /\ rest.batch = drain[d].batch \ {m}
           /\ leaves.pc = "remove" /\ leaves.m = m
           /\ leaves.batch = drain[d].batch \ {m}
           /\ UNCHANGED <<row, running>>
           /\ \/ drain' = [drain EXCEPT ![d] = leaves]
              \/ drain' = [drain EXCEPT ![d] = rest]
    BY <1>4, RoutesNext
  <2>2. Alone(d)
    BY <2>1, RunIsAlone
  <2>3. \A n \in drain[d].batch : row'[n] = "pending-route"
    BY <2>1 DEF BatchStillWaits
  <2> QED
    BY <2>1, <2>2, <2>3, StaysAlone DEF Alone
<1>5. CASE RemovePending(d)
  <2> DEFINE next == [drain[d] EXCEPT !.pc = "route", !.m = NoMessage]
  <2>1. /\ drain[d].pc = "remove" /\ Alone(d) /\ UNCHANGED running
        /\ row' = [row EXCEPT ![drain[d].m] = "none"]
    BY <1>5, RunIsAlone DEF RemovePending
  <2>2. drain' = [drain EXCEPT ![d] = next]
    BY <1>5 DEF RemovePending
  <2>3. next.pc = "route" /\ next.batch = drain[d].batch
    BY DEF TypeOK
  <2>4. \A m \in drain[d].batch : row'[m] = "pending-route"
    BY <2>1 DEF SingleFlight, BatchStillWaits, TypeOK
  <2> HIDE DEF next
  <2> QED
    BY <2>1, <2>2, <2>3, <2>4, StaysAlone DEF Alone
<1>6. CASE EndBatch(d)
  <2> DEFINE next == [drain[d] EXCEPT !.pc = "fetch", !.full = FALSE]
  <2>1. /\ drain[d].pc = "route" /\ Alone(d) /\ UNCHANGED row
        /\ drain[d].batch = {}
    BY <1>6, RunIsAlone DEF EndBatch, dbVars
  <2>2. CASE EndRun(d, 0)
    BY <1>1, <2>1, <2>2
  <2>3. CASE drain' = [drain EXCEPT ![d] = next] /\ UNCHANGED running
    <3>1. next.pc = "fetch" /\ next.batch = {}
      BY <2>1 DEF TypeOK
    <3> HIDE DEF next
    <3> QED
      BY <2>1, <2>3, <3>1, StaysAlone DEF Alone
  <2> QED
    BY <1>6, <2>2, <2>3 DEF EndBatch
<1>7. CASE DrainThrows(d)
  BY <1>1, <1>7 DEF DrainThrows
<1> QED
  BY <1>2, <1>3, <1>4, <1>5, <1>6, <1>7 DEF DrainStep

LEMMA CrashEndsRuns ==
  ASSUME Crash
  PROVE  SingleFlight' /\ BatchStillWaits' /\ CallsAreAwaited'
  BY CallersApart
     DEF Crash, SingleFlight, BatchStillWaits, CallsAreAwaited, NoDrain, At, Idle

\* Nobody but a run begins its call, and a run that has begun one removes the
\* row next.
LEMMA CallsStep ==
  ASSUME TypeOK, BatchStillWaits, SingleFlight, CallsAreAwaited, Next
  PROVE  CallsAreAwaited'
<1>0. /\ Drainers \subseteq Callers /\ Handlers \subseteq Callers
      /\ \A h \in Handlers : h \notin Drainers
  BY CallersApart
<1>1. ASSUME NEW h \in Handlers, UNCHANGED drain,
             UNCHANGED handler \/ Done(h) \/ (\E pc : Go(h, pc))
               \/ \E new : handler' = [handler EXCEPT ![h] = new]
      PROVE  CallsAreAwaited'
  <2>1. \A d \in Drainers : handler'[d] = handler[d]
    BY <1>0, <1>1, Goes, Ends DEF TypeOK
  <2> QED
    BY <1>1, <2>1 DEF CallsAreAwaited, At
<1>2. CASE UNCHANGED <<handler, drain>>
  BY <1>2 DEF CallsAreAwaited, At
<1>3. ASSUME NEW h \in Handlers,
             \/ HandlerStep(h) \/ Throw(h) \/ \E m \in Messages : Receive(h, m)
      PROVE  CallsAreAwaited'
  <2>1. CASE HandlerStep(h)
    <3>1. UNCHANGED drain /\ (Done(h) \/ \E pc : Go(h, pc))
      BY <2>1 DEF HandlerStep, RecordInbound, Accept, Deliver,
         SavePendingDelivery, SavePendingRoute, SavePending, Forward, Expire,
         drainVars
    <3> QED
      BY <1>1, <3>1
  <2>2. CASE Throw(h)
    BY <1>1, <2>2 DEF Throw, drainVars
  <2>3. ASSUME NEW m \in Messages, Receive(h, m) PROVE CallsAreAwaited'
    <3>1. UNCHANGED drain /\ (UNCHANGED handler
            \/ \E new : handler' = [handler EXCEPT ![h] = new])
      BY <2>3 DEF Receive, drainVars
    <3> QED
      BY <1>1, <3>1
  <2> QED
    BY <1>3, <2>1, <2>2, <2>3
<1>4. ASSUME NEW x \in Callers, InsuranceStep(x) PROVE CallsAreAwaited'
  <2>1. /\ UNCHANGED drain /\ ~At(x, "idle")
        /\ Done(x) \/ \E pc : Go(x, pc)
    BY <1>4 DEF InsuranceStep, ClaimStatus, Notify, ClaimCharge, Charge,
                ClaimFor, At, drainVars
  <2>2. \A d \in Drainers : d # x => handler'[d] = handler[d]
    BY <1>0, <2>1, Goes, Ends
  <2> QED
    BY <2>1, <2>2 DEF CallsAreAwaited, At
<1>5. ASSUME NEW d \in Drainers,
             \/ StartDrain(d) \/ FetchBatch(d) \/ EndBatch(d)
             \/ RemovePending(d)
      PROVE  CallsAreAwaited'
  <2>1. At(d, "idle") /\ UNCHANGED handler
    BY <1>5 DEF StartDrain, FetchBatch, EndBatch, RemovePending, CallsAreAwaited
  <2>2. \A c \in Drainers : c # d => drain'[c] = drain[c]
    BY <1>5 DEF StartDrain, FetchBatch, EndBatch, RemovePending, EndRun, TypeOK
  <2> QED
    BY <2>1, <2>2 DEF CallsAreAwaited, At
<1>6. ASSUME NEW d \in Drainers, RoutePending(d)
      PROVE  CallsAreAwaited'
  <2>1. PICK m, rest, leaves :
           /\ m \in drain[d].batch /\ drain[d].pc = "route" /\ leaves.pc = "remove"
           /\ \/ /\ drain' = [drain EXCEPT ![d] = leaves]
                 /\ \/ UNCHANGED handler
                    \/ handler' = [handler EXCEPT
                                      ![d] = [pc |-> "claimStatus", m |-> m]]
              \/ drain' = [drain EXCEPT ![d] = rest] /\ UNCHANGED handler
    BY <1>6, RoutesNext
  <2>2. /\ \A c \in Drainers : c # d => /\ drain'[c] = drain[c]
                                        /\ handler'[c] = handler[c]
        /\ drain'[d].pc = "remove" \/ handler'[d] = handler[d]
    BY <1>0, <2>1 DEF TypeOK
  <2>3. At(d, "idle")
    BY <2>1 DEF CallsAreAwaited
  <2> QED
    BY <2>2, <2>3 DEF CallsAreAwaited, At
<1>7. ASSUME NEW d \in Drainers, DrainThrows(d)
      PROVE  CallsAreAwaited'
  <2>1. d \in Callers /\ Done(d) /\ \E next : EndRun(d, next)
    BY <1>0, <1>7 DEF DrainThrows
  <2>2. /\ handler'[d].pc = "idle"
        /\ \A c \in Drainers : c # d => /\ drain'[c] = drain[c]
                                        /\ handler'[c] = handler[c]
    BY <1>0, <2>1, Ends, RunEnds
  <2> QED
    BY <2>2 DEF CallsAreAwaited, At
<1>8. CASE \/ NewRoutes \/ \E m \in Messages : Arrive(m) \/ Forget(m)
           \/ \E m \in Transits, type \in PostedTypes : CreatePackage(m, type)
  BY <1>2, <1>8 DEF NewRoutes, Arrive, Forget, CreatePackage, drainVars
<1> QED
  BY <1>3, <1>4, <1>5, <1>6, <1>7, <1>8, CrashEndsRuns DEF Next, DrainStep

-----------------------------------------------------------------------------
(* Where the recorded transits are.                                        *)

Taken(m) == \E h \in Handlers : Takes(h, m)
Gone(m) == forwarded[m] + delivered[m] + expired[m]

\* InOnePlace of one transit, by OneTaker.
Account(m) ==
    recorded[m] = One(Taken(m)) + One(Parked(m)) + Gone(m)

\* What is gone is a number, which one more forwarding, delivery or death of
\* the transit raises by one.
LEMMA GoneCounts ==
  ASSUME TypeOK
  PROVE  /\ \A n \in Transits : Gone(n) \in Nat
         /\ \A m \in Transits :
              \/ /\ forwarded' = [forwarded EXCEPT ![m] = @ + 1]
                 /\ UNCHANGED <<delivered, expired>>
              \/ /\ delivered' = [delivered EXCEPT ![m] = @ + 1]
                 /\ UNCHANGED <<forwarded, expired>>
              \/ /\ expired' = [expired EXCEPT ![m] = @ + 1]
                 /\ UNCHANGED <<forwarded, delivered>>
              => /\ Gone(m)' = Gone(m) + 1
                 /\ \A n \in Transits : n # m => Gone(n)' = Gone(n)
<1>1. /\ forwarded \in [Transits -> Nat] /\ delivered \in [Transits -> Nat]
      /\ expired \in [Transits -> Nat]
  BY DEF TypeOK
<1>2. \A n \in Transits : Gone(n) \in Nat
  BY <1>1 DEF Gone
<1>3. ASSUME NEW m \in Transits,
             forwarded' = [forwarded EXCEPT ![m] = @ + 1],
             UNCHANGED <<delivered, expired>>
      PROVE  /\ Gone(m)' = Gone(m) + 1
             /\ \A n \in Transits : n # m => Gone(n)' = Gone(n)
  BY <1>1, <1>3 DEF Gone
<1>4. ASSUME NEW m \in Transits,
             delivered' = [delivered EXCEPT ![m] = @ + 1],
             UNCHANGED <<forwarded, expired>>
      PROVE  /\ Gone(m)' = Gone(m) + 1
             /\ \A n \in Transits : n # m => Gone(n)' = Gone(n)
  BY <1>1, <1>4 DEF Gone
<1>5. ASSUME NEW m \in Transits,
             expired' = [expired EXCEPT ![m] = @ + 1],
             UNCHANGED <<forwarded, delivered>>
      PROVE  /\ Gone(m)' = Gone(m) + 1
             /\ \A n \in Transits : n # m => Gone(n)' = Gone(n)
  BY <1>1, <1>5 DEF Gone
<1> QED
  BY <1>2, <1>3, <1>4, <1>5

LEMMA SoleMember ==
  ASSUME NEW S, \A g, h \in S : g = h
  PROVE  Cardinality(S) = One(S # {})
<1>1. CASE S = {}
  BY <1>1, FS_EmptySet DEF One
<1>2. CASE S # {}
  <2>1. PICK h : S = {h}
    BY <1>2
  <2> QED
    BY <2>1, FS_Singleton DEF One
<1> QED
  BY <1>1, <1>2

LEMMA PlacesByAccount ==
  ASSUME TypeOK, TypeOK'
  PROVE
  /\ OneTaker => (InOnePlace <=> (faults = 0 => \A m \in Transits : Account(m)))
  /\ OneTaker' => (InOnePlace' <=> (faults' = 0 =>
                                      \A m \in Transits : Account(m)'))
<1>1. ASSUME OneTaker, NEW m \in Transits
      PROVE  InProgress(m) = One(Taken(m))
  <2> DEFINE S == {h \in Handlers : Takes(h, m)}
  <2>1. \A g, h \in S : g = h
    BY <1>1 DEF OneTaker
  <2>2. S # {} <=> Taken(m)
    BY DEF Taken
  <2>3. InProgress(m) = Cardinality(S)
    BY DEF InProgress
  <2> HIDE DEF S
  <2> QED
    BY <2>1, <2>2, <2>3, SoleMember DEF One
<1>2. ASSUME OneTaker', NEW m \in Transits
      PROVE  InProgress(m)' = One(Taken(m))'
  <2> DEFINE S == {h \in Handlers : Takes(h, m)'}
  <2>1. \A g, h \in S : g = h
    BY <1>2 DEF OneTaker
  <2>2. S # {} <=> Taken(m)'
    BY DEF Taken
  <2>3. InProgress(m)' = Cardinality(S)
    BY DEF InProgress
  <2> HIDE DEF S
  <2> QED
    BY <2>1, <2>2, <2>3, SoleMember DEF One
<1>3. ASSUME OneTaker, NEW m \in Transits
      PROVE  InProgress(m) + One(Parked(m)) + forwarded[m] + delivered[m]
               + expired[m] = One(Taken(m)) + One(Parked(m)) + Gone(m)
  <2>1. InProgress(m) \in Nat /\ One(Parked(m)) \in Nat
    BY <1>1, <1>3 DEF One
  <2> QED
    BY <1>1, <1>3, <2>1 DEF Gone, TypeOK
<1>4. ASSUME OneTaker', NEW m \in Transits
      PROVE  (InProgress(m) + One(Parked(m)) + forwarded[m] + delivered[m]
               + expired[m])' = (One(Taken(m)) + One(Parked(m)) + Gone(m))'
  <2>1. InProgress(m)' \in Nat /\ One(Parked(m))' \in Nat
    BY <1>2, <1>4 DEF One
  <2> QED
    BY <1>2, <1>4, <2>1 DEF Gone, TypeOK
<1> QED
  BY <1>3, <1>4 DEF InOnePlace, Account

LEMMA SameAccount ==
  ASSUME NEW m \in Transits, Account(m),
         Taken(m)' <=> Taken(m), Parked(m)' <=> Parked(m),
         Gone(m)' = Gone(m), recorded'[m] = recorded[m]
  PROVE  Account(m)'
  BY DEF Account, One

\* A handler that gives up the package it has taken was its only taker.
LEMMA GivesUp ==
  ASSUME OneTaker, NEW h \in Handlers, NEW m \in Transits, Takes(h, m),
         handler'[h].pc \notin TakingUp,
         \A g \in Handlers : g # h => handler'[g] = handler[g]
  PROVE  /\ Taken(m) /\ ~Taken(m)' /\ ~Parked(m)
         /\ row[m] = "package-transit"
         /\ \A n \in Transits : n # m => (Taken(n)' <=> Taken(n))
<1>1. \A g \in Handlers : \A n : Takes(g, n)' <=> g # h /\ Takes(g, n)
  BY DEF Takes
<1>2. \A n \in Transits : n # m => ~Takes(h, n)
  BY DEF Takes
<1> QED
  BY <1>1, <1>2, TypesOfRows DEF OneTaker, Taken, Parked

LEMMA HandlerPlaces ==
  ASSUME TypeOK, HandlersHold, OneTaker, BatchStillWaits,
         NEW h \in Handlers, HandlerStep(h), \A n \in Transits : Account(n)
  PROVE  \A n \in Transits : Account(n)'
<1>m. PICK m : m = handler[h].m
  OBVIOUS
<1>h. h \in Callers /\ Handlers \subseteq Callers
  BY CallersApart
<1> USE <1>m, <1>h
<1>0. ASSUME UNCHANGED <<row, drain, recorded, forwarded, delivered, expired>>,
             \A n \in Transits : Taken(n)' <=> Taken(n)
      PROVE  \A n \in Transits : Account(n)'
  BY <1>0, SameAccount DEF Parked, Removing, Gone
<1>1. CASE RecordInbound(h)
  <2>1. handler[h].pc = "record" /\ m \in Transits
    BY <1>1, Handles DEF RecordInbound, At
  <2>2. UNCHANGED <<drain, forwarded, delivered, expired>>
    BY <1>1 DEF RecordInbound, drainVars, outVars
  <2>3. CASE row[m] # "none"
    <3>1. Done(h) /\ UNCHANGED <<row, recorded>>
      BY <1>1, <2>3 DEF RecordInbound
    <3>2. \A g \in Handlers : \A n : Takes(g, n)' <=> Takes(g, n)
      BY <2>1, <3>1, Ends DEF Takes, TakingUp
    <3> QED
      BY <1>0, <2>2, <3>1, <3>2 DEF Taken
  <2>4. CASE row[m] = "none"
    <3>1. /\ row' = [row EXCEPT ![m] = "package-transit"] /\ Go(h, "accept")
          /\ recorded' = [recorded EXCEPT ![m] = @ + 1]
      BY <1>1, <2>4 DEF RecordInbound
    <3>2. /\ row'[m] = "package-transit" /\ recorded'[m] = recorded[m] + 1
          /\ \A n \in Transits : n # m => /\ row'[n] = row[n]
                                          /\ recorded'[n] = recorded[n]
      BY <2>1, <3>1 DEF TypeOK
    <3>3. /\ Takes(h, m)'
          /\ \A g \in Handlers, n \in Transits :
                n # m => (Takes(g, n)' <=> Takes(g, n))
      BY <2>1, <3>1, Goes DEF Takes, TakingUp
    <3>4. ~Taken(m) /\ Taken(m)' /\ ~Parked(m) /\ ~Parked(m)'
      BY <2>1, <2>4, <3>2, <3>3, TypesOfRows DEF OneTaker, Taken, Parked
    <3>5. Account(m)'
      <4>1. Gone(m)' = Gone(m) /\ Gone(m) \in Nat
        BY <2>1, <2>2, GoneCounts DEF Gone
      <4> QED
        BY <2>1, <3>2, <3>4, <4>1 DEF Account, One
    <3>6. ASSUME NEW n \in Transits, n # m PROVE Account(n)'
      BY <2>2, <3>2, <3>3, <3>6, SameAccount DEF Taken, Parked, Removing, Gone
    <3> QED
      BY <3>5, <3>6
  <2> QED
    BY <2>3, <2>4
<1>2. ASSUME NEW pc \in TakingUp, Go(h, pc), handler[h].pc \in TakingUp,
             UNCHANGED <<row, drain, recorded, forwarded, delivered, expired>>
      PROVE  \A n \in Transits : Account(n)'
  <2>1. \A g \in Handlers : \A n : Takes(g, n)' <=> Takes(g, n)
    BY <1>2, Goes DEF Takes
  <2> QED
    BY <1>0, <1>2, <2>1 DEF Taken
<1>3. CASE Accept(h)
  <2>1. /\ handler[h].pc \in TakingUp
        /\ \E pc \in {"deliver", "hold", "expire", "forward"} : Go(h, pc)
        /\ UNCHANGED <<row, drain, recorded, forwarded, delivered, expired>>
    BY <1>3 DEF Accept, At, TakingUp, dbVars, drainVars
  <2> QED
    BY <1>2, <2>1 DEF TakingUp
<1>4. CASE Deliver(h) \/ Expire(h)
  <2>1. /\ Takes(h, m) /\ m \in Transits
        /\ Done(h) \/ Go(h, "claimStatus")
        /\ \/ /\ delivered' = [delivered EXCEPT ![m] = @ + 1]
              /\ UNCHANGED expired
           \/ /\ expired' = [expired EXCEPT ![m] = @ + 1]
              /\ UNCHANGED delivered
        /\ UNCHANGED <<row, drain, recorded, forwarded>>
    BY <1>4, Handles DEF Deliver, Expire, At, TakingUp, Takes, dbVars,
                         drainVars
  <2>2. /\ \A g \in Handlers : g # h => handler'[g] = handler[g]
        /\ handler'[h].pc \notin TakingUp
    BY <2>1, Goes, Ends DEF TakingUp
  <2>3. /\ Taken(m) /\ ~Taken(m)' /\ ~Parked(m)
        /\ row[m] = "package-transit"
        /\ \A n \in Transits : n # m => (Taken(n)' <=> Taken(n))
    BY <2>1, <2>2, GivesUp
  <2>4. Gone(m)' = Gone(m) + 1 /\ Gone(m) \in Nat
    BY <2>1, GoneCounts
  <2>5. ~Parked(m)'
    BY <2>1, <2>3 DEF Parked, Removing
  <2>6. Account(m)'
    BY <2>1, <2>3, <2>4, <2>5 DEF Account, One
  <2>7. ASSUME NEW n \in Transits, n # m PROVE Account(n)'
    <3>1. Gone(n)' = Gone(n)
      BY <2>1, <2>7, GoneCounts
    <3> QED
      BY <2>1, <2>3, <2>7, <3>1, SameAccount DEF Parked, Removing
  <2> QED
    BY <2>6, <2>7
<1>5. ASSUME NEW pc \in {"hold", "wait"},
             NEW type \in PostedTypes, SavePending(h, pc, type)
      PROVE  \A n \in Transits : Account(n)'
  <2>1. /\ Takes(h, m) /\ m \in Transits /\ Done(h)
        /\ row' = [row EXCEPT ![m] = type]
        /\ UNCHANGED <<drain, recorded, forwarded, delivered, expired>>
    BY <1>5, Handles DEF SavePending, At, TakingUp, Takes, drainVars, outVars
  <2>2. /\ Taken(m) /\ ~Taken(m)' /\ ~Parked(m)
        /\ row[m] = "package-transit"
        /\ \A n \in Transits : n # m => (Taken(n)' <=> Taken(n))
    BY <2>1, Ends, GivesUp DEF TakingUp
  <2>3. row'[m] = type /\ \A n \in Transits : n # m => row'[n] = row[n]
    BY <2>1, <2>2 DEF TypeOK
  <2>4. ~Removing(m)
    BY <2>2 DEF Removing, BatchStillWaits
  <2>5. Parked(m)'
    BY <2>1, <2>3, <2>4 DEF Parked, Removing
  <2>6. Account(m)'
    <3>1. Gone(m)' = Gone(m) /\ Gone(m) \in Nat
      BY <2>1, GoneCounts DEF Gone
    <3> QED
      BY <2>1, <2>2, <2>5, <3>1 DEF Account, One
  <2>7. ASSUME NEW n \in Transits, n # m PROVE Account(n)'
    BY <2>1, <2>2, <2>3, <2>7, SameAccount DEF Parked, Removing, Gone
  <2> QED
    BY <2>6, <2>7
<1>6. CASE Forward(h)
  <2>1. /\ handler[h].pc = "forward" /\ Takes(h, m) /\ m \in Transits
        /\ UNCHANGED <<row, drain, recorded, delivered, expired>>
    BY <1>6, Handles DEF Forward, At, Takes, TakingUp, dbVars, drainVars
  <2>2. CASE Go(h, "wait") /\ UNCHANGED forwarded
    BY <1>2, <2>1, <2>2 DEF TakingUp
  <2>3. CASE Done(h) /\ forwarded' = [forwarded EXCEPT ![m] = @ + 1]
    <3>1. /\ Taken(m) /\ ~Taken(m)' /\ ~Parked(m)
          /\ \A n \in Transits : n # m => (Taken(n)' <=> Taken(n))
      BY <2>1, <2>3, Ends, GivesUp DEF TakingUp
    <3>2. /\ Gone(m)' = Gone(m) + 1 /\ Gone(m) \in Nat
          /\ \A n \in Transits : n # m => Gone(n)' = Gone(n)
      BY <2>1, <2>3, GoneCounts
    <3>3. ~Parked(m)'
      BY <2>1, <3>1 DEF Parked, Removing
    <3>4. Account(m)'
      BY <2>1, <3>1, <3>2, <3>3 DEF Account, One
    <3>5. ASSUME NEW n \in Transits, n # m PROVE Account(n)'
      BY <2>1, <3>1, <3>2, <3>5, SameAccount DEF Parked, Removing
    <3> QED
      BY <3>4, <3>5
  <2> QED
    BY <1>6, <2>2, <2>3 DEF Forward
<1> QED
  BY <1>1, <1>3, <1>4, <1>5, <1>6, TypesOfRows
     DEF HandlerStep, SavePendingDelivery, SavePendingRoute

\* A run that ends, or reads its next rows, is not removing any.
LEMMA NothingRemoved ==
  ASSUME TypeOK, NEW d \in Drainers, drain[d].pc # "remove",
         \A c \in Drainers : c # d => drain[c].pc = "idle",
         \A c \in Drainers : c # d => drain'[c] = drain[c],
         drain'[d].pc # "remove",
         UNCHANGED <<handler, row, recorded, forwarded, delivered, expired>>,
         \A n \in Transits : Account(n)
  PROVE  \A n \in Transits : Account(n)'
<1>1. \A n \in Transits : ~Removing(n) /\ ~Removing(n)'
  BY DEF Removing
<1>2. \A n \in Transits : Taken(n)' <=> Taken(n)
  BY DEF Taken, Takes
<1> QED
  BY <1>1, <1>2, SameAccount DEF Parked, Gone

LEMMA OtherPlaces ==
  ASSUME TypeOK, HandlersHold, OneTaker, SingleFlight, BatchStillWaits,
         \A n \in Transits : Account(n),
         \/ \E m \in Messages : Arrive(m) \/ Forget(m)
         \/ \E m \in Transits, type \in PostedTypes : CreatePackage(m, type)
         \/ \E x \in Callers : InsuranceStep(x)
         \/ \E h \in Handlers, m \in Messages : Receive(h, m)
         \/ NewRoutes
         \/ \E d \in Drainers : StartDrain(d) \/ DrainStep(d)
  PROVE  \A n \in Transits : Account(n)'
<1>1. ASSUME UNCHANGED <<row, drain, recorded, forwarded, delivered, expired>>,
             \A n \in Transits : Taken(n)' <=> Taken(n)
      PROVE  \A n \in Transits : Account(n)'
  BY <1>1, SameAccount DEF Parked, Removing, Gone
<1>2. CASE NewRoutes \/ \E m \in Messages : Arrive(m) \/ Forget(m)
  BY <1>1, <1>2 DEF Arrive, Forget, NewRoutes, Taken, Takes, dbVars, drainVars,
                    outVars
<1>3. ASSUME NEW h \in Handlers, NEW m \in Messages, Receive(h, m)
      PROVE  \A n \in Transits : Account(n)'
  <2>1. /\ UNCHANGED <<row, drain, recorded, forwarded, delivered, expired>>
        /\ handler[h].pc = "idle"
        /\ \/ UNCHANGED handler
           \/ \E pc \in {"record", "claimCharge"} :
                handler' = [handler EXCEPT ![h] = [pc |-> pc, m |-> m]]
    BY <1>3 DEF Receive, At, dbVars, drainVars, outVars
  <2>2. \A g \in Handlers : \A n : Takes(g, n)' <=> Takes(g, n)
    BY <2>1, CallersApart DEF Takes, TakingUp, TypeOK
  <2> QED
    BY <1>1, <2>1, <2>2 DEF Taken
<1>4. ASSUME NEW d \in Drainers, StartDrain(d)
      PROVE  \A n \in Transits : Account(n)'
  <2>1. /\ drain' = [drain EXCEPT ![d].pc = "fetch"]
        /\ drain[d].pc = "idle"
        /\ \A c \in Drainers : drain[c].pc = "idle"
        /\ UNCHANGED <<handler, row, recorded, forwarded, delivered, expired>>
    BY <1>4 DEF StartDrain, SingleFlight, dbVars, outVars
  <2>2. /\ drain'[d].pc = "fetch"
        /\ \A c \in Drainers : c # d => drain'[c] = drain[c]
    BY <2>1 DEF TypeOK
  <2> QED
    BY <2>1, <2>2, NothingRemoved
<1>5. ASSUME NEW d \in Drainers, FetchBatch(d)
      PROVE  \A n \in Transits : Account(n)'
  <2>1. /\ drain[d].pc = "fetch" /\ Alone(d)
        /\ UNCHANGED <<handler, row, recorded, forwarded, delivered, expired>>
    BY <1>5, RunIsAlone DEF FetchBatch, dbVars, outVars
  <2>2. \E next : /\ drain' = [drain EXCEPT ![d] = next]
                  /\ next.pc \in {"idle", "route"}
    <3> DEFINE take == Lesser(BatchSize, MaxPerRun - drain[d].processed)
               batch == NextBatch(take)
               next == [drain[d] EXCEPT
                          !.pc = "route", !.batch = batch,
                          !.full = (Cardinality(batch) = take),
                          !.processed = @ + Cardinality(batch)]
    <3>1. CASE take = 0 \/ batch = {}
      <4>1. drain' = [drain EXCEPT ![d] = NoDrain] /\ NoDrain.pc = "idle"
        BY <1>5, <3>1 DEF FetchBatch, EndRun, NoDrain
      <4> QED
        BY <4>1
    <3>2. CASE take # 0 /\ batch # {}
      <4>1. drain' = [drain EXCEPT ![d] = next]
        BY <1>5, <3>2 DEF FetchBatch
      <4>2. next.pc = "route"
        BY DEF TypeOK
      <4> HIDE DEF next
      <4> QED
        BY <4>1, <4>2
    <3> QED
      BY <3>1, <3>2
  <2>3. /\ drain'[d].pc # "remove"
        /\ \A c \in Drainers : c # d => drain'[c] = drain[c]
    BY <2>2 DEF TypeOK
  <2> QED
    BY <2>1, <2>3, NothingRemoved DEF Alone
<1>6. ASSUME NEW d \in Drainers, EndBatch(d)
      PROVE  \A n \in Transits : Account(n)'
  <2>1. /\ drain[d].pc = "route" /\ Alone(d)
        /\ UNCHANGED <<handler, row, recorded, forwarded, delivered, expired>>
        /\ \/ drain' = [drain EXCEPT ![d].pc = "fetch", ![d].full = FALSE]
           \/ drain' = [drain EXCEPT ![d] = NoDrain]
    BY <1>6, RunIsAlone DEF EndBatch, EndRun, dbVars, outVars
  <2>2. /\ drain'[d].pc # "remove"
        /\ \A c \in Drainers : c # d => drain'[c] = drain[c]
    BY <2>1 DEF TypeOK, NoDrain
  <2> QED
    BY <2>1, <2>2, NothingRemoved DEF Alone
<1>7. ASSUME NEW d \in Drainers, RoutePending(d)
      PROVE  \A n \in Transits : Account(n)'
  <2>1. PICK m, rest, leaves :
           /\ m \in drain[d].batch /\ drain[d].pc = "route"
           /\ m \in Transits /\ row[m] = "pending-route"
           /\ rest.pc = "route" /\ leaves.pc = "remove" /\ leaves.m = m
           /\ UNCHANGED <<row, recorded, delivered>>
           /\ \/ UNCHANGED handler
              \/ handler' = [handler EXCEPT
                                ![d] = [pc |-> "claimStatus", m |-> m]]
           /\ \/ /\ drain' = [drain EXCEPT ![d] = leaves]
                 /\ expired' = [expired EXCEPT ![m] = @ + 1]
                 /\ UNCHANGED forwarded
              \/ /\ drain' = [drain EXCEPT ![d] = leaves]
                 /\ forwarded' = [forwarded EXCEPT ![m] = @ + 1]
                 /\ UNCHANGED expired
              \/ /\ drain' = [drain EXCEPT ![d] = rest]
                 /\ UNCHANGED <<handler, forwarded, expired>>
    BY <1>7, RoutesNext
  <2>2. Alone(d)
    BY <2>1, RunIsAlone
  <2>3. \A n \in Transits : Taken(n)' <=> Taken(n)
    <3>1. \A h \in Handlers : handler'[h] = handler[h]
      BY <2>1, CallersApart DEF TypeOK
    <3> QED
      BY <3>1 DEF Taken, Takes
  <2>4. CASE /\ drain' = [drain EXCEPT ![d] = rest]
             /\ UNCHANGED <<handler, forwarded, expired>>
    <3>1. /\ drain'[d].pc # "remove"
          /\ \A c \in Drainers : c # d => drain'[c] = drain[c]
      BY <2>1, <2>4 DEF TypeOK
    <3> QED
      BY <2>1, <2>2, <2>4, <3>1, NothingRemoved DEF Alone
  <2>5. CASE drain' = [drain EXCEPT ![d] = leaves]
    <3>1. /\ drain'[d] = leaves
          /\ \A c \in Drainers : c # d => drain'[c] = drain[c]
      BY <2>5 DEF TypeOK
    <3>2. /\ Gone(m)' = Gone(m) + 1 /\ Gone(m) \in Nat
          /\ \A n \in Transits : n # m => Gone(n)' = Gone(n)
      <4>1. leaves # rest /\ drain'[d] # rest
        BY <2>1, <3>1
      <4>2. \/ expired' = [expired EXCEPT ![m] = @ + 1] /\ UNCHANGED forwarded
            \/ forwarded' = [forwarded EXCEPT ![m] = @ + 1] /\ UNCHANGED expired
        BY <2>1, <4>1 DEF TypeOK
      <4> QED
        BY <2>1, <4>2, GoneCounts
    <3>3. /\ \A n \in Transits : ~Removing(n)
          /\ \A n \in Transits : Removing(n)' <=> n = m
      BY <2>1, <2>2, <3>1 DEF Removing, Alone
    <3>4. Parked(m) /\ ~Parked(m)'
      BY <2>1, <3>3, TypesOfRows DEF Parked
    <3>5. Account(m)'
      BY <2>1, <2>3, <3>2, <3>4 DEF Account, One
    <3>6. ASSUME NEW n \in Transits, n # m PROVE Account(n)'
      BY <2>1, <2>3, <3>2, <3>3, <3>6, SameAccount DEF Parked
    <3> QED
      BY <3>5, <3>6
  <2> QED
    BY <2>1, <2>4, <2>5
<1>8. ASSUME NEW d \in Drainers, RemovePending(d)
      PROVE  \A n \in Transits : Account(n)'
  <2>m. PICK m : m = drain[d].m
    OBVIOUS
  <2>1. /\ drain[d].pc = "remove" /\ Alone(d) /\ m \in Transits
        /\ row' = [row EXCEPT ![m] = "none"]
        /\ drain' = [drain EXCEPT ![d].pc = "route", ![d].m = NoMessage]
        /\ UNCHANGED <<handler, recorded, forwarded, delivered, expired>>
    BY <1>8, <2>m, RunIsAlone DEF RemovePending, SingleFlight, outVars
  <2>2. /\ drain'[d].pc = "route"
        /\ \A c \in Drainers : c # d => drain'[c] = drain[c]
        /\ row'[m] = "none" /\ \A n \in Transits : n # m => row'[n] = row[n]
    BY <2>1 DEF TypeOK
  <2>3. /\ \A n \in Transits : Removing(n) <=> n = m
        /\ \A n \in Transits : ~Removing(n)'
    BY <2>m, <2>1, <2>2 DEF Removing, Alone
  <2>4. \A n \in Transits : Taken(n)' <=> Taken(n)
    BY <2>1 DEF Taken, Takes
  <2>5. \A n \in Transits : Parked(n)' <=> Parked(n)
    BY <2>1, <2>2, <2>3, TypesOfRows DEF Parked
  <2> QED
    BY <2>1, <2>4, <2>5, SameAccount DEF Gone
<1>9. ASSUME NEW x \in Callers, InsuranceStep(x)
      PROVE  \A n \in Transits : Account(n)'
  <2>1. /\ handler[x].pc \notin TakingUp
        /\ Done(x) \/ \E pc \in {"claimCharge", "notify", "charge"} : Go(x, pc)
        /\ UNCHANGED <<row, drain, recorded, forwarded, delivered, expired>>
    BY <1>9 DEF InsuranceStep, ClaimStatus, ClaimCharge, ClaimFor, Notify,
                Charge, At, TakingUp, dbVars, drainVars, outVars
  <2>2. \A g \in Handlers : \A n : Takes(g, n)' <=> Takes(g, n)
    BY <2>1, Goes, Ends, CallersApart DEF Takes, TakingUp
  <2> QED
    BY <1>1, <2>1, <2>2 DEF Taken
<1>10. ASSUME NEW m \in Transits, NEW type \in PostedTypes, CreatePackage(m, type)
       PROVE  \A n \in Transits : Account(n)'
  <2>1. /\ row[m] = "none"
        /\ UNCHANGED <<handler, drain, forwarded, delivered, expired>>
        /\ row'[m] = type /\ recorded'[m] = recorded[m] + 1
        /\ recorded[m] \in Nat
        /\ \A n \in Transits : n # m => /\ row'[n] = row[n]
                                        /\ recorded'[n] = recorded[n]
    BY <1>10 DEF CreatePackage, TypeOK, drainVars, outVars
  <2>2. /\ \A n \in Transits : Taken(n)' <=> Taken(n)
        /\ ~Removing(m) /\ ~Removing(m)'
    BY <2>1 DEF Taken, Takes, Removing, BatchStillWaits
  <2>3. ~Taken(m) /\ ~Parked(m) /\ Parked(m)'
    BY <2>1, <2>2, TypesOfRows DEF Taken, OneTaker, Parked
  <2>4. Gone(m)' = Gone(m) /\ Gone(m) \in Nat
    BY <2>1, GoneCounts DEF Gone
  <2>5. Account(m)'
    BY <2>1, <2>2, <2>3, <2>4 DEF Account, One
  <2>6. ASSUME NEW n \in Transits, n # m PROVE Account(n)'
    BY <2>1, <2>2, <2>6, SameAccount DEF Parked, Removing, Gone
  <2> QED
    BY <2>5, <2>6
<1> QED
  BY <1>2, <1>3, <1>4, <1>5, <1>6, <1>7, <1>8, <1>9, <1>10 DEF DrainStep

LEMMA PlacesStep ==
  ASSUME TypeOK, TypeOK', HandlersHold, OneTaker, OneTaker', SingleFlight,
         BatchStillWaits, InOnePlace, Next
  PROVE  InOnePlace'
<1>1. SUFFICES ASSUME faults' = 0
               PROVE  \A m \in Transits : Account(m)'
  BY PlacesByAccount
<1>2. ~Fault
  BY <1>1, FaultType
<1>3. /\ ~Crash /\ \A h \in Handlers : ~Throw(h)
      /\ \A d \in Drainers : ~DrainThrows(d)
  BY <1>2 DEF Crash, Throw, DrainThrows
<1>4. UNCHANGED faults
  BY <1>3 DEF Next, Arrive, Forget, CreatePackage, Receive, NewRoutes,
     StartDrain, DrainStep, FetchBatch, RoutePending, RemovePending, EndBatch,
     HandlerStep, RecordInbound, Accept, Deliver, SavePendingDelivery,
     SavePendingRoute, SavePending, Forward, Expire, InsuranceStep, ClaimStatus,
     ClaimCharge, ClaimFor, Notify, Charge
<1>5. \A m \in Transits : Account(m)
  BY <1>1, <1>4, PlacesByAccount
<1>6. CASE \E h \in Handlers : HandlerStep(h)
  BY <1>5, <1>6, HandlerPlaces
<1> QED
  BY <1>3, <1>5, <1>6, OtherPlaces DEF Next

-----------------------------------------------------------------------------
(* The claims of insurance.                                                *)

Claimants == {"notify", "charge"}

\* Whoever does not win a claim leaves the claims as they are.
LEMMA FewerClaimants ==
  ASSUME ClaimsAreHeld, UNCHANGED <<claims, notified, charged>>,
         \A g \in Callers :
            handler'[g] = handler[g] \/ handler'[g].pc \notin Claimants
  PROVE  ClaimsAreHeld'
<1>1. \A g \in Callers :
         At(g, "notify")' \/ At(g, "charge")' => handler'[g] = handler[g]
  BY DEF At, Claimants
<1>2. \A g \in Callers :
         handler'[g] = handler[g] => /\ Pkg(g)' = Pkg(g)
                                     /\ \A pc : At(g, pc)' <=> At(g, pc)
  BY DEF At, Pkg
<1> QED
  BY <1>1, <1>2 DEF ClaimsAreHeld

\* Who wins a claim is the first.
LEMMA ClaimWon ==
  ASSUME TypeOK, HandlersHold, ClaimsAreHeld, NEW h \in Callers,
         NEW p \in Packages, p = Pkg(h), handler[h].pc # "idle",
         \/ /\ <<"pkg-status", p>> \notin claims
            /\ claims' = claims \cup {<<"pkg-status", p>>}
            /\ Go(h, "notify") \/ Go(h, "claimCharge")
         \/ /\ <<"insurance", p>> \notin claims
            /\ claims' = claims \cup {<<"insurance", p>>}
            /\ Go(h, "charge"),
         UNCHANGED <<notified, charged>>
  PROVE  ClaimsAreHeld'
<1>1. /\ handler'[h].m = handler[h].m
      /\ \A g \in Callers : g # h => handler'[g] = handler[g]
  BY Goes
<1>2. \A g \in Callers : Pkg(g)' = Pkg(g)
  BY <1>1 DEF Pkg
<1>3. \A g \in Callers : g # h => \A pc : At(g, pc)' <=> At(g, pc)
  BY <1>1 DEF At
<1>4. CASE /\ <<"pkg-status", p>> \notin claims
           /\ claims' = claims \cup {<<"pkg-status", p>>}
           /\ Go(h, "notify") \/ Go(h, "claimCharge")
  <2>1. ~At(h, "charge")' /\ notified[p] = 0
    BY <1>4, Goes DEF At, ClaimsAreHeld
  <2>2. \A g \in Callers : At(g, "notify") => Pkg(g) # p
    BY <1>4 DEF ClaimsAreHeld
  <2> QED
    BY <1>2, <1>3, <1>4, <2>1, <2>2 DEF ClaimsAreHeld
<1>5. CASE /\ <<"insurance", p>> \notin claims
           /\ claims' = claims \cup {<<"insurance", p>>}
           /\ Go(h, "charge")
  <2>1. ~At(h, "notify")' /\ charged[p] = 0
    BY <1>5, Goes DEF At, ClaimsAreHeld
  <2>2. \A g \in Callers : At(g, "charge") => Pkg(g) # p
    BY <1>5 DEF ClaimsAreHeld
  <2> QED
    BY <1>2, <1>3, <1>5, <2>1, <2>2 DEF ClaimsAreHeld
<1> QED
  BY <1>4, <1>5

LEMMA ClaimsStep ==
  ASSUME TypeOK, HandlersHold, BatchStillWaits, ClaimsAreHeld, InsuredOnce, Next
  PROVE  ClaimsAreHeld' /\ InsuredOnce'
<1> DEFINE Same == UNCHANGED <<claims, notified, charged>>
<1>h. Handlers \subseteq Callers /\ Drainers \subseteq Callers
  BY CallersApart
<1>0. ASSUME Same,
             \A g \in Callers :
                handler'[g] = handler[g] \/ handler'[g].pc \notin Claimants
      PROVE  ClaimsAreHeld' /\ InsuredOnce'
  BY <1>0, FewerClaimants DEF InsuredOnce
<1>1. ASSUME NEW h \in Callers,
             \/ RecordInbound(h) \/ Accept(h) \/ Deliver(h)
             \/ SavePendingDelivery(h) \/ SavePendingRoute(h)
             \/ Forward(h) \/ Expire(h) \/ Throw(h)
      PROVE  ClaimsAreHeld' /\ InsuredOnce'
  <2>1. /\ Same
        /\ \/ Done(h)
           \/ \E pc \in PcStates \ Claimants : Go(h, pc)
    BY <1>1 DEF RecordInbound, Accept, Deliver, SavePendingDelivery,
       SavePendingRoute, SavePending, Forward, Expire, Throw, dbVars, outVars,
       PcStates, Claimants
  <2> QED
    BY <1>0, <2>1, Goes, Ends DEF Claimants
<1>2. ASSUME NEW h \in Callers, ClaimStatus(h) \/ ClaimCharge(h)
      PROVE  ClaimsAreHeld' /\ InsuredOnce'
  <2>1. PICK p : p = Pkg(h)
    OBVIOUS
  <2>2. handler[h].pc # "idle" /\ p \in Packages
    BY <1>2, <2>1, Handles DEF ClaimStatus, ClaimCharge, ClaimFor, At
  <2>3. UNCHANGED <<notified, charged>>
    BY <1>2 DEF ClaimStatus, ClaimCharge, ClaimFor, outVars
  <2>4. CASE Done(h) /\ UNCHANGED claims
    BY <1>0, <2>3, <2>4, Ends DEF Claimants
  <2>5. CASE /\ <<"pkg-status", p>> \notin claims
             /\ claims' = claims \cup {<<"pkg-status", p>>}
             /\ Go(h, "notify") \/ Go(h, "claimCharge")
    BY <2>1, <2>2, <2>3, <2>5, ClaimWon DEF InsuredOnce
  <2>6. CASE /\ <<"insurance", p>> \notin claims
             /\ claims' = claims \cup {<<"insurance", p>>}
             /\ Go(h, "charge")
    BY <2>1, <2>2, <2>3, <2>6, ClaimWon DEF InsuredOnce
  <2> QED
    BY <1>2, <2>1, <2>4, <2>5, <2>6 DEF ClaimStatus, ClaimCharge, ClaimFor
<1>3. ASSUME NEW h \in Callers, Notify(h) \/ Charge(h)
      PROVE  ClaimsAreHeld' /\ InsuredOnce'
  <2>1. PICK p : p = Pkg(h)
    OBVIOUS
  <2>2. p \in Packages /\ Done(h) /\ UNCHANGED claims
    BY <1>3, <2>1, Handles DEF Notify, Charge, At, dbVars
  <2>3. /\ \A g \in Callers : g # h => handler'[g] = handler[g]
        /\ handler'[h].pc = "idle"
    BY <2>2, Ends
  <2>4. /\ ~At(h, "notify")' /\ ~At(h, "charge")'
        /\ \A g \in Callers :
              g # h => /\ Pkg(g)' = Pkg(g)
                       /\ \A pc : At(g, pc)' <=> At(g, pc)
    BY <2>3 DEF At, Pkg
  <2>5. CASE Notify(h)
    <3>1. /\ At(h, "notify") /\ UNCHANGED charged
          /\ notified' = [notified EXCEPT ![p] = @ + 1]
      BY <2>1, <2>5 DEF Notify
    <3>2. <<"pkg-status", p>> \in claims /\ notified[p] = 0
      BY <2>1, <3>1 DEF ClaimsAreHeld
    <3>3. /\ notified'[p] = 1
          /\ \A q \in Packages : q # p => notified'[q] = notified[q]
      BY <2>2, <3>1, <3>2 DEF TypeOK
    <3>4. \A g \in Callers : At(g, "notify")' => g # h /\ Pkg(g) # p
      BY <2>1, <2>4, <3>1 DEF ClaimsAreHeld
    <3>5. \A g \in Callers : At(g, "notify")' => Pkg(g) \in Packages
      BY <2>4, Handles DEF At
    <3>6. ClaimsAreHeld'
      BY <2>2, <2>4, <3>1, <3>2, <3>3, <3>4, <3>5 DEF ClaimsAreHeld
    <3> QED
      BY <3>1, <3>3, <3>6 DEF InsuredOnce
  <2>6. CASE Charge(h)
    <3>1. /\ At(h, "charge") /\ UNCHANGED notified
          /\ charged' = [charged EXCEPT ![p] = @ + 1]
      BY <2>1, <2>6 DEF Charge
    <3>2. <<"insurance", p>> \in claims /\ charged[p] = 0
      BY <2>1, <3>1 DEF ClaimsAreHeld
    <3>3. /\ charged'[p] = 1
          /\ \A q \in Packages : q # p => charged'[q] = charged[q]
      BY <2>2, <3>1, <3>2 DEF TypeOK
    <3>4. \A g \in Callers : At(g, "charge")' => g # h /\ Pkg(g) # p
      BY <2>1, <2>4, <3>1 DEF ClaimsAreHeld
    <3>5. \A g \in Callers : At(g, "charge")' => Pkg(g) \in Packages
      BY <2>4, Handles DEF At
    <3>6. ClaimsAreHeld'
      BY <2>2, <2>4, <3>1, <3>2, <3>3, <3>4, <3>5 DEF ClaimsAreHeld
    <3> QED
      BY <3>1, <3>3, <3>6 DEF InsuredOnce
  <2> QED
    BY <1>3, <2>5, <2>6
<1>4. ASSUME NEW h \in Callers, NEW m \in Messages, Receive(h, m)
      PROVE  ClaimsAreHeld' /\ InsuredOnce'
  <2>1. /\ Same
        /\ \/ UNCHANGED handler
           \/ \E pc \in {"record", "claimCharge"} :
                handler' = [handler EXCEPT ![h] = [pc |-> pc, m |-> m]]
    BY <1>4 DEF Receive, dbVars, outVars
  <2>2. \A g \in Callers :
           handler'[g] = handler[g] \/ handler'[g].pc \notin Claimants
    BY <2>1 DEF Claimants, TypeOK
  <2> QED
    BY <1>0, <2>1, <2>2
<1>5. CASE \/ \E m \in Messages : Arrive(m) \/ Forget(m)
           \/ \E m \in Transits, type \in PostedTypes : CreatePackage(m, type)
           \/ NewRoutes
           \/ \E d \in Drainers : \/ StartDrain(d) \/ FetchBatch(d)
                                  \/ RemovePending(d) \/ EndBatch(d)
  <2>1. Same /\ UNCHANGED handler
    BY <1>5 DEF Arrive, Forget, CreatePackage, NewRoutes, StartDrain,
       FetchBatch, RemovePending, EndBatch, dbVars, outVars
  <2> QED
    BY <1>0, <2>1
<1>7. ASSUME NEW d \in Drainers, RoutePending(d)
      PROVE  ClaimsAreHeld' /\ InsuredOnce'
  <2>1. /\ Same
        /\ \/ UNCHANGED handler
           \/ \E m : handler' = [handler EXCEPT
                                   ![d] = [pc |-> "claimStatus", m |-> m]]
    BY <1>7, RoutesNext
  <2>2. \A g \in Callers :
           handler'[g] = handler[g] \/ handler'[g].pc \notin Claimants
    BY <1>h, <2>1 DEF Claimants, TypeOK
  <2> QED
    BY <1>0, <2>1, <2>2
<1>8. ASSUME NEW d \in Drainers, DrainThrows(d)
      PROVE  ClaimsAreHeld' /\ InsuredOnce'
  <2>1. Same /\ Done(d)
    BY <1>8 DEF DrainThrows, dbVars, outVars
  <2> QED
    BY <1>0, <1>h, <2>1, Ends DEF Claimants
<1>6. CASE Crash
  <2>1. /\ Same
        /\ \A h \in Callers : handler'[h].pc = "idle"
    BY <1>6 DEF Crash, Idle, dbVars, outVars
  <2> QED
    BY <1>0, <2>1 DEF Claimants
<1> QED
  BY <1>h, <1>1, <1>2, <1>3, <1>4, <1>5, <1>6, <1>7, <1>8
     DEF Next, HandlerStep, InsuranceStep, DrainStep

-----------------------------------------------------------------------------
(* The settlement of insurance.                                            *)

Settlers == {"claimStatus", "claimCharge", "notify", "charge"}

\* What h is about to do for its package is all that a step of h can change.
LEMMA StaysAt ==
  ASSUME NEW h \in Callers,
         \A g \in Callers : g # h => handler'[g] = handler[g]
  PROVE  /\ \A pc, q : AtFor(pc, q) => \/ AtFor(pc, q)'
                                       \/ At(h, pc) /\ q = Pkg(h)
         /\ \A pc, q : At(h, pc)' /\ Pkg(h)' = q => AtFor(pc, q)'
<1>1. \A g \in Callers :
         g # h => Pkg(g)' = Pkg(g) /\ \A pc : At(g, pc)' <=> At(g, pc)
  BY DEF Pkg, At
<1> QED
  BY <1>1 DEF AtFor

LEMMA SameSettled ==
  ASSUME Settled, UNCHANGED <<claims, notified, charged, expired>>,
         \A g \in Callers :
            handler'[g] = handler[g] \/ handler[g].pc \notin Settlers
  PROVE  Settled'
<1>1. \A g \in Callers, pc \in Settlers :
         At(g, pc) => At(g, pc)' /\ Pkg(g)' = Pkg(g)
  BY DEF At, Pkg
<1>2. \A pc \in Settlers : \A q : AtFor(pc, q) => AtFor(pc, q)'
  BY <1>1 DEF AtFor
<1>3. "claimStatus" \in Settlers /\ "claimCharge" \in Settlers
      /\ "notify" \in Settlers /\ "charge" \in Settlers
  BY DEF Settlers
<1> QED
  BY <1>2, <1>3 DEF Settled

LEMMA ClaimSettles ==
  ASSUME TypeOK, HandlersHold, Settled, NEW h \in Callers,
         ClaimStatus(h) \/ ClaimCharge(h)
  PROVE  Settled'
<1>p. PICK p : p = Pkg(h)
  OBVIOUS
<1>1. /\ handler[h].pc # "idle" /\ UNCHANGED <<notified, charged, expired>>
      /\ Done(h) \/ \E pc : Go(h, pc)
  BY DEF ClaimStatus, ClaimCharge, ClaimFor, At, outVars
<1>2. \A g \in Callers : g # h => handler'[g] = handler[g]
  BY <1>1, Goes, Ends
<1>3. \A pc, q : AtFor(pc, q) => AtFor(pc, q)' \/ (At(h, pc) /\ q = p)
  BY <1>p, <1>2, StaysAt
<1>4. ASSUME NEW pc, Go(h, pc) PROVE AtFor(pc, p)'
  <2>1. At(h, pc)' /\ Pkg(h)' = p
    BY <1>p, <1>4, Goes DEF At, Pkg
  <2> QED
    BY <1>2, <2>1, StaysAt
<1>5. CASE ClaimStatus(h)
  <2>1. \A pc, q : AtFor(pc, q) => AtFor(pc, q)' \/ (pc = "claimStatus" /\ q = p)
    BY <1>3, <1>5 DEF ClaimStatus, ClaimFor, At
  <2>2. /\ <<"pkg-status", p>> \in claims'
        /\ claims' = claims \cup {<<"pkg-status", p>>}
        /\ \/ <<"pkg-status", p>> \in claims
           \/ p \in Ours /\ AtFor("claimCharge", p)'
           \/ p \notin Ours /\ AtFor("notify", p)'
    BY <1>p, <1>4, <1>5 DEF ClaimStatus, ClaimFor
  <2> QED
    BY <1>1, <2>1, <2>2 DEF Settled
<1>6. CASE ClaimCharge(h)
  <2>1. \A pc, q : AtFor(pc, q) => AtFor(pc, q)' \/ (pc = "claimCharge" /\ q = p)
    BY <1>3, <1>6 DEF ClaimCharge, ClaimFor, At
  <2>2. /\ <<"insurance", p>> \in claims'
        /\ claims' = claims \cup {<<"insurance", p>>}
        /\ <<"insurance", p>> \in claims \/ AtFor("charge", p)'
    BY <1>p, <1>4, <1>6 DEF ClaimCharge, ClaimFor
  <2> QED
    BY <1>1, <2>1, <2>2 DEF Settled
<1> QED
  BY <1>5, <1>6

\* A death of an insured package whose settlement begins.
LEMMA Dies ==
  ASSUME Settled, NEW m, expired' = [expired EXCEPT ![m] = @ + 1],
         UNCHANGED <<claims, notified, charged>>, TypeOK,
         PackageOf[m] \in Insured => AtFor("claimStatus", PackageOf[m])',
         \A pc \in Settlers : \A q : AtFor(pc, q) => AtFor(pc, q)'
  PROVE  Settled'
<1>1. \A n \in Transits : n # m => expired'[n] = expired[n]
  BY DEF TypeOK
<1>2. "claimStatus" \in Settlers /\ "claimCharge" \in Settlers
      /\ "notify" \in Settlers /\ "charge" \in Settlers
  BY DEF Settlers
<1>3. \A n \in Transits :
         expired'[n] > 0 /\ PackageOf[n] \in Insured =>
           \/ <<"pkg-status", PackageOf[n]>> \in claims
           \/ AtFor("claimStatus", PackageOf[n])'
  BY <1>1, <1>2 DEF Settled
<1>4. \A p \in Packages :
        /\ <<"pkg-status", p>> \in claims /\ p \in Ours =>
              <<"insurance", p>> \in claims \/ AtFor("claimCharge", p)'
        /\ <<"pkg-status", p>> \in claims /\ p \notin Ours =>
              notified[p] = 1 \/ AtFor("notify", p)'
        /\ <<"insurance", p>> \in claims =>
              charged[p] = 1 \/ AtFor("charge", p)'
  BY <1>2 DEF Settled
<1> QED
  BY <1>3, <1>4 DEF Settled

LEMMA DeathSettles ==
  ASSUME TypeOK, HandlersHold, ClaimsAreHeld, Settled, NEW h \in Callers,
         Expire(h) \/ Notify(h) \/ Charge(h)
  PROVE  Settled'
<1>p. PICK p : p = Pkg(h)
  OBVIOUS
<1>1. /\ handler[h].pc # "idle" /\ UNCHANGED claims
      /\ Done(h) \/ Go(h, "claimStatus")
  BY DEF Expire, Notify, Charge, At, dbVars
<1>2. /\ \A g \in Callers : g # h => handler'[g] = handler[g]
      /\ p \in Packages
  BY <1>p, <1>1, Goes, Ends, Handles
<1>3. \A pc, q : AtFor(pc, q) => AtFor(pc, q)' \/ (At(h, pc) /\ q = p)
  BY <1>p, <1>2, StaysAt
<1>4. CASE Expire(h)
  <2>1. PICK m : m = handler[h].m
    OBVIOUS
  <2>2. /\ UNCHANGED <<notified, charged>>
        /\ expired' = [expired EXCEPT ![m] = @ + 1]
        /\ IF p \in Insured THEN Go(h, "claimStatus") ELSE Done(h)
        /\ At(h, "expire") /\ p = PackageOf[m]
    BY <1>p, <1>4, <2>1 DEF Expire, Pkg
  <2>3. p \in Insured => AtFor("claimStatus", p)'
    <3>1. p \in Insured => At(h, "claimStatus")' /\ Pkg(h)' = p
      BY <2>1, <2>2, Goes DEF At, Pkg
    <3> QED
      BY <1>2, <3>1, StaysAt
  <2>4. \A pc, q : pc # "expire" /\ AtFor(pc, q) => AtFor(pc, q)'
    BY <1>3, <2>2 DEF At
  <2> QED
    BY <1>1, <2>2, <2>3, <2>4, Dies DEF Settlers
<1>5. CASE Notify(h)
  <2>1. /\ UNCHANGED <<charged, expired>> /\ At(h, "notify")
        /\ notified' = [notified EXCEPT ![p] = @ + 1] /\ notified[p] = 0
    BY <1>p, <1>5 DEF Notify, ClaimsAreHeld
  <2>2. /\ notified'[p] = 1
        /\ \A q \in Packages : q # p => notified'[q] = notified[q]
    BY <1>2, <2>1 DEF TypeOK
  <2>3. \A pc, q : AtFor(pc, q) => AtFor(pc, q)' \/ (pc = "notify" /\ q = p)
    BY <1>3, <2>1 DEF At
  <2> QED
    BY <1>1, <2>1, <2>2, <2>3 DEF Settled
<1>6. CASE Charge(h)
  <2>1. /\ UNCHANGED <<notified, expired>> /\ At(h, "charge")
        /\ charged' = [charged EXCEPT ![p] = @ + 1] /\ charged[p] = 0
    BY <1>p, <1>6 DEF Charge, ClaimsAreHeld
  <2>2. /\ charged'[p] = 1
        /\ \A q \in Packages : q # p => charged'[q] = charged[q]
    BY <1>2, <2>1 DEF TypeOK
  <2>3. \A pc, q : AtFor(pc, q) => AtFor(pc, q)' \/ (pc = "charge" /\ q = p)
    BY <1>3, <2>1 DEF At
  <2> QED
    BY <1>1, <2>1, <2>2, <2>3 DEF Settled
<1> QED
  BY <1>4, <1>5, <1>6

LEMMA SettlingStep ==
  ASSUME TypeOK, HandlersHold, BatchStillWaits, CallsAreAwaited, ClaimsAreHeld,
         Settling, Next
  PROVE  Settling'
<1> SUFFICES ASSUME faults' = 0 PROVE Settled'
  BY DEF Settling
<1>h. Handlers \subseteq Callers /\ Drainers \subseteq Callers
  BY CallersApart
<1>1. CASE \/ Crash \/ \E h \in Handlers : Throw(h)
           \/ \E d \in Drainers : DrainThrows(d)
  BY <1>1, FaultType DEF Crash, Throw, DrainThrows
<1>2. CASE \E x \in Callers : InsuranceStep(x)
  <2>1. PICK x \in Callers : InsuranceStep(x)
    BY <1>2
  <2>2. UNCHANGED faults
    BY <2>1 DEF InsuranceStep, ClaimStatus, ClaimCharge, ClaimFor, Notify, Charge
  <2>3. Settled
    BY <2>2 DEF Settling
  <2> QED
    BY <2>1, <2>3, ClaimSettles, DeathSettles DEF InsuranceStep
<1>3. CASE \E h \in Handlers : HandlerStep(h)
  <2>1. PICK h \in Handlers : HandlerStep(h)
    BY <1>3
  <2>2. UNCHANGED faults
    BY <2>1 DEF HandlerStep, RecordInbound, Accept, Deliver,
       SavePendingDelivery, SavePendingRoute, SavePending, Forward, Expire
  <2>3. Settled
    BY <2>2 DEF Settling
  <2>4. CASE \/ RecordInbound(h) \/ Accept(h) \/ Deliver(h)
             \/ SavePendingDelivery(h) \/ SavePendingRoute(h) \/ Forward(h)
    <3>1. /\ handler[h].pc \notin Settlers
          /\ UNCHANGED <<claims, notified, charged, expired>>
          /\ Done(h) \/ \E pc : Go(h, pc)
      BY <2>4 DEF RecordInbound, Accept, Deliver, SavePendingDelivery,
         SavePendingRoute, SavePending, Forward, At, Settlers, dbVars, outVars
    <3>2. \A g \in Callers : g # h => handler'[g] = handler[g]
      BY <1>h, <3>1, Goes, Ends
    <3> QED
      BY <2>3, <3>1, <3>2, SameSettled
  <2> QED
    BY <1>h, <2>1, <2>3, <2>4, DeathSettles DEF HandlerStep
<1>4. ASSUME NEW h \in Handlers, NEW m \in Messages, Receive(h, m)
      PROVE  Settled'
  <2>1. /\ UNCHANGED <<claims, notified, charged, expired, faults>>
        /\ handler[h].pc = "idle"
        /\ \A g \in Callers : g # h => handler'[g] = handler[g]
    BY <1>h, <1>4 DEF Receive, At, dbVars, outVars, TypeOK
  <2> QED
    BY <2>1, SameSettled DEF Settling, Settlers
<1>5. CASE \/ \E m \in Messages : Arrive(m) \/ Forget(m)
           \/ \E m \in Transits, type \in PostedTypes : CreatePackage(m, type)
           \/ NewRoutes
           \/ \E d \in Drainers : \/ StartDrain(d) \/ FetchBatch(d)
                                  \/ RemovePending(d) \/ EndBatch(d)
  <2>1. UNCHANGED <<handler, claims, notified, charged, expired, faults>>
    BY <1>5 DEF Arrive, Forget, CreatePackage, NewRoutes, StartDrain,
       FetchBatch, RemovePending, EndBatch, dbVars, outVars
  <2> QED
    BY <2>1, SameSettled DEF Settling
<1>6. ASSUME NEW d \in Drainers, RoutePending(d)
      PROVE  Settled'
  <2>1. PICK m :
           /\ drain[d].pc = "route"
           /\ UNCHANGED <<claims, notified, charged, faults>>
           /\ \/ /\ expired' = [expired EXCEPT ![m] = @ + 1]
                 /\ IF PackageOf[m] \in Insured
                    THEN handler' = [handler EXCEPT
                                       ![d] = [pc |-> "claimStatus", m |-> m]]
                    ELSE UNCHANGED handler
              \/ UNCHANGED <<handler, expired>>
    BY <1>6, RoutesNext
  <2>2. Settled
    BY <2>1 DEF Settling
  <2>3. handler[d].pc = "idle"
    BY <2>1 DEF CallsAreAwaited, At
  <2>4. CASE UNCHANGED <<handler, expired>>
    BY <2>1, <2>2, <2>4, SameSettled
  <2>5. CASE /\ expired' = [expired EXCEPT ![m] = @ + 1]
             /\ IF PackageOf[m] \in Insured
                THEN handler' = [handler EXCEPT
                                   ![d] = [pc |-> "claimStatus", m |-> m]]
                ELSE UNCHANGED handler
    <3>1. \A g \in Callers : g # d => handler'[g] = handler[g]
      BY <1>h, <2>5 DEF TypeOK
    <3>2. \A pc \in Settlers : \A q : AtFor(pc, q) => AtFor(pc, q)'
      BY <1>h, <2>3, <3>1, StaysAt DEF At, Settlers
    <3>3. PackageOf[m] \in Insured => AtFor("claimStatus", PackageOf[m])'
      <4>1. PackageOf[m] \in Insured =>
               At(d, "claimStatus")' /\ Pkg(d)' = PackageOf[m]
        BY <1>h, <2>5 DEF At, Pkg, TypeOK
      <4> QED
        BY <1>h, <4>1 DEF AtFor
    <3> QED
      BY <2>1, <2>2, <2>5, <3>2, <3>3, Dies
  <2> QED
    BY <2>1, <2>4, <2>5
<1> QED
  BY <1>1, <1>2, <1>3, <1>4, <1>5, <1>6 DEF Next, DrainStep

-----------------------------------------------------------------------------
(* The invariant.                                                          *)

LEMMA InitInv == Init => IndInv
<1> SUFFICES ASSUME Init PROVE IndInv
  OBVIOUS
<1>1. /\ \A h \in Callers : handler[h].pc = "idle"
      /\ \A d \in Drainers : drain[d].pc = "idle" /\ drain[d].batch = {}
      /\ \A m \in Transits : row[m] = "none" /\ recorded[m] = 0
                             /\ forwarded[m] = 0 /\ delivered[m] = 0
                             /\ expired[m] = 0
      /\ \A p \in Packages : notified[p] = 0 /\ charged[p] = 0
      /\ claims = {} /\ Drainers \subseteq Callers /\ Handlers \subseteq Callers
  BY CallersApart DEF Init, Idle, NoDrain
<1>2. TypeOK
  <2>1. /\ Idle \in Messaging /\ NoDrain \in Draining
    BY PackageTransitAssumption
       DEF Idle, NoDrain, Messaging, Draining, PcStates
  <2>2. /\ handler \in [Callers -> Messaging]
        /\ drain \in [Drainers -> Draining]
    BY <2>1 DEF Init
  <2>3. /\ arrived \in [Messages -> Nat]
        /\ faults \in 0..MaxFaults
    BY PackageTransitAssumption DEF Init
  <2>4. /\ inbox \in [Messages -> Nat] /\ row \in [Transits -> {"none"}]
        /\ recorded \in [Transits -> Nat] /\ received \in [Transits -> Nat]
        /\ forwarded \in [Transits -> Nat] /\ delivered \in [Transits -> Nat]
        /\ expired \in [Transits -> Nat]
        /\ notified \in [Packages -> Nat] /\ charged \in [Packages -> Nat]
    BY DEF Init
  <2>5. /\ seen = {} /\ claims = {} /\ routed = {} /\ running = FALSE
        /\ cursor = 0 /\ dropped = {}
    BY DEF Init
  <2>6. row \in [Transits -> RowTypes]
    BY <2>4, TypesOfRows
  <2> QED
    BY <2>2, <2>3, <2>4, <2>5, <2>6 DEF TypeOK, Messaging, Draining
<1>3. HandlersHold /\ OneTaker
  BY <1>1 DEF HandlersHold, OneTaker, Takes, TakingUp
<1>4. CallsAreAwaited
  BY <1>1 DEF CallsAreAwaited, At
<1>5. SingleFlight /\ BatchStillWaits
  BY <1>1 DEF SingleFlight, BatchStillWaits
<1>6. InOnePlace
  <2>1. \A m \in Transits : InProgress(m) = 0 /\ ~Parked(m)
    <3>1. \A m \in Transits : {h \in Handlers : Takes(h, m)} = {}
      BY <1>1 DEF Takes, TakingUp
    <3> QED
      BY <1>1, <3>1, FS_EmptySet, TypesOfRows DEF InProgress, Parked
  <2> QED
    BY <1>1, <2>1 DEF InOnePlace, One
<1>7. ClaimsAreHeld /\ InsuredOnce
  BY <1>1 DEF ClaimsAreHeld, InsuredOnce, At
<1>8. Settling
  BY <1>1 DEF Settling, Settled
<1> QED
  BY <1>2, <1>3, <1>4, <1>5, <1>6, <1>7, <1>8 DEF IndInv

LEMMA NextInv == IndInv /\ [Next]_vars => IndInv'
<1> SUFFICES ASSUME IndInv, [Next]_vars PROVE IndInv'
  OBVIOUS
<1>0. /\ TypeOK /\ HandlersHold /\ OneTaker /\ SingleFlight
      /\ CallsAreAwaited /\ BatchStillWaits /\ InOnePlace /\ ClaimsAreHeld
      /\ InsuredOnce /\ Settling
  BY DEF IndInv
<1>1. CASE Next
  <2>1. TypeOK' /\ HandlersHold'
    <3>1. Handlers \subseteq Callers /\ Transits \subseteq Messages
      BY CallersApart DEF Messages
    <3> QED
      BY <1>0, <1>1, <3>1, QueueTypes, HandlerTypes, DrainTypes, FailureTypes
         DEF Next
  <2>2. OneTaker'
    BY <1>0, <1>1, TakersStep, OtherTakers DEF Next
  <2>3. SingleFlight' /\ BatchStillWaits' /\ CallsAreAwaited'
    <3>0. CallsAreAwaited'
      BY <1>0, <1>1, CallsStep
    <3>1. CASE \/ \E m \in Messages : Arrive(m) \/ Forget(m)
               \/ \E m \in Transits, type \in PostedTypes :
                     CreatePackage(m, type)
               \/ \E x \in Callers : InsuranceStep(x)
               \/ \E h \in Handlers : \/ HandlerStep(h) \/ Throw(h)
                                      \/ \E m \in Messages : Receive(h, m)
               \/ NewRoutes
      BY <1>0, <3>0, <3>1, RowsWait, SameDrain
    <3>2. CASE \E d \in Drainers :
                 StartDrain(d) \/ DrainStep(d) \/ DrainThrows(d)
      BY <1>0, <3>0, <3>2, DrainRuns
    <3> QED
      BY <1>1, <3>1, <3>2, CrashEndsRuns DEF Next
  <2>4. InOnePlace'
    BY <1>0, <1>1, <2>1, <2>2, PlacesStep
  <2>5. ClaimsAreHeld' /\ InsuredOnce'
    BY <1>0, <1>1, ClaimsStep
  <2>6. Settling'
    BY <1>0, <1>1, SettlingStep
  <2> QED
    BY <2>1, <2>2, <2>3, <2>4, <2>5, <2>6 DEF IndInv
<1>2. CASE UNCHANGED vars
  <2> USE <1>2 DEF vars
  <2>1. TypeOK' /\ HandlersHold'
    BY <1>0 DEF TypeOK, HandlersHold
  <2>2. OneTaker'
    BY <1>0, FewerTakers DEF NoNewTaker
  <2>3. SingleFlight' /\ BatchStillWaits' /\ CallsAreAwaited'
    BY <1>0, SameDrain DEF CallsAreAwaited, At
  <2>4. InOnePlace'
    BY <1>0 DEF InOnePlace, InProgress, Takes, Parked, Removing, One
  <2>5. ClaimsAreHeld' /\ InsuredOnce'
    BY <1>0, FewerClaimants DEF InsuredOnce
  <2>6. Settling'
    BY <1>0, SameSettled DEF Settling
  <2> QED
    BY <2>1, <2>2, <2>3, <2>4, <2>5, <2>6 DEF IndInv
<1> QED
  BY <1>1, <1>2

\* The invariant of the whole, which the properties below follow from.
THEOREM TransitInductive == Spec => []IndInv
<1>1. Init => IndInv
  BY InitInv
<1>2. IndInv /\ [Next]_vars => IndInv'
  BY NextInv
<1> QED
  BY <1>1, <1>2, PTL DEF Spec

\* Until something fails, every package that was recorded is with one handler,
\* in its row, forwarded, delivered or expired, and in one of these only, posts
\* and the drain's deletions of rows included.
THEOREM NothingIsLost == Spec => []InOnePlace
<1>1. IndInv => InOnePlace
  BY DEF IndInv
<1> QED
  BY <1>1, TransitInductive, PTL

\* The drain's copy of its batch is never stale: no handler, no post and no other
\* run touches a row that waits for a route.
THEOREM BatchIsFresh == Spec => []BatchStillWaits
<1>1. IndInv => BatchStillWaits
  BY DEF IndInv
<1> QED
  BY <1>1, TransitInductive, PTL

\* One message to the origin and one charge per insured package.
THEOREM SettledOnce == Spec => []InsuredOnce
<1>1. IndInv => InsuredOnce
  BY DEF IndInv
<1> QED
  BY <1>1, TransitInductive, PTL

\* Until something fails, no insured package that died here is forgotten,
\* whether a handler found it dead or the drain.
THEOREM DeathsAreSettled == Spec => []InsuredDeathIsSettled
<1>1. IndInv => InsuredDeathIsSettled
  <2> SUFFICES ASSUME IndInv, faults = 0, \A x \in Callers : At(x, "idle"),
                      NEW m \in Transits, expired[m] > 0, PackageOf[m] \in Insured
               PROVE  IF PackageOf[m] \in Ours THEN charged[PackageOf[m]] = 1
                                               ELSE notified[PackageOf[m]] = 1
    BY DEF InsuredDeathIsSettled
  <2>1. \A pc, q : pc # "idle" => ~AtFor(pc, q)
    BY DEF AtFor, At
  <2>2. Settled /\ PackageOf[m] \in Packages
    BY PackageTransitAssumption DEF IndInv, Settling, TypeOK
  <2> QED
    BY <2>1, <2>2 DEF Settled
<1> QED
  BY <1>1, TransitInductive, PTL
=============================================================================
