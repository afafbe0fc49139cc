--------------------------- MODULE DeliveryProofs ---------------------------
(***************************************************************************)
(* Proofs about PackageDelivery, for any number of connections, messages,  *)
(* packages, requests and failures: the city is never left without a       *)
(* channel, a consumer or the flush of its buffer and with nothing to wake *)
(* it, who is told that a package was delivered can rely on a row, and the *)
(* whole implements DeliveryPromise: every row has one report.             *)
(*                                                                         *)
(* The invariant about the broker names who will act: while this.channel   *)
(* is not a working channel a call is scheduled (ChannelIsAwaited); a      *)
(* working channel is still in the hands of the call that made it, or has  *)
(* a consumer (ChannelIsServed); and a message in the buffer is ahead of   *)
(* some call's flush (BufferIsAwaited).                                    *)
(***************************************************************************)
EXTENDS DeliveryProperties, FiniteSetTheorems, SequenceTheorems, TLAPS

\* Sets of connections are finite.
LEMMA ConnsFinite ==
  ASSUME NEW S \in SUBSET Conns
  PROVE  IsFiniteSet(S) /\ Cardinality(S) \in Nat
<1>1. IsFiniteSet(Conns)
  BY FS_Interval, BrokerAssumption DEF Conns
<1> QED
  BY <1>1, FS_Subset, FS_CardinalityType

\* Neither null nor a closed channel is a connection.
LEMMA NotConns == NoConn \notin Conns /\ Closed \notin Conns /\ NoConn # Closed
  BY BrokerAssumption DEF Conns, NoConn, Closed

\* The number of times a message is in a sequence is a number.
LEMMA OccurrencesType ==
  ASSUME NEW b \in Seq(Outgoing), NEW m
  PROVE  Cardinality({i \in DOMAIN b : b[i] = m}) \in Nat
<1>1. IsFiniteSet(DOMAIN b)
  BY FS_Interval
<1> QED
  BY <1>1, FS_Subset, FS_CardinalityType

\* So is the number of times it waits.
LEMMA WaitsType ==
  ASSUME buffer \in Seq(Outgoing), NEW m
  PROVE  Occurrences(m) \in Nat
  BY OccurrencesType DEF Occurrences

\* The bound on failures holds.
LEMMA FaultType ==
  ASSUME faults \in 0..MaxFaults, Fault
  PROVE  faults' \in 0..MaxFaults
  BY BrokerAssumption DEF Fault

-----------------------------------------------------------------------------
(* The broker.                                                             *)

\* Initially.
LEMMA BrokerInitInv == BrokerInit => BrokerInv
  BY NotConns, BrokerAssumption
     DEF BrokerInit, BrokerInv, BrokerType, ChannelIsAwaited, ChannelIsServed,
         BufferIsAwaited, Usable, Steps

\* A call takes a name.
LEMMA ConnectedStep == BrokerInv /\ Connected => BrokerInv'
<1> SUFFICES ASSUME BrokerInv, Connected PROVE BrokerInv'
  OBVIOUS
<1> USE DEF BrokerInv
<1>1. PICK c \in Unused : Open(c)
  BY DEF Connected
<1>2. c \in Conns /\ call[c] = "none" /\ target[c] = NoConn
  BY <1>1 DEF Unused, ChannelIsServed
<1> USE DEF Open, Connected, outVars, queueVars
<1>3. BrokerType'
  BY <1>1, <1>2 DEF BrokerType, Steps
<1>4. ChannelIsAwaited' /\ ChannelIsServed'
  BY <1>1, <1>2 DEF BrokerType, ChannelIsAwaited, ChannelIsServed, Usable
<1>5. BufferIsAwaited'
  BY <1>1, <1>2 DEF BrokerType, BufferIsAwaited
<1> QED
  BY <1>3, <1>4, <1>5

\* A refusal leaves as many calls scheduled as there were.
LEMMA RefusedStep == BrokerInv /\ Refused => BrokerInv'
<1> SUFFICES ASSUME BrokerInv, Refused PROVE BrokerInv'
  OBVIOUS
<1>1. attempts' = attempts
  BY DEF Refused, BrokerInv, BrokerType
<1>2. faults' \in 0..MaxFaults
  BY FaultType DEF Refused, BrokerInv, BrokerType
<1>3. BrokerType'
  BY <1>1, <1>2 DEF Refused, BrokerInv, BrokerType, outVars, queueVars
<1> QED
  BY <1>1, <1>3 DEF BrokerInv, ChannelIsAwaited, ChannelIsServed,
                    BufferIsAwaited, Usable, Refused, outVars

\* The flush empties the buffer, and the channel is asked to consume.
LEMMA PrefetchedStep ==
  ASSUME BrokerInv, NEW c \in Conns, Prefetched(c)
  PROVE  BrokerInv'
<1> USE DEF BrokerInv, Prefetched, queueVars
<1>1. BrokerType'
  BY WaitsType DEF BrokerType, Steps, Usable
<1>2. ChannelIsAwaited' /\ ChannelIsServed'
  BY DEF BrokerType, ChannelIsAwaited, ChannelIsServed, Usable
<1>3. BufferIsAwaited'
  BY DEF BrokerType, BufferIsAwaited
<1> QED
  BY <1>1, <1>2, <1>3

\* Without a channel, or on a closed one, a call is scheduled.
LEMMA PrefetchedOtherwiseStep ==
  ASSUME BrokerInv, NEW c \in Conns,
         PrefetchedWithoutChannel(c) \/ PrefetchedInVain(c)
  PROVE  BrokerInv'
<1> USE DEF BrokerInv
<1>1. /\ channel \notin live /\ channel' = channel /\ live' = live /\ up' = up
      /\ target' = target /\ consumers' = consumers
      /\ published' = published /\ faults' = faults
      /\ inbox' = inbox /\ handling' = handling /\ handled' = handled
      /\ call[c] = "prefetch" /\ call' = [call EXCEPT ![c] = "done"]
  BY NotConns DEF BrokerType, PrefetchedWithoutChannel, PrefetchedInVain,
                  outVars, queueVars
<1>2. /\ attempts' \in Nat /\ (up => attempts' > 0)
      /\ buffer' \in Seq(Outgoing)
  <2>1. CASE PrefetchedWithoutChannel(c)
    BY <1>1, <2>1 DEF BrokerType, ChannelIsAwaited, Usable, outVars,
                      PrefetchedWithoutChannel
  <2>2. CASE PrefetchedInVain(c)
    BY <2>2 DEF BrokerType, PrefetchedInVain, Schedule
  <2> QED
    BY <2>1, <2>2
<1>3. BrokerType'
  BY <1>1, <1>2 DEF BrokerType, Steps
<1>4. ChannelIsAwaited' /\ ChannelIsServed'
  BY <1>1, <1>2 DEF BrokerType, ChannelIsAwaited, ChannelIsServed, Usable
<1>5. BufferIsAwaited'
  BY <1>1, <1>2 DEF BrokerType, BufferIsAwaited
<1> QED
  BY <1>3, <1>4, <1>5

\* A consumer more, on the channel the call had asked.
LEMMA ConsumingStep ==
  ASSUME BrokerInv, NEW c \in Conns, Consuming(c)
  PROVE  BrokerInv'
<1> USE DEF BrokerInv, Consuming, outVars, queueVars
<1>0. consumers' \in [Conns -> Nat]
  <2>1. CASE target[c] \in Conns
    BY <2>1 DEF BrokerType
  <2>2. CASE target[c] \notin Conns
    BY <2>2 DEF BrokerType
  <2> QED
    BY <2>1, <2>2
<1>1. BrokerType'
  BY <1>0 DEF BrokerType, Steps
<1>2. ChannelIsAwaited' /\ ChannelIsServed'
  BY DEF BrokerType, ChannelIsAwaited, ChannelIsServed, Usable
<1>3. BufferIsAwaited'
  BY DEF BrokerType, BufferIsAwaited
<1> QED
  BY <1>1, <1>2, <1>3

\* A connection is lost: a call is scheduled, and whoever still has a channel
\* that works keeps what serves it.
LEMMA LoseStep ==
  ASSUME BrokerInv, NEW c \in Conns, NEW n \in Nat \ {0}, NEW field,
         field \in {NoConn, Closed} \/ (field = channel /\ field # c),
         Fault, Lose(c, n, field)
  PROVE  BrokerInv'
<1> DEFINE rejected == {d \in Conns : target[d] = c}
<1>1. Cardinality(rejected) \in Nat
  <2>1. rejected \in SUBSET Conns
    OBVIOUS
  <2> QED
    BY <2>1, ConnsFinite
<1>2. attempts' \in Nat /\ attempts' > 0
  BY <1>1 DEF Lose, Schedule, BrokerInv, BrokerType
<1>3. call' \in [Conns -> Steps]
  BY DEF Lose, BrokerInv, BrokerType, Steps
<1>4. BrokerType'
  <2>1. /\ target' \in [Conns -> Conns \cup {NoConn}]
        /\ consumers' \in [Conns -> Nat]
        /\ live' \subseteq Conns
    BY DEF Lose, BrokerInv, BrokerType
  <2>2. inbox' \subseteq Inbound
    BY DEF Lose, BrokerInv, BrokerType
  <2>3. channel' \in Conns \cup {NoConn, Closed}
    BY DEF Lose, BrokerInv, BrokerType
  <2>4. faults' \in 0..MaxFaults
    BY FaultType DEF BrokerInv, BrokerType
  <2> QED
    BY <1>2, <1>3, <2>1, <2>2, <2>3, <2>4
       DEF Lose, BrokerInv, BrokerType, outVars
<1>5. ASSUME NEW d \in Conns PROVE call'[d] # "consume" => target'[d] = NoConn
  BY NotConns DEF Lose, BrokerInv, BrokerType, ChannelIsServed
<1>6. ASSUME Usable'
      PROVE  \/ call'[channel'] = "prefetch"
             \/ call'[channel'] = "consume" /\ target'[channel'] = channel'
             \/ consumers'[channel'] > 0
  <2>1. channel' = channel /\ channel \in live /\ channel # c
    BY <1>6, NotConns DEF Lose, Usable, BrokerInv, BrokerType
  <2>2. channel \in Conns /\ (call[channel] = "prefetch" => target[channel] # c)
    BY <2>1, NotConns DEF BrokerInv, BrokerType, ChannelIsServed
  <2> QED
    BY <2>1, <2>2 DEF Lose, BrokerInv, BrokerType, ChannelIsServed, Usable
<1>7. ChannelIsServed'
  BY <1>5, <1>6 DEF ChannelIsServed
<1> QED
  BY <1>2, <1>4, <1>7 DEF BrokerInv, ChannelIsAwaited, BufferIsAwaited

\* The process ends, and promises nothing.
LEMMA ExitStep ==
  ASSUME BrokerInv, Exit, faults' \in 0..MaxFaults
  PROVE  BrokerInv'
<1> USE DEF BrokerInv, Exit
<1>1. BrokerType'
  <2>1. UNION {handling[c] : c \in Conns} \subseteq Inbound
    BY DEF BrokerType
  <2>2. inbox' \subseteq Inbound
    BY <2>1 DEF BrokerType
  <2>3. buffer' \in Seq(Outgoing)
    OBVIOUS
  <2> QED
    BY <2>2, <2>3 DEF BrokerType, Steps
<1>2. ~Usable'
  BY NotConns DEF Usable
<1> QED
  BY <1>1, <1>2 DEF ChannelIsAwaited, ChannelIsServed, BufferIsAwaited

\* A restart dials.
LEMMA RestartStep == BrokerInv /\ Restart => BrokerInv'
<1> SUFFICES ASSUME BrokerInv, Restart PROVE BrokerInv'
  OBVIOUS
<1> USE DEF BrokerInv, Restart, outVars, queueVars
<1>1. BrokerType'
  BY DEF BrokerType
<1> QED
  BY <1>1 DEF ChannelIsAwaited, ChannelIsServed, BufferIsAwaited, Usable

\* Messages that come do not touch the connections.
LEMMA InboundStep ==
  ASSUME BrokerInv, UNCHANGED <<up, connVars, outVars>>, NEW m \in Inbound,
         \/ Enqueue(m)
         \/ \E c \in Conns : Deliver(c, m) \/ Acknowledge(c, m)
  PROVE  BrokerInv'
<1> USE DEF BrokerInv, connVars, outVars
<1> DEFINE Typed ==
             /\ inbox' \subseteq Inbound /\ handled' \subseteq Inbound
             /\ handling' \in [Conns -> SUBSET Inbound]
             /\ faults' \in 0..MaxFaults
<1>1. Typed
  <2>1. CASE Enqueue(m)
    BY <2>1 DEF Enqueue, BrokerType
  <2>2. ASSUME NEW c \in Conns, Deliver(c, m)
        PROVE  Typed
    BY <2>2 DEF Deliver, BrokerType
  <2>3. ASSUME NEW c \in Conns, Acknowledge(c, m)
        PROVE  Typed
    BY <2>3, FaultType DEF Acknowledge, BrokerType
  <2> QED
    BY <2>1, <2>2, <2>3
<1>2. BrokerType'
  BY <1>1 DEF BrokerType
<1> QED
  BY <1>2 DEF ChannelIsAwaited, ChannelIsServed, BufferIsAwaited, Usable

\* A message that cannot be sent is kept while a call is scheduled.
LEMMA SendStep ==
  ASSUME BrokerInv, NEW m \in Outgoing, Send(m),
         UNCHANGED <<up, connVars, queueVars, faults>>
  PROVE  BrokerInv'
<1> USE DEF BrokerInv, connVars, queueVars, Send
<1>1. buffer' \in Seq(Outgoing) /\ published' \in [Outgoing -> Nat]
  <2>1. CASE channel = NoConn
    <3>1. buffer' = Append(buffer, m) /\ published' = published
      BY <2>1
    <3> QED
      BY <3>1, AppendProperties DEF BrokerType
  <2>2. CASE channel # NoConn
    BY <2>2 DEF BrokerType
  <2> QED
    BY <2>1, <2>2
<1>2. BrokerType'
  BY <1>1 DEF BrokerType
<1>3. BufferIsAwaited'
  BY NotConns DEF BrokerType, ChannelIsAwaited, BufferIsAwaited, Usable
<1> QED
  BY <1>2, <1>3 DEF ChannelIsAwaited, ChannelIsServed, Usable

\* A step that leaves the broker alone, or only counts a failure.
LEMMA BrokerFrame ==
  ASSUME BrokerInv, UNCHANGED <<up, connVars, outVars, queueVars>>,
         faults' \in 0..MaxFaults
  PROVE  BrokerInv'
<1> USE DEF BrokerInv, connVars, outVars, queueVars
<1>1. BrokerType'
  BY DEF BrokerType
<1> QED
  BY <1>1 DEF ChannelIsAwaited, ChannelIsServed, BufferIsAwaited, Usable

\* Every step in which the process stays.
LEMMA BrokerNextStep == BrokerInv /\ BrokerNext => BrokerInv'
<1> SUFFICES ASSUME BrokerInv, BrokerNext PROVE BrokerInv'
  OBVIOUS
<1>1. CASE Connected \/ Refused \/ Restart
  BY <1>1, ConnectedStep, RefusedStep, RestartStep
<1>2. ASSUME NEW c \in Conns, Connecting(c) PROVE BrokerInv'
  BY <1>2, PrefetchedStep, PrefetchedOtherwiseStep, ConsumingStep
     DEF Connecting
<1>3. ASSUME NEW c \in Conns,
             SocketFails(c) \/ ServerCloses(c) \/ ServerClosesUnheard(c)
      PROVE  BrokerInv'
  <2>1. CASE SocketFails(c)
    BY <2>1, LoseStep DEF SocketFails
  <2>2. CASE ServerCloses(c)
    BY <2>2, LoseStep DEF ServerCloses
  <2>3. CASE ServerClosesUnheard(c)
    <3> DEFINE field == IF channel = c THEN Closed ELSE channel
    <3>1. field \in {NoConn, Closed} \/ (field = channel /\ field # c)
      OBVIOUS
    <3> QED
      BY <2>3, <3>1, LoseStep DEF ServerClosesUnheard
  <2> QED
    BY <1>3, <2>1, <2>2, <2>3
<1>4. ASSUME NEW m \in Inbound,
             \/ Enqueue(m)
             \/ \E c \in Conns : Deliver(c, m) \/ Acknowledge(c, m)
      PROVE  BrokerInv'
  BY <1>4, InboundStep DEF Enqueue, Deliver, Acknowledge
<1> QED
  BY <1>1, <1>2, <1>3, <1>4 DEF BrokerNext

\* Every step in which it ends.
LEMMA BrokerExitStep == BrokerInv /\ BrokerExit => BrokerInv'
<1> SUFFICES ASSUME BrokerInv, BrokerExit PROVE BrokerInv'
  OBVIOUS
<1>1. Exit /\ (Fault \/ UNCHANGED faults)
  BY DEF BrokerExit, Crash, SocketFailsUnheard, AcknowledgeThrows
<1>2. faults' \in 0..MaxFaults
  BY <1>1, FaultType DEF BrokerInv, BrokerType
<1> QED
  BY <1>1, <1>2, ExitStep

-----------------------------------------------------------------------------
(* The requests.                                                           *)

\* A step that leaves the tables alone and ends or keeps the requests.
LEMMA CutShortStep == RequestInv /\ CutShort => RequestInv'
<1> SUFFICES ASSUME RequestInv, CutShort PROVE RequestInv'
  OBVIOUS
<1> USE DEF RequestInv, CutShort
<1>1. RequestType'
  BY DEF RequestType, Pcs, Answers
<1>2. RequestHasItsRow'
  BY DEF RequestType, RequestHasItsRow, RowsOf, At, Ended, Answers
<1> QED
  BY <1>1, <1>2

\* The next place of a request is one.
LEMMA GoType ==
  ASSUME RequestType, NEW r \in Requests, NEW pc \in Pcs, Go(r, pc)
  PROVE  /\ request' \in [Requests -> [pc : Pcs, p : Packages \cup {NoPackage},
                                      key : Keys \cup {NoPackage}]]
         /\ request'[r].pc = pc
         /\ \A s \in Requests :
               /\ request'[s].p = request[s].p /\ request'[s].key = request[s].key
               /\ s # r => request'[s] = request[s]
  BY DEF RequestType, Go

\* A request moves on, and the tables stay: where it says that the package
\* has a row, it has.
LEMMA MoveStep ==
  ASSUME RequestInv, NEW r \in Requests, NEW pc \in Pcs, Go(r, pc),
         ~At(r, "idle"), UNCHANGED <<package, audit>>,
         pc \in {"report", "delivered", "already"} => RowsOf(request[r].p) # {}
  PROVE  RequestInv'
<1>1. RequestType'
  BY GoType DEF RequestInv, RequestType
<1>2. RequestHasItsRow'
  <2> SUFFICES ASSUME NEW s \in Requests
               PROVE  /\ ~At(s, "idle")' =>
                            /\ request'[s].p \in Packages
                            /\ request'[s].key \in Keys
                      /\ request'[s].pc \in {"report", "delivered", "already"}
                            => RowsOf(request[s].p) # {}
    BY GoType DEF RequestInv, RequestHasItsRow, RowsOf
  <2> QED
    BY GoType DEF RequestInv, RequestHasItsRow, At
<1> QED
  BY <1>1, <1>2 DEF RequestInv

\* A package appears, or becomes due.
LEMMA PackageStep ==
  ASSUME RequestInv, NEW p \in Packages, CreatePackage(p) \/ BecomesDue(p)
  PROVE  RequestInv'
<1>1. package' \in [Packages -> {"absent", "held", "due"}]
  BY DEF RequestInv, RequestType, CreatePackage, BecomesDue
<1>2. UNCHANGED <<audit, request>>
  BY DEF CreatePackage, BecomesDue
<1> QED
  BY <1>1, <1>2 DEF RequestInv, RequestType, RequestHasItsRow, RowsOf, At

\* A request arrives.
LEMMA AskStep ==
  ASSUME RequestInv, NEW r \in Requests, NEW p \in Packages,
         NEW k \in ClientKeys \cup {p}, Ask(r, p, k)
  PROVE  RequestInv'
<1>1. RequestType'
  BY DEF RequestInv, RequestType, Ask, Pcs, Keys
<1>2. RequestHasItsRow'
  BY DEF RequestInv, RequestType, RequestHasItsRow, Ask, RowsOf, At, Keys
<1> QED
  BY <1>1, <1>2 DEF RequestInv

\* The row is created: no package loses one.
LEMMA CreateAuditStep ==
  ASSUME RequestInv, NEW r \in Requests, CreateAudit(r)
  PROVE  RequestInv'
<1> USE DEF RequestInv
<1>1. request[r].p \in Packages /\ request[r].key \in Keys
  BY DEF CreateAudit, RequestHasItsRow, At
<1>2. RequestType'
  BY <1>1, GoType DEF CreateAudit, RequestType, Pcs
<1>3. ASSUME NEW p \in Packages PROVE RowsOf(p) \subseteq RowsOf(p)'
  BY <1>3, <1>1, PackageDeliveryAssumption
     DEF CreateAudit, RequestType, RowsOf
<1>4. request[r].key \in RowsOf(request[r].p)'
  BY <1>1, GoType DEF CreateAudit, RequestType, RowsOf, Pcs
<1>5. RequestHasItsRow'
  BY <1>1, <1>3, <1>4, GoType DEF CreateAudit, RequestHasItsRow, At, Pcs
<1> QED
  BY <1>2, <1>5

\* Every other step of a request.
LEMMA HandleStep ==
  ASSUME RequestInv, NEW r \in Requests,
         \/ Find(r) \/ KeyIsTaken(r) \/ CreateFails(r)
         \/ Report(r) \/ ReportThrows(r)
  PROVE  RequestInv'
<1> USE DEF At, Pcs, Answers
<1>1. CASE Find(r)
  BY <1>1, MoveStep DEF Find
<1>2. CASE KeyIsTaken(r)
  BY <1>2, MoveStep DEF KeyIsTaken
<1>3. CASE CreateFails(r)
  BY <1>3, MoveStep DEF CreateFails
<1>4. CASE Report(r) \/ ReportThrows(r)
  <2>1. RowsOf(request[r].p) # {}
    BY <1>4 DEF Report, ReportThrows, RequestInv, RequestHasItsRow
  <2> QED
    BY <1>4, <2>1, MoveStep DEF Report, ReportThrows
<1> QED
  BY <1>1, <1>2, <1>3, <1>4

-----------------------------------------------------------------------------
(* The reports.                                                            *)

\* Nothing waits in an empty buffer.
LEMMA NothingOccurs ==
  ASSUME buffer = <<>>, NEW m
  PROVE  Occurrences(m) = 0
<1>1. {i \in DOMAIN buffer : buffer[i] = m} = {}
  OBVIOUS
<1> QED
  BY <1>1, FS_EmptySet DEF Occurrences

\* A message that is shifted out waits once less, the others as often.
LEMMA TailOccurs ==
  ASSUME buffer \in Seq(Outgoing), buffer # <<>>, buffer' = Tail(buffer), NEW m
  PROVE  Occurrences(m)' <= Occurrences(m)
<1> DEFINE S == {i \in DOMAIN buffer' : buffer'[i] = m}
           T == {i \in DOMAIN buffer : buffer[i] = m}
           f == [i \in S |-> i + 1]
<1>1. /\ Tail(buffer) \in Seq(Outgoing)
      /\ Len(Tail(buffer)) = Len(buffer) - 1
      /\ \A i \in 1..Len(Tail(buffer)) : Tail(buffer)[i] = buffer[i + 1]
  BY HeadTailProperties
<1>2. Len(buffer) \in Nat /\ DOMAIN buffer = 1..Len(buffer)
      /\ DOMAIN buffer' = 1..(Len(buffer) - 1)
  BY <1>1
<1>3. IsFiniteSet(T)
  <2>1. IsFiniteSet(1..Len(buffer))
    BY <1>2, FS_Interval
  <2>2. T \in SUBSET (1..Len(buffer))
    BY <1>2
  <2> QED
    BY <2>1, <2>2, FS_Subset
<1>4. \A i \in S : i \in Int /\ i + 1 \in T
  BY <1>1, <1>2
<1>5. f \in Injection(S, T)
  <2>1. f \in [S -> T] /\ \A i, j \in S : f[i] = f[j] => i = j
    BY <1>4
  <2> QED
    BY <2>1 DEF Injection, IsInjective
<1>6. Cardinality(S) <= Cardinality(T)
  BY <1>3, <1>5, FS_Injection
<1> QED
  BY <1>6 DEF Occurrences

\* A message that is appended waits once more, the others as often.
LEMMA AppendOccurs ==
  ASSUME buffer \in Seq(Outgoing), NEW m \in Outgoing,
         buffer' = Append(buffer, m), NEW n
  PROVE  Occurrences(n)' = Occurrences(n) + (IF n = m THEN 1 ELSE 0)
<1> DEFINE S == {i \in DOMAIN buffer' : buffer'[i] = n}
           T == {i \in DOMAIN buffer : buffer[i] = n}
           last == Len(buffer) + 1
<1>1. /\ Append(buffer, m) \in Seq(Outgoing)
      /\ Len(Append(buffer, m)) = Len(buffer) + 1
      /\ \A i \in 1..Len(buffer) : Append(buffer, m)[i] = buffer[i]
      /\ Append(buffer, m)[Len(buffer) + 1] = m
  BY AppendProperties
<1>2. Len(buffer) \in Nat /\ DOMAIN buffer = 1..Len(buffer)
      /\ DOMAIN buffer' = 1..last
  BY <1>1
<1>3. IsFiniteSet(T) /\ last \notin T
  <2>1. IsFiniteSet(1..Len(buffer))
    BY <1>2, FS_Interval
  <2>2. T \in SUBSET (1..Len(buffer))
    BY <1>2
  <2> QED
    BY <1>2, <2>1, <2>2, FS_Subset
<1>4. S = IF n = m THEN T \cup {last} ELSE T
  BY <1>1, <1>2
<1>5. Cardinality(T \cup {last}) = Cardinality(T) + 1
  BY <1>3, FS_AddElement
<1>6. Cardinality(T) \in Nat
  BY <1>3, FS_CardinalityType
<1>7. Occurrences(n)' = Cardinality(S) /\ Occurrences(n) = Cardinality(T)
  BY DEF Occurrences
<1> HIDE DEF S, T, last
<1>8. CASE n = m
  BY <1>4, <1>5, <1>7, <1>8
<1>9. CASE n # m
  BY <1>4, <1>6, <1>7, <1>9
<1> QED
  BY <1>8, <1>9

\* What was published of a message and what waits of it.
Out(m) == published[m] + Occurrences(m)

\* It stays when published and buffer do.
LEMMA OutFrame ==
  ASSUME UNCHANGED outVars, NEW m
  PROVE  Out(m)' = Out(m)
  BY DEF outVars, Out, Occurrences

\* It is a number.
LEMMA OutType ==
  ASSUME BrokerType, NEW m \in Outgoing
  PROVE  Out(m) \in Nat /\ published[m] \in Nat /\ Occurrences(m) \in Nat
  BY WaitsType DEF BrokerType, Out

\* The flush moves what waits.  Only on a closed channel is a message lost.
LEMMA BrokerMoves ==
  ASSUME BrokerInv, BrokerNext, NEW m \in Outgoing
  PROVE  /\ SendThrows => UNCHANGED published /\ Occurrences(m)' <= Occurrences(m)
         /\ ~SendThrows => published'[m] >= published[m] /\ Out(m)' = Out(m)
<1> DEFINE Goal ==
             /\ SendThrows => /\ UNCHANGED published
                              /\ Occurrences(m)' <= Occurrences(m)
             /\ ~SendThrows => published'[m] >= published[m] /\ Out(m)' = Out(m)
<1> USE DEF BrokerInv
<1>0. Out(m) \in Nat /\ published[m] \in Nat /\ Occurrences(m) \in Nat
  BY OutType
<1>1. ASSUME NEW c \in Conns, Prefetched(c) PROVE Goal
  <2>1. Occurrences(m)' = 0
    <3>1. buffer' = <<>>
      BY <1>1 DEF Prefetched
    <3>2. {i \in DOMAIN buffer' : buffer'[i] = m} = {}
      BY <3>1
    <3> QED
      BY <3>2, FS_EmptySet DEF Occurrences
  <2>2. published'[m] = published[m] + Occurrences(m)
    BY <1>1 DEF Prefetched
  <2>3. ~SendThrows
    BY <1>1, NotConns DEF Prefetched, Usable, SendThrows, BrokerType
  <2> QED
    BY <1>0, <2>1, <2>2, <2>3 DEF Out
<1>2. ASSUME NEW c \in Conns, PrefetchedInVain(c) PROVE Goal
  <2>1. SendThrows /\ UNCHANGED published
    BY <1>2 DEF PrefetchedInVain, SendThrows
  <2>2. CASE buffer = <<>>
    BY <1>0, <1>2, <2>1, <2>2 DEF PrefetchedInVain, Occurrences
  <2>3. CASE buffer # <<>>
    BY <1>2, <2>1, <2>3, TailOccurs DEF PrefetchedInVain, BrokerType
  <2> QED
    BY <2>2, <2>3
<1>3. CASE UNCHANGED outVars
  <2>1. Out(m)' = Out(m) /\ Occurrences(m)' = Occurrences(m)
    BY <1>3, OutFrame DEF outVars, Occurrences
  <2> QED
    BY <1>0, <1>3, <2>1 DEF outVars
<1>4. ASSUME NEW c \in Conns,
             \/ PrefetchedWithoutChannel(c) \/ Consuming(c)
             \/ SocketFails(c) \/ ServerCloses(c) \/ ServerClosesUnheard(c)
      PROVE  UNCHANGED outVars
  BY <1>4 DEF PrefetchedWithoutChannel, Consuming, SocketFails, ServerCloses,
              ServerClosesUnheard, Lose
<1>5. ASSUME NEW n \in Inbound,
             \/ Enqueue(n)
             \/ \E c \in Conns : Deliver(c, n) \/ Acknowledge(c, n)
      PROVE  UNCHANGED outVars
  BY <1>5 DEF Enqueue, Deliver, Acknowledge
<1>6. ASSUME Connected \/ Refused \/ Restart PROVE UNCHANGED outVars
  BY <1>6 DEF Connected, Open, Refused, Restart
<1>7. \/ \E c \in Conns : Prefetched(c) \/ PrefetchedInVain(c)
      \/ UNCHANGED outVars
  BY <1>4, <1>5, <1>6 DEF BrokerNext, Connecting
<1> QED
  BY <1>1, <1>2, <1>3, <1>7

\* The end of the process forgets what waits.
LEMMA ExitForgets ==
  ASSUME BrokerExit, NEW m
  PROVE  ~up' /\ UNCHANGED published /\ Occurrences(m)' = 0
<1>1. Exit
  BY DEF BrokerExit, Crash, SocketFailsUnheard, AcknowledgeThrows
<1>2. {i \in DOMAIN buffer' : buffer'[i] = m} = {}
  BY <1>1 DEF Exit
<1> QED
  BY <1>1, <1>2, FS_EmptySet DEF Exit, Occurrences

\* So no message is ever out more often than it was sent.
LEMMA BrokerKeepsOut ==
  ASSUME BrokerInv, BrokerInv', BrokerNext \/ BrokerExit, NEW m \in Outgoing
  PROVE  Out(m)' <= Out(m)
<1>1. Out(m) \in Nat /\ published[m] \in Nat /\ Occurrences(m) \in Nat
  BY OutType DEF BrokerInv
<1>2. Occurrences(m)' \in Nat
  BY OccurrencesType DEF BrokerInv, BrokerType, Occurrences
<1>3. CASE BrokerNext
  BY <1>1, <1>2, <1>3, BrokerMoves DEF Out
<1>4. CASE BrokerExit
  BY <1>1, <1>4, ExitForgets DEF Out
<1> QED
  BY <1>3, <1>4

-----------------------------------------------------------------------------
(* The system.                                                             *)

\* Initially.
LEMMA InitIndInv == Init => IndInv
<1> SUFFICES ASSUME Init PROVE IndInv
  OBVIOUS
<1>1. BrokerInv
  BY BrokerInitInv DEF Init
<1>2. RequestInv
  BY DEF Init, RequestInv, RequestType, RequestHasItsRow, Idle, At, Pcs
<1>3. ReportsHaveRows
  <2> SUFFICES ASSUME NEW p \in Packages
               PROVE  /\ IsFiniteSet(RowsOf(p))
                      /\ published[p] + Occurrences(p)
                           + Cardinality(Reporting(p))
                             <= Cardinality(RowsOf(p))
    BY DEF ReportsHaveRows
  <2>1. RowsOf(p) = {} /\ Reporting(p) = {}
    BY PackageDeliveryAssumption DEF Init, RowsOf, Reporting, At, Idle
  <2>2. published[p] = 0 /\ Occurrences(p) = 0
    BY PackageDeliveryAssumption, NothingOccurs DEF Init, BrokerInit
  <2> QED
    BY <2>1, <2>2, FS_EmptySet
<1> QED
  BY <1>1, <1>2, <1>3 DEF IndInv

\* A report is about a package.
LEMMA ReportBroker ==
  ASSUME IndInv, NEW r \in Requests, Report(r)
  PROVE  BrokerInv'
<1>1. request[r].p \in Outgoing
  BY PackageDeliveryAssumption
     DEF Report, IndInv, RequestInv, RequestHasItsRow, At
<1> QED
  BY <1>1, SendStep DEF Report, IndInv

\* The broker's part and the requests' are preserved by every step.
LEMMA PartsStep == IndInv /\ [Next]_vars => (BrokerInv /\ RequestInv)'
<1> SUFFICES ASSUME IndInv, [Next]_vars PROVE (BrokerInv /\ RequestInv)'
  OBVIOUS
<1> USE DEF IndInv
<1>0. faults \in 0..MaxFaults
  BY DEF BrokerInv, BrokerType
<1>1. CASE BrokerNext /\ UNCHANGED deliveryVars
  <2>1. RequestInv'
    BY <1>1 DEF RequestInv, RequestType, RequestHasItsRow, RowsOf, At,
                deliveryVars
  <2> QED
    BY <1>1, <2>1, BrokerNextStep
<1>2. CASE BrokerExit /\ CutShort
  BY <1>2, BrokerExitStep, CutShortStep
<1>3. ASSUME NEW p \in Packages, CreatePackage(p) \/ BecomesDue(p)
      PROVE  (BrokerInv /\ RequestInv)'
  <2>1. BrokerInv'
    BY <1>0, <1>3, BrokerFrame DEF CreatePackage, BecomesDue, brokerVars
  <2> QED
    BY <1>3, <2>1, PackageStep
<1>4. ASSUME NEW r \in Requests, NEW p \in Packages,
             NEW k \in ClientKeys \cup {p}, Ask(r, p, k)
      PROVE  (BrokerInv /\ RequestInv)'
  <2>1. BrokerInv'
    BY <1>0, <1>4, BrokerFrame DEF Ask, brokerVars
  <2> QED
    BY <1>4, <2>1, AskStep
<1>5. ASSUME NEW r \in Requests, CreateAudit(r)
      PROVE  (BrokerInv /\ RequestInv)'
  <2>1. BrokerInv'
    BY <1>0, <1>5, BrokerFrame DEF CreateAudit, brokerVars
  <2> QED
    BY <1>5, <2>1, CreateAuditStep
<1>6. ASSUME NEW r \in Requests, Find(r) \/ KeyIsTaken(r) \/ ReportThrows(r)
      PROVE  (BrokerInv /\ RequestInv)'
  <2>1. BrokerInv'
    BY <1>0, <1>6, BrokerFrame DEF Find, KeyIsTaken, ReportThrows, brokerVars
  <2> QED
    BY <1>6, <2>1, HandleStep
<1>7. ASSUME NEW r \in Requests, CreateFails(r)
      PROVE  (BrokerInv /\ RequestInv)'
  <2>1. faults' \in 0..MaxFaults
    BY <1>0, <1>7, FaultType DEF CreateFails
  <2>2. BrokerInv'
    BY <1>7, <2>1, BrokerFrame DEF CreateFails
  <2> QED
    BY <1>7, <2>2, HandleStep
<1>8. ASSUME NEW r \in Requests, Report(r)
      PROVE  (BrokerInv /\ RequestInv)'
  BY <1>8, ReportBroker, HandleStep
<1>9. CASE UNCHANGED vars
  <2>1. BrokerInv'
    BY <1>0, <1>9, BrokerFrame DEF vars, brokerVars
  <2>2. RequestInv'
    BY <1>9 DEF vars, deliveryVars, RequestInv, RequestType, RequestHasItsRow,
                RowsOf, At
  <2> QED
    BY <2>1, <2>2
<1> QED
  BY <1>1, <1>2, <1>3, <1>4, <1>5, <1>6, <1>7, <1>8, <1>9 DEF Next, Handle

\* Who is about to report, as a set, is finite.
LEMMA ReportingType ==
  ASSUME NEW p
  PROVE  IsFiniteSet(Reporting(p)) /\ Cardinality(Reporting(p)) \in Nat
<1>1. IsFiniteSet(Requests) /\ Reporting(p) \subseteq Requests
  BY PackageDeliveryAssumption, FS_Interval DEF Requests, Reporting
<1> QED
  BY <1>1, FS_Subset, FS_CardinalityType

\* When no row goes, nobody starts to report and no more of it is out, a
\* package's reports still have their rows.
LEMMA FewerReports ==
  ASSUME IndInv, (BrokerInv /\ RequestInv)', NEW p \in Packages,
         Out(p)' <= Out(p), RowsOf(p)' = RowsOf(p),
         Reporting(p)' \subseteq Reporting(p)
  PROVE  /\ IsFiniteSet(RowsOf(p)')
         /\ Out(p)' + Cardinality(Reporting(p)') <= Cardinality(RowsOf(p)')
<1>1. /\ Cardinality(Reporting(p)') <= Cardinality(Reporting(p))
      /\ Cardinality(Reporting(p)') \in Nat
      /\ Cardinality(Reporting(p)) \in Nat
  BY ReportingType, FS_Subset, FS_CardinalityType
<1>2. p \in Outgoing
  BY PackageDeliveryAssumption
<1>3. Out(p) \in Nat
  BY <1>2, OutType DEF IndInv, BrokerInv
<1>4. Out(p)' \in Nat
  <2>1. published'[p] \in Nat
    BY <1>2 DEF BrokerInv, BrokerType
  <2>2. Occurrences(p)' \in Nat
    BY OccurrencesType DEF BrokerInv, BrokerType, Occurrences
  <2> QED
    BY <2>1, <2>2 DEF Out
<1>5. IsFiniteSet(RowsOf(p)) /\ Cardinality(RowsOf(p)) \in Nat
  BY FS_CardinalityType DEF IndInv, ReportsHaveRows
<1>6. Out(p) + Cardinality(Reporting(p)) <= Cardinality(RowsOf(p))
  BY DEF IndInv, ReportsHaveRows, Out
<1> QED
  BY <1>1, <1>3, <1>4, <1>5, <1>6

\* A row more, for the request that is going to report it.
LEMMA CreatedOne ==
  ASSUME IndInv, NEW r \in Requests, CreateAudit(r), NEW p \in Packages
  PROVE  LET more == IF p = request[r].p THEN 1 ELSE 0 IN
           /\ IsFiniteSet(RowsOf(p)')
           /\ Cardinality(RowsOf(p)') = Cardinality(RowsOf(p)) + more
           /\ Cardinality(Reporting(p)') = Cardinality(Reporting(p)) + more
<1> USE DEF IndInv, RequestInv
<1> DEFINE k == request[r].key
<1>1. k \in Keys /\ request[r].p \in Packages /\ audit[k] = NoPackage
      /\ request[r].pc = "create"
  BY DEF CreateAudit, RequestHasItsRow, At
<1>2. audit' = [audit EXCEPT ![k] = request[r].p]
      /\ request' = [request EXCEPT ![r].pc = "report"]
  BY DEF CreateAudit, Go
<1>3. IsFiniteSet(RowsOf(p)) /\ Cardinality(RowsOf(p)) \in Nat
  BY FS_CardinalityType DEF ReportsHaveRows
<1>4. IsFiniteSet(Reporting(p)) /\ Cardinality(Reporting(p)) \in Nat
  BY ReportingType
<1>5. CASE p # request[r].p
  <2>1. RowsOf(p)' = RowsOf(p)
    BY <1>1, <1>2, <1>5, PackageDeliveryAssumption DEF RowsOf, RequestType
  <2>2. Reporting(p)' = Reporting(p)
    BY <1>1, <1>2, <1>5 DEF Reporting, RequestType, At
  <2> QED
    BY <1>3, <1>4, <1>5, <2>1, <2>2
<1>6. CASE p = request[r].p
  <2>1. RowsOf(p)' = RowsOf(p) \cup {k} /\ k \notin RowsOf(p)
    BY <1>1, <1>2, <1>6, PackageDeliveryAssumption DEF RowsOf, RequestType
  <2>2. Reporting(p)' = Reporting(p) \cup {r} /\ r \notin Reporting(p)
    BY <1>1, <1>2, <1>6 DEF Reporting, RequestType, At
  <2>3. /\ IsFiniteSet(RowsOf(p) \cup {k})
        /\ Cardinality(RowsOf(p) \cup {k}) = Cardinality(RowsOf(p)) + 1
    BY <1>3, <2>1, FS_AddElement
  <2>4. Cardinality(Reporting(p) \cup {r}) = Cardinality(Reporting(p)) + 1
    BY <1>4, <2>2, FS_AddElement
  <2> QED
    BY <1>6, <2>1, <2>2, <2>3, <2>4
<1> QED
  BY <1>5, <1>6

LEMMA CreatedReports ==
  ASSUME IndInv, (BrokerInv /\ RequestInv)', NEW r \in Requests, CreateAudit(r),
         NEW p \in Packages
  PROVE  /\ IsFiniteSet(RowsOf(p)')
         /\ Out(p)' + Cardinality(Reporting(p)') <= Cardinality(RowsOf(p)')
<1>1. Out(p)' = Out(p)
  BY OutFrame DEF CreateAudit, brokerVars
<1>2. Out(p) + Cardinality(Reporting(p)) <= Cardinality(RowsOf(p))
  BY DEF IndInv, ReportsHaveRows, Out
<1>3. Out(p) \in Nat /\ Cardinality(Reporting(p)) \in Nat
      /\ Cardinality(RowsOf(p)) \in Nat
  BY ReportingType, OutType, FS_CardinalityType, PackageDeliveryAssumption
     DEF IndInv, BrokerInv, ReportsHaveRows
<1> QED
  BY <1>1, <1>2, <1>3, CreatedOne

\* A report that was about to be sent is out: published or in the buffer.
LEMMA SentOne ==
  ASSUME IndInv, NEW r \in Requests, Report(r), NEW p \in Packages
  PROVE  LET more == IF p = request[r].p THEN 1 ELSE 0 IN
           /\ RowsOf(p)' = RowsOf(p)
           /\ published'[p] >= published[p]
           /\ Out(p)' = Out(p) + more
           /\ Cardinality(Reporting(p)') = Cardinality(Reporting(p)) - more
<1> USE DEF IndInv, RequestInv
<1> DEFINE m == request[r].p
<1>1. m \in Outgoing /\ p \in Outgoing /\ request[r].pc = "report"
  BY PackageDeliveryAssumption DEF Report, RequestHasItsRow, At
<1>2. request' = [request EXCEPT ![r].pc = "delivered"] /\ audit' = audit
  BY DEF Report, Go
<1>3. RowsOf(p)' = RowsOf(p)
  BY <1>2 DEF RowsOf
<1>4. published[p] \in Nat /\ Occurrences(p) \in Nat
  BY <1>1, OutType DEF BrokerInv
<1>5. /\ published'[p] >= published[p]
      /\ Out(p)' = Out(p) + (IF p = m THEN 1 ELSE 0)
  <2>1. CASE channel = NoConn
    <3>1. buffer' = Append(buffer, m) /\ published' = published
      BY <2>1 DEF Report, Send
    <3>2. Occurrences(p)' = Occurrences(p) + (IF p = m THEN 1 ELSE 0)
      BY <1>1, <3>1, AppendOccurs DEF BrokerInv, BrokerType
    <3> QED
      BY <1>4, <3>1, <3>2 DEF Out
  <2>2. CASE channel # NoConn
    <3>1. published' = [published EXCEPT ![m] = @ + 1] /\ buffer' = buffer
      BY <2>2 DEF Report, Send
    <3>2. Occurrences(p)' = Occurrences(p)
      BY <3>1 DEF Occurrences
    <3>3. published'[p] = published[p] + (IF p = m THEN 1 ELSE 0)
      BY <1>1, <1>4, <3>1 DEF BrokerInv, BrokerType
    <3> QED
      BY <1>4, <3>2, <3>3 DEF Out
  <2> QED
    BY <2>1, <2>2
<1>6. IsFiniteSet(Reporting(p)) /\ Cardinality(Reporting(p)) \in Nat
  BY ReportingType
<1>7. CASE p # m
  <2>1. Reporting(p)' = Reporting(p)
    BY <1>1, <1>2, <1>7 DEF Reporting, RequestType, At
  <2> QED
    BY <1>3, <1>5, <1>6, <1>7, <2>1
<1>8. CASE p = m
  <2>1. Reporting(p)' = Reporting(p) \ {r} /\ r \in Reporting(p)
    BY <1>1, <1>2, <1>8 DEF Reporting, RequestType, At
  <2>2. Cardinality(Reporting(p) \ {r}) = Cardinality(Reporting(p)) - 1
    BY <1>6, <2>1, FS_RemoveElement
  <2> QED
    BY <1>3, <1>5, <1>8, <2>1, <2>2
<1> QED
  BY <1>7, <1>8

LEMMA SentReports ==
  ASSUME IndInv, NEW r \in Requests, Report(r), NEW p \in Packages
  PROVE  /\ IsFiniteSet(RowsOf(p)')
         /\ Out(p)' + Cardinality(Reporting(p)') <= Cardinality(RowsOf(p)')
<1>1. Out(p) + Cardinality(Reporting(p)) <= Cardinality(RowsOf(p))
  BY DEF IndInv, ReportsHaveRows, Out
<1>2. Out(p) \in Nat /\ Cardinality(Reporting(p)) \in Nat
      /\ Cardinality(RowsOf(p)) \in Nat /\ IsFiniteSet(RowsOf(p))
  BY ReportingType, OutType, FS_CardinalityType, PackageDeliveryAssumption
     DEF IndInv, BrokerInv, ReportsHaveRows
<1> QED
  BY <1>1, <1>2, SentOne

\* Every other step of a request: nothing is sent, and nobody starts to report.
LEMMA QuietReports ==
  ASSUME IndInv, NEW p \in Packages, UNCHANGED <<outVars, audit>>,
         \/ UNCHANGED request
         \/ \E r \in Requests :
               \/ Find(r) \/ KeyIsTaken(r) \/ ReportThrows(r) \/ CreateFails(r)
               \/ \E q \in Packages : \E k \in ClientKeys \cup {q} : Ask(r, q, k)
  PROVE  /\ Out(p)' <= Out(p)
         /\ RowsOf(p)' = RowsOf(p)
         /\ Reporting(p)' \subseteq Reporting(p)
<1>1. Out(p)' <= Out(p)
  <2>1. Out(p)' = Out(p)
    BY OutFrame
  <2> QED
    BY <2>1, OutType, PackageDeliveryAssumption DEF IndInv, BrokerInv
<1>2. RowsOf(p)' = RowsOf(p)
  BY DEF RowsOf
<1>3. ASSUME NEW s \in Requests, request'[s].pc = "report"
      PROVE  request'[s] = request[s]
  <2> USE DEF IndInv, RequestInv, RequestType, Go
  <2>1. CASE UNCHANGED request
    BY <2>1
  <2>2. ASSUME NEW r \in Requests,
               Find(r) \/ KeyIsTaken(r) \/ ReportThrows(r) \/ CreateFails(r)
        PROVE  request'[s] = request[s]
    BY <1>3, <2>2 DEF Find, KeyIsTaken, ReportThrows, CreateFails
  <2>3. ASSUME NEW r \in Requests, NEW q \in Packages,
               NEW k \in ClientKeys \cup {q}, Ask(r, q, k)
        PROVE  request'[s] = request[s]
    BY <1>3, <2>3 DEF Ask
  <2> QED
    BY <2>1, <2>2, <2>3
<1>4. Reporting(p)' \subseteq Reporting(p)
  BY <1>3 DEF Reporting, At
<1> QED
  BY <1>1, <1>2, <1>4

\* The reports have their rows after every step.
LEMMA ReportsStep ==
  ASSUME IndInv, [Next]_vars
  PROVE  ReportsHaveRows'
<1> SUFFICES ASSUME NEW p \in Packages
             PROVE  /\ IsFiniteSet(RowsOf(p)')
                    /\ Out(p)' + Cardinality(Reporting(p)')
                         <= Cardinality(RowsOf(p)')
  BY DEF ReportsHaveRows, Out
<1>0. (BrokerInv /\ RequestInv)'
  BY PartsStep
<1> DEFINE Goal == /\ IsFiniteSet(RowsOf(p)')
                  /\ Out(p)' + Cardinality(Reporting(p)')
                       <= Cardinality(RowsOf(p)')
<1>1. CASE \/ BrokerNext /\ UNCHANGED deliveryVars
           \/ BrokerExit /\ CutShort
  <2>1. Out(p)' <= Out(p)
    BY <1>0, <1>1, BrokerKeepsOut, PackageDeliveryAssumption DEF IndInv
  <2>2. RowsOf(p)' = RowsOf(p)
    BY <1>1 DEF deliveryVars, CutShort, RowsOf
  <2>3. Reporting(p)' \subseteq Reporting(p)
    BY <1>1 DEF deliveryVars, CutShort, Reporting, At, IndInv, RequestInv,
                RequestType
  <2> QED
    BY <1>0, <2>1, <2>2, <2>3, FewerReports
<1>2. ASSUME NEW r \in Requests, CreateAudit(r) PROVE Goal
  BY <1>0, <1>2, CreatedReports
<1>3. ASSUME NEW r \in Requests, Report(r) PROVE Goal
  BY <1>3, SentReports
<1>4. CASE \/ UNCHANGED vars
           \/ \E q \in Packages : CreatePackage(q) \/ BecomesDue(q)
  <2>1. UNCHANGED <<outVars, audit, request>>
    BY <1>4 DEF vars, brokerVars, deliveryVars, CreatePackage, BecomesDue
  <2> QED
    BY <1>0, <2>1, QuietReports, FewerReports
<1>5. ASSUME NEW r \in Requests,
             Find(r) \/ KeyIsTaken(r) \/ ReportThrows(r) \/ CreateFails(r)
      PROVE  Goal
  <2>1. UNCHANGED <<outVars, audit>>
    BY <1>5 DEF Find, KeyIsTaken, ReportThrows, CreateFails, brokerVars
  <2> QED
    BY <1>0, <1>5, <2>1, QuietReports, FewerReports
<1>6. ASSUME NEW r \in Requests, NEW q \in Packages,
             NEW k \in ClientKeys \cup {q}, Ask(r, q, k)
      PROVE  Goal
  <2>1. UNCHANGED <<outVars, audit>>
    BY <1>6 DEF Ask, brokerVars
  <2> QED
    BY <1>0, <1>6, <2>1, QuietReports, FewerReports
<1> QED
  BY <1>1, <1>2, <1>3, <1>4, <1>5, <1>6 DEF Next, Handle

\* Preserved by every step.
LEMMA IndInvStep == IndInv /\ [Next]_vars => IndInv'
  BY PartsStep, ReportsStep DEF IndInv

\* IndInv holds in every state: whatever overlaps, fails or restarts, the
\* channel is served or awaited, the buffer is ahead of a flush, and requests
\* and reports agree with the rows.
THEOREM DeliveryInductive == Spec => []IndInv
  BY InitIndInv, IndInvStep, PTL DEF Spec

\* A running process without a call or a timer has a channel that works and
\* consumes, and an empty buffer.
THEOREM NotStranded == Spec => []NeverStranded
<1>1. IndInv => NeverStranded
  BY DEF IndInv, BrokerInv, ChannelIsAwaited, ChannelIsServed, BufferIsAwaited,
         NeverStranded, Trying, BrokerType, Usable
<1> QED
  BY <1>1, DeliveryInductive, PTL

\* Whoever is told that a package was delivered can rely on a row of it.
THEOREM AnswersAreBacked == Spec => []AnswerHasItsRow
<1>1. IndInv => AnswerHasItsRow
  BY DEF IndInv, RequestInv, RequestHasItsRow, AnswerHasItsRow
<1> QED
  BY <1>1, DeliveryInductive, PTL

\* The central hears of a delivery once per row at most.
THEOREM OneReportPerRow == Spec => []ReportedOncePerRow
<1>1. IndInv => ReportedOncePerRow
  <2> SUFFICES ASSUME IndInv, NEW p \in Packages
               PROVE  published[p] + Occurrences(p) <= Cardinality(RowsOf(p))
    BY DEF ReportedOncePerRow
  <2>1. /\ published[p] \in Nat
        /\ Occurrences(p) \in Nat
        /\ Cardinality(Reporting(p)) \in Nat
        /\ Cardinality(RowsOf(p)) \in Nat
    BY OutType, ReportingType, FS_CardinalityType, PackageDeliveryAssumption
       DEF IndInv, BrokerInv, ReportsHaveRows
  <2> QED
    BY <2>1 DEF IndInv, ReportsHaveRows
<1> QED
  BY <1>1, DeliveryInductive, PTL

-----------------------------------------------------------------------------
(* The refinement of DeliveryPromise.                                      *)

\* The reports of p that are still to come.
Due(p) == Occurrences(p) + Cardinality(Reporting(p))

\* They are counted by numbers, and so are the rows.
LEMMA DueType ==
  ASSUME IndInv, NEW p \in Packages
  PROVE  /\ Due(p) \in Nat
         /\ published[p] \in Nat
         /\ Out(p) + Cardinality(Reporting(p)) = published[p] + Due(p)
         /\ IsFiniteSet(RowsOf(p)) /\ Cardinality(RowsOf(p)) \in Nat
<1>1. published[p] \in Nat /\ Occurrences(p) \in Nat
  BY OutType, PackageDeliveryAssumption DEF IndInv, BrokerInv
<1>2. Cardinality(Reporting(p)) \in Nat
  BY ReportingType
<1> QED
  BY <1>1, <1>2, FS_CardinalityType DEF Due, Out, IndInv, ReportsHaveRows

\* The same of the state after a step.
LEMMA DueTypeNext ==
  ASSUME IndInv', NEW p \in Packages
  PROVE  /\ Due(p)' \in Nat
         /\ Occurrences(p)' \in Nat
         /\ published'[p] \in Nat
         /\ Out(p)' + Cardinality(Reporting(p)') = published'[p] + Due(p)'
         /\ IsFiniteSet(RowsOf(p)') /\ Cardinality(RowsOf(p)') \in Nat
<1>1. published'[p] \in Nat /\ Occurrences(p)' \in Nat
  BY OccurrencesType, PackageDeliveryAssumption
     DEF IndInv, BrokerInv, BrokerType, Occurrences
<1>2. Cardinality(Reporting(p)') \in Nat
  <2>1. IsFiniteSet(Requests) /\ Reporting(p)' \subseteq Requests
    BY PackageDeliveryAssumption, FS_Interval DEF Requests, Reporting
  <2> QED
    BY <2>1, FS_Subset, FS_CardinalityType
<1>3. IsFiniteSet(RowsOf(p)')
  BY DEF IndInv, ReportsHaveRows
<1> QED
  BY <1>1, <1>2, <1>3, FS_CardinalityType DEF Due, Out

\* Who was told that a package was delivered stays told, and the row is there.
LEMMA AnswersStay == ASSUME IndInv, [Next]_vars PROVE Answered \subseteq Answered'
<1> SUFFICES ASSUME NEW s \in Requests, request[s].pc \in {"delivered", "already"}
             PROVE  request'[s] = request[s]
  BY DEF Answered
<1> USE DEF IndInv, RequestInv, RequestType, At, Go
<1>1. CASE CutShort
  BY <1>1 DEF CutShort, Ended, Answers
<1>2. ASSUME NEW r \in Requests, Handle(r) \/ CreateFails(r)
      PROVE  request'[s] = request[s]
  BY <1>2 DEF Handle, Find, CreateAudit, KeyIsTaken, Report, ReportThrows,
              CreateFails
<1>3. ASSUME NEW r \in Requests, NEW q \in Packages, NEW k \in ClientKeys \cup {q},
             Ask(r, q, k)
      PROVE  request'[s] = request[s]
  BY <1>3 DEF Ask
<1> QED
  BY <1>1, <1>2, <1>3 DEF Next, vars, deliveryVars, CreatePackage, BecomesDue

LEMMA AnsweredHaveRows ==
  ASSUME IndInv'
  PROVE  \A p \in Answered' : p \in Packages /\ Cardinality(RowsOf(p)') > 0
<1> SUFFICES ASSUME NEW p \in Answered'
             PROVE  p \in Packages /\ Cardinality(RowsOf(p)') > 0
  OBVIOUS
<1>1. p \in Packages /\ RowsOf(p)' # {}
  BY DEF Answered, RowsOf, IndInv, RequestInv, RequestHasItsRow, At
<1>2. IsFiniteSet(RowsOf(p)') /\ Cardinality(RowsOf(p)') \in Nat
  BY <1>1, DueTypeNext
<1>3. Cardinality(RowsOf(p)') # 0
  BY <1>1, <1>2, FS_EmptySet
<1> QED
  BY <1>1, <1>2, <1>3

\* A step that moves reports and loses none is the promise's Tell.
LEMMA Telling ==
  ASSUME IndInv, IndInv', [Next]_vars,
         \A p \in Packages : /\ RowsOf(p)' = RowsOf(p)
                             /\ published'[p] >= published[p]
                             /\ published'[p] + Due(p)' = published[p] + Due(p)
  PROVE  Promise!Tell
<1>1. \A p \in Packages : Due(p) \in Nat /\ Due(p)' \in Nat
  BY DueType, DueTypeNext
<1>2. published' \in [Packages -> Nat]
  BY PackageDeliveryAssumption DEF IndInv, BrokerInv, BrokerType
<1>3. \A p \in Answered' : p \in Packages /\ Cardinality(RowsOf(p)') > 0
  BY AnsweredHaveRows
<1>4. Answered \subseteq Answered'
  BY AnswersStay
<1> QED
  BY <1>1, <1>2, <1>3, <1>4 DEF Promise!Tell, Promise!Counts, Due

\* One that loses some, without a process or on a closed channel, its Lose.
LEMMA Losing ==
  ASSUME IndInv, IndInv', ~up' \/ SendThrows, UNCHANGED published,
         Answered' = Answered,
         \A p \in Packages : RowsOf(p)' = RowsOf(p) /\ Due(p)' <= Due(p)
  PROVE  Promise!Lose
<1>1. \A p \in Packages : Due(p) \in Nat /\ Due(p)' \in Nat
  BY DueType, DueTypeNext
<1> QED
  BY <1>1 DEF Promise!Lose, Promise!Counts, Due

\* The broker and the process.
LEMMA BrokerRefines ==
  ASSUME IndInv, IndInv', [Next]_vars,
         \/ BrokerNext /\ UNCHANGED deliveryVars
         \/ BrokerExit /\ CutShort
  PROVE  Promise!Tell \/ Promise!Lose
<1>0. \A p \in Packages : /\ Due(p) \in Nat /\ Due(p)' \in Nat
                          /\ RowsOf(p)' = RowsOf(p)
  BY DueType, DueTypeNext DEF deliveryVars, CutShort, RowsOf
<1>1. CASE BrokerNext /\ UNCHANGED deliveryVars
  <2>1. \A p \in Packages : Reporting(p)' = Reporting(p)
    BY <1>1 DEF deliveryVars, Reporting, At
  <2>2. \A p \in Packages : /\ Occurrences(p) \in Nat /\ Occurrences(p)' \in Nat
                            /\ published[p] \in Nat /\ published'[p] \in Nat
                            /\ Cardinality(Reporting(p)) \in Nat
    BY ReportingType, OutType, DueTypeNext, PackageDeliveryAssumption
       DEF IndInv, BrokerInv
  <2>3. CASE SendThrows
    <3>1. \A p \in Packages : /\ UNCHANGED published
                              /\ Occurrences(p)' <= Occurrences(p)
      BY <1>1, <2>3, BrokerMoves, PackageDeliveryAssumption DEF IndInv
    <3>2. \A p \in Packages : Due(p)' <= Due(p)
      BY <2>1, <2>2, <3>1 DEF Due
    <3>3. Answered' = Answered
      BY <1>1 DEF deliveryVars, Answered
    <3>4. CASE Packages = {}
      BY <1>0, <3>4, Telling
    <3>5. CASE Packages # {}
      BY <1>0, <2>3, <3>1, <3>2, <3>3, <3>5, Losing
    <3> QED
      BY <3>4, <3>5
  <2>4. CASE ~SendThrows
    <3>1. \A p \in Packages : published'[p] >= published[p] /\ Out(p)' = Out(p)
      BY <1>1, <2>4, BrokerMoves, PackageDeliveryAssumption DEF IndInv
    <3>2. \A p \in Packages : published'[p] + Due(p)' = published[p] + Due(p)
      BY <2>1, <2>2, <3>1 DEF Due, Out
    <3> QED
      BY <1>0, <3>1, <3>2, Telling
  <2> QED
    BY <2>3, <2>4
<1>2. CASE BrokerExit /\ CutShort
  <2>1. ~up' /\ UNCHANGED published
    BY <1>2, ExitForgets
  <2>2. \A p \in Packages : Occurrences(p)' = 0
    BY <1>2, ExitForgets
  <2>3. \A p \in Packages : Reporting(p)' = {}
    BY <1>2 DEF CutShort, Reporting, At, Ended, Answers, IndInv, RequestInv,
                RequestType
  <2>4. \A p \in Packages : Due(p)' <= Due(p)
    BY <1>0, <2>2, <2>3, FS_EmptySet DEF Due
  <2>5. Answered' = Answered
    BY <1>2 DEF CutShort, Answered, At, Ended, Answers, IndInv, RequestInv,
                RequestType
  <2> QED
    BY <1>0, <2>1, <2>4, <2>5, Losing
<1> QED
  BY <1>1, <1>2

\* A step of a request that creates no row and sends nothing.
LEMMA QuietRefines ==
  ASSUME IndInv, IndInv', [Next]_vars, UNCHANGED <<outVars, audit>>,
         \/ UNCHANGED request
         \/ \E r \in Requests :
               \/ Find(r) \/ KeyIsTaken(r) \/ CreateFails(r)
               \/ \E q \in Packages : \E k \in ClientKeys \cup {q} : Ask(r, q, k)
  PROVE  Promise!Tell
<1>1. ASSUME NEW s \in Requests, request[s].pc = "report" \/ request'[s].pc = "report"
      PROVE  request'[s] = request[s]
  <2> USE DEF IndInv, RequestInv, RequestType, Go, At
  <2>1. ASSUME NEW r \in Requests, Find(r) \/ KeyIsTaken(r) \/ CreateFails(r)
        PROVE  request'[s] = request[s]
    BY <1>1, <2>1 DEF Find, KeyIsTaken, CreateFails
  <2>2. ASSUME NEW r \in Requests, NEW q \in Packages,
               NEW k \in ClientKeys \cup {q}, Ask(r, q, k)
        PROVE  request'[s] = request[s]
    BY <1>1, <2>2 DEF Ask
  <2> QED
    BY <2>1, <2>2
<1>2. \A p \in Packages : Reporting(p)' = Reporting(p)
  BY <1>1 DEF Reporting, At
<1>3. \A p \in Packages : /\ Due(p)' = Due(p)
                          /\ RowsOf(p)' = RowsOf(p)
                          /\ published'[p] = published[p]
                          /\ published[p] \in Nat
  BY <1>2, DueType DEF Due, Occurrences, outVars, RowsOf
<1> QED
  BY <1>3, Telling

\* A row, and its report that is to come.
LEMMA CreateRefines ==
  ASSUME IndInv, IndInv', NEW r \in Requests, CreateAudit(r)
  PROVE  Promise!Record(request[r].p)
<1> DEFINE q == request[r].p
<1>1. \A p \in Packages :
         /\ Due(p)' = Due(p) + (IF p = q THEN 1 ELSE 0)
         /\ Cardinality(RowsOf(p)')
              = Cardinality(RowsOf(p)) + (IF p = q THEN 1 ELSE 0)
         /\ Due(p) \in Nat /\ Cardinality(RowsOf(p)) \in Nat
  <2> SUFFICES ASSUME NEW p \in Packages
               PROVE  /\ Due(p)' = Due(p) + (IF p = q THEN 1 ELSE 0)
                      /\ Cardinality(RowsOf(p)')
                           = Cardinality(RowsOf(p)) + (IF p = q THEN 1 ELSE 0)
                      /\ Due(p) \in Nat /\ Cardinality(RowsOf(p)) \in Nat
    OBVIOUS
  <2>1. Occurrences(p)' = Occurrences(p)
    BY DEF CreateAudit, brokerVars, outVars, Occurrences
  <2>2. Occurrences(p) \in Nat /\ Cardinality(Reporting(p)) \in Nat
    BY ReportingType, OutType, PackageDeliveryAssumption DEF IndInv, BrokerInv
  <2> QED
    BY <2>1, <2>2, CreatedOne, DueType DEF Due
<1>2. /\ UNCHANGED <<published, up, channel>>
      /\ request[r].pc = "create"
      /\ request' = [request EXCEPT ![r].pc = "report"]
      /\ q \in Packages
  BY DEF CreateAudit, Go, At, brokerVars, outVars, connVars, IndInv, RequestInv,
         RequestHasItsRow
<1>3. Answered' = Answered
  <2>1. \A s \in Requests :
           /\ request'[s].p = request[s].p
           /\ request'[s].pc \in {"delivered", "already"}
                <=> request[s].pc \in {"delivered", "already"}
    BY <1>2 DEF IndInv, RequestInv, RequestType
  <2> QED
    BY <2>1 DEF Answered
<1>4. UNCHANGED SendThrows
  BY <1>2 DEF SendThrows
<1>5. [p \in Packages |-> Cardinality(RowsOf(p))]'
        = [[p \in Packages |-> Cardinality(RowsOf(p))] EXCEPT ![q] = @ + 1]
  BY <1>1, <1>2
<1>6. [p \in Packages |-> Due(p)]' = [[p \in Packages |-> Due(p)] EXCEPT ![q] = @ + 1]
  BY <1>1, <1>2
<1>7. UNCHANGED <<published, Answered, up /\ ~SendThrows>>
  BY <1>2, <1>3, <1>4
<1> QED
  BY <1>5, <1>6, <1>7 DEF Promise!Record, Due

\* The report.
LEMMA ReportRefines ==
  ASSUME IndInv, IndInv', [Next]_vars, NEW r \in Requests,
         Report(r) \/ ReportThrows(r)
  PROVE  Promise!Tell \/ Promise!Lose
<1>1. CASE Report(r)
  <2>1. ASSUME NEW p \in Packages
        PROVE  /\ RowsOf(p)' = RowsOf(p)
               /\ published'[p] >= published[p]
               /\ published'[p] + Due(p)' = published[p] + Due(p)
    <3> DEFINE more == IF p = request[r].p THEN 1 ELSE 0
    <3>1. /\ RowsOf(p)' = RowsOf(p)
          /\ published'[p] >= published[p]
          /\ Out(p)' = Out(p) + more
          /\ Cardinality(Reporting(p)') = Cardinality(Reporting(p)) - more
      BY <1>1, SentOne
    <3>2. /\ Out(p) + Cardinality(Reporting(p)) = published[p] + Due(p)
          /\ Out(p)' + Cardinality(Reporting(p)') = published'[p] + Due(p)'
      BY DueType, DueTypeNext
    <3>3. Out(p) \in Nat /\ Cardinality(Reporting(p)) \in Nat /\ more \in {0, 1}
      BY ReportingType, OutType, PackageDeliveryAssumption DEF IndInv, BrokerInv
    <3> HIDE DEF more
    <3> QED
      BY <3>1, <3>2, <3>3
  <2> QED
    BY <2>1, Telling
<1>2. CASE ReportThrows(r)
  <2> USE DEF IndInv, RequestInv, RequestType
  <2>1. /\ SendThrows /\ UNCHANGED <<published, buffer, audit>>
        /\ request[r].pc = "report"
        /\ request' = [request EXCEPT ![r].pc = "error"]
    BY <1>2 DEF ReportThrows, Go, At, brokerVars, outVars
  <2>2. \A p \in Packages : Reporting(p)' \subseteq Reporting(p)
    BY <2>1 DEF Reporting, At
  <2>3. \A p \in Packages : /\ Cardinality(Reporting(p)') <= Cardinality(Reporting(p))
                            /\ Cardinality(Reporting(p)) \in Nat
                            /\ Cardinality(Reporting(p)') \in Nat
    BY <2>2, ReportingType, FS_Subset, FS_CardinalityType
  <2>4. \A p \in Packages : RowsOf(p)' = RowsOf(p) /\ Due(p)' <= Due(p)
    <3>1. \A p \in Packages : Occurrences(p) \in Nat /\ Occurrences(p)' = Occurrences(p)
      BY <2>1, OutType, PackageDeliveryAssumption DEF BrokerInv, Occurrences
    <3> QED
      BY <2>1, <2>3, <3>1 DEF Due, RowsOf
  <2>5. Answered' = Answered
    <3>1. \A s \in Requests :
             /\ request'[s].p = request[s].p
             /\ request'[s].pc \in {"delivered", "already"}
                  <=> request[s].pc \in {"delivered", "already"}
      BY <2>1
    <3> QED
      BY <3>1 DEF Answered
  <2> QED
    BY <2>1, <2>4, <2>5, Losing
<1> QED
  BY <1>1, <1>2

\* Every step is one of the promise's.
LEMMA PromiseStep ==
  ASSUME IndInv, IndInv', [Next]_vars
  PROVE  [Promise!Next]_(Promise!promiseVars)
<1> SUFFICES \/ Promise!Tell \/ Promise!Lose
             \/ \E p \in Packages : Promise!Record(p)
  BY DEF Promise!Next
<1>1. CASE \/ BrokerNext /\ UNCHANGED deliveryVars
           \/ BrokerExit /\ CutShort
  BY <1>1, BrokerRefines
<1>2. ASSUME NEW r \in Requests, CreateAudit(r)
      PROVE  \E p \in Packages : Promise!Record(p)
  <2>1. request[r].p \in Packages
    BY <1>2 DEF CreateAudit, At, IndInv, RequestInv, RequestHasItsRow
  <2> QED
    BY <1>2, <2>1, CreateRefines
<1>3. ASSUME NEW r \in Requests, Report(r) \/ ReportThrows(r)
      PROVE  Promise!Tell \/ Promise!Lose
  BY <1>3, ReportRefines
<1>4. CASE \/ UNCHANGED vars
           \/ \E q \in Packages : CreatePackage(q) \/ BecomesDue(q)
  <2>1. UNCHANGED <<outVars, audit, request>>
    BY <1>4 DEF vars, brokerVars, deliveryVars, CreatePackage, BecomesDue
  <2> QED
    BY <2>1, QuietRefines
<1>5. ASSUME NEW r \in Requests,
             \/ Find(r) \/ KeyIsTaken(r) \/ CreateFails(r)
             \/ \E q \in Packages : \E k \in ClientKeys \cup {q} : Ask(r, q, k)
      PROVE  Promise!Tell
  <2>1. UNCHANGED <<outVars, audit>>
    BY <1>5 DEF Find, KeyIsTaken, CreateFails, Ask, brokerVars
  <2> QED
    BY <1>5, <2>1, QuietRefines
<1> QED
  BY <1>1, <1>2, <1>3, <1>4, <1>5 DEF Next, Handle

\* The initial states are the promise's.
LEMMA PromiseInit == Init => Promise!Init
<1> SUFFICES ASSUME Init PROVE Promise!Init
  OBVIOUS
<1>1. \A p \in Packages : RowsOf(p) = {} /\ Reporting(p) = {}
  BY PackageDeliveryAssumption DEF Init, RowsOf, Reporting, At, Idle
<1>2. \A p \in Packages : Occurrences(p) = 0
  BY NothingOccurs DEF Init, BrokerInit
<1>3. published = [p \in Packages |-> 0]
  BY PackageDeliveryAssumption DEF Init, BrokerInit
<1>4. Answered = {}
  BY DEF Init, Answered, Idle
<1>5. up /\ ~SendThrows
  BY NotConns DEF Init, BrokerInit, SendThrows
<1> QED
  BY <1>1, <1>2, <1>3, <1>4, <1>5, FS_EmptySet DEF Promise!Init

\* Requests, keys, the buffer and the overlapping calls of connect() implement
\* DeliveryPromise: what was recorded has one report each, which nothing but the
\* end of the process or a closed channel loses.
THEOREM DeliveryRefines == Spec => KeepsReports
  BY PromiseInit, PromiseStep, DeliveryInductive, PTL
  DEF Spec, KeepsReports, Promise!Spec
=============================================================================
