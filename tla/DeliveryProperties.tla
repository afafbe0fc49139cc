------------------------- MODULE DeliveryProperties -------------------------
(***************************************************************************)
(* What must hold of PackageDelivery, and of the Broker below it.          *)
(***************************************************************************)
EXTENDS PackageDelivery

Pcs == {"idle", "find", "create", "report"} \cup Answers

BrokerType ==
    /\ up \in BOOLEAN
    /\ call \in [Conns -> Steps]
    /\ live \subseteq Conns
    /\ target \in [Conns -> Conns \cup {NoConn}]
    /\ consumers \in [Conns -> Nat]
    /\ channel \in Conns \cup {NoConn, Closed}
    /\ attempts \in Nat
    /\ buffer \in Seq(Outgoing)
    /\ published \in [Outgoing -> Nat]
    /\ inbox \subseteq Inbound
    /\ handling \in [Conns -> SUBSET Inbound]
    /\ handled \subseteq Inbound
    /\ faults \in 0..MaxFaults

RequestType ==
    /\ package \in [Packages -> {"absent", "held", "due"}]
    /\ audit \in [Keys -> Packages \cup {NoPackage, OldPackage}]
    /\ request \in [Requests -> [pc : Pcs, p : Packages \cup {NoPackage},
                                 key : Keys \cup {NoPackage}]]

\* Every variable keeps the shape its table, map or field has.
TypeOK == BrokerType /\ RequestType

\* A call of connect() is under way.
Trying(c) == call[c] \in {"prefetch", "consume"}

\* A running process that has neither a call nor a timer left has a channel
\* that works and consumes, and nothing that waits to be sent: no overlap of
\* calls, listeners and catches leaves the city deaf, or a message in the
\* buffer, with nothing to wake it.
NeverStranded ==
    up => \/ attempts > 0
          \/ \E c \in Conns : Trying(c)
          \/ Usable /\ consumers[channel] > 0 /\ buffer = <<>>

\* The central is told of a delivery at most once per row, although the
\* rows are read before they are created, a taken key is not an error, and
\* the reports wait in a buffer that several connections flush.
ReportedOncePerRow ==
    \A p \in Packages :
        published[p] + Occurrences(p) <= Cardinality(RowsOf(p))

\* A caller that is told a package was delivered can rely on a row of that
\* package, also when its key was taken by a request about another one.
AnswerHasItsRow ==
    \A r \in Requests :
        request[r].pc \in {"delivered", "already"} => RowsOf(request[r].p) # {}

\* The requests that are about to report.
Reporting(p) == {r \in Requests : At(r, "report") /\ request[r].p = p}

Answered == {request[r].p : r \in {q \in Requests :
                                    request[q].pc \in {"delivered", "already"}}}

\* Requests, keys, buffer and overlapping connections implement
\* DeliveryPromise: every row has one report, which is about to be sent, in the
\* buffer or published, until the process ends or a closed channel loses it.
Promise == INSTANCE DeliveryPromise WITH
    rows <- [p \in Packages |-> Cardinality(RowsOf(p))],
    pending <- [p \in Packages |-> Occurrences(p) + Cardinality(Reporting(p))],
    told <- published,
    answered <- Answered,
    well <- up /\ ~SendThrows

KeepsReports == Promise!Spec

\* Once nothing fails any more the city ends up with a channel that works,
\* a consumer on it and nothing left to send, and stays there.
Recovers ==
    <>[](up /\ Usable /\ consumers[channel] > 0 /\ buffer = <<>>)

\* Every message that reaches the queue is handled in the end: what a lost
\* connection or a dying process had taken is handed out again.
QueueIsDrained == \A m \in Inbound : m \in inbox ~> m \in handled

\* A delivery that was recorded is reported, whatever happens to the
\* connections, while the process does not end and this.channel is never left
\* with a closed channel: then send() and the flush throw.
RecordedIsReported ==
    [](up /\ ~SendThrows)
      => \A p \in Packages : RowsOf(p) # {} ~> published[p] > 0

-----------------------------------------------------------------------------
(* The inductive invariant of DeliveryProofs, in parts.                    *)

\* A city without a working channel has a call to come.
ChannelIsAwaited == up => Usable \/ attempts > 0

\* The call that made the channel is about to consume on it, unless somebody
\* consumes already; a call that does not await consume asked nobody.
ChannelIsServed ==
    /\ Usable => \/ call[channel] = "prefetch"
                 \/ call[channel] = "consume" /\ target[channel] = channel
                 \/ consumers[channel] > 0
    /\ \A c \in Conns : call[c] # "consume" => target[c] = NoConn

\* What waits in the buffer waits for a call that has not flushed yet.
BufferIsAwaited ==
    up /\ buffer # <<>> => \/ attempts > 0
                           \/ \E c \in Conns : call[c] = "prefetch"

BrokerInv ==
    /\ BrokerType
    /\ ChannelIsAwaited
    /\ ChannelIsServed
    /\ BufferIsAwaited

\* A request past the creation of its row has a row, and so has its answer.
RequestHasItsRow ==
    \A r \in Requests :
        /\ ~At(r, "idle") =>
              request[r].p \in Packages /\ request[r].key \in Keys
        /\ request[r].pc \in {"report", "delivered", "already"}
             => RowsOf(request[r].p) # {}

RequestInv == RequestType /\ RequestHasItsRow

\* ReportedOncePerRow, with the reports that are about to be sent: each of them
\* has a row of its own.
ReportsHaveRows ==
    \A p \in Packages :
        /\ IsFiniteSet(RowsOf(p))
        /\ published[p] + Occurrences(p) + Cardinality(Reporting(p))
             <= Cardinality(RowsOf(p))

IndInv == BrokerInv /\ RequestInv /\ ReportsHaveRows
=============================================================================
