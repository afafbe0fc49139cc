------------------------------- MODULE Broker -------------------------------
(***************************************************************************)
(* AmqpMessageBrokerService: the connection of a city to RabbitMQ.         *)
(*                                                                         *)
(* connect() dials, opens a channel, sets the prefetch, registers the      *)
(* listeners of the connection, flushes the messages that waited for a     *)
(* channel and starts to consume.  Whatever fails schedules another        *)
(* connect(), and so does every 'error' and every 'close' of a connection. *)
(* this.channel is one field that all calls and listeners write, so calls  *)
(* that overlap use each other's channel.                                  *)
(*                                                                         *)
(* A connection is named after the call of connect() that made it.         *)
(* RabbitMQ and amqplib are external: a connection that is lost takes its  *)
(* channel with it, the messages that were not acknowledged go back to the *)
(* queue, and every use of the channel throws.  A failing socket emits     *)
(* 'error' and then 'close', a close by the server only 'close'.           *)
(***************************************************************************)
EXTENDS Integers, Sequences, FiniteSets

CONSTANTS
    MaxConns,     \* bound: connections in use at once
    Outgoing,     \* messages this city sends
    Inbound,      \* messages the others put into the city's queue
    Prefetch,     \* prefetch(10)
    MaxFaults     \* bound: lost connections, refusals, errors, crashes

ASSUME BrokerAssumption ==
    /\ MaxConns \in Nat \ {0}
    /\ Prefetch \in Nat \ {0}
    /\ MaxFaults \in Nat

Conns == 1..MaxConns
NoConn == 0             \* null
Closed == MaxConns + 1  \* the channel of a connection that is gone

VARIABLES
    up,           \* the process runs
    call,         \* call[c]: where connect() awaits, or "done" when it returned
    live,         \* the connections whose socket is open
    target,       \* target[c]: whose channel the call asked to consume
    consumers,    \* consumers[c]: consumers of the queue on c's channel
    channel,      \* this.channel, by its connection
    attempts,     \* calls of connect() that are scheduled or dial
    buffer,       \* pendingMessages
    published,    \* published[m]: times m was published (observer)
    inbox,        \* the messages of the queue that wait for a consumer
    handling,     \* handling[c]: those a handler got through c
    handled,      \* those that were acknowledged
    faults

connVars == <<call, live, target, consumers, channel, attempts>>
outVars == <<buffer, published>>
queueVars == <<inbox, handling, handled>>
brokerVars == <<up, connVars, outVars, queueVars, faults>>

Steps == {"none", "prefetch", "consume", "done"}

\* onModuleInit dials at once; subscribe() finds no channel and only registers
\* its handler, for connect() to start it.
BrokerInit ==
    /\ up = TRUE
    /\ call = [c \in Conns |-> "none"]
    /\ live = {}
    /\ target = [c \in Conns |-> NoConn]
    /\ consumers = [c \in Conns |-> 0]
    /\ channel = NoConn
    /\ attempts = 1
    /\ buffer = <<>>
    /\ published = [m \in Outgoing |-> 0]
    /\ inbox = {}
    /\ handling = [c \in Conns |-> {}]
    /\ handled = {}
    /\ faults = 0

\* The names a new call may take: nothing refers to them any more.
Unused ==
    {c \in Conns : /\ call[c] = "none"
                   /\ handling[c] = {}
                   /\ \A d \in Conns : target[d] # c}

Listening(c) == call[c] \in {"consume", "done"}  \* conn.on(...) has run
Usable == channel \in live
Fault == faults < MaxFaults /\ faults' = faults + 1

-----------------------------------------------------------------------------
(* connect()                                                               *)

\* scheduleReconnect: another call, after a delay.
Schedule(n) == attempts' = attempts + n

\* The call that takes a name.
Open(c) ==
    /\ call' = [call EXCEPT ![c] = "prefetch"]
    /\ live' = live \cup {c}
    /\ channel' = c
    /\ UNCHANGED <<up, target, consumers, outVars, queueVars, faults>>

\* A mutant: a call that nobody scheduled.
Connected_Unasked ==
    /\ \E c \in Unused : (\A d \in Unused : c <= d) /\ Open(c)
    /\ attempts' = attempts - 1

\* amqp.connect and createChannel resolve.  this.channel is set at once, the
\* prefetch and the listeners only later.
Connected ==
    /\ attempts > 0
    /\ \E c \in Unused : (\A d \in Unused : c <= d) /\ Open(c)
    /\ attempts' = attempts - 1

\* A mutant: the catch of connect() only logs.
Refused_GivesUp ==
    /\ attempts > 0
    /\ Fault
    /\ attempts' = attempts - 1
    /\ UNCHANGED <<up, call, live, target, consumers, channel, outVars,
                   queueVars>>

\* amqp.connect or createChannel rejects: one attempt less and one more.
Refused ==
    /\ attempts > 0
    /\ Fault
    /\ attempts' = (attempts - 1) + 1
    /\ UNCHANGED <<up, call, live, target, consumers, channel, outVars,
                   queueVars>>

Occurrences(m) == Cardinality({i \in DOMAIN buffer : buffer[i] = m})

\* A mutant: flush iterates over the messages without taking them out.
Prefetched_KeepsBuffer(c) ==
    /\ call[c] = "prefetch"
    /\ Usable
    /\ published' = [m \in Outgoing |-> published[m] + Occurrences(m)]
    /\ call' = [call EXCEPT ![c] = "consume"]
    /\ target' = [target EXCEPT ![c] = channel]
    /\ UNCHANGED <<up, live, consumers, channel, attempts, buffer, queueVars,
                   faults>>

\* prefetch resolves.  What follows uses this.channel, which may be another
\* connection's by now: flush publishes on it and startConsuming asks it to
\* consume.
Prefetched(c) ==
    /\ call[c] = "prefetch"
    /\ Usable
    /\ buffer' = <<>>
    /\ published' = [m \in Outgoing |-> published[m] + Occurrences(m)]
    /\ call' = [call EXCEPT ![c] = "consume"]
    /\ target' = [target EXCEPT ![c] = channel]
    /\ UNCHANGED <<up, live, consumers, channel, attempts, queueVars, faults>>

\* Without a channel neither does anything.
PrefetchedWithoutChannel(c) ==
    /\ call[c] = "prefetch"
    /\ channel = NoConn
    /\ call' = [call EXCEPT ![c] = "done"]
    /\ UNCHANGED <<up, live, target, consumers, channel, attempts, outVars,
                   queueVars, faults>>

\* On a channel that is closed the first of them throws: publish, when flush
\* has shifted the first message already, or consume.  The catch schedules
\* another call; this connection, with its listeners, is not closed.
PrefetchedInVain(c) ==
    /\ call[c] = "prefetch"
    /\ channel = Closed
    /\ buffer' = IF buffer = <<>> THEN buffer ELSE Tail(buffer)
    /\ call' = [call EXCEPT ![c] = "done"]
    /\ Schedule(1)
    /\ UNCHANGED <<up, live, target, consumers, channel, published,
                   queueVars, faults>>

\* consume resolves: the queue has one more consumer.  The call's own
\* connection may be gone.
Consuming(c) ==
    /\ call[c] = "consume"
    /\ consumers' = [consumers EXCEPT ![target[c]] = @ + 1]
    /\ call' = [call EXCEPT ![c] = IF c \in live THEN "done" ELSE "none"]
    /\ target' = [target EXCEPT ![c] = NoConn]
    /\ UNCHANGED <<up, live, channel, attempts, outVars, queueVars, faults>>

-----------------------------------------------------------------------------
(* Losing a connection, or the process.                                    *)

\* What a lost connection does before anything else happens: its consumers
\* and the calls that await its channel end, each of them scheduling another
\* call, and the server takes the unacknowledged messages back.
Lose(c, n, field) ==
    LET rejected == {d \in Conns : target[d] = c} IN
    /\ live' = live \ {c}
    /\ consumers' = [consumers EXCEPT ![c] = 0]
    /\ call' = [d \in Conns |->
                  CASE d = c /\ (call[d] # "consume" \/ d \in rejected) -> "none"
                    [] d # c /\ d \in rejected ->
                          IF d \in live THEN "done" ELSE "none"
                    [] OTHER -> call[d]]
    /\ target' = [d \in Conns |-> IF d \in rejected THEN NoConn ELSE target[d]]
    /\ channel' = field
    /\ Schedule(n + Cardinality(rejected))
    /\ inbox' = inbox \cup handling[c]
    /\ UNCHANGED <<up, outVars, handling, handled>>

\* 'error' and then 'close'.  Both forget the channel, which need not be this
\* connection's, and both schedule a call.
SocketFails(c) ==
    /\ c \in live
    /\ Listening(c)
    /\ Fault
    /\ Lose(c, 2, NoConn)

\* A mutant: only 'error' schedules a call.
ServerCloses_Unscheduled(c) ==
    /\ c \in live
    /\ Listening(c)
    /\ Fault
    /\ Lose(c, 0, NoConn)

\* 'close' only.
ServerCloses(c) ==
    /\ c \in live
    /\ Listening(c)
    /\ Fault
    /\ Lose(c, 1, NoConn)

\* Nobody listens yet: prefetch rejects, and the field keeps the channel.
ServerClosesUnheard(c) ==
    /\ c \in live
    /\ ~Listening(c)
    /\ Fault
    /\ Lose(c, 1, IF channel = c THEN Closed ELSE channel)

\* The end of the process: its memory is lost, the queue is not.
Exit ==
    /\ up' = FALSE
    /\ call' = [c \in Conns |-> "none"]
    /\ live' = {}
    /\ target' = [c \in Conns |-> NoConn]
    /\ consumers' = [c \in Conns |-> 0]
    /\ channel' = NoConn
    /\ attempts' = 0
    /\ buffer' = <<>>
    /\ inbox' = inbox \cup UNION {handling[c] : c \in Conns}
    /\ handling' = [c \in Conns |-> {}]
    /\ UNCHANGED <<published, handled>>

Crash == up /\ Fault /\ Exit

\* An 'error' that nobody listens to yet is an uncaught exception.
SocketFailsUnheard(c) ==
    /\ c \in live
    /\ ~Listening(c)
    /\ Fault
    /\ Exit

\* restart: unless-stopped
Restart ==
    /\ ~up
    /\ up' = TRUE
    /\ attempts' = 1
    /\ UNCHANGED <<call, live, target, consumers, channel, outVars,
                   queueVars, faults>>

-----------------------------------------------------------------------------
(* Messages in and out.                                                    *)

Enqueue(m) ==
    /\ m \notin inbox \cup handled \cup UNION {handling[c] : c \in Conns}
    /\ inbox' = inbox \cup {m}
    /\ UNCHANGED <<up, connVars, outVars, handling, handled, faults>>

\* The callback of consume starts the handler.
Deliver(c, m) ==
    /\ m \in inbox
    /\ c \in live
    /\ consumers[c] > 0
    /\ Cardinality(handling[c]) < consumers[c] * Prefetch
    /\ inbox' = inbox \ {m}
    /\ handling' = [handling EXCEPT ![c] = @ \cup {m}]
    /\ UNCHANGED <<up, connVars, outVars, handled, faults>>

\* A mutant: nack without requeue.
Acknowledge_DropsRejected(c, m) ==
    /\ m \in handling[c]
    /\ c \in live
    /\ handling' = [handling EXCEPT ![c] = @ \ {m}]
    /\ \/ handled' = handled \cup {m} /\ UNCHANGED <<inbox, faults>>
       \/ Fault /\ UNCHANGED <<inbox, handled>>
    /\ UNCHANGED <<up, connVars, outVars>>

\* The handler resolves and the message is acknowledged, or it rejects and
\* the message goes back to the queue.
Acknowledge(c, m) ==
    /\ m \in handling[c]
    /\ c \in live
    /\ handling' = [handling EXCEPT ![c] = @ \ {m}]
    /\ \/ handled' = handled \cup {m} /\ UNCHANGED <<inbox, faults>>
       \/ Fault /\ inbox' = inbox \cup {m} /\ UNCHANGED handled
    /\ UNCHANGED <<up, connVars, outVars>>

\* The connection the message came through is gone: ack throws, and so does
\* the nack of the catch.  The rejection is unhandled and ends the process.
AcknowledgeThrows(c, m) ==
    /\ m \in handling[c]
    /\ c \notin live
    /\ Exit
    /\ UNCHANGED faults

\* A mutant: without a channel the message is dropped.
Send_DropsWithoutChannel(m) ==
    IF channel = NoConn
    THEN UNCHANGED outVars
    ELSE published' = [published EXCEPT ![m] = @ + 1] /\ UNCHANGED buffer

\* send(): published on this.channel, or kept until there is one.
Send(m) ==
    IF channel = NoConn
    THEN buffer' = Append(buffer, m) /\ UNCHANGED published
    ELSE published' = [published EXCEPT ![m] = @ + 1] /\ UNCHANGED buffer

SendThrows == channel = Closed

-----------------------------------------------------------------------------
Connecting(c) ==
    \/ Prefetched(c) \/ PrefetchedWithoutChannel(c) \/ PrefetchedInVain(c)
    \/ Consuming(c)

\* Steps in which the process stays.
BrokerNext ==
    \/ Connected \/ Refused
    \/ Restart
    \/ \E c \in Conns :
          \/ Connecting(c)
          \/ SocketFails(c) \/ ServerCloses(c) \/ ServerClosesUnheard(c)
          \/ \E m \in Inbound : Deliver(c, m) \/ Acknowledge(c, m)
    \/ \E m \in Inbound : Enqueue(m)

\* Steps that end it.
BrokerExit ==
    \/ Crash
    \/ \E c \in Conns :
          \/ SocketFailsUnheard(c)
          \/ \E m \in Inbound : AcknowledgeThrows(c, m)

\* Timers fire, amqplib answers, handlers end, the server hands messages out,
\* the container is restarted.
BrokerFairness ==
    /\ WF_brokerVars(Connected)
    /\ WF_brokerVars(Restart)
    /\ WF_brokerVars(\E c \in Conns : Connecting(c))
    /\ WF_brokerVars(\E c \in Conns, m \in Inbound :
                        Acknowledge(c, m) \/ AcknowledgeThrows(c, m))
    /\ WF_brokerVars(\E c \in Conns, m \in Inbound : Deliver(c, m))
=============================================================================
