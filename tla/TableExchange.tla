---------------------------- MODULE TableExchange ----------------------------
(***************************************************************************)
(* RF06: how the cities exchange their distance tables.  A city asks the   *)
(* central for its own table when it starts and when it reconnects; the    *)
(* central answers, and sends a table whenever it likes.  An own table     *)
(* makes the city ask all the others for theirs; a city that is asked      *)
(* answers with an acknowledgement and its table; a table of another city  *)
(* is stored and acknowledged.  RoutingSubscriberService dispatches the    *)
(* messages of the city's queue and drops those whose msgId it has seen.   *)
(*                                                                         *)
(* Only some cities run this code.  The central and the other cities are   *)
(* external: a city with another program answers every request by its      *)
(* table.  Its acknowledgements are only logged here and are left out.     *)
(*                                                                         *)
(* What the tables say, and what becomes of a table that is stored, is in  *)
(* module RouteRecompute.  A msgId is random and never comes twice; its    *)
(* name is used again once nothing carries it.  A request is handled in    *)
(* one go, so that its msgId never decides anything and is left out.  A    *)
(* throttle never holds what its process has not done before; whether it   *)
(* holds a repetition is a matter of time, and a choice.  What seen evicts *)
(* by age or number is left out.                                           *)
(***************************************************************************)
EXTENDS Naturals, Sequences, FiniteSets, FiniteSetsExt, SequencesExt

CONSTANTS
    Cities,       \* the cities that run this code
    Others,       \* the cities that run another program
    Central,
    NoSender,     \* a message without cityId
    Signed,       \* the cities that the central's tables name as cityId
    MaxIds,       \* bound: msgIds in use at once
    MaxEvents     \* bound: stimuli (reconnections, unasked tables, others'
                  \* requests) and faults (crashes, failed upserts) together

ASSUME TableExchangeAssumption ==
    /\ IsFiniteSet(Cities)
    /\ Cities \cap Others = {}
    /\ {Central, NoSender, "fanout"} \cap (Cities \cup Others) = {}
    /\ Central # NoSender
    /\ Signed \subseteq Cities
    /\ MaxIds \in Nat
    /\ MaxEvents \in Nat

AllCities == Cities \cup Others      \* CITY_CODES, without the central
Places == AllCities \cup {Central}
Ids == 1..MaxIds
NoId == 0

VARIABLES
    up,        \* up[c]: the process runs
    queue,     \* queue[p]: the messages in the queue of a city or the central
    own,       \* own[c]: distances is not the empty map
    stored,    \* stored[c]: the cities with a row in ReceivedTable
    storing,   \* storing[c]: tables whose upsert is awaited
    seen,      \* seen[c]
    did,       \* did[c]: what the throttles of the city may hold back
    stimuli,
    faults

vars == <<up, queue, own, stored, storing, seen, did, stimuli, faults>>

Fault == stimuli + faults < MaxEvents /\ faults' = faults + 1
Stimulus == stimuli + faults < MaxEvents /\ stimuli' = stimuli + 1

-----------------------------------------------------------------------------
(* Messages.                                                               *)

Request(c) == [type |-> "request", from |-> c, id |-> NoId]
Table(c, id) == [type |-> "table", from |-> c, id |-> id]
Ack(c, id) == [type |-> "ack", from |-> c, id |-> id]

InUse ==
    {m.id : m \in (UNION {Range(queue[p]) : p \in Places})
                    \cup (UNION {storing[c] : c \in Cities})} \ {NoId}
Free == Ids \ InUse
NewId == Min(Free)

Rest(p) == [queue EXCEPT ![p] = Tail(@)]
IsRequest(m) == m.type = "request"

\* Another program's city reads what it is asked; nothing it does with other
\* messages comes back, and they are left out.
Unread(p, ms) == p \in Others /\ ~\E m \in Range(ms) : IsRequest(m)
Sent(q, p, ms) == [q EXCEPT ![p] = IF Unread(p, ms) THEN @ ELSE @ \o ms]

\* isDuplicate remembers the msgId, if there is one; those that nothing carries
\* are left out.
Remember(marked) ==
    seen' = [c \in Cities |-> marked[c] \cap InUse']
Mark(c, id) == Remember([seen EXCEPT ![c] = @ \cup {id}])
Unmarked == Remember(seen)

-----------------------------------------------------------------------------
\* Every city has just started and asks the central.
Init ==
    /\ up = [c \in Cities |-> TRUE]
    /\ queue = [p \in Places |->
                  IF p = Central THEN SetToSeq({Request(c) : c \in Cities})
                  ELSE <<>>]
    /\ own = [c \in Cities |-> FALSE]
    /\ stored = [c \in Cities |-> {}]
    /\ storing = [c \in Cities |-> {}]
    /\ seen = [c \in Cities |-> {}]
    /\ did = [c \in Cities |-> {}]
    /\ stimuli = 0
    /\ faults = 0

-----------------------------------------------------------------------------
(* The process of a city.                                                  *)

\* A restart.  onModuleInit: requestInitialTable.
Start(c) ==
    /\ ~up[c]
    /\ up' = [up EXCEPT ![c] = TRUE]
    /\ queue' = Sent(queue, Central, <<Request(c)>>)
    /\ UNCHANGED <<own, stored, storing, seen, did, stimuli, faults>>

\* A callback of onConnect, when its throttle lets it pass.
Reconnect(c) ==
    /\ up[c]
    /\ Stimulus
    /\ queue' = Sent(queue, Central, <<Request(c)>>)
    /\ UNCHANGED <<up, own, stored, storing, seen, did, faults>>

\* The end of the process: its maps are lost, and the messages that were not
\* acknowledged return to the head of the queue.
Dies(c) ==
    /\ Fault
    /\ up' = [up EXCEPT ![c] = FALSE]
    /\ own' = [own EXCEPT ![c] = FALSE]
    /\ storing' = [storing EXCEPT ![c] = {}]
    /\ did' = [did EXCEPT ![c] = {}]
    /\ Remember([seen EXCEPT ![c] = {}])

Crash(c) ==
    /\ up[c]
    /\ queue' = [queue EXCEPT ![c] = SetToSeq(storing[c]) \o @]
    /\ Dies(c)
    /\ UNCHANGED <<stored, stimuli>>

\* The same after an upsert: its connection to the broker was lost meanwhile,
\* and the acknowledgement of the message ends the process.
CrashAfterStore(c, m) ==
    /\ m \in storing[c]
    /\ stored' = [stored EXCEPT ![c] = @ \cup {m.from}]
    /\ queue' = Sent([queue EXCEPT ![c] = SetToSeq(storing[c]) \o @],
                     m.from, <<Ack(c, m.id)>>)
    /\ Dies(c)
    /\ UNCHANGED stimuli

-----------------------------------------------------------------------------
(* The dispatch of a message.                                              *)

First(c) == Head(queue[c])
Has(c) == up[c] /\ queue[c] # <<>>

DropDuplicate(c) ==
    /\ Has(c)
    /\ First(c).id \in seen[c]
    /\ queue' = Rest(c)
    /\ UNCHANGED <<up, own, stored, storing, did, stimuli, faults>>
    /\ Unmarked

\* The message at the head, when it is of a type and not a duplicate.
Takes(c, type) ==
    /\ Has(c)
    /\ First(c).type = type
    /\ First(c).id \notin seen[c]

\* A mutant: who asks is asked back.
Answer_AsksBack(c, id) == <<Ack(c, id), Table(c, id), Request(c)>>

\* respondWithOwnTable: both messages are built from one createBaseMessage.
\* The table is empty if the city has none yet.
Answer(c, id) == <<Ack(c, id), Table(c, id)>>

RespondWithOwnTable(c) ==
    /\ Takes(c, "request")
    /\ LET d == First(c).from IN
         \/ /\ d \in did[c]
            /\ queue' = Rest(c)
            /\ UNCHANGED did
         \/ /\ Free # {}
            /\ queue' = Sent(Rest(c), d, Answer(c, NewId))
            /\ did' = [did EXCEPT ![c] = @ \cup {d}]
    /\ UNCHANGED <<up, own, stored, storing, stimuli, faults>>
    /\ Unmarked

\* A mutant: a table without cityId is not taken for the own one.
IsOwnTable_Named(c, sender) == sender \in {c, Central}

IsOwnTable(c, sender) == sender \in {NoSender, c, Central}

\* A mutant: the throttle holds the first time too.
Fanout_HeldAtFirst(c, q) ==
    \/ queue' = q /\ UNCHANGED did
    \/ /\ queue' = [p \in Places |-> IF p \in AllCities \ {c}
                                    THEN Append(q[p], Request(c))
                                    ELSE q[p]]
       /\ did' = [did EXCEPT ![c] = @ \cup {"fanout"}]

\* requestTablesFromAllCities
Fanout(c, q) ==
    \/ /\ "fanout" \in did[c]
       /\ queue' = q
       /\ UNCHANGED did
    \/ /\ queue' = [p \in Places |-> IF p \in AllCities \ {c}
                                    THEN Append(q[p], Request(c))
                                    ELSE q[p]]
       /\ did' = [did EXCEPT ![c] = @ \cup {"fanout"}]

ApplyOwnTable(c) ==
    /\ Takes(c, "table")
    /\ IsOwnTable(c, First(c).from)
    /\ own' = [own EXCEPT ![c] = TRUE]
    /\ Fanout(c, Rest(c))
    /\ UNCHANGED <<up, stored, storing, stimuli, faults>>
    /\ Mark(c, First(c).id)

\* processPendingRoutes rejects after it: the message returns to the queue,
\* and without a msgId it will be applied again.
ApplyOwnTableFails(c) ==
    /\ Takes(c, "table")
    /\ IsOwnTable(c, First(c).from)
    /\ Fault
    /\ own' = [own EXCEPT ![c] = TRUE]
    /\ Fanout(c, queue)
    /\ UNCHANGED <<up, stored, storing, stimuli>>
    /\ Mark(c, First(c).id)

\* applyPeerTable up to its await.
StartStore(c) ==
    /\ Takes(c, "table")
    /\ ~IsOwnTable(c, First(c).from)
    /\ storing' = [storing EXCEPT ![c] = @ \cup {First(c)}]
    /\ queue' = Rest(c)
    /\ UNCHANGED <<up, own, stored, did, stimuli, faults>>
    /\ Mark(c, First(c).id)

\* The upsert resolves, and the table is acknowledged.
Store(c, m) ==
    /\ m \in storing[c]
    /\ stored' = [stored EXCEPT ![c] = @ \cup {m.from}]
    /\ storing' = [storing EXCEPT ![c] = @ \ {m}]
    /\ queue' = Sent(queue, m.from, <<Ack(c, m.id)>>)
    /\ UNCHANGED <<up, own, did, stimuli, faults>>
    /\ Unmarked

\* It rejects: the message returns to the queue.
StoreFails(c, m) ==
    /\ m \in storing[c]
    /\ Fault
    /\ storing' = [storing EXCEPT ![c] = @ \ {m}]
    /\ queue' = [queue EXCEPT ![c] = <<m>> \o @]
    /\ UNCHANGED <<up, own, stored, did, stimuli>>
    /\ Unmarked

\* Acknowledgements are only logged.
HearAck(c) ==
    /\ Takes(c, "ack")
    /\ queue' = Rest(c)
    /\ UNCHANGED <<up, own, stored, storing, did, stimuli, faults>>
    /\ Mark(c, First(c).id)

-----------------------------------------------------------------------------
(* The central and the cities with another program.                        *)

externalVars == <<up, own, stored, storing, did>>

\* The central's table has no msgId, and as cityId that of the city or none.
FromCentral(c) == Table(IF c \in Signed THEN c ELSE NoSender, NoId)

CentralAnswers ==
    /\ queue[Central] # <<>>
    /\ LET c == Head(queue[Central]).from IN
         queue' = Sent(Rest(Central), c, <<FromCentral(c)>>)
    /\ UNCHANGED <<externalVars, stimuli, faults>>
    /\ Unmarked

CentralUpdates(c) ==
    /\ Stimulus
    /\ queue' = Sent(queue, c, <<FromCentral(c)>>)
    /\ UNCHANGED <<externalVars, faults>>
    /\ Unmarked

OtherAsks(o, c) ==
    /\ Stimulus
    /\ queue' = Sent(queue, c, <<Request(o)>>)
    /\ UNCHANGED <<externalVars, faults>>
    /\ Unmarked

OtherAnswers(o) ==
    /\ queue[o] # <<>>
    /\ Free # {}
    /\ queue' = Sent(Rest(o), Head(queue[o]).from, <<Table(o, NewId)>>)
    /\ UNCHANGED <<externalVars, stimuli, faults>>
    /\ Unmarked

-----------------------------------------------------------------------------
Dispatch(c) ==
    \/ DropDuplicate(c) \/ RespondWithOwnTable(c)
    \/ ApplyOwnTable(c) \/ StartStore(c) \/ HearAck(c)

\* What a city does by itself.
Works(c) == Start(c) \/ Dispatch(c) \/ \E m \in storing[c] : Store(c, m)

Next ==
    \/ \E c \in Cities :
          \/ Works(c) \/ Reconnect(c) \/ Crash(c) \/ ApplyOwnTableFails(c)
          \/ \E m \in storing[c] : StoreFails(c, m) \/ CrashAfterStore(c, m)
          \/ CentralUpdates(c)
          \/ \E o \in Others : OtherAsks(o, c)
    \/ CentralAnswers
    \/ \E o \in Others : OtherAnswers(o)

Spec == Init /\ [][Next]_vars

\* Containers are started again, RabbitMQ hands out what is in a queue, the
\* database answers, and so do the central and the other cities.
FairSpec ==
    /\ Spec
    /\ \A c \in Cities : WF_vars(Works(c))
    /\ WF_vars(CentralAnswers)
    /\ \A o \in Others : WF_vars(OtherAnswers(o))
=============================================================================
