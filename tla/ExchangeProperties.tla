------------------------- MODULE ExchangeProperties -------------------------
(***************************************************************************)
(* What must hold of TableExchange.                                        *)
(***************************************************************************)
EXTENDS TableExchange

\* Nothing is on its way and nothing is being stored.
Quiet ==
    /\ \A p \in Places : queue[p] = <<>>
    /\ \A c \in Cities : storing[c] = {}

\* Every exchange comes to an end, whatever the throttles let pass, and leaves
\* each city with its own table: a table that answers a request never leads
\* to another request, and an acknowledgement never to another one.
ExchangesEnd == <>[](Quiet /\ \A c \in Cities : up[c] /\ own[c])

\* The answer of another program's city is dropped as a duplicate.
AnswerIsDropped ==
    \E c \in Cities :
        /\ Has(c)
        /\ First(c).from \in Others
        /\ First(c).id \in seen[c]

\* Every city ends up with the table of every city that runs another program,
\* over crashes at any moment, unless an answer is dropped when the upsert
\* failed and the msgId is seen for the second time.
OthersAreStored ==
    []~AnswerIsDropped
      => <>(\A c \in Cities : Others \subseteq stored[c])

\* What docs/architecture.md:196-212 says of two cities that run this code: the
\* one asks, the other acknowledges and sends its table, and the table is
\* stored.  As long as nothing fails, every city ends up with the tables of
\* all the others.  The code breaks it.
KinIsStored ==
    [](faults = 0) => <>(\A c \in Cities : Cities \ {c} \subseteq stored[c])

\* What the code does instead, not what is wanted of it: until something fails
\* no such table is stored, since the acknowledgement before it carries the
\* msgId of the table, which is then taken for a repetition (isDuplicate).
KinIsDropped ==
    faults = 0 => \A c, d \in Cities : d \notin stored[c]

-----------------------------------------------------------------------------
(* The safety cores of OthersAreStored and ExchangesEnd, and what they     *)
(* rest on.                                                                *)

Mail(p) == Range(queue[p])
IsOwn(c, m) == m.type = "table" /\ IsOwnTable(c, m.from)

\* What leads to the table of o: it is stored, or in the queue, or asked for,
\* or the city's own table, which makes it ask, is on its way.
Asked(c, o) ==
    \/ o \in stored[c]
    \/ Request(c) \in Mail(o)
    \/ \E m \in Mail(c) \cup storing[c] : m.type = "table" /\ m.from = o

AsksCentral(c) ==
    \/ ~up[c]
    \/ Request(c) \in Mail(Central)
    \/ \E m \in Mail(c) : IsOwn(c, m)

\* Whatever fails, the table of each city with another program is stored or
\* something that leads to it is still there; who has asked all cities once,
\* so that the throttle may hold it, has asked this one.
TablesAreComing ==
    \A c \in Cities, o \in Others :
        /\ Asked(c, o) \/ AsksCentral(c)
        /\ "fanout" \in did[c] => Asked(c, o)

NothingForgotten == []~AnswerIsDropped => []TablesAreComing

\* How far a message is from the end of its exchange: a restart leads to a
\* request to the central, that to an own table, that to requests to the
\* cities, those to tables, those to upserts, and those to acknowledgements.
Rank(p, m) ==
    CASE m.type = "request" -> IF p = Central THEN 5 ELSE 3
      [] m.type = "table" -> IF IsOwnTable(p, m.from) THEN 4 ELSE 2
      [] m.type = "ack" -> 0

Down == 6
Upserts == 1

OfRank(p, q, k) == {i \in DOMAIN q : Rank(p, q[i]) = k}

Load(p, k) ==
    IF k = Down THEN IF p \in Cities /\ ~up[p] THEN 1 ELSE 0
    ELSE IF k = Upserts THEN IF p \in Cities THEN Cardinality(storing[p]) ELSE 0
    ELSE Cardinality(OfRank(p, queue[p], k))

\* Somewhere there is less to do, and nowhere more of that kind or of one
\* before it.
Cools ==
    \E k \in 0..Down :
        /\ \E p \in Places : Load(p, k)' < Load(p, k)
        /\ \A p \in Places : \A j \in k..Down : Load(p, j)' <= Load(p, j)

\* Every step that is not an event, which are bounded, brings the exchanges
\* closer to their end: there is no way round in a circle.
NoCircles == [][UNCHANGED <<stimuli, faults>> => Cools]_vars

-----------------------------------------------------------------------------
(* The inductive invariant of ExchangeProofs, in parts.                    *)

Message ==
    [type : {"request", "table", "ack"}, from : Places \cup {NoSender},
     id : Ids \cup {NoId}]

\* The variables the invariant is about are functions of the cities.
Shape ==
    /\ faults \in Nat
    /\ queue = [p \in Places |-> queue[p]]
    /\ stored = [c \in Cities |-> stored[c]]
    /\ storing = [c \in Cities |-> storing[c]]
    /\ seen = [c \in Cities |-> seen[c]]

\* What a city receives are messages, and what it stores is from others.
Traffic ==
    \A c \in Cities :
        /\ queue[c] \in Seq(Message)
        /\ storing[c] \subseteq {m \in Message : m.from \in Others}
        /\ stored[c] \subseteq Others

\* The table of another city that runs this code.
IsKin(c, m) == m.type = "table" /\ m.from \in Cities \ {c}

\* In the queue q of city c every such table comes after an acknowledgement
\* with its msgId, if that is not among the ids.
Announced(c, q, ids) ==
    \A i \in 1..Len(q) :
        IsKin(c, q[i]) =>
          /\ q[i].id \in Ids
          /\ \/ q[i].id \in ids
             \/ \E j \in 1..(i - 1) : q[j].type = "ack" /\ q[j].id = q[i].id

KinIsAnnounced == \A c \in Cities : Announced(c, queue[c], seen[c])

IndInv ==
    /\ Shape
    /\ faults = 0 => Traffic /\ KinIsAnnounced

-----------------------------------------------------------------------------
(* The inductive invariant of ExchangeEndProofs, which holds over failures. *)

\* The central and the other programs' cities have nothing but requests to
\* answer; a city is not asked by itself, and its own tables have no msgId.
Letters(p) ==
    IF p \in Cities
    THEN {m \in Message : /\ m.type = "request" => m.from \in AllCities \ {p}
                          /\ IsOwn(p, m) => m.id = NoId}
    ELSE {Request(c) : c \in Cities}

PeerTables(c) == {m \in Message : m.type = "table" /\ ~IsOwnTable(c, m.from)}

Addressed ==
    /\ \A p \in Places : queue[p] \in Seq(Letters(p))
    /\ \A c \in Cities : /\ storing[c] \subseteq PeerTables(c)
                         /\ IsFiniteSet(storing[c])
                         /\ seen[c] \subseteq Ids

\* The rest of Shape.
Lives ==
    /\ stimuli \in Nat
    /\ up = [c \in Cities |-> up[c]]
    /\ did = [c \in Cities |-> did[c]]
=============================================================================
