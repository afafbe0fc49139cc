-------------------------- MODULE ExchangeEndProofs --------------------------
(***************************************************************************)
(* Proofs about TableExchange, for any finite set of cities that run this  *)
(* code, any set of others, and any number of msgIds, stimuli and faults:  *)
(* what is needed for the tables of the others to come is never forgotten, *)
(* whatever fails (TablesAreComing), and no step but the bounded events    *)
(* makes as much work as it does (NoCircles).  These are the safety cores  *)
(* of OthersAreStored and of ExchangesEnd: fairness is all they lack.      *)
(***************************************************************************)
EXTENDS ExchangeProofs, FiniteSetTheorems

-----------------------------------------------------------------------------
(* Sequences.                                                              *)

\* The elements of a concatenation.
LEMMA ConcatRange ==
  ASSUME NEW S, NEW q \in Seq(S), NEW r \in Seq(S)
  PROVE  Range(q \o r) = Range(q) \cup Range(r)
<1>1. /\ Len(q \o r) = Len(q) + Len(r) /\ q \o r \in Seq(S)
      /\ \A i \in 1..(Len(q) + Len(r)) :
            (q \o r)[i] = IF i <= Len(q) THEN q[i] ELSE r[i - Len(q)]
  BY ConcatProperties
<1>2. /\ Len(q) \in Nat /\ Len(r) \in Nat
      /\ DOMAIN q = 1..Len(q) /\ DOMAIN r = 1..Len(r)
      /\ DOMAIN (q \o r) = 1..(Len(q) + Len(r))
  BY <1>1
<1> DEFINE s == q \o r
<1>3. Range(s) \subseteq Range(q) \cup Range(r)
  <2> SUFFICES ASSUME NEW i \in 1..(Len(q) + Len(r))
               PROVE  s[i] \in Range(q) \cup Range(r)
    BY <1>2 DEF Range
  <2>1. CASE i <= Len(q)
    BY <1>1, <1>2, <2>1 DEF Range
  <2>2. CASE i > Len(q)
    BY <1>1, <1>2, <2>2 DEF Range
  <2> QED
    BY <1>2, <2>1, <2>2
<1>4. Range(q) \subseteq Range(s)
  <2> SUFFICES ASSUME NEW i \in 1..Len(q) PROVE q[i] \in Range(s)
    BY <1>2 DEF Range
  <2>1. i \in 1..(Len(q) + Len(r)) /\ i <= Len(q)
    BY <1>2
  <2>2. s[i] = q[i]
    BY <1>1, <2>1
  <2> QED
    BY <1>2, <2>1, <2>2 DEF Range
<1>5. Range(r) \subseteq Range(s)
  <2> SUFFICES ASSUME NEW i \in 1..Len(r) PROVE r[i] \in Range(s)
    BY <1>2 DEF Range
  <2> DEFINE n == Len(q) + i
  <2>1. n \in 1..(Len(q) + Len(r)) /\ ~(n <= Len(q)) /\ n - Len(q) = i
    BY <1>2
  <2>2. s[n] = r[i]
    BY <1>1, <2>1
  <2> QED
    BY <1>2, <2>1, <2>2 DEF Range
<1> QED
  BY <1>3, <1>4, <1>5

\* Those of a sequence without its head.
LEMMA TailRange ==
  ASSUME NEW S, NEW q \in Seq(S), q # <<>>
  PROVE  /\ Range(Tail(q)) \subseteq Range(q)
         /\ Range(q) \subseteq Range(Tail(q)) \cup {Head(q)}
         /\ Head(q) \in Range(q)
<1>1. /\ Tail(q) \in Seq(S)
      /\ Len(Tail(q)) = Len(q) - 1
      /\ \A i \in 1..Len(Tail(q)) : Tail(q)[i] = q[i + 1]
  BY HeadTailProperties
<1>2. /\ Len(q) \in Nat /\ Len(q) > 0 /\ Head(q) = q[1] /\ DOMAIN q = 1..Len(q)
      /\ DOMAIN Tail(q) = 1..(Len(q) - 1)
  BY <1>1
<1>3. ASSUME NEW i \in 1..(Len(q) - 1)
      PROVE  Tail(q)[i] \in Range(q)
  <2>1. i + 1 \in 1..Len(q) /\ Tail(q)[i] = q[i + 1]
    BY <1>1, <1>2
  <2> QED
    BY <1>2, <2>1 DEF Range
<1>4. ASSUME NEW i \in 1..Len(q), i # 1
      PROVE  q[i] \in Range(Tail(q))
  <2>1. i - 1 \in 1..(Len(q) - 1) /\ (i - 1) + 1 = i
    BY <1>2, <1>4
  <2>2. Tail(q)[i - 1] = q[i]
    BY <1>1, <2>1
  <2> QED
    BY <1>2, <2>1, <2>2 DEF Range
<1>5. 1 \in 1..Len(q)
  BY <1>2
<1> QED
  BY <1>2, <1>3, <1>4, <1>5 DEF Range

\* A message that follows.
LEMMA AppendRange ==
  ASSUME NEW S, NEW q \in Seq(S), NEW m \in S
  PROVE  Append(q, m) \in Seq(S) /\ Range(Append(q, m)) = Range(q) \cup {m}
<1>1. Append(q, m) = q \o <<m>> /\ <<m>> \in Seq(S) /\ Append(q, m) \in Seq(S)
  BY AppendIsConcat, AppendProperties
<1>2. Range(<<m>>) = {m}
  BY DEF Range
<1>3. Range(q \o <<m>>) = Range(q) \cup Range(<<m>>)
  BY <1>1, ConcatRange
<1> QED
  BY <1>1, <1>2, <1>3, Zenon

\* A finite set as a sequence.
LEMMA SetAsSeq ==
  ASSUME NEW S, IsFiniteSet(S)
  PROVE  SetToSeq(S) \in Seq(S) /\ Range(SetToSeq(S)) = S
<1> DEFINE n == Cardinality(S)
           P(f) == f \in [1..n -> S] /\ IsInjective(f)
<1>1. n \in Nat /\ ExistsBijection(1..n, S)
  BY FS_CardinalityType
<1>2. PICK g : g \in Bijection(1..n, S)
  BY <1>1 DEF ExistsBijection
<1>3. P(g)
  BY <1>2 DEF Bijection, Injection
<1>4. P(SetToSeq(S))
  BY <1>3 DEF SetToSeq
<1> DEFINE f == SetToSeq(S)
<1>5. f \in Injection(1..n, S) /\ IsFiniteSet(1..n) /\ Cardinality(1..n) = n
  BY <1>1, <1>4, FS_Interval DEF Injection
<1>6. f \in Surjection(1..n, S)
  BY <1>5, FS_Injection
<1>7. f \in Seq(S)
  BY <1>1, <1>4
<1>8. Range(f) = S
  BY <1>4, <1>6 DEF Range, Surjection
<1> QED
  BY <1>7, <1>8

-----------------------------------------------------------------------------
(* Addressed.                                                              *)

\* The names of places and senders are told apart.
LEMMA Names ==
  /\ Central \in Places \ AllCities /\ NoSender \notin Places
  /\ AllCities \subseteq Places /\ AllCities = Cities \cup Others
  /\ \A p \in Places : p \in Cities \/ p \in Others \/ p = Central
  /\ \A c \in Cities : c \notin Others /\ c # Central /\ c # NoSender
  /\ \A o \in Others : o \notin Cities /\ o # Central /\ o # NoSender
  BY TableExchangeAssumption DEF Places, AllCities

\* Letters are messages.
LEMMA LettersType ==
  ASSUME NEW p \in Places
  PROVE  /\ Letters(p) \subseteq Message
         /\ p \notin Cities => \A m \in Letters(p) : m.from \in Cities
                                                    /\ m = Request(m.from)
<1>1. Letters(p) \subseteq Message
  BY Names DEF Letters, Message, Request
<1>2. p \notin Cities => \A m \in Letters(p) : m.from \in Cities
                                               /\ m = Request(m.from)
  BY DEF Letters, Request
<1> QED
  BY <1>1, <1>2

\* A table whose upsert is awaited is of another city, and may return.
LEMMA PeerType ==
  ASSUME NEW c \in Cities, NEW m \in PeerTables(c)
  PROVE  /\ m \in Letters(c) /\ m \in Message /\ m.type = "table"
         /\ m.from \in AllCities \ {c} /\ m.id \in Ids \cup {NoId}
  BY Names DEF PeerTables, Letters, Message, IsOwnTable, IsOwn, Places

\* What is sent may be read by whom it is sent to.
LEMMA RequestLetter ==
  ASSUME NEW c \in Cities, NEW p \in Places \ {c}
  PROVE  Request(c) \in Letters(p) /\ <<Request(c)>> \in Seq(Letters(p))
<1>1. Request(c) \in Letters(p)
  BY Names DEF Request, Letters, Message, AllCities, IsOwn
<1> QED
  BY <1>1

LEMMA OtherRequestLetter ==
  ASSUME NEW o \in Others, NEW c \in Cities
  PROVE  <<Request(o)>> \in Seq(Letters(c))
<1>1. Request(o) \in Letters(c)
  BY Names DEF Request, Letters, Message, AllCities, IsOwn
<1> QED
  BY <1>1

LEMMA CentralLetter ==
  ASSUME NEW c \in Cities
  PROVE  /\ FromCentral(c) \in Letters(c) /\ IsOwn(c, FromCentral(c))
         /\ <<FromCentral(c)>> \in Seq(Letters(c))
<1>1. FromCentral(c) \in Letters(c) /\ IsOwn(c, FromCentral(c))
  BY Names DEF FromCentral, Table, Letters, Message, IsOwn, IsOwnTable
<1> QED
  BY <1>1

LEMMA TableLetter ==
  ASSUME NEW c \in Cities, NEW d \in AllCities \ {c}, NEW id \in Ids
  PROVE  /\ Table(d, id) \in Letters(c) /\ ~IsOwn(c, Table(d, id))
         /\ Ack(d, id) \in Letters(c)
         /\ <<Table(d, id)>> \in Seq(Letters(c))
<1>1. /\ Table(d, id) \in Letters(c) /\ ~IsOwn(c, Table(d, id))
      /\ Ack(d, id) \in Letters(c)
  BY Names DEF Table, Ack, Letters, Message, IsOwn, IsOwnTable, AllCities
<1> QED
  BY <1>1

LEMMA AckLetter ==
  ASSUME NEW c \in Cities, NEW d \in Cities, NEW id \in Ids \cup {NoId}
  PROVE  <<Ack(d, id)>> \in Seq(Letters(c))
<1>1. Ack(d, id) \in Letters(c)
  BY Names DEF Ack, Letters, Message, IsOwn
<1> QED
  BY <1>1

\* Acknowledgements and tables are not read by other programs' cities.
LEMMA AnswersUnread ==
  ASSUME NEW c, NEW id, NEW o \in Others
  PROVE  /\ Unread(o, <<Ack(c, id)>>) /\ Unread(o, <<Table(c, id)>>)
         /\ Unread(o, Answer(c, id))
<1>1. ~IsRequest(Ack(c, id)) /\ ~IsRequest(Table(c, id))
  BY DEF IsRequest, Ack, Table
<1>2. /\ Range(<<Ack(c, id)>>) = {Ack(c, id)}
      /\ Range(<<Table(c, id)>>) = {Table(c, id)}
  BY DEF Range
<1>3. Range(Answer(c, id)) = {Ack(c, id), Table(c, id)}
  <2>1. DOMAIN Answer(c, id) = {1, 2} /\ Answer(c, id)[1] = Ack(c, id)
        /\ Answer(c, id)[2] = Table(c, id)
    BY DEF Answer
  <2> QED
    BY <2>1 DEF Range
<1> QED
  BY <1>1, <1>2, <1>3 DEF Unread

Fits(q) == \A x \in Places : q[x] \in Seq(Letters(x))

\* Sending keeps what is addressed.
LEMMA SentFits ==
  ASSUME NEW q, IsQueue(q), Fits(q), NEW p, NEW ms,
         p \in Places /\ ~Unread(p, ms) => ms \in Seq(Letters(p))
  PROVE  IsQueue(Sent(q, p, ms)) /\ Fits(Sent(q, p, ms))
<1>1. \A x \in Places : (Sent(q, p, ms))[x] =
         IF x # p \/ Unread(p, ms) THEN q[x] ELSE q[x] \o ms
  BY DEF Sent, IsQueue
<1>2. IsQueue(Sent(q, p, ms))
  BY SentTo
<1>3. ASSUME NEW x \in Places PROVE Sent(q, p, ms)[x] \in Seq(Letters(x))
  <2>1. q[x] \in Seq(Letters(x))
    BY DEF Fits
  <2>2. CASE x # p \/ Unread(p, ms)
    BY <1>1, <2>1, <2>2
  <2>3. CASE ~(x # p \/ Unread(p, ms))
    <3>1. ms \in Seq(Letters(x)) /\ Sent(q, p, ms)[x] = q[x] \o ms
      BY <1>1, <2>3
    <3>2. q[x] \o ms \in Seq(Letters(x))
      BY <2>1, <3>1, ConcatProperties
    <3> QED
      BY <3>1, <3>2
  <2> QED
    BY <2>2, <2>3
<1> QED
  BY <1>2, <1>3 DEF Fits

\* So does a fan-out.
LEMMA FanoutFits ==
  ASSUME NEW q, IsQueue(q), Fits(q), NEW c \in Cities, Fanout(c, q)
  PROVE  IsQueue(queue') /\ Fits(queue')
<1>1. CASE queue' = q
  BY <1>1
<1>2. CASE queue' = [p \in Places |-> IF p \in AllCities \ {c}
                                    THEN Append(q[p], Request(c)) ELSE q[p]]
  <2>1. ASSUME NEW x \in Places PROVE queue'[x] \in Seq(Letters(x))
    <3>1. q[x] \in Seq(Letters(x))
      BY DEF Fits
    <3>2. CASE x \in AllCities \ {c}
      <4>1. Request(c) \in Letters(x)
        BY <3>2, RequestLetter
      <4>2. Append(q[x], Request(c)) \in Seq(Letters(x))
        BY <3>1, <4>1, AppendRange
      <4> QED
        BY <1>2, <3>2, <4>2
    <3>3. CASE x \notin AllCities \ {c}
      BY <1>2, <3>1, <3>3
    <3> QED
      BY <3>2, <3>3
  <2> QED
    BY <1>2, <2>1 DEF Fits, IsQueue
<1> QED
  BY <1>1, <1>2 DEF Fanout

\* And taking the first message.
LEMMA RestFits ==
  ASSUME Shape, Fits(queue), NEW p \in Places, queue[p] # <<>>
  PROVE  /\ IsQueue(Rest(p)) /\ Fits(Rest(p))
         /\ Head(queue[p]) \in Letters(p)
<1>1. \A x \in Places : Rest(p)[x] = IF x = p THEN Tail(queue[x]) ELSE queue[x]
  BY RestTo
<1>2. queue[p] \in Seq(Letters(p))
  BY DEF Fits
<1>3. Tail(queue[p]) \in Seq(Letters(p)) /\ Head(queue[p]) \in Letters(p)
  BY <1>2, HeadTailProperties
<1> QED
  BY <1>1, <1>3, RestTo DEF Fits

\* And what returns to a queue.
LEMMA ReturnFits ==
  ASSUME Shape, Fits(queue), NEW c \in Cities, NEW ms \in Seq(Letters(c))
  PROVE  /\ IsQueue([queue EXCEPT ![c] = ms \o @])
         /\ Fits([queue EXCEPT ![c] = ms \o @])
<1> DEFINE q == [queue EXCEPT ![c] = ms \o @]
<1>1. IsQueue(q) /\ \A x \in Places : q[x] = IF x = c THEN ms \o queue[x]
                                                      ELSE queue[x]
  BY PlacesApart DEF Shape, IsQueue
<1>2. ms \o queue[c] \in Seq(Letters(c))
  <2>1. queue[c] \in Seq(Letters(c))
    BY PlacesApart DEF Fits
  <2> QED
    BY <2>1, ConcatProperties
<1> QED
  BY <1>1, <1>2 DEF Fits

Awaits(s) == \A c \in Cities : s[c] \subseteq PeerTables(c) /\ IsFiniteSet(s[c])

\* What is addressed keeps what is seen to msgIds.
LEMMA AddressedNext ==
  ASSUME Addressed, Fits(queue'), Awaits(storing'),
         UNCHANGED seen \/ \E marked : Remember(marked)
  PROVE  Addressed'
<1>1. InUse' \subseteq Ids
  <2>1. ASSUME NEW p \in Places, NEW m \in Range(queue'[p])
        PROVE  m.id \in Ids \cup {NoId}
    <3>1. queue'[p] \in Seq(Letters(p))
      BY DEF Fits
    <3>2. m \in Letters(p)
      BY <3>1 DEF Range
    <3>3. m \in Message
      BY <3>2, LettersType
    <3> QED
      BY <3>3 DEF Message
  <2>2. ASSUME NEW c \in Cities, NEW m \in storing'[c]
        PROVE  m.id \in Ids \cup {NoId}
    BY PeerType DEF Awaits
  <2> QED
    BY <2>1, <2>2 DEF InUse
<1>2. \A c \in Cities : seen'[c] \subseteq Ids
  BY <1>1 DEF Remember, Addressed
<1> QED
  BY <1>2 DEF Addressed, Fits, Awaits

LEMMA AddressedIs ==
  ASSUME Addressed
  PROVE  Fits(queue) /\ Awaits(storing)
  BY DEF Addressed, Fits, Awaits

\* One request of each city.
LEMMA RequestsFinite == IsFiniteSet({Request(c) : c \in Cities})
<1> DEFINE f == [c \in Cities |-> Request(c)]
<1>1. f \in Surjection(Cities, {Request(c) : c \in Cities})
  BY DEF Surjection
<1> QED
  BY <1>1, FS_Surjection, TableExchangeAssumption

\* Initially.
LEMMA AddressedInit == Init => Addressed /\ Lives
<1> SUFFICES ASSUME Init PROVE Addressed /\ Lives
  OBVIOUS
<1>1. ASSUME NEW p \in Places PROVE queue[p] \in Seq(Letters(p))
  <2>1. CASE p = Central
    <3> DEFINE S == {Request(c) : c \in Cities}
    <3>1. IsFiniteSet(S)
      BY RequestsFinite
    <3>2. queue[p] = SetToSeq(S) /\ S = Letters(p)
      BY <2>1, Names DEF Init, Letters
    <3> HIDE DEF S
    <3>3. SetToSeq(S) \in Seq(S)
      BY <3>1, SetAsSeq, Zenon
    <3> QED
      BY <3>2, <3>3, Zenon
  <2>2. CASE p # Central
    <3>1. queue[p] = <<>>
      BY <2>2 DEF Init
    <3>2. <<>> \in Seq(Letters(p))
      OBVIOUS
    <3> QED
      BY <3>1, <3>2
  <2> QED
    BY <2>1, <2>2
<1>2. \A c \in Cities : storing[c] = {} /\ seen[c] = {}
  BY DEF Init
<1>3. Lives
  BY DEF Init, Lives
<1> QED
  BY <1>1, <1>2, <1>3, FS_EmptySet DEF Addressed

\* What is sent in answer fits: an acknowledgement,
LEMMA AckFits ==
  ASSUME Addressed, NEW c \in Cities, NEW m \in storing[c]
  PROVE  /\ m \in PeerTables(c) /\ m.from \in AllCities \ {c}
         /\ m.from \in Places /\ ~Unread(m.from, <<Ack(c, m.id)>>)
              => <<Ack(c, m.id)>> \in Seq(Letters(m.from))
<1>1. m \in PeerTables(c)
  BY DEF Addressed
<1>2. m.from \in AllCities \ {c} /\ m.id \in Ids \cup {NoId}
  BY <1>1, PeerType
<1>3. m.from \in Cities => <<Ack(c, m.id)>> \in Seq(Letters(m.from))
  BY <1>2, AckLetter
<1>4. m.from \notin Cities => Unread(m.from, <<Ack(c, m.id)>>)
  BY <1>2, AnswersUnread, Names
<1> QED
  BY <1>1, <1>2, <1>3, <1>4

\* the first message of a city's queue,
LEMMA FirstFits ==
  ASSUME Shape, Addressed, NEW c \in Cities, Has(c)
  PROVE  /\ IsQueue(Rest(c)) /\ Fits(Rest(c)) /\ First(c) \in Letters(c)
         /\ First(c) \in Message /\ c \in Places /\ queue[c] # <<>>
<1>1. c \in Places /\ Fits(queue) /\ queue[c] # <<>>
  BY AddressedIs, Names DEF Has
<1> QED
  BY <1>1, RestFits, LettersType DEF First

\* the own table of a city that was asked,
LEMMA AnswerFits ==
  ASSUME Shape, Addressed, NEW c \in Cities, RespondWithOwnTable(c), NEW d,
         d = First(c).from
  PROVE  /\ d \in AllCities \ {c}
         /\ Free # {} => NewId \in Ids
         /\ Free # {} /\ d \in Places /\ ~Unread(d, Answer(c, NewId))
              => /\ d \in Cities /\ Answer(c, NewId) \in Seq(Letters(d))
<1>1. d \in AllCities \ {c}
  BY FirstFits DEF RespondWithOwnTable, Takes, Letters
<1>2. ASSUME Free # {}, d \in Cities PROVE Answer(c, NewId) \in Seq(Letters(d))
  <2>1. Ack(c, NewId) \in Letters(d) /\ Table(c, NewId) \in Letters(d)
    BY <1>1, <1>2, NewIdType, TableLetter, Names
  <2> QED
    BY <2>1 DEF Answer
<1>3. d \notin Cities => Unread(d, Answer(c, NewId))
  BY <1>1, AnswersUnread, Names
<1> QED
  BY <1>1, <1>2, <1>3, NewIdType

\* a table of the central,
LEMMA CentralTurn ==
  ASSUME Shape, Addressed, CentralAnswers
  PROVE  \E c \in Cities :
            /\ Head(queue[Central]) = Request(c)
            /\ queue' = Sent(Rest(Central), c, <<FromCentral(c)>>)
            /\ <<FromCentral(c)>> \in Seq(Letters(c))
            /\ IsQueue(Rest(Central)) /\ Fits(Rest(Central))
<1>1. /\ IsQueue(Rest(Central)) /\ Fits(Rest(Central))
      /\ Head(queue[Central]) \in Letters(Central)
  BY AddressedIs, RestFits, Names DEF CentralAnswers
<1>2. PICK c \in Cities : Head(queue[Central]) = Request(c)
  BY <1>1, Names DEF Letters
<1>3. Request(c).from = c
  BY DEF Request
<1> QED
  BY <1>1, <1>2, <1>3, CentralLetter DEF CentralAnswers

\* and a table of another program's city.
LEMMA OtherTurn ==
  ASSUME Shape, Addressed, NEW o \in Others, OtherAnswers(o)
  PROVE  \E c \in Cities :
            /\ Head(queue[o]) = Request(c)
            /\ NewId \in Ids
            /\ queue' = Sent(Rest(o), c, <<Table(o, NewId)>>)
            /\ <<Table(o, NewId)>> \in Seq(Letters(c))
            /\ IsQueue(Rest(o)) /\ Fits(Rest(o))
<1>1. /\ IsQueue(Rest(o)) /\ Fits(Rest(o)) /\ Head(queue[o]) \in Letters(o)
  BY AddressedIs, RestFits, Names DEF OtherAnswers
<1>2. PICK c \in Cities : Head(queue[o]) = Request(c)
  BY <1>1, Names DEF Letters
<1>3. Request(c).from = c
  BY DEF Request
<1>4. NewId \in Ids /\ o \in AllCities \ {c}
  BY NewIdType, Names DEF OtherAnswers
<1> QED
  BY <1>1, <1>2, <1>3, <1>4, TableLetter DEF OtherAnswers

\* What a city does by itself.
LEMMA WorksAddressed ==
  ASSUME Shape, Addressed, NEW c \in Cities, Works(c)
  PROVE  Fits(queue') /\ Awaits(storing')
<1>0. /\ Fits(queue) /\ Awaits(storing) /\ IsQueue(queue) /\ c \in Places
      /\ Central \in Places \ {c}
  BY AddressedIs, Names DEF Shape, IsQueue
<1>1. CASE Start(c)
  BY <1>0, <1>1, RequestLetter, SentFits DEF Start
<1>2. Has(c) => /\ IsQueue(Rest(c)) /\ Fits(Rest(c))
                /\ First(c) \in Letters(c)
  BY FirstFits
<1>3. CASE DropDuplicate(c) \/ HearAck(c)
  BY <1>0, <1>2, <1>3 DEF DropDuplicate, HearAck, Takes
<1>4. CASE RespondWithOwnTable(c)
  <2>1. PICK d : d = First(c).from
    OBVIOUS
  <2>2. Free # {} => Fits(Sent(Rest(c), d, Answer(c, NewId)))
    BY <1>2, <1>4, <2>1, AnswerFits, SentFits DEF RespondWithOwnTable, Takes
  <2>3. Fits(queue')
    BY <1>2, <1>4, <2>1, <2>2 DEF RespondWithOwnTable, Takes
  <2> QED
    BY <1>0, <1>4, <2>3 DEF RespondWithOwnTable
<1>5. CASE ApplyOwnTable(c)
  BY <1>0, <1>2, <1>5, FanoutFits DEF ApplyOwnTable, Takes
<1>6. CASE StartStore(c)
  <2>1. First(c) \in PeerTables(c)
    BY <1>2, <1>6, LettersType, <1>0 DEF StartStore, Takes, PeerTables
  <2>2. Awaits(storing')
    <3> SUFFICES ASSUME NEW x \in Cities
                 PROVE  storing'[x] \subseteq PeerTables(x) /\ IsFiniteSet(storing'[x])
      BY DEF Awaits
    <3>1. storing'[x] = IF x = c THEN storing[x] \cup {First(c)} ELSE storing[x]
      BY <1>6 DEF StartStore, Shape
    <3>2. storing[x] \subseteq PeerTables(x) /\ IsFiniteSet(storing[x])
      BY <1>0 DEF Awaits
    <3> QED
      BY <2>1, <3>1, <3>2, FS_AddElement
  <2> QED
    BY <1>2, <1>6, <2>2 DEF StartStore, Takes
<1>7. ASSUME NEW m \in storing[c], Store(c, m)
      PROVE  Fits(queue') /\ Awaits(storing')
  <2>5. Fits(queue')
    BY <1>0, <1>7, AckFits, SentFits DEF Store
  <2>6. Awaits(storing')
    <3> SUFFICES ASSUME NEW x \in Cities
                 PROVE  storing'[x] \subseteq PeerTables(x) /\ IsFiniteSet(storing'[x])
      BY DEF Awaits
    <3>1. storing'[x] = IF x = c THEN storing[x] \ {m} ELSE storing[x]
      BY <1>7 DEF Store, Shape
    <3>2. storing[x] \subseteq PeerTables(x) /\ IsFiniteSet(storing[x])
      BY <1>0 DEF Awaits
    <3> QED
      BY <3>1, <3>2, FS_RemoveElement
  <2> QED
    BY <2>5, <2>6
<1> QED
  BY <1>1, <1>3, <1>4, <1>5, <1>6, <1>7 DEF Works, Dispatch

\* What returns to the queue of a city fits.
LEMMA ReturnedFits ==
  ASSUME Shape, Addressed, NEW c \in Cities
  PROVE  /\ SetToSeq(storing[c]) \in Seq(Letters(c))
         /\ Range(SetToSeq(storing[c])) = storing[c]
         /\ \A m \in storing[c] : <<m>> \in Seq(Letters(c))
<1>1. storing[c] \subseteq Letters(c) /\ IsFiniteSet(storing[c])
  BY PeerType DEF Addressed
<1>2. SetToSeq(storing[c]) \in Seq(storing[c]) /\ Range(SetToSeq(storing[c])) = storing[c]
  BY <1>1, SetAsSeq
<1>3. SetToSeq(storing[c]) \in Seq(Letters(c))
  BY <1>1, <1>2
<1> QED
  BY <1>1, <1>2, <1>3

\* What fails.
LEMMA FailureAddressed ==
  ASSUME Shape, Addressed, NEW c \in Cities,
         \/ Crash(c) \/ ApplyOwnTableFails(c)
         \/ \E m \in storing[c] : StoreFails(c, m) \/ CrashAfterStore(c, m)
  PROVE  Fits(queue') /\ Awaits(storing')
<1>0. /\ Fits(queue) /\ Awaits(storing) /\ IsQueue(queue) /\ c \in Places
  BY AddressedIs, Names DEF Shape, IsQueue
<1> DEFINE q == [queue EXCEPT ![c] = SetToSeq(storing[c]) \o @]
<1>1. IsQueue(q) /\ Fits(q)
  BY <1>0, ReturnFits, ReturnedFits
<1>2. Dies(c) => Awaits(storing')
  BY <1>0, FS_EmptySet DEF Dies, Awaits, Shape
<1>3. CASE Crash(c)
  BY <1>1, <1>2, <1>3 DEF Crash
<1>4. CASE ApplyOwnTableFails(c)
  BY <1>0, <1>4, FanoutFits DEF ApplyOwnTableFails
<1>5. ASSUME NEW m \in storing[c], StoreFails(c, m)
      PROVE  Fits(queue') /\ Awaits(storing')
  <2>1. <<m>> \in Seq(Letters(c))
    BY ReturnedFits
  <2>2. Fits(queue')
    BY <1>0, <1>5, <2>1, ReturnFits DEF StoreFails
  <2>3. Awaits(storing')
    <3> SUFFICES ASSUME NEW x \in Cities
                 PROVE  storing'[x] \subseteq PeerTables(x) /\ IsFiniteSet(storing'[x])
      BY DEF Awaits
    <3>1. storing'[x] = IF x = c THEN storing[x] \ {m} ELSE storing[x]
      BY <1>5 DEF StoreFails, Shape
    <3>2. storing[x] \subseteq PeerTables(x) /\ IsFiniteSet(storing[x])
      BY <1>0 DEF Awaits
    <3> QED
      BY <3>1, <3>2, FS_RemoveElement
  <2> QED
    BY <2>2, <2>3
<1>6. ASSUME NEW m \in storing[c], CrashAfterStore(c, m)
      PROVE  Fits(queue') /\ Awaits(storing')
  <2>5. queue' = Sent(q, m.from, <<Ack(c, m.id)>>)
    BY <1>6 DEF CrashAfterStore
  <2>6. Fits(queue')
    <3> HIDE DEF q
    <3> QED
      BY <1>1, <2>5, AckFits, SentFits
  <2> QED
    BY <1>2, <1>6, <2>6 DEF CrashAfterStore
<1> QED
  BY <1>3, <1>4, <1>5, <1>6

\* What the central and the others do, and reconnections.
LEMMA ExternalAddressed ==
  ASSUME Shape, Addressed,
         \/ \E c \in Cities : \/ Reconnect(c) \/ CentralUpdates(c)
                              \/ \E o \in Others : OtherAsks(o, c)
         \/ CentralAnswers
         \/ \E o \in Others : OtherAnswers(o)
  PROVE  Fits(queue')
<1>0. /\ Fits(queue) /\ IsQueue(queue)
      /\ \A c \in Cities : Central \in Places \ {c}
  BY AddressedIs, Names DEF Shape, IsQueue
<1>1. ASSUME NEW c \in Cities, Reconnect(c) PROVE Fits(queue')
  BY <1>0, <1>1, RequestLetter, SentFits DEF Reconnect
<1>2. ASSUME NEW c \in Cities, CentralUpdates(c) PROVE Fits(queue')
  BY <1>0, <1>2, CentralLetter, SentFits DEF CentralUpdates
<1>3. ASSUME NEW c \in Cities, NEW o \in Others, OtherAsks(o, c)
      PROVE  Fits(queue')
  BY <1>0, <1>3, OtherRequestLetter, SentFits DEF OtherAsks
<1>4. CASE CentralAnswers
  BY <1>4, CentralTurn, SentFits
<1>5. ASSUME NEW o \in Others, OtherAnswers(o) PROVE Fits(queue')
  BY <1>5, OtherTurn, SentFits
<1> QED
  BY <1>1, <1>2, <1>3, <1>4, <1>5

\* Every step keeps what is addressed.
LEMMA AddressedStep == Shape /\ Addressed /\ [Next]_vars => Addressed'
<1> SUFFICES ASSUME Shape, Addressed, [Next]_vars PROVE Addressed'
  OBVIOUS
<1>1. UNCHANGED seen \/ \E marked : Remember(marked)
  BY DEF Next, vars, Works, Dispatch, Start, DropDuplicate, RespondWithOwnTable,
         ApplyOwnTable, StartStore, HearAck, Store, Reconnect, Crash,
         ApplyOwnTableFails, StoreFails, CrashAfterStore, Dies, CentralUpdates,
         OtherAsks, CentralAnswers, OtherAnswers, Mark, Unmarked
<1>2. CASE UNCHANGED vars
  BY <1>2 DEF vars, Addressed
<1>3. ASSUME NEW c \in Cities, Works(c) PROVE Addressed'
  BY <1>1, <1>3, WorksAddressed, AddressedNext
<1>4. ASSUME NEW c \in Cities,
             \/ Crash(c) \/ ApplyOwnTableFails(c)
             \/ \E m \in storing[c] : StoreFails(c, m) \/ CrashAfterStore(c, m)
      PROVE  Addressed'
  BY <1>1, <1>4, FailureAddressed, AddressedNext
<1>5. CASE \/ \E c \in Cities : \/ Reconnect(c) \/ CentralUpdates(c)
                                \/ \E o \in Others : OtherAsks(o, c)
           \/ CentralAnswers
           \/ \E o \in Others : OtherAnswers(o)
  <2>1. Awaits(storing')
    BY <1>5, AddressedIs
       DEF Reconnect, CentralUpdates, OtherAsks, CentralAnswers, OtherAnswers,
           externalVars, Awaits
  <2> QED
    BY <1>1, <1>5, <2>1, ExternalAddressed, AddressedNext
<1> QED
  BY <1>2, <1>3, <1>4, <1>5 DEF Next

\* The rest of the shape.
LEMMA LivesStep == Lives /\ [Next]_vars => Lives'
<1> SUFFICES ASSUME Lives, [Next]_vars PROVE Lives'
  OBVIOUS
<1>1. stimuli \in Nat /\ up = [c \in Cities |-> up[c]]
      /\ did = [c \in Cities |-> did[c]]
  BY DEF Lives
<1>2. stimuli' \in Nat
  <2>1. UNCHANGED stimuli \/ Stimulus
    BY DEF Next, vars, Works, Dispatch, Start, DropDuplicate,
           RespondWithOwnTable, ApplyOwnTable, StartStore, HearAck, Store,
           Reconnect, Crash, ApplyOwnTableFails, StoreFails, CrashAfterStore,
           CentralUpdates, OtherAsks, CentralAnswers, OtherAnswers
  <2> QED
    BY <1>1, <2>1 DEF Stimulus
<1>3. up' = [c \in Cities |-> up'[c]]
  <2>1. UNCHANGED up \/ \E c \in Cities, v \in BOOLEAN : up' = [up EXCEPT ![c] = v]
    BY DEF Next, vars, Works, Dispatch, Start, DropDuplicate,
           RespondWithOwnTable, ApplyOwnTable, StartStore, HearAck, Store,
           Reconnect, Crash, ApplyOwnTableFails, StoreFails, CrashAfterStore,
           Dies, CentralUpdates, OtherAsks, CentralAnswers, OtherAnswers,
           externalVars
  <2> QED
    BY <1>1, <2>1
<1>4. did' = [c \in Cities |-> did'[c]]
  <2>1. UNCHANGED did \/ \E c \in Cities : \E v : did' = [did EXCEPT ![c] = v]
    BY DEF Next, vars, Works, Dispatch, Start, DropDuplicate,
           RespondWithOwnTable, ApplyOwnTable, StartStore, HearAck, Store,
           Reconnect, Crash, ApplyOwnTableFails, StoreFails, CrashAfterStore,
           Dies, CentralUpdates, OtherAsks, CentralAnswers, OtherAnswers,
           externalVars, Fanout
  <2> QED
    BY <1>1, <2>1
<1> QED
  BY <1>2, <1>3, <1>4 DEF Lives

-----------------------------------------------------------------------------
(* What becomes of a message.                                              *)

\* Sending takes nothing away, and what can be read arrives.
LEMMA SentMail ==
  ASSUME NEW q, IsQueue(q), Fits(q), NEW p, NEW ms,
         p \in Places /\ ~Unread(p, ms) => ms \in Seq(Letters(p))
  PROVE  /\ \A x \in Places : Range(q[x]) \subseteq Range(Sent(q, p, ms)[x])
         /\ p \in Places /\ ~Unread(p, ms)
              => Range(ms) \subseteq Range(Sent(q, p, ms)[p])
<1>1. \A x \in Places : (Sent(q, p, ms))[x] =
         IF x # p \/ Unread(p, ms) THEN q[x] ELSE q[x] \o ms
  BY DEF Sent, IsQueue
<1>2. ASSUME p \in Places, ~Unread(p, ms)
      PROVE  Range(q[p] \o ms) = Range(q[p]) \cup Range(ms)
  <2>1. q[p] \in Seq(Letters(p)) /\ ms \in Seq(Letters(p))
    BY <1>2 DEF Fits
  <2> QED
    BY <2>1, ConcatRange
<1>3. ASSUME NEW x \in Places
      PROVE  Range(q[x]) \subseteq Range(Sent(q, p, ms)[x])
  <2>1. CASE x # p \/ Unread(p, ms)
    BY <1>1, <2>1
  <2>2. CASE ~(x # p \/ Unread(p, ms))
    <3>1. Sent(q, p, ms)[x] = q[x] \o ms
      BY <1>1, <2>2
    <3>2. Range(q[x] \o ms) = Range(q[x]) \cup Range(ms)
      BY <1>2, <2>2
    <3> QED
      BY <3>1, <3>2
  <2> QED
    BY <2>1, <2>2
<1>4. ASSUME p \in Places, ~Unread(p, ms)
      PROVE  Range(ms) \subseteq Range(Sent(q, p, ms)[p])
  <2>1. Sent(q, p, ms)[p] = q[p] \o ms
    BY <1>1, <1>4
  <2> QED
    BY <1>2, <1>4, <2>1
<1> QED
  BY <1>3, <1>4

\* Taking the first message takes no other away.
LEMMA RestMail ==
  ASSUME Shape, Fits(queue), NEW p \in Places, queue[p] # <<>>
  PROVE  /\ \A x \in Places \ {p} : Range(Rest(p)[x]) = Mail(x)
         /\ Mail(p) \subseteq Range(Rest(p)[p]) \cup {Head(queue[p])}
<1>1. \A x \in Places : Rest(p)[x] = IF x = p THEN Tail(queue[x]) ELSE queue[x]
  BY RestTo
<1>2. queue[p] \in Seq(Letters(p))
  BY DEF Fits
<1>3. Range(queue[p]) \subseteq Range(Tail(queue[p])) \cup {Head(queue[p])}
  BY <1>2, TailRange
<1> QED
  BY <1>1, <1>3 DEF Mail

\* A fan-out takes nothing away, and asks all if the throttle does not hold it.
LEMMA FanoutMail ==
  ASSUME NEW q, IsQueue(q), Fits(q), NEW c \in Cities, Fanout(c, q)
  PROVE  /\ \A x \in Places : Range(q[x]) \subseteq Mail(x)'
         /\ \/ "fanout" \in did[c] /\ UNCHANGED did
            \/ \A x \in AllCities \ {c} : Request(c) \in Mail(x)'
<1>1. CASE "fanout" \in did[c] /\ queue' = q /\ UNCHANGED did
  BY <1>1 DEF Mail
<1>2. CASE queue' = [p \in Places |-> IF p \in AllCities \ {c}
                                    THEN Append(q[p], Request(c)) ELSE q[p]]
  <2>1. ASSUME NEW x \in AllCities \ {c}
        PROVE  Mail(x)' = Range(q[x]) \cup {Request(c)}
    <3>1. x \in Places
      BY Names
    <3>2. q[x] \in Seq(Letters(x)) /\ Request(c) \in Letters(x)
      BY <3>1, RequestLetter DEF Fits
    <3>3. Range(Append(q[x], Request(c))) = Range(q[x]) \cup {Request(c)}
      BY <3>2, AppendRange
    <3>4. queue'[x] = Append(q[x], Request(c))
      BY <1>2, <3>1
    <3> QED
      BY <3>3, <3>4 DEF Mail
  <2>2. ASSUME NEW x \in Places, x \notin AllCities \ {c}
        PROVE  Mail(x)' = Range(q[x])
    BY <1>2, <2>2 DEF Mail
  <2> QED
    BY <2>1, <2>2
<1> QED
  BY <1>1, <1>2 DEF Fanout

\* What returns is in the queue again.
LEMMA ReturnMail ==
  ASSUME Shape, Fits(queue), NEW c \in Cities, NEW ms \in Seq(Letters(c)), NEW q,
         q = [queue EXCEPT ![c] = ms \o @]
  PROVE  /\ \A x \in Places : Mail(x) \subseteq Range(q[x])
         /\ Range(ms) \subseteq Range(q[c])
<1>1. c \in Places /\ \A x \in Places : q[x] = IF x = c THEN ms \o queue[x]
                                                        ELSE queue[x]
  BY PlacesApart DEF Shape, IsQueue
<1>2. Range(ms \o queue[c]) = Range(ms) \cup Range(queue[c])
  <2>1. queue[c] \in Seq(Letters(c))
    BY <1>1 DEF Fits
  <2> QED
    BY <2>1, ConcatRange
<1> QED
  BY <1>1, <1>2 DEF Mail

\* A message leaves a queue only when it is taken, whatever happens:
LEMMA CityKeepsMail ==
  ASSUME Shape, Addressed, NEW c \in Cities, Works(c),
         NEW p \in Places, NEW m \in Mail(p)
  PROVE  \/ m \in Mail(p)'
         \/ p = c /\ Dispatch(c) /\ m = First(c)
<1>0. /\ Fits(queue) /\ IsQueue(queue) /\ Central \in Places \ {c}
      /\ c \in Places
  BY AddressedIs, Names DEF Shape, IsQueue
<1>1. CASE Start(c)
  BY <1>0, <1>1, RequestLetter, SentMail DEF Start, Mail
<1>2. Has(c) => m \in Range(Rest(c)[p]) \/ (p = c /\ m = First(c))
  BY <1>0, RestMail DEF Has, First
<1>3. CASE DropDuplicate(c) \/ HearAck(c) \/ StartStore(c)
  BY <1>2, <1>3 DEF DropDuplicate, HearAck, StartStore, Takes, Mail, Dispatch
<1>4. CASE RespondWithOwnTable(c)
  <2>1. PICK d : d = First(c).from
    OBVIOUS
  <2>2. Free # {} => Range(Rest(c)[p])
                       \subseteq Range(Sent(Rest(c), d, Answer(c, NewId))[p])
    BY <1>4, <2>1, AnswerFits, FirstFits, SentMail
       DEF RespondWithOwnTable, Takes
  <2>3. Range(Rest(c)[p]) \subseteq Mail(p)'
    BY <1>4, <2>1, <2>2 DEF RespondWithOwnTable, Mail
  <2> QED
    BY <1>2, <1>4, <2>3 DEF RespondWithOwnTable, Takes, Dispatch
<1>5. CASE ApplyOwnTable(c)
  <2>1. Range(Rest(c)[p]) \subseteq Mail(p)'
    BY <1>5, FirstFits, FanoutMail DEF ApplyOwnTable, Takes
  <2> QED
    BY <1>2, <1>5, <2>1 DEF ApplyOwnTable, Takes, Dispatch
<1>6. ASSUME NEW n \in storing[c], Store(c, n) PROVE m \in Mail(p)'
  BY <1>0, <1>6, AckFits, SentMail DEF Store, Mail
<1> QED
  BY <1>1, <1>3, <1>4, <1>5, <1>6 DEF Works, Dispatch

\* what fails takes none away,
LEMMA FailureKeepsMail ==
  ASSUME Shape, Addressed, NEW c \in Cities,
         \/ Crash(c) \/ ApplyOwnTableFails(c)
         \/ \E m \in storing[c] : StoreFails(c, m) \/ CrashAfterStore(c, m)
  PROVE  \A p \in Places : Mail(p) \subseteq Mail(p)'
<1>0. /\ Fits(queue) /\ IsQueue(queue)
  BY AddressedIs DEF Shape, IsQueue
<1>1. PICK q : q = [queue EXCEPT ![c] = SetToSeq(storing[c]) \o @]
  OBVIOUS
<1>2. /\ \A x \in Places : Mail(x) \subseteq Range(q[x])
      /\ IsQueue(q) /\ Fits(q)
  BY <1>0, <1>1, ReturnedFits, ReturnMail, ReturnFits
<1>3. CASE Crash(c)
  BY <1>1, <1>2, <1>3 DEF Crash, Mail
<1>4. CASE ApplyOwnTableFails(c)
  BY <1>0, <1>4, FanoutMail DEF ApplyOwnTableFails, Mail
<1>5. ASSUME NEW m \in storing[c], StoreFails(c, m)
      PROVE  \A p \in Places : Mail(p) \subseteq Mail(p)'
  BY <1>0, <1>5, ReturnedFits, ReturnMail DEF StoreFails, Mail
<1>6. ASSUME NEW m \in storing[c], CrashAfterStore(c, m)
      PROVE  \A p \in Places : Mail(p) \subseteq Mail(p)'
  <2>1. queue' = Sent(q, m.from, <<Ack(c, m.id)>>)
    BY <1>1, <1>6 DEF CrashAfterStore
  <2>2. \A p \in Places : Range(q[p]) \subseteq Range(queue'[p])
    BY <1>2, <2>1, AckFits, SentMail
  <2> QED
    BY <1>2, <2>2 DEF Mail
<1> QED
  BY <1>3, <1>4, <1>5, <1>6

\* and the others take only what they answer.
LEMMA ExternalKeepsMail ==
  ASSUME Shape, Addressed,
         \/ \E c \in Cities : \/ Reconnect(c) \/ CentralUpdates(c)
                              \/ \E o \in Others : OtherAsks(o, c)
         \/ CentralAnswers
         \/ \E o \in Others : OtherAnswers(o),
         NEW p \in Places, NEW m \in Mail(p)
  PROVE  \/ m \in Mail(p)'
         \/ p = Central /\ CentralAnswers /\ m = Head(queue[p])
         \/ p \in Others /\ OtherAnswers(p) /\ m = Head(queue[p])
<1>0. /\ Fits(queue) /\ IsQueue(queue)
      /\ \A c \in Cities : Central \in Places \ {c}
  BY AddressedIs, Names DEF Shape, IsQueue
<1>1. ASSUME NEW c \in Cities, Reconnect(c) PROVE m \in Mail(p)'
  BY <1>0, <1>1, RequestLetter, SentMail DEF Reconnect, Mail
<1>2. ASSUME NEW c \in Cities, CentralUpdates(c) PROVE m \in Mail(p)'
  BY <1>0, <1>2, CentralLetter, SentMail DEF CentralUpdates, Mail
<1>3. ASSUME NEW c \in Cities, NEW o \in Others, OtherAsks(o, c)
      PROVE  m \in Mail(p)'
  BY <1>0, <1>3, OtherRequestLetter, SentMail DEF OtherAsks, Mail
<1>4. ASSUME CentralAnswers
      PROVE  m \in Mail(p)' \/ (p = Central /\ m = Head(queue[p]))
  <2>1. m \in Range(Rest(Central)[p]) \/ (p = Central /\ m = Head(queue[p]))
    BY <1>0, <1>4, Names, RestMail DEF CentralAnswers
  <2>2. Range(Rest(Central)[p]) \subseteq Mail(p)'
    BY <1>4, CentralTurn, SentMail DEF Mail
  <2> QED
    BY <2>1, <2>2
<1>5. ASSUME NEW o \in Others, OtherAnswers(o)
      PROVE  m \in Mail(p)' \/ (p = o /\ m = Head(queue[p]))
  <2>1. m \in Range(Rest(o)[p]) \/ (p = o /\ m = Head(queue[p]))
    BY <1>0, <1>5, Names, RestMail DEF OtherAnswers
  <2>2. Range(Rest(o)[p]) \subseteq Mail(p)'
    BY <1>5, OtherTurn, SentMail DEF Mail
  <2> QED
    BY <2>1, <2>2
<1> QED
  BY <1>1, <1>2, <1>3, <1>4, <1>5

LEMMA MailKept ==
  ASSUME Shape, Addressed, [Next]_vars, NEW p \in Places, NEW m \in Mail(p)
  PROVE  \/ m \in Mail(p)'
         \/ p \in Cities /\ Dispatch(p) /\ m = First(p)
         \/ p = Central /\ CentralAnswers /\ m = Head(queue[p])
         \/ p \in Others /\ OtherAnswers(p) /\ m = Head(queue[p])
<1>1. CASE UNCHANGED vars
  BY <1>1 DEF vars, Mail
<1>2. CASE \E c \in Cities : Works(c)
  BY <1>2, CityKeepsMail
<1>3. CASE \E c \in Cities :
             \/ Crash(c) \/ ApplyOwnTableFails(c)
             \/ \E n \in storing[c] : StoreFails(c, n) \/ CrashAfterStore(c, n)
  BY <1>3, FailureKeepsMail
<1>4. CASE \/ \E c \in Cities : \/ Reconnect(c) \/ CentralUpdates(c)
                                \/ \E o \in Others : OtherAsks(o, c)
           \/ CentralAnswers
           \/ \E o \in Others : OtherAnswers(o)
  BY <1>4, ExternalKeepsMail
<1> QED
  BY <1>1, <1>2, <1>3, <1>4 DEF Next

\* A table whose upsert is awaited is stored or returns to the queue.
LEMMA StoringKept ==
  ASSUME Shape, Addressed, [Next]_vars, NEW c \in Cities
  PROVE  /\ stored[c] \subseteq stored'[c]
         /\ \A m \in storing[c] : \/ m \in storing'[c] \/ m \in Mail(c)'
                                  \/ m.from \in stored'[c]
<1> DEFINE Goal(x) == /\ stored[x] \subseteq stored'[x]
                      /\ \A m \in storing[x] : \/ m \in storing'[x]
                                               \/ m \in Mail(x)'
                                               \/ m.from \in stored'[x]
<1>0. /\ stored = [x \in Cities |-> stored[x]]
      /\ storing = [x \in Cities |-> storing[x]]
      /\ Fits(queue) /\ IsQueue(queue)
  BY AddressedIs DEF Shape, IsQueue
<1>1. ASSUME NEW x \in Cities,
             Works(x) /\ ~(\E m \in storing[x] : Store(x, m))
      PROVE  Goal(c)
  BY <1>0, <1>1 DEF Works, Dispatch, Start, DropDuplicate, RespondWithOwnTable,
                    ApplyOwnTable, StartStore, HearAck
<1>2. ASSUME NEW x \in Cities, NEW m \in storing[x], Store(x, m)
      PROVE  Goal(c)
  BY <1>0, <1>2 DEF Store
<1>3. ASSUME NEW x \in Cities,
             \/ Crash(x)
             \/ \E m \in storing[x] : StoreFails(x, m) \/ CrashAfterStore(x, m)
      PROVE  Goal(c)
  <2>1. PICK q, ms : /\ ms = SetToSeq(storing[x])
                     /\ q = [queue EXCEPT ![x] = ms \o @]
    OBVIOUS
  <2>2. storing[x] \subseteq Range(q[x]) /\ IsQueue(q) /\ Fits(q) /\ x \in Places
    <3>1. ms \in Seq(Letters(x)) /\ Range(ms) = storing[x]
      BY <2>1, ReturnedFits
    <3>2. Range(ms) \subseteq Range(q[x])
      BY <1>0, <2>1, <3>1, ReturnMail
    <3>3. IsQueue(q) /\ Fits(q)
      BY <1>0, <2>1, <3>1, ReturnFits
    <3> QED
      BY <3>1, <3>2, <3>3, Names
  <2>3. CASE Crash(x)
    <3>1. storing[x] \subseteq Mail(x)'
      BY <2>1, <2>2, <2>3 DEF Crash, Mail
    <3> QED
      BY <1>0, <2>3, <3>1 DEF Crash, Dies
  <2>4. ASSUME NEW m \in storing[x], StoreFails(x, m) PROVE Goal(c)
    <3>1. PICK r : r = [queue EXCEPT ![x] = <<m>> \o @]
      OBVIOUS
    <3>2. Range(<<m>>) \subseteq Range(r[x])
      <4>1. <<m>> \in Seq(Letters(x))
        BY ReturnedFits
      <4> QED
        BY <1>0, <3>1, <4>1, ReturnMail
    <3>3. m \in Mail(x)'
      <4>1. Range(<<m>>) = {m}
        BY DEF Range
      <4> QED
        BY <2>4, <3>1, <3>2, <4>1 DEF StoreFails, Mail
    <3> QED
      BY <1>0, <2>4, <3>3 DEF StoreFails
  <2>5. ASSUME NEW m \in storing[x], CrashAfterStore(x, m) PROVE Goal(c)
    <3>1. queue' = Sent(q, m.from, <<Ack(x, m.id)>>)
      BY <2>1, <2>5 DEF CrashAfterStore
    <3>2. Range(q[x]) \subseteq Range(queue'[x])
      BY <2>2, <3>1, AckFits, SentMail
    <3>3. storing[x] \subseteq Mail(x)'
      BY <2>2, <3>2 DEF Mail
    <3> QED
      BY <1>0, <2>5, <3>3 DEF CrashAfterStore, Dies
  <2> QED
    BY <1>3, <2>3, <2>4, <2>5
<1>4. ASSUME \/ \E x \in Cities : \/ Reconnect(x) \/ CentralUpdates(x)
                                  \/ ApplyOwnTableFails(x)
                                  \/ \E o \in Others : OtherAsks(o, x)
             \/ CentralAnswers
             \/ \E o \in Others : OtherAnswers(o)
             \/ UNCHANGED vars
      PROVE  Goal(c)
  BY <1>4 DEF Reconnect, CentralUpdates, ApplyOwnTableFails, OtherAsks,
              CentralAnswers, OtherAnswers, externalVars, vars
<1> HIDE DEF Goal
<1>5. Goal(c)
  BY <1>1, <1>2, <1>3, <1>4 DEF Next, Works
<1> QED
  BY <1>5 DEF Goal

\* What leads to the table of another program's city is there until the table
\* is stored, unless an answer is dropped.
LEMMA AskedStep ==
  ASSUME Shape, Addressed, [Next]_vars, ~AnswerIsDropped,
         NEW c \in Cities, NEW o \in Others, Asked(c, o)
  PROVE  Asked(c, o)'
<1>0. o \in Places /\ c \in Places /\ o \notin Cities /\ c \notin Others
      /\ o # Central /\ c # Central /\ o \in AllCities \ {c}
      /\ ~IsOwnTable(c, o)
  BY Names DEF IsOwnTable
<1>1. CASE o \in stored[c]
  BY <1>1, StoringKept DEF Asked
<1>2. CASE Request(c) \in Mail(o)
  <2>1. CASE Request(c) \in Mail(o)'
    BY <2>1 DEF Asked
  <2>2. CASE OtherAnswers(o) /\ Request(c) = Head(queue[o])
    <3>1. PICK d \in Cities :
            /\ Head(queue[o]) = Request(d)
            /\ NewId \in Ids
            /\ queue' = Sent(Rest(o), d, <<Table(o, NewId)>>)
            /\ <<Table(o, NewId)>> \in Seq(Letters(d))
            /\ IsQueue(Rest(o)) /\ Fits(Rest(o))
      BY <2>2, OtherTurn
    <3>2. d = c
      BY <2>2, <3>1 DEF Request
    <3>3. ~Unread(c, <<Table(o, NewId)>>)
      BY <1>0 DEF Unread
    <3>4. Range(<<Table(o, NewId)>>) \subseteq Mail(c)'
      BY <1>0, <3>1, <3>2, <3>3, SentMail DEF Mail
    <3>5. Table(o, NewId) \in Mail(c)'
      <4>1. Range(<<Table(o, NewId)>>) = {Table(o, NewId)}
        BY DEF Range
      <4> QED
        BY <3>4, <4>1
    <3> QED
      BY <3>5 DEF Asked, Table
  <2> QED
    BY <1>0, <1>2, <2>1, <2>2, MailKept
<1>3. ASSUME NEW m \in Mail(c), m.type = "table", m.from = o
      PROVE  Asked(c, o)'
  <2>1. CASE m \in Mail(c)'
    BY <1>3, <2>1 DEF Asked
  <2>2. CASE Dispatch(c) /\ m = First(c)
    <3>1. ~DropDuplicate(c)
      BY <1>3, <2>2 DEF DropDuplicate, AnswerIsDropped
    <3>2. StartStore(c)
      BY <1>0, <1>3, <2>2, <3>1
         DEF Dispatch, RespondWithOwnTable, ApplyOwnTable, HearAck, Takes
    <3>3. m \in storing'[c]
      BY <2>2, <3>2 DEF StartStore, Shape
    <3> QED
      BY <1>3, <3>3 DEF Asked
  <2> QED
    BY <1>0, <2>1, <2>2, MailKept
<1>4. ASSUME NEW m \in storing[c], m.type = "table", m.from = o
      PROVE  Asked(c, o)'
  BY <1>4, StoringKept DEF Asked
<1> QED
  BY <1>1, <1>2, <1>3, <1>4 DEF Asked

\* Only a restart ends a city's absence.
LEMMA DownUntilStart ==
  ASSUME Lives, [Next]_vars, NEW c \in Cities, ~up[c]
  PROVE  ~up'[c] \/ Start(c)
<1>1. \/ UNCHANGED up
      \/ \E x \in Cities : up' = [up EXCEPT ![x] = FALSE] \/ Start(x)
  BY DEF Next, vars, Works, Dispatch, DropDuplicate, RespondWithOwnTable,
         ApplyOwnTable, StartStore, HearAck, Store, Reconnect, Crash,
         ApplyOwnTableFails, StoreFails, CrashAfterStore, Dies, CentralUpdates,
         OtherAsks, CentralAnswers, OtherAnswers, externalVars
<1> QED
  BY <1>1 DEF Lives, Start

\* Who has asked all cities has sent the requests.
LEMMA FanoutStep ==
  ASSUME Shape, Addressed, Lives, [Next]_vars, NEW c \in Cities,
         "fanout" \in did'[c]
  PROVE  \/ "fanout" \in did[c]
         \/ \A x \in AllCities \ {c} : Request(c) \in Mail(x)'
<1>0. did = [x \in Cities |-> did[x]]
  BY DEF Lives
<1>1. ASSUME NEW x \in Cities, ApplyOwnTable(x) \/ ApplyOwnTableFails(x),
             "fanout" \notin did[c]
      PROVE  \A y \in AllCities \ {c} : Request(c) \in Mail(y)'
  <2>1. /\ IsQueue(queue) /\ Fits(queue) /\ IsQueue(Rest(x)) /\ Fits(Rest(x))
        /\ Fanout(x, queue) \/ Fanout(x, Rest(x))
    BY <1>1, FirstFits, AddressedIs
       DEF ApplyOwnTable, ApplyOwnTableFails, Takes, Shape, IsQueue
  <2>2. \/ UNCHANGED did
        \/ \A y \in AllCities \ {x} : Request(x) \in Mail(y)'
    BY <2>1, FanoutMail
  <2>3. x # c => did'[c] = did[c]
    BY <1>0, <2>1 DEF Fanout
  <2> QED
    BY <1>1, <2>2, <2>3
<1>2. ASSUME NEW x \in Cities, RespondWithOwnTable(x)
      PROVE  "fanout" \in did[c]
  <2>1. First(x).from \in AllCities
    BY <1>2, AnswerFits
  <2>2. First(x).from # "fanout"
    BY <2>1, TableExchangeAssumption DEF AllCities
  <2>3. UNCHANGED did \/ did' = [did EXCEPT ![x] = @ \cup {First(x).from}]
    BY <1>2 DEF RespondWithOwnTable
  <2> QED
    BY <1>0, <2>2, <2>3
<1>3. ASSUME NEW x \in Cities,
             Crash(x) \/ \E m \in storing[x] : CrashAfterStore(x, m)
      PROVE  "fanout" \in did[c]
  BY <1>0, <1>3 DEF Crash, CrashAfterStore, Dies
<1>4. ASSUME ~(\E x \in Cities :
                 \/ ApplyOwnTable(x) \/ ApplyOwnTableFails(x)
                 \/ RespondWithOwnTable(x) \/ Crash(x)
                 \/ \E m \in storing[x] : CrashAfterStore(x, m))
      PROVE  UNCHANGED did
  BY <1>4 DEF Next, vars, Works, Dispatch, Start, DropDuplicate, StartStore,
              HearAck, Store, Reconnect, StoreFails, CentralUpdates, OtherAsks,
              CentralAnswers, OtherAnswers, externalVars
<1> QED
  BY <1>1, <1>2, <1>3, <1>4

\* The own table of a city is on its way until the city asks the others.
LEMMA AsksCentralStep ==
  ASSUME Shape, Addressed, Lives, [Next]_vars, NEW c \in Cities, AsksCentral(c)
  PROVE  \/ AsksCentral(c)'
         \/ "fanout" \in did[c]
         \/ \A x \in AllCities \ {c} : Request(c) \in Mail(x)'
<1>0. /\ c \in Places /\ c \notin Others /\ c # Central /\ Central \in Places
      /\ Central \notin Cities /\ Central \notin Others
      /\ Fits(queue) /\ IsQueue(queue) /\ Central \in Places \ {c}
  BY Names, AddressedIs DEF Shape, IsQueue
<1>1. CASE ~up[c]
  <2>1. CASE ~up'[c]
    BY <2>1 DEF AsksCentral
  <2>2. CASE Start(c)
    <3>1. ~Unread(Central, <<Request(c)>>)
      BY <1>0 DEF Unread
    <3>2. Range(<<Request(c)>>) \subseteq Mail(Central)'
      BY <1>0, <2>2, <3>1, RequestLetter, SentMail DEF Start, Mail
    <3>3. Range(<<Request(c)>>) = {Request(c)}
      BY DEF Range
    <3>4. Request(c) \in Mail(Central)'
      BY <3>2, <3>3
    <3> QED
      BY <3>4 DEF AsksCentral
  <2> QED
    BY <1>1, <2>1, <2>2, DownUntilStart
<1>2. CASE Request(c) \in Mail(Central)
  <2>1. CASE Request(c) \in Mail(Central)'
    BY <2>1 DEF AsksCentral
  <2>2. CASE CentralAnswers /\ Request(c) = Head(queue[Central])
    <3>1. PICK d \in Cities :
            /\ Head(queue[Central]) = Request(d)
            /\ queue' = Sent(Rest(Central), d, <<FromCentral(d)>>)
            /\ <<FromCentral(d)>> \in Seq(Letters(d))
            /\ IsQueue(Rest(Central)) /\ Fits(Rest(Central))
      BY <2>2, CentralTurn
    <3>2. d = c
      BY <2>2, <3>1 DEF Request
    <3>3. ~Unread(c, <<FromCentral(c)>>)
      BY <1>0 DEF Unread
    <3>4. Range(<<FromCentral(c)>>) \subseteq Mail(c)'
      BY <1>0, <3>1, <3>2, <3>3, SentMail DEF Mail
    <3>5. Range(<<FromCentral(c)>>) = {FromCentral(c)}
      BY DEF Range
    <3>6. FromCentral(c) \in Mail(c)' /\ IsOwn(c, FromCentral(c))
      BY <3>4, <3>5, CentralLetter
    <3> QED
      BY <3>6 DEF AsksCentral
  <2> QED
    BY <1>0, <1>2, <2>1, <2>2, MailKept
<1>3. ASSUME NEW m \in Mail(c), IsOwn(c, m)
      PROVE  \/ AsksCentral(c)'
             \/ "fanout" \in did[c]
             \/ \A x \in AllCities \ {c} : Request(c) \in Mail(x)'
  <2>1. CASE m \in Mail(c)'
    BY <1>3, <2>1 DEF AsksCentral
  <2>2. CASE Dispatch(c) /\ m = First(c)
    <3>1. m.id \notin seen[c]
      <4>1. queue[c] \in Seq(Letters(c)) /\ seen[c] \subseteq Ids
        BY <1>0 DEF Addressed
      <4>2. m \in Letters(c)
        BY <4>1 DEF Mail, Range
      <4>3. m.id = NoId
        BY <1>3, <4>2 DEF Letters
      <4> QED
        BY <4>1, <4>3, TableExchangeAssumption DEF Ids, NoId
    <3>2. ApplyOwnTable(c)
      BY <1>3, <2>2, <3>1
         DEF Dispatch, DropDuplicate, RespondWithOwnTable, StartStore, HearAck,
             Takes, IsOwn
    <3> QED
      BY <3>2, FirstFits, FanoutMail DEF ApplyOwnTable, Takes
  <2> QED
    BY <1>0, <2>1, <2>2, MailKept
<1> QED
  BY <1>1, <1>2, <1>3 DEF AsksCentral

-----------------------------------------------------------------------------
(* What is needed for the tables of the others to come.                    *)

EndInv == Shape /\ Addressed /\ Lives

LEMMA EndInvInit == Init => EndInv
  BY InitInv, AddressedInit DEF EndInv, IndInv

LEMMA EndInvStep == EndInv /\ [Next]_vars => EndInv'
  BY ShapeStep, AddressedStep, LivesStep DEF EndInv

\* What is in the queues is what their places can read, and only tables of
\* other cities are being stored, over all failures.
THEOREM EndInductive == Spec => []EndInv
  BY EndInvInit, EndInvStep, PTL DEF Spec

LEMMA ComingInit == Init => TablesAreComing
<1> SUFFICES ASSUME Init, NEW c \in Cities, NEW o \in Others
             PROVE  AsksCentral(c) /\ "fanout" \notin did[c]
  BY DEF TablesAreComing
<1>1. up[c] /\ did[c] = {}
  BY DEF Init
<1>2. Request(c) \in Mail(Central)
  <2> DEFINE S == {Request(x) : x \in Cities}
  <2>1. IsFiniteSet(S)
    BY RequestsFinite
  <2>2. queue[Central] = SetToSeq(S)
    BY Names DEF Init
  <2>3. Request(c) \in S
    OBVIOUS
  <2> HIDE DEF S
  <2>4. Range(SetToSeq(S)) = S
    BY <2>1, SetAsSeq, Zenon
  <2> QED
    BY <2>2, <2>3, <2>4, Zenon DEF Mail
<1> QED
  BY <1>1, <1>2 DEF AsksCentral

LEMMA ComingStep ==
  EndInv /\ TablesAreComing /\ ~AnswerIsDropped /\ [Next]_vars => TablesAreComing'
<1> SUFFICES ASSUME EndInv, TablesAreComing, ~AnswerIsDropped, [Next]_vars,
                    NEW c \in Cities, NEW o \in Others
             PROVE  /\ Asked(c, o)' \/ AsksCentral(c)'
                    /\ "fanout" \in did'[c] => Asked(c, o)'
  BY DEF TablesAreComing
<1>1. /\ Asked(c, o) \/ AsksCentral(c)
      /\ "fanout" \in did[c] => Asked(c, o)
  BY DEF TablesAreComing
<1>2. Asked(c, o) => Asked(c, o)'
  BY AskedStep DEF EndInv
<1>3. (\A x \in AllCities \ {c} : Request(c) \in Mail(x)') => Asked(c, o)'
  BY Names DEF Asked
<1>4. AsksCentral(c) => AsksCentral(c)' \/ Asked(c, o)'
  BY <1>1, <1>2, <1>3, AsksCentralStep DEF EndInv
<1>5. "fanout" \in did'[c] => Asked(c, o)'
  BY <1>1, <1>2, <1>3, FanoutStep DEF EndInv
<1> QED
  BY <1>1, <1>2, <1>4, <1>5

\* The safety core of OthersAreStored: over crashes, failed upserts and
\* reconnections of any number, the table of each city with another program is
\* stored, or in a queue, or asked for, or what makes the city ask for it is
\* still there, as long as no answer is dropped as a duplicate.
THEOREM TablesStillCome == Spec => NothingForgotten
<1>1. Init => EndInv /\ TablesAreComing
  BY EndInvInit, ComingInit
<1>2. EndInv /\ [Next]_vars => EndInv'
  BY EndInvStep
<1>3. EndInv /\ TablesAreComing /\ ~AnswerIsDropped /\ [Next]_vars
        => TablesAreComing'
  BY ComingStep
<1> QED
  BY <1>1, <1>2, <1>3, PTL DEF Spec, NothingForgotten

-----------------------------------------------------------------------------
(* How much there is to do.                                                *)

LEMMA RankFinite ==
  ASSUME NEW q \in Seq(Message), NEW p, NEW k
  PROVE  /\ IsFiniteSet(OfRank(p, q, k))
         /\ Cardinality(OfRank(p, q, k)) \in Nat
<1>1. Len(q) \in Nat /\ DOMAIN q = 1..Len(q)
  OBVIOUS
<1>2. IsFiniteSet(1..Len(q))
  BY <1>1, FS_Interval
<1>3. OfRank(p, q, k) \in SUBSET (1..Len(q))
  BY <1>1 DEF OfRank
<1> QED
  BY <1>2, <1>3, FS_Subset, FS_CardinalityType

\* A message that is taken leaves fewer of its rank and no more of another.
LEMMA RankTail ==
  ASSUME NEW q \in Seq(Message), q # <<>>, NEW p, NEW k
  PROVE  /\ Cardinality(OfRank(p, Tail(q), k)) <= Cardinality(OfRank(p, q, k))
         /\ Rank(p, Head(q)) = k
              => Cardinality(OfRank(p, Tail(q), k)) < Cardinality(OfRank(p, q, k))
<1> DEFINE S == OfRank(p, Tail(q), k)
           T == OfRank(p, q, k)
           f == [i \in S |-> i + 1]
<1>1. /\ Tail(q) \in Seq(Message)
      /\ Len(Tail(q)) = Len(q) - 1
      /\ \A i \in 1..Len(Tail(q)) : Tail(q)[i] = q[i + 1]
  BY HeadTailProperties
<1>2. Len(q) \in Nat /\ Len(q) > 0 /\ Head(q) = q[1] /\ DOMAIN q = 1..Len(q)
      /\ DOMAIN Tail(q) = 1..(Len(q) - 1)
  BY <1>1
<1>3. IsFiniteSet(T) /\ Cardinality(T) \in Nat /\ Cardinality(S) \in Nat
  BY <1>1, RankFinite
<1>4. IsFiniteSet(T \ {1})
      /\ Cardinality(T \ {1}) = IF 1 \in T THEN Cardinality(T) - 1
                                           ELSE Cardinality(T)
  BY <1>3, FS_RemoveElement
<1>5. \A i \in S : i \in Int /\ i + 1 \in T \ {1}
  BY <1>1, <1>2 DEF OfRank
<1>6. f \in Injection(S, T \ {1})
  <2>1. f \in [S -> T \ {1}] /\ \A i, j \in S : f[i] = f[j] => i = j
    BY <1>5
  <2> QED
    BY <2>1 DEF Injection, IsInjective
<1>7. Cardinality(S) <= Cardinality(T \ {1})
  BY <1>4, <1>6, FS_Injection
<1>8. Rank(p, Head(q)) = k => 1 \in T
  BY <1>2 DEF OfRank
<1> HIDE DEF S, T
<1>9. Cardinality(S) <= Cardinality(T)
      /\ (1 \in T => Cardinality(S) < Cardinality(T))
  BY <1>3, <1>4, <1>7
<1> QED
  BY <1>8, <1>9 DEF S, T

\* What follows in a queue is of lower ranks than k.
Colder(p, q, k, r) ==
    \/ r = q
    \/ \E ms \in Seq(Message) : /\ r = q \o ms
                                /\ \A m \in Range(ms) : Rank(p, m) < k

LEMMA ColderRank ==
  ASSUME NEW q \in Seq(Message), NEW p, NEW k \in Nat, NEW r,
         Colder(p, q, k, r), NEW j \in Nat, j >= k
  PROVE  OfRank(p, r, j) = OfRank(p, q, j)
<1>1. CASE r = q
  BY <1>1
<1>2. ASSUME NEW ms \in Seq(Message), r = q \o ms,
             \A m \in Range(ms) : Rank(p, m) < k
      PROVE  OfRank(p, r, j) = OfRank(p, q, j)
  <2>1. /\ Len(r) = Len(q) + Len(ms) /\ r \in Seq(Message)
        /\ \A i \in 1..(Len(q) + Len(ms)) :
              r[i] = IF i <= Len(q) THEN q[i] ELSE ms[i - Len(q)]
    BY <1>2, ConcatProperties
  <2>2. /\ Len(q) \in Nat /\ Len(ms) \in Nat /\ DOMAIN q = 1..Len(q)
        /\ DOMAIN r = 1..(Len(q) + Len(ms)) /\ DOMAIN ms = 1..Len(ms)
    BY <2>1
  <2>3. ASSUME NEW i \in 1..(Len(q) + Len(ms)), i > Len(q)
        PROVE  Rank(p, r[i]) # j
    <3>1. i - Len(q) \in DOMAIN ms /\ r[i] = ms[i - Len(q)]
      BY <2>1, <2>2, <2>3
    <3>2. r[i] \in Range(ms)
      BY <3>1 DEF Range
    <3>3. Rank(p, r[i]) < k
      BY <1>2, <3>2
    <3> HIDE DEF Rank
    <3> QED
      BY <3>3
  <2>4. ASSUME NEW i \in 1..Len(q)
        PROVE  i \in 1..(Len(q) + Len(ms)) /\ r[i] = q[i]
    BY <2>1, <2>2
  <2> QED
    BY <2>2, <2>3, <2>4 DEF OfRank
<1> QED
  BY <1>1, <1>2 DEF Colder

\* The ranks of what is sent.
LEMMA Ranks ==
  ASSUME NEW c \in Cities, NEW id
  PROVE  /\ Rank(Central, Request(c)) = 5
         /\ \A p \in AllCities : Rank(p, Request(c)) = 3
         /\ Rank(c, FromCentral(c)) = 4
         /\ \A d \in AllCities \ {c} : Rank(c, Table(d, id)) = 2
         /\ \A p, d : Rank(p, Ack(d, id)) = 0
  BY Names DEF Rank, Request, FromCentral, Table, Ack, IsOwnTable

LEMMA RankType ==
  ASSUME NEW p, NEW m \in Message
  PROVE  Rank(p, m) \in {0, 2, 3, 4, 5}
  BY DEF Rank, Message

\* Sending messages of lower ranks.
LEMMA SentColder ==
  ASSUME NEW q, IsQueue(q), NEW p, NEW ms, NEW k,
         p \in Places /\ ~Unread(p, ms)
           => ms \in Seq(Message) /\ \A m \in Range(ms) : Rank(p, m) < k
  PROVE  \A x \in Places : Colder(x, q[x], k, Sent(q, p, ms)[x])
<1>1. \A x \in Places : (Sent(q, p, ms))[x] =
         IF x # p \/ Unread(p, ms) THEN q[x] ELSE q[x] \o ms
  BY DEF Sent, IsQueue
<1> QED
  BY <1>1 DEF Colder

\* One message, which is all of its sequence.
LEMMA OneMessage ==
  ASSUME NEW S, NEW m, <<m>> \in Seq(S)
  PROVE  m \in S /\ Range(<<m>>) = {m}
<1>1. Range(<<m>>) = {m} /\ m = <<m>>[1] /\ 1 \in DOMAIN <<m>>
  BY DEF Range
<1> QED
  BY <1>1

\* Whoever takes a message and sends only messages of lower ranks makes less
\* work than there was.
LEMMA TakingCools ==
  ASSUME EndInv, NEW p \in Places, queue[p] # <<>>, NEW k \in {0, 2, 3, 4, 5},
         Rank(p, Head(queue[p])) = k, UNCHANGED up, UNCHANGED storing \/ k > 1,
         \A x \in Places : Colder(x, Rest(p)[x], k, queue'[x])
  PROVE  Cools
<1>1. \A x \in Places : queue[x] \in Seq(Message)
  BY LettersType DEF EndInv, Addressed
<1>2. \A x \in Places : Rest(p)[x] = IF x = p THEN Tail(queue[x]) ELSE queue[x]
  BY RestTo DEF EndInv
<1>3. \A x \in Places : Rest(p)[x] \in Seq(Message)
  <2>1. Tail(queue[p]) \in Seq(Message)
    BY <1>1, HeadTailProperties
  <2> QED
    BY <1>1, <1>2, <2>1
<1>4. ASSUME NEW x \in Places, NEW j \in k..Down, j # Down, j # Upserts
      PROVE  /\ Load(x, j)' = Cardinality(OfRank(x, Rest(p)[x], j))
             /\ Load(x, j) = Cardinality(OfRank(x, queue[x], j))
  <2>1. OfRank(x, queue'[x], j) = OfRank(x, Rest(p)[x], j)
    <3>1. j \in Nat /\ k \in Nat /\ j >= k
      BY DEF Down
    <3> QED
      BY <1>3, <3>1, ColderRank
  <2> QED
    BY <1>4, <2>1 DEF Load
<1>5. ASSUME NEW x \in Places, NEW j \in k..Down
      PROVE  Load(x, j)' <= Load(x, j)
  <2>1. CASE j = Down
    <3>1. Load(x, j)' = Load(x, j) /\ Load(x, j) \in {0, 1}
      BY <2>1 DEF Load
    <3> QED
      BY <3>1
  <2>2. CASE j = Upserts
    <3>1. UNCHANGED storing
      BY <2>2 DEF Upserts
    <3>2. x \in Cities => Cardinality(storing[x]) \in Nat
      BY FS_CardinalityType DEF EndInv, Addressed
    <3>3. Load(x, j)' = Load(x, j) /\ Load(x, j) \in Nat
      BY <2>2, <3>1, <3>2 DEF Load, Upserts, Down
    <3> QED
      BY <3>3
  <2>3. CASE j # Down /\ j # Upserts
    <3>1. Cardinality(OfRank(x, queue[x], j)) \in Nat
      BY <1>1, RankFinite
    <3>2. Cardinality(OfRank(x, Rest(p)[x], j))
            <= Cardinality(OfRank(x, queue[x], j))
      <4>1. CASE x = p
        <5>1. Rest(p)[x] = Tail(queue[x]) /\ queue[x] \in Seq(Message)
              /\ queue[x] # <<>>
          BY <1>1, <1>2, <4>1
        <5> QED
          BY <5>1, RankTail
      <4>2. CASE x # p
        <5>1. Rest(p)[x] = queue[x]
          BY <1>2, <4>2
        <5> QED
          BY <3>1, <5>1
      <4> QED
        BY <4>1, <4>2
    <3> QED
      BY <1>4, <2>3, <3>2
  <2> QED
    BY <2>1, <2>2, <2>3
<1>6. k \in k..Down /\ k \in 0..Down /\ k # Down /\ k # Upserts
  BY DEF Down, Upserts
<1>7. Load(p, k)' < Load(p, k)
  <2>1. /\ Load(p, k)' = Cardinality(OfRank(p, Rest(p)[p], k))
        /\ Load(p, k) = Cardinality(OfRank(p, queue[p], k))
    BY <1>4, <1>6
  <2>2. Rest(p)[p] = Tail(queue[p]) /\ queue[p] \in Seq(Message)
    BY <1>1, <1>2
  <2>3. Cardinality(OfRank(p, Tail(queue[p]), k))
          < Cardinality(OfRank(p, queue[p], k))
    BY <2>2, RankTail
  <2> QED
    BY <2>1, <2>2, <2>3
<1> QED
  BY <1>5, <1>6, <1>7 DEF Cools

\* What a city does by itself makes less work than there was: a restart,
LEMMA StartCools ==
  ASSUME EndInv, NEW c \in Cities, Start(c)
  PROVE  Cools
<1>1. /\ c \in Places /\ ~up[c] /\ up'[c]
      /\ \A p \in Cities : p # c => up'[p] = up[p]
  BY Names DEF Start, EndInv, Lives
<1>2. Load(c, Down)' < Load(c, Down)
  BY <1>1 DEF Load
<1>3. \A p \in Places : Load(p, Down)' <= Load(p, Down)
  BY <1>1 DEF Load
<1>4. Down \in 0..Down /\ \A j \in Down..Down : j = Down
  BY DEF Down
<1> QED
  BY <1>1, <1>2, <1>3, <1>4 DEF Cools

\* a message that is dispatched,
LEMMA DispatchCools ==
  ASSUME EndInv, NEW c \in Cities, Dispatch(c)
  PROVE  Cools
<1>0. /\ IsQueue(Rest(c)) /\ First(c) \in Message /\ First(c) \in Letters(c)
      /\ c \in Places /\ queue[c] # <<>> /\ UNCHANGED up /\ Fits(Rest(c))
  BY FirstFits DEF EndInv, Dispatch, DropDuplicate, RespondWithOwnTable,
     ApplyOwnTable, StartStore, HearAck, Takes
<1> DEFINE k == Rank(c, First(c))
<1>1. k \in {0, 2, 3, 4, 5} /\ Rank(c, Head(queue[c])) = k
  BY <1>0, RankType DEF First
<1>2. CASE queue' = Rest(c)
  <2>1. UNCHANGED storing \/ k > 1
    <3>1. StartStore(c) => k = 2
      BY DEF StartStore, Takes, Rank
    <3>2. StartStore(c) \/ UNCHANGED storing
      BY DEF Dispatch, DropDuplicate, RespondWithOwnTable, ApplyOwnTable, HearAck
    <3> QED
      BY <3>1, <3>2
  <2>2. \A x \in Places : Colder(x, Rest(c)[x], k, queue'[x])
    BY <1>2 DEF Colder
  <2> HIDE DEF k
  <2> QED
    BY <1>0, <1>1, <2>1, <2>2, TakingCools
<1>3. CASE RespondWithOwnTable(c) /\ queue' # Rest(c)
  <2>1. PICK d : d = First(c).from
    OBVIOUS
  <2>2. /\ Free # {} /\ queue' = Sent(Rest(c), d, Answer(c, NewId))
        /\ UNCHANGED storing
    BY <1>3, <2>1 DEF RespondWithOwnTable
  <2>3. k = 3
    BY <1>0, <1>3, Names DEF RespondWithOwnTable, Takes, Rank
  <2>4. ASSUME d \in Places, ~Unread(d, Answer(c, NewId))
        PROVE  /\ Answer(c, NewId) \in Seq(Message)
               /\ \A m \in Range(Answer(c, NewId)) : Rank(d, m) < k
    <3>1. d \in Cities /\ Answer(c, NewId) \in Seq(Letters(d)) /\ d # c
      BY <1>3, <2>1, <2>2, <2>4, AnswerFits DEF EndInv
    <3>2. Answer(c, NewId) \in Seq(Message)
      BY <2>4, <3>1, LettersType
    <3>3. \A m \in Range(Answer(c, NewId)) :
             m = Ack(c, NewId) \/ m = Table(c, NewId)
      BY DEF Answer, Range
    <3>4. Rank(d, Ack(c, NewId)) = 0 /\ Rank(d, Table(c, NewId)) = 2
      BY <3>1, Ranks, Names
    <3> QED
      BY <2>3, <3>2, <3>3, <3>4
  <2>5. \A x \in Places : Colder(x, Rest(c)[x], k, queue'[x])
    <3> HIDE DEF k
    <3> QED
      BY <1>0, <2>2, <2>4, SentColder
  <2> HIDE DEF k
  <2> QED
    BY <1>0, <1>1, <2>2, <2>5, TakingCools
<1>4. CASE ApplyOwnTable(c) /\ queue' # Rest(c)
  <2>1. queue' = [p \in Places |-> IF p \in AllCities \ {c}
                                   THEN Append(Rest(c)[p], Request(c))
                                   ELSE Rest(c)[p]]
    BY <1>4 DEF ApplyOwnTable, Fanout
  <2>2. k = 4 /\ UNCHANGED storing
    BY <1>4 DEF ApplyOwnTable, Takes, Rank
  <2>3. ASSUME NEW x \in Places
        PROVE  Colder(x, Rest(c)[x], k, queue'[x])
    <3>1. CASE x \in AllCities \ {c}
      <4>1. /\ Rest(c)[x] \in Seq(Letters(x)) /\ Request(c) \in Letters(x)
            /\ Letters(x) \subseteq Message
        BY <1>0, <3>1, RequestLetter, LettersType DEF Fits
      <4>2. /\ queue'[x] = Rest(c)[x] \o <<Request(c)>>
            /\ <<Request(c)>> \in Seq(Message)
        <5>1. Append(Rest(c)[x], Request(c)) = Rest(c)[x] \o <<Request(c)>>
          BY <4>1, AppendIsConcat
        <5> QED
          BY <2>1, <3>1, <4>1, <5>1
      <4>3. Range(<<Request(c)>>) = {Request(c)} /\ Rank(x, Request(c)) = 3
        BY <3>1, <4>2, OneMessage, Ranks
      <4>4. \A m \in Range(<<Request(c)>>) : Rank(x, m) < k
        BY <2>2, <4>3
      <4> HIDE DEF k
      <4> QED
        BY <4>2, <4>4 DEF Colder
    <3>2. CASE x \notin AllCities \ {c}
      BY <2>1, <3>2 DEF Colder
    <3> QED
      BY <3>1, <3>2
  <2> HIDE DEF k
  <2> QED
    BY <1>0, <1>1, <2>2, <2>3, TakingCools
<1> QED
  BY <1>2, <1>3, <1>4 DEF Dispatch, DropDuplicate, StartStore, HearAck

\* and an upsert that resolves.
LEMMA StoreCools ==
  ASSUME EndInv, NEW c \in Cities, NEW m \in storing[c], Store(c, m)
  PROVE  Cools
<1>0. /\ IsQueue(queue) /\ c \in Places /\ UNCHANGED up
      /\ \A x \in Places : queue[x] \in Seq(Message)
  BY Names, LettersType DEF EndInv, Shape, IsQueue, Addressed, Store
<1>1. storing' = [x \in Cities |-> IF x = c THEN storing[x] \ {m} ELSE storing[x]]
  BY DEF Store, EndInv, Shape
<1>2. \A x \in Cities : IsFiniteSet(storing[x]) /\ Cardinality(storing[x]) \in Nat
  BY FS_CardinalityType DEF EndInv, Addressed
<1>3. Cardinality(storing'[c]) = Cardinality(storing[c]) - 1
  BY <1>1, <1>2, FS_RemoveElement
<1>4. \A x \in Places : Colder(x, queue[x], Upserts, queue'[x])
  <2>1. ASSUME m.from \in Places, ~Unread(m.from, <<Ack(c, m.id)>>)
        PROVE  /\ <<Ack(c, m.id)>> \in Seq(Message)
               /\ \A n \in Range(<<Ack(c, m.id)>>) : Rank(m.from, n) < Upserts
    <3>1. <<Ack(c, m.id)>> \in Seq(Letters(m.from))
      BY <2>1, AckFits DEF EndInv
    <3>2. Range(<<Ack(c, m.id)>>) = {Ack(c, m.id)}
      BY <3>1, OneMessage
    <3>3. <<Ack(c, m.id)>> \in Seq(Message)
      BY <2>1, <3>1, LettersType
    <3> QED
      BY <3>2, <3>3, Ranks DEF Upserts
  <2> QED
    BY <1>0, <2>1, SentColder DEF Store
<1>5. ASSUME NEW x \in Places, NEW j \in Upserts..Down
      PROVE  Load(x, j)' <= Load(x, j)
  <2>1. CASE j = Down
    <3>1. Load(x, j)' = Load(x, j) /\ Load(x, j) \in {0, 1}
      BY <1>0, <2>1 DEF Load
    <3> QED
      BY <3>1
  <2>2. CASE j = Upserts
    <3>1. x \in Cities => Cardinality(storing'[x]) <= Cardinality(storing[x])
      <4>1. CASE x = c
        BY <1>2, <1>3, <4>1
      <4>2. CASE x # c
        BY <1>1, <1>2, <4>2
      <4> QED
        BY <4>1, <4>2
    <3> QED
      BY <2>2, <3>1 DEF Load, Upserts, Down
  <2>3. CASE j # Down /\ j # Upserts
    <3>1. j \in Nat /\ Upserts \in Nat /\ j >= Upserts
      BY DEF Down, Upserts
    <3>2. OfRank(x, queue'[x], j) = OfRank(x, queue[x], j)
      BY <1>0, <1>4, <3>1, ColderRank
    <3>3. Cardinality(OfRank(x, queue[x], j)) \in Nat
      BY <1>0, RankFinite
    <3> QED
      BY <2>3, <3>2, <3>3 DEF Load
  <2> QED
    BY <2>1, <2>2, <2>3
<1>6. Load(c, Upserts)' < Load(c, Upserts)
  BY <1>2, <1>3 DEF Load, Upserts, Down
<1>7. Upserts \in 0..Down
  BY DEF Upserts, Down
<1> QED
  BY <1>0, <1>5, <1>6, <1>7 DEF Cools

\* So does what the central and the others answer.
LEMMA AnswersCool ==
  ASSUME EndInv, CentralAnswers \/ \E o \in Others : OtherAnswers(o)
  PROVE  Cools
<1>1. CASE CentralAnswers
  <2>1. PICK c \in Cities :
          /\ Head(queue[Central]) = Request(c)
          /\ queue' = Sent(Rest(Central), c, <<FromCentral(c)>>)
          /\ <<FromCentral(c)>> \in Seq(Letters(c))
          /\ IsQueue(Rest(Central))
    BY <1>1, CentralTurn DEF EndInv
  <2>2. /\ <<FromCentral(c)>> \in Seq(Message) /\ c \in Places
        /\ Central \in Places
    BY <2>1, LettersType, Names
  <2>3. /\ Rank(Central, Head(queue[Central])) = 5
        /\ \A m \in Range(<<FromCentral(c)>>) : Rank(c, m) < 5
    BY <2>1, OneMessage, Ranks
  <2>4. \A x \in Places : Colder(x, Rest(Central)[x], 5, queue'[x])
    BY <2>1, <2>2, <2>3, SentColder
  <2> QED
    BY <1>1, <2>2, <2>3, <2>4, TakingCools DEF CentralAnswers, externalVars
<1>2. ASSUME NEW o \in Others, OtherAnswers(o) PROVE Cools
  <2>1. PICK c \in Cities :
          /\ Head(queue[o]) = Request(c)
          /\ queue' = Sent(Rest(o), c, <<Table(o, NewId)>>)
          /\ <<Table(o, NewId)>> \in Seq(Letters(c))
          /\ IsQueue(Rest(o))
    BY <1>2, OtherTurn DEF EndInv
  <2>2. /\ <<Table(o, NewId)>> \in Seq(Message) /\ c \in Places /\ o \in Places
        /\ o \in AllCities \ {c}
    BY <2>1, LettersType, Names
  <2>3. /\ Rank(o, Head(queue[o])) = 3
        /\ \A m \in Range(<<Table(o, NewId)>>) : Rank(c, m) < 3
    BY <2>1, <2>2, OneMessage, Ranks
  <2>4. \A x \in Places : Colder(x, Rest(o)[x], 3, queue'[x])
    BY <2>1, <2>2, <2>3, SentColder
  <2> QED
    BY <1>2, <2>2, <2>3, <2>4, TakingCools DEF OtherAnswers, externalVars
<1> QED
  BY <1>1, <1>2

LEMMA CoolsStep ==
  ASSUME EndInv, [Next]_vars, UNCHANGED <<stimuli, faults>>
  PROVE  Cools \/ UNCHANGED vars
<1>1. stimuli' # stimuli + 1 /\ faults' # faults + 1
  BY DEF EndInv, Shape, Lives
<1>2. \/ UNCHANGED vars
      \/ \E c \in Cities : Works(c)
      \/ CentralAnswers
      \/ \E o \in Others : OtherAnswers(o)
  BY <1>1 DEF Next, Reconnect, Crash, Dies, ApplyOwnTableFails, StoreFails,
              CrashAfterStore, CentralUpdates, OtherAsks, Stimulus, Fault
<1>3. ASSUME NEW c \in Cities, Works(c) PROVE Cools
  BY <1>3, StartCools, DispatchCools, StoreCools DEF Works
<1> QED
  BY <1>2, <1>3, AnswersCool

\* The safety core of ExchangesEnd: between two events, which are reconnections,
\* unasked messages and failures, no chain of requests, tables and
\* acknowledgements leads round in a circle: every step brings some exchange
\* nearer to its end and opens none that is as far from it.
THEOREM ExchangesCool == Spec => NoCircles
<1>1. EndInv /\ [Next]_vars => [UNCHANGED <<stimuli, faults>> => Cools]_vars
  BY CoolsStep
<1> QED
  BY <1>1, EndInductive, PTL DEF Spec, NoCircles
=============================================================================
