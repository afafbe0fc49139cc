--------------------------- MODULE ExchangeProofs ---------------------------
(***************************************************************************)
(* Proofs about TableExchange, for any sets of cities and any number of    *)
(* msgIds and events: until something fails, a city that runs this code    *)
(* stores no table of another one that does (KinIsDropped).  That is a     *)
(* fault of the code, which KinIsStored states and a run of TLC shows for  *)
(* two of them; the proof tells that it meets every city, in every order   *)
(* of the messages, and is not an accident of the instance.                *)
(*                                                                         *)
(* Such a table comes behind an acknowledgement with its msgId, in a queue *)
(* that keeps its order, and when the acknowledgement is taken out of the  *)
(* queue the msgId is seen (KinIsAnnounced).  Whatever a city handles      *)
(* first, it therefore never finds such a table that it has not seen.      *)
(***************************************************************************)
EXTENDS ExchangeProperties, SequenceTheorems, WellFoundedInduction, TLAPS

\* A set of numbers has a least one.
LEMMA LeastExists ==
  ASSUME NEW S \in SUBSET Nat, S # {}
  PROVE  Min(S) \in S
<1>1. PICK x \in S : \A y \in S : ~(<<y, x>> \in OpToRel(<, Nat))
  BY NatLessThanWellFounded, WFMin
<1>2. OpToRel(<, Nat) = {p \in Nat \X Nat : p[1] < p[2]}
  BY DEF OpToRel
<1>3. ASSUME NEW y \in S PROVE x <= y
  <2>1. <<y, x>> \in Nat \X Nat /\ <<y, x>>[1] = y /\ <<y, x>>[2] = x
    OBVIOUS
  <2>2. ~(y < x)
    BY <1>1, <1>2, <2>1
  <2> QED
    BY <2>2
<1> QED
  BY <1>3 DEF Min

\* A new msgId is one.
LEMMA NewIdType ==
  ASSUME Free # {}
  PROVE  NewId \in Ids
<1>1. Free \in SUBSET Nat /\ Free \subseteq Ids
  BY DEF Free, Ids
<1> QED
  BY <1>1, LeastExists DEF NewId

-----------------------------------------------------------------------------
(* Announced.                                                              *)

\* The head of the queue is taken.  If it was an acknowledgement its msgId is
\* among the ids now.
LEMMA AnnouncedTail ==
  ASSUME NEW c, NEW q \in Seq(Message), q # <<>>, NEW ids, NEW more,
         Announced(c, q, ids), ids \subseteq more,
         Head(q).type = "ack" => Head(q).id \in more
  PROVE  Tail(q) \in Seq(Message) /\ Announced(c, Tail(q), more)
<1>1. /\ Tail(q) \in Seq(Message)
      /\ Len(Tail(q)) = Len(q) - 1
      /\ \A i \in 1..Len(Tail(q)) : Tail(q)[i] = q[i + 1]
  BY HeadTailProperties
<1>2. Len(q) \in Nat /\ Head(q) = q[1]
  OBVIOUS
<1>3. ASSUME NEW i \in 1..Len(Tail(q)), IsKin(c, Tail(q)[i])
      PROVE  /\ Tail(q)[i].id \in Ids
             /\ \/ Tail(q)[i].id \in more
                \/ \E j \in 1..(i - 1) : /\ Tail(q)[j].type = "ack"
                                         /\ Tail(q)[j].id = Tail(q)[i].id
  <2>1. Tail(q)[i] = q[i + 1] /\ i + 1 \in 1..Len(q) /\ IsKin(c, q[i + 1])
    BY <1>1, <1>2, <1>3
  <2>2. /\ q[i + 1].id \in Ids
        /\ \/ q[i + 1].id \in ids
           \/ \E j \in 1..((i + 1) - 1) : /\ q[j].type = "ack"
                                          /\ q[j].id = q[i + 1].id
    BY <2>1 DEF Announced
  <2>3. ASSUME NEW j \in 1..((i + 1) - 1),
               q[j].type = "ack", q[j].id = q[i + 1].id
        PROVE  \/ Tail(q)[i].id \in more
               \/ \E k \in 1..(i - 1) : /\ Tail(q)[k].type = "ack"
                                        /\ Tail(q)[k].id = Tail(q)[i].id
    <3>1. CASE j = 1
      BY <1>2, <2>1, <2>3, <3>1
    <3>2. CASE j # 1
      <4>1. j - 1 \in 1..(i - 1) /\ j - 1 \in 1..Len(Tail(q))
        BY <1>1, <1>2, <3>2
      <4>2. Tail(q)[j - 1] = q[j]
        BY <1>1, <4>1
      <4> QED
        BY <2>1, <2>3, <4>1, <4>2
    <3> QED
      BY <3>1, <3>2
  <2> QED
    BY <2>1, <2>2, <2>3
<1> QED
  BY <1>1, <1>3 DEF Announced

\* What is sent to a city follows what is in its queue.
LEMMA AnnouncedConcat ==
  ASSUME NEW c, NEW q \in Seq(Message), NEW ms \in Seq(Message), NEW ids,
         Announced(c, q, ids), Announced(c, ms, {})
  PROVE  q \o ms \in Seq(Message) /\ Announced(c, q \o ms, ids)
<1>1. /\ q \o ms \in Seq(Message)
      /\ Len(q \o ms) = Len(q) + Len(ms)
      /\ \A i \in 1..(Len(q) + Len(ms)) :
            (q \o ms)[i] = IF i <= Len(q) THEN q[i] ELSE ms[i - Len(q)]
  BY ConcatProperties
<1>2. Len(q) \in Nat /\ Len(ms) \in Nat
  OBVIOUS
<1> DEFINE r == q \o ms
<1>3. ASSUME NEW i \in 1..Len(r), IsKin(c, r[i])
      PROVE  /\ r[i].id \in Ids
             /\ \/ r[i].id \in ids
                \/ \E j \in 1..(i - 1) : r[j].type = "ack" /\ r[j].id = r[i].id
  <2>1. CASE i <= Len(q)
    <3>1. r[i] = q[i] /\ i \in 1..Len(q)
      BY <1>1, <1>2, <2>1
    <3>2. \A j \in 1..(i - 1) : r[j] = q[j]
      BY <1>1, <1>2, <2>1
    <3> HIDE DEF r
    <3> QED
      BY <1>3, <3>1, <3>2 DEF Announced
  <2>2. CASE i > Len(q)
    <3> DEFINE n == i - Len(q)
    <3>1. r[i] = ms[n] /\ n \in 1..Len(ms)
      BY <1>1, <1>2, <2>2
    <3>2. \A j \in 1..(n - 1) : j + Len(q) \in 1..(i - 1) /\ r[j + Len(q)] = ms[j]
      <4> TAKE j \in 1..(n - 1)
      <4>1. j + Len(q) \in 1..(Len(q) + Len(ms)) /\ j + Len(q) > Len(q)
            /\ j + Len(q) \in 1..(i - 1) /\ (j + Len(q)) - Len(q) = j
        BY <1>2, <3>1
      <4> QED
        BY <1>1, <1>2, <4>1
    <3> HIDE DEF r, n
    <3>3. /\ ms[n].id \in Ids
          /\ \E j \in 1..(n - 1) : ms[j].type = "ack" /\ ms[j].id = ms[n].id
      BY <1>3, <3>1 DEF Announced
    <3> QED
      BY <3>1, <3>2, <3>3
  <2> QED
    BY <1>1, <1>2, <2>1, <2>2
<1> QED
  BY <1>1, <1>3 DEF Announced

\* One message needs no announcement unless it is such a table.
LEMMA AnnouncedOne ==
  ASSUME NEW c, NEW m \in Message, ~IsKin(c, m)
  PROVE  <<m>> \in Seq(Message) /\ Announced(c, <<m>>, {})
  BY DEF Announced

\* An answer announces its table.
LEMMA AnnouncedAnswer ==
  ASSUME NEW c, NEW d \in Cities, NEW id \in Ids
  PROVE  Answer(d, id) \in Seq(Message) /\ Announced(c, Answer(d, id), {})
<1>1. Ack(d, id) \in Message /\ Table(d, id) \in Message
  BY DEF Ack, Table, Message, Places, AllCities
<1>2. Answer(d, id) \in Seq(Message) /\ Len(Answer(d, id)) = 2
  BY <1>1 DEF Answer
<1>3. Answer(d, id)[1] = Ack(d, id) /\ Answer(d, id)[2] = Table(d, id)
  BY DEF Answer
<1> HIDE DEF Answer
<1>4. ~IsKin(c, Ack(d, id)) /\ Ack(d, id).type = "ack"
      /\ Ack(d, id).id = id /\ Table(d, id).id = id
  BY DEF IsKin, Ack, Table
<1>5. Announced(c, Answer(d, id), {})
  <2> SUFFICES ASSUME NEW i \in 1..2, IsKin(c, Answer(d, id)[i])
               PROVE  /\ Answer(d, id)[i].id \in Ids
                      /\ \E j \in 1..(i - 1) :
                            /\ Answer(d, id)[j].type = "ack"
                            /\ Answer(d, id)[j].id = Answer(d, id)[i].id
    BY <1>2 DEF Announced
  <2>1. i = 2 /\ 1 \in 1..(i - 1)
    BY <1>3, <1>4
  <2> QED
    BY <1>3, <1>4, <2>1
<1> QED
  BY <1>2, <1>5

\* What is seen keeps those msgIds that the queue carries.
LEMMA AnnouncedKept ==
  ASSUME NEW c \in Cities, NEW ids, queue'[c] \in Seq(Message),
         Announced(c, queue'[c], ids)
  PROVE  Announced(c, queue'[c], ids \cap InUse')
<1>1. ASSUME NEW i \in 1..Len(queue'[c]), queue'[c][i].id \in Ids
      PROVE  queue'[c][i].id \in InUse'
  <2>1. queue'[c][i] \in Range(queue'[c])
    BY DEF Range
  <2>2. c \in Places /\ queue'[c][i].id # NoId
    BY <1>1 DEF Places, AllCities, Ids, NoId
  <2> QED
    BY <2>1, <2>2 DEF InUse
<1> QED
  BY <1>1 DEF Announced

-----------------------------------------------------------------------------
(* Shape.                                                                  *)

\* The places are told apart.
LEMMA PlacesApart ==
  /\ Cities \subseteq Places /\ Others \subseteq Places
  /\ Central \in Places /\ NoSender \notin Places
  /\ Central \notin Cities
  /\ \A c \in Cities : c \notin Others
  BY TableExchangeAssumption DEF Places, AllCities

IsQueue(q) == q = [p \in Places |-> q[p]]

\* What is sent to a city is appended to its queue, and to no other.
LEMMA SentTo ==
  ASSUME NEW q, IsQueue(q), NEW p, NEW ms
  PROVE  /\ IsQueue(Sent(q, p, ms))
         /\ \A c \in Cities :
               Sent(q, p, ms)[c] = IF c = p THEN q[c] \o ms ELSE q[c]
<1>1. \A x \in Places : (Sent(q, p, ms))[x] =
         IF x # p \/ Unread(p, ms) THEN q[x] ELSE q[x] \o ms
  BY DEF Sent, IsQueue
<1>2. IsQueue(Sent(q, p, ms))
  BY DEF Sent, IsQueue
<1>3. p \in Cities => ~Unread(p, ms)
  BY PlacesApart DEF Unread
<1> QED
  BY <1>1, <1>2, <1>3, PlacesApart

\* A fan-out appends requests or nothing.
LEMMA FanoutTo ==
  ASSUME NEW q, IsQueue(q), NEW c \in Cities, Fanout(c, q)
  PROVE  /\ IsQueue(queue')
         /\ \A x \in Cities :
               queue'[x] = q[x] \/ queue'[x] = Append(q[x], Request(c))
<1>1. CASE queue' = q
  BY <1>1
<1>2. CASE queue' = [p \in Places |-> IF p \in AllCities \ {c}
                                    THEN Append(q[p], Request(c)) ELSE q[p]]
  BY <1>2, PlacesApart DEF IsQueue
<1> QED
  BY <1>1, <1>2 DEF Fanout

\* Without its head a queue is one.
LEMMA RestTo ==
  ASSUME Shape, NEW p \in Places
  PROVE  /\ IsQueue(Rest(p))
         /\ \A x \in Places : Rest(p)[x] = IF x = p THEN Tail(queue[x])
                                           ELSE queue[x]
  BY DEF Shape, Rest, IsQueue

\* The variables stay functions.
LEMMA ShapeStep == Shape /\ [Next]_vars => Shape'
<1> SUFFICES ASSUME Shape, [Next]_vars PROVE Shape'
  OBVIOUS
<1> USE DEF Shape
<1>0. IsQueue(queue)
  BY DEF IsQueue
<1>1. ASSUME NEW c \in Cities, Works(c) PROVE Shape'
  <2>1. IsQueue(Rest(c))
    BY RestTo, PlacesApart
  <2>2. CASE Start(c)
    BY <1>0, <2>2, SentTo DEF Start, IsQueue
  <2>3. CASE DropDuplicate(c)
    BY <2>1, <2>3 DEF DropDuplicate, Unmarked, Remember, IsQueue
  <2>4. CASE RespondWithOwnTable(c)
    <3>1. IsQueue(queue')
      BY <2>1, <2>4, SentTo DEF RespondWithOwnTable
    <3> QED
      BY <2>4, <3>1 DEF RespondWithOwnTable, Unmarked, Remember, IsQueue
  <2>5. CASE ApplyOwnTable(c)
    <3>1. IsQueue(queue')
      BY <2>1, <2>5, FanoutTo DEF ApplyOwnTable
    <3> QED
      BY <2>5, <3>1 DEF ApplyOwnTable, Mark, Remember, IsQueue
  <2>6. CASE StartStore(c)
    BY <2>1, <2>6 DEF StartStore, Mark, Remember, IsQueue
  <2>7. CASE HearAck(c)
    BY <2>1, <2>7 DEF HearAck, Mark, Remember, IsQueue
  <2>8. ASSUME NEW m \in storing[c], Store(c, m) PROVE Shape'
    <3>1. IsQueue(queue')
      BY <1>0, <2>8, SentTo DEF Store
    <3> QED
      BY <2>8, <3>1 DEF Store, Unmarked, Remember, IsQueue
  <2> QED
    BY <1>1, <2>2, <2>3, <2>4, <2>5, <2>6, <2>7, <2>8 DEF Works, Dispatch
<1>2. ASSUME NEW c \in Cities, Reconnect(c) PROVE Shape'
  BY <1>0, <1>2, SentTo DEF Reconnect, IsQueue
<1>3. ASSUME NEW c \in Cities, Crash(c) PROVE Shape'
  <2>1. faults' \in Nat
    BY <1>3 DEF Crash, Dies, Fault
  <2> QED
    BY <1>3, <2>1 DEF Crash, Dies, Remember
<1>4. ASSUME NEW c \in Cities, ApplyOwnTableFails(c) PROVE Shape'
  <2>1. IsQueue(queue')
    BY <1>0, <1>4, FanoutTo DEF ApplyOwnTableFails
  <2>2. faults' \in Nat
    BY <1>4 DEF ApplyOwnTableFails, Fault
  <2> QED
    BY <1>4, <2>1, <2>2 DEF ApplyOwnTableFails, Mark, Remember, IsQueue
<1>5. ASSUME NEW c \in Cities, NEW m \in storing[c], StoreFails(c, m)
      PROVE  Shape'
  <2>1. faults' \in Nat
    BY <1>5 DEF StoreFails, Fault
  <2> QED
    BY <1>5, <2>1 DEF StoreFails, Unmarked, Remember
<1>6. ASSUME NEW c \in Cities, NEW m \in storing[c], CrashAfterStore(c, m)
      PROVE  Shape'
  <2> DEFINE q == [queue EXCEPT ![c] = SetToSeq(storing[c]) \o @]
  <2>1. IsQueue(q)
    BY DEF IsQueue
  <2>2. queue' = Sent(q, m.from, <<Ack(c, m.id)>>)
    BY <1>6 DEF CrashAfterStore
  <2>3. IsQueue(queue')
    <3> HIDE DEF q
    <3> QED
      BY <2>1, <2>2, SentTo
  <2>4. faults' \in Nat
    BY <1>6 DEF CrashAfterStore, Dies, Fault
  <2> QED
    BY <1>6, <2>3, <2>4 DEF CrashAfterStore, Dies, Remember, IsQueue
<1>7. ASSUME NEW c \in Cities,
             CentralUpdates(c) \/ \E o \in Others : OtherAsks(o, c)
      PROVE  Shape'
  <2>1. \E ms : queue' = Sent(queue, c, ms)
    BY <1>7 DEF CentralUpdates, OtherAsks
  <2>2. IsQueue(queue')
    BY <1>0, <2>1, SentTo
  <2> QED
    BY <1>7, <2>2 DEF CentralUpdates, OtherAsks, Unmarked, Remember, IsQueue,
                      externalVars
<1>8. CASE CentralAnswers \/ \E o \in Others : OtherAnswers(o)
  <2>1. \A p \in Places : IsQueue(Rest(p))
    BY RestTo
  <2>2. \E x \in Places : \E p, ms : queue' = Sent(Rest(x), p, ms)
    BY <1>8, PlacesApart DEF CentralAnswers, OtherAnswers
  <2>3. IsQueue(queue')
    BY <2>1, <2>2, SentTo
  <2> QED
    BY <1>8, <2>3 DEF CentralAnswers, OtherAnswers, Unmarked, Remember, IsQueue,
                      externalVars
<1>9. CASE UNCHANGED vars
  BY <1>9 DEF vars
<1> QED
  BY <1>1, <1>2, <1>3, <1>4, <1>5, <1>6, <1>7, <1>8, <1>9 DEF Next
-----------------------------------------------------------------------------
(* The queues of the cities.                                               *)

Fine(c, q, ids) == q \in Seq(Message) /\ Announced(c, q, ids)

AllFine(q, marked) == \A x \in Cities : Fine(x, q[x], marked[x])

Stores ==
    \A c \in Cities : /\ storing[c] \subseteq {m \in Message : m.from \in Others}
                      /\ stored[c] \subseteq Others

\* The invariant in these words.
LEMMA InvIsFine ==
  /\ Traffic /\ KinIsAnnounced <=> AllFine(queue, seen) /\ Stores
  BY DEF Traffic, KinIsAnnounced, AllFine, Fine, Stores

LEMMA InvIsFineNext ==
  AllFine(queue, seen)' /\ Stores' => (Traffic /\ KinIsAnnounced)'
  BY DEF Traffic, KinIsAnnounced, AllFine, Fine, Stores

\* What is seen keeps what is fine.
LEMMA RememberFine ==
  ASSUME NEW marked, Remember(marked), AllFine(queue', marked)
  PROVE  AllFine(queue, seen)'
<1> SUFFICES ASSUME NEW x \in Cities
             PROVE  Fine(x, queue'[x], seen'[x])
  BY DEF AllFine
<1>1. queue'[x] \in Seq(Message) /\ Announced(x, queue'[x], marked[x])
  BY DEF AllFine, Fine
<1>2. Announced(x, queue'[x], marked[x] \cap InUse')
  BY <1>1, AnnouncedKept
<1>3. seen'[x] = marked[x] \cap InUse'
  BY DEF Remember
<1> QED
  BY <1>1, <1>2, <1>3 DEF Fine

\* A message is sent that may follow whatever is in the queue.
LEMMA SentFine ==
  ASSUME NEW q, IsQueue(q), NEW marked, AllFine(q, marked), NEW p, NEW ms,
         p \in Cities => Fine(p, ms, {})
  PROVE  AllFine(Sent(q, p, ms), marked)
<1> SUFFICES ASSUME NEW x \in Cities
             PROVE  Fine(x, Sent(q, p, ms)[x], marked[x])
  BY DEF AllFine
<1>1. Fine(x, q[x], marked[x])
  BY DEF AllFine
<1>2. CASE x = p
  <2>1. Sent(q, p, ms)[x] = q[x] \o ms
    <3>1. Sent(q, p, ms)[x] = IF x = p THEN q[x] \o ms ELSE q[x]
      BY SentTo
    <3> QED
      BY <1>2, <3>1
  <2>2. Fine(x, ms, {})
    BY <1>2
  <2>3. Fine(x, q[x] \o ms, marked[x])
    BY <1>1, <2>2, AnnouncedConcat DEF Fine
  <2> QED
    BY <2>1, <2>3
<1>3. CASE x # p
  <2>1. Sent(q, p, ms)[x] = q[x]
    BY <1>3, SentTo
  <2> QED
    BY <1>1, <2>1
<1> QED
  BY <1>2, <1>3

\* A request may follow whatever is in the queue.
LEMMA RequestFine ==
  ASSUME NEW c, NEW p \in Places
  PROVE  Request(p) \in Message /\ Fine(c, <<Request(p)>>, {})
<1>1. Request(p) \in Message /\ ~IsKin(c, Request(p))
  BY DEF Request, Message, IsKin
<1> QED
  BY <1>1, AnnouncedOne DEF Fine

\* A city asks all the others.
LEMMA FanoutFine ==
  ASSUME NEW q, IsQueue(q), NEW marked, AllFine(q, marked), NEW c \in Cities,
         Fanout(c, q)
  PROVE  AllFine(queue', marked)
<1> SUFFICES ASSUME NEW x \in Cities
             PROVE  Fine(x, queue'[x], marked[x])
  BY DEF AllFine
<1>1. Fine(x, q[x], marked[x]) /\ q[x] \in Seq(Message)
  BY DEF AllFine, Fine
<1>2. Request(c) \in Message /\ Fine(x, <<Request(c)>>, {})
  BY RequestFine, PlacesApart
<1>3. Append(q[x], Request(c)) = q[x] \o <<Request(c)>>
  BY <1>1, <1>2, AppendIsConcat
<1>4. Fine(x, q[x] \o <<Request(c)>>, marked[x])
  BY <1>1, <1>2, AnnouncedConcat DEF Fine
<1>5. queue'[x] = q[x] \/ queue'[x] = Append(q[x], Request(c))
  BY FanoutTo
<1> QED
  BY <1>1, <1>3, <1>4, <1>5

\* A message is taken, and marked as seen if it is an acknowledgement.
LEMMA RestFine ==
  ASSUME Shape, AllFine(queue, seen), NEW p \in Places, NEW marked,
         \A x \in Cities : seen[x] \subseteq marked[x],
         p \in Cities => /\ queue[p] # <<>>
                         /\ Head(queue[p]).type = "ack"
                              => Head(queue[p]).id \in marked[p]
  PROVE  AllFine(Rest(p), marked)
<1> SUFFICES ASSUME NEW x \in Cities
             PROVE  Fine(x, Rest(p)[x], marked[x])
  BY DEF AllFine
<1>1. /\ queue[x] \in Seq(Message)
      /\ Announced(x, queue[x], seen[x])
      /\ seen[x] \subseteq marked[x]
  BY DEF AllFine, Fine
<1>2. Rest(p)[x] = IF x = p THEN Tail(queue[x]) ELSE queue[x]
  BY RestTo, PlacesApart
<1>3. CASE x = p
  <2>1. Tail(queue[x]) \in Seq(Message) /\ Announced(x, Tail(queue[x]), marked[x])
    BY <1>1, <1>3, AnnouncedTail
  <2> QED
    BY <1>2, <1>3, <2>1 DEF Fine
<1>4. CASE x # p
  <2>1. Announced(x, queue[x], marked[x])
    BY <1>1 DEF Announced
  <2> QED
    BY <1>1, <1>2, <1>4, <2>1 DEF Fine
<1> QED
  BY <1>3, <1>4

\* The message at the head of a queue is one.
LEMMA FirstType ==
  ASSUME AllFine(queue, seen), NEW c \in Cities, Has(c)
  PROVE  First(c) \in Message /\ queue[c] # <<>> /\ First(c) = queue[c][1]
         /\ 1 \in 1..Len(queue[c])
<1>1. queue[c] \in Seq(Message) /\ queue[c] # <<>>
  BY DEF AllFine, Fine, Has
<1> QED
  BY <1>1, HeadTailProperties DEF First

\* What a city takes for another's table is not of one that runs this code.
LEMMA KinIsSeen ==
  ASSUME AllFine(queue, seen), NEW c \in Cities, Takes(c, "table"),
         ~IsOwnTable(c, First(c).from)
  PROVE  First(c) \in Message /\ First(c).from \in Others
<1>1. /\ First(c) \in Message
      /\ First(c) = queue[c][1]
      /\ 1 \in 1..Len(queue[c])
  BY FirstType DEF Takes
<1>2. Announced(c, queue[c], seen[c])
  BY DEF AllFine, Fine
<1>3. ~IsKin(c, First(c))
  BY <1>1, <1>2 DEF Announced, Takes
<1>4. First(c).from \in Places \cup {NoSender}
  BY <1>1 DEF Message
<1>5. First(c).from \notin {NoSender, c, Central} /\ First(c).type = "table"
  BY DEF IsOwnTable, Takes
<1> QED
  BY <1>1, <1>3, <1>4, <1>5 DEF IsKin, Places, AllCities

-----------------------------------------------------------------------------
(* The steps.                                                              *)

\* What a city does by itself.
LEMMA WorksStep ==
  ASSUME Shape, Shape', AllFine(queue, seen), Stores, NEW c \in Cities, Works(c)
  PROVE  AllFine(queue, seen)' /\ Stores'
<1>0. IsQueue(queue) /\ IsQueue(Rest(c)) /\ c \in Places
  BY RestTo, PlacesApart DEF Shape, IsQueue
<1>1. CASE Start(c)
  <2>1. AllFine(queue', seen)
    BY <1>0, <1>1, SentFine, PlacesApart DEF Start
  <2> QED
    BY <1>1, <2>1 DEF Start, AllFine, Stores
<1>2. CASE DropDuplicate(c)
  <2>1. AllFine(Rest(c), seen)
    BY <1>0, <1>2, RestFine DEF DropDuplicate, Has, First
  <2> QED
    BY <1>2, <2>1, RememberFine DEF DropDuplicate, Unmarked, Stores
<1>3. CASE RespondWithOwnTable(c)
  <2>1. AllFine(Rest(c), seen)
    BY <1>0, <1>3, RestFine DEF RespondWithOwnTable, Takes, Has, First
  <2>2. ASSUME Free # {}, NEW d
        PROVE  AllFine(Sent(Rest(c), d, Answer(c, NewId)), seen)
    <3>1. \A x : Fine(x, Answer(c, NewId), {})
      BY <2>2, NewIdType, AnnouncedAnswer DEF Fine
    <3> QED
      BY <1>0, <2>1, <3>1, SentFine
  <2>3. AllFine(queue', seen)
    BY <1>3, <2>1, <2>2 DEF RespondWithOwnTable
  <2> QED
    BY <1>3, <2>3, RememberFine DEF RespondWithOwnTable, Unmarked, Stores
<1> DEFINE marked == [seen EXCEPT ![c] = @ \cup {First(c).id}]
<1>4. /\ \A x \in Cities : seen[x] \subseteq marked[x]
      /\ First(c).id \in marked[c]
  BY DEF Shape
<1>5. Has(c) => AllFine(Rest(c), marked)
  <2> HIDE DEF marked
  <2> QED
    BY <1>0, <1>4, RestFine DEF Has, First
<1>6. CASE ApplyOwnTable(c)
  <2>1. AllFine(Rest(c), marked) /\ Fanout(c, Rest(c)) /\ Remember(marked)
    BY <1>5, <1>6 DEF ApplyOwnTable, Takes, Mark
  <2>2. AllFine(queue, seen)'
    <3> HIDE DEF marked
    <3> QED
      BY <1>0, <2>1, FanoutFine, RememberFine
  <2> QED
    BY <1>6, <2>2 DEF ApplyOwnTable, Stores
<1>7. CASE StartStore(c)
  <2>1. AllFine(Rest(c), marked) /\ queue' = Rest(c) /\ Remember(marked)
    BY <1>5, <1>7 DEF StartStore, Takes, Mark
  <2>2. AllFine(queue, seen)'
    <3> HIDE DEF marked
    <3> QED
      BY <2>1, RememberFine
  <2>3. First(c) \in Message /\ First(c).from \in Others
    BY <1>7, KinIsSeen DEF StartStore
  <2>4. Stores'
    BY <1>7, <2>3 DEF StartStore, Stores, Shape
  <2> QED
    BY <2>2, <2>4
<1>8. CASE HearAck(c)
  <2>1. AllFine(Rest(c), marked) /\ queue' = Rest(c) /\ Remember(marked)
    BY <1>5, <1>8 DEF HearAck, Takes, Mark
  <2>2. AllFine(queue, seen)'
    <3> HIDE DEF marked
    <3> QED
      BY <2>1, RememberFine
  <2> QED
    BY <1>8, <2>2 DEF HearAck, Stores
<1>9. ASSUME NEW m \in storing[c], Store(c, m)
      PROVE  AllFine(queue, seen)' /\ Stores'
  <2>1. m.from \in Others /\ m.from \notin Cities
    BY PlacesApart DEF Stores
  <2>2. AllFine(queue', seen)
    BY <1>0, <1>9, <2>1, SentFine DEF Store
  <2>3. AllFine(queue, seen)'
    BY <1>9, <2>2, RememberFine DEF Store, Unmarked
  <2>4. Stores'
    BY <1>9, <2>1 DEF Store, Stores, Shape
  <2> QED
    BY <2>3, <2>4
<1> QED
  BY <1>1, <1>2, <1>3, <1>6, <1>7, <1>8, <1>9 DEF Works, Dispatch

\* What the central sends is a city's own table.
LEMMA FromCentralFine ==
  ASSUME NEW c \in Cities
  PROVE  Fine(c, <<FromCentral(c)>>, {})
<1>1. FromCentral(c) \in Message /\ ~IsKin(c, FromCentral(c))
  BY PlacesApart DEF FromCentral, Table, Message, IsKin
<1> QED
  BY <1>1, AnnouncedOne DEF Fine

\* What the others do, and reconnections.
LEMMA ExternalStep ==
  ASSUME Shape, AllFine(queue, seen), Stores,
         \/ \E c \in Cities : \/ Reconnect(c) \/ CentralUpdates(c)
                              \/ \E o \in Others : OtherAsks(o, c)
         \/ CentralAnswers
         \/ \E o \in Others : OtherAnswers(o)
  PROVE  AllFine(queue, seen)' /\ Stores'
<1>0. IsQueue(queue) /\ \A p \in Places : IsQueue(Rest(p))
  BY RestTo DEF Shape, IsQueue
<1>1. ASSUME NEW c \in Cities, Reconnect(c)
      PROVE  AllFine(queue, seen)' /\ Stores'
  <2>1. AllFine(queue', seen)
    BY <1>0, <1>1, SentFine, PlacesApart DEF Reconnect
  <2> QED
    BY <1>1, <2>1 DEF Reconnect, AllFine, Stores
<1>2. ASSUME NEW c \in Cities, CentralUpdates(c)
      PROVE  AllFine(queue, seen)' /\ Stores'
  <2>1. AllFine(queue', seen)
    BY <1>0, <1>2, SentFine, FromCentralFine DEF CentralUpdates
  <2> QED
    BY <1>2, <2>1, RememberFine DEF CentralUpdates, Unmarked, Stores, externalVars
<1>3. ASSUME NEW c \in Cities, NEW o \in Others, OtherAsks(o, c)
      PROVE  AllFine(queue, seen)' /\ Stores'
  <2>1. Fine(c, <<Request(o)>>, {})
    BY RequestFine, PlacesApart
  <2>2. AllFine(queue', seen)
    BY <1>0, <1>3, <2>1, SentFine DEF OtherAsks
  <2> QED
    BY <1>3, <2>2, RememberFine DEF OtherAsks, Unmarked, Stores, externalVars
<1>4. CASE CentralAnswers
  <2>1. AllFine(Rest(Central), seen)
    BY RestFine, PlacesApart
  <2>2. PICK d : queue' = Sent(Rest(Central), d, <<FromCentral(d)>>)
    BY <1>4 DEF CentralAnswers
  <2>3. d \in Cities => Fine(d, <<FromCentral(d)>>, {})
    BY FromCentralFine
  <2>4. AllFine(queue', seen)
    BY <1>0, <2>1, <2>2, <2>3, SentFine, PlacesApart
  <2> QED
    BY <1>4, <2>4, RememberFine DEF CentralAnswers, Unmarked, Stores, externalVars
<1>5. ASSUME NEW o \in Others, OtherAnswers(o)
      PROVE  AllFine(queue, seen)' /\ Stores'
  <2>1. AllFine(Rest(o), seen)
    BY RestFine, PlacesApart
  <2>2. NewId \in Ids
    BY <1>5, NewIdType DEF OtherAnswers
  <2>3. PICK d : queue' = Sent(Rest(o), d, <<Table(o, NewId)>>)
    BY <1>5 DEF OtherAnswers
  <2>4. \A x : Table(o, NewId) \in Message /\ ~IsKin(x, Table(o, NewId))
    BY <2>2, PlacesApart DEF Table, Message, IsKin
  <2>5. \A x : Fine(x, <<Table(o, NewId)>>, {})
    BY <2>4, AnnouncedOne DEF Fine
  <2>6. AllFine(queue', seen)
    BY <1>0, <2>1, <2>3, <2>5, SentFine, PlacesApart
  <2> QED
    BY <1>5, <2>6, RememberFine DEF OtherAnswers, Unmarked, Stores, externalVars
<1> QED
  BY <1>1, <1>2, <1>3, <1>4, <1>5

\* Initially.
LEMMA InitInv == Init => IndInv
<1> SUFFICES ASSUME Init PROVE IndInv
  OBVIOUS
<1>1. Shape
  BY DEF Init, Shape
<1>2. \A c \in Cities : queue[c] = <<>> /\ storing[c] = {} /\ stored[c] = {}
  BY PlacesApart DEF Init
<1>3. Traffic
  <2>1. ASSUME NEW c \in Cities PROVE queue[c] \in Seq(Message)
    <3>1. <<>> \in Seq(Message)
      OBVIOUS
    <3> QED
      BY <1>2, <3>1
  <2>2. ASSUME NEW c \in Cities
        PROVE  /\ storing[c] \subseteq {m \in Message : m.from \in Others}
               /\ stored[c] \subseteq Others
    BY <1>2
  <2> QED
    BY <2>1, <2>2 DEF Traffic
<1>4. KinIsAnnounced
  <2>1. ASSUME NEW c \in Cities PROVE Announced(c, queue[c], seen[c])
    <3>1. queue[c] = <<>>
      BY <1>2
    <3>2. 1..Len(queue[c]) = {}
      BY <3>1
    <3> QED
      BY <3>2 DEF Announced
  <2> QED
    BY <2>1 DEF KinIsAnnounced
<1> QED
  BY <1>1, <1>3, <1>4 DEF IndInv

\* Preserved by every step.
LEMMA InvStep == IndInv /\ [Next]_vars => IndInv'
<1> SUFFICES ASSUME IndInv, [Next]_vars PROVE IndInv'
  OBVIOUS
<1>1. Shape /\ Shape'
  BY ShapeStep DEF IndInv
<1>2. CASE faults' # 0
  BY <1>1, <1>2 DEF IndInv
<1>3. CASE faults' = 0
  <2>1. ~Fault
    BY <1>1, <1>3 DEF Fault, Shape
  <2>2. UNCHANGED faults
    BY <2>1 DEF Next, vars, Works, Dispatch, Start, DropDuplicate,
                RespondWithOwnTable, ApplyOwnTable, StartStore, HearAck, Store,
                Reconnect, Crash, ApplyOwnTableFails, StoreFails,
                CrashAfterStore, Dies, CentralUpdates, OtherAsks,
                CentralAnswers, OtherAnswers
  <2>3. AllFine(queue, seen) /\ Stores
    BY <1>3, <2>2, InvIsFine DEF IndInv
  <2>4. AllFine(queue, seen)' /\ Stores'
    <3>1. CASE UNCHANGED vars
      BY <2>3, <3>1 DEF vars, AllFine, Stores
    <3>2. ASSUME NEW c \in Cities, Works(c)
          PROVE  AllFine(queue, seen)' /\ Stores'
      BY <1>1, <2>3, <3>2, WorksStep
    <3> QED
      BY <1>1, <2>1, <2>3, <3>1, <3>2, ExternalStep
         DEF Next, Crash, ApplyOwnTableFails, StoreFails, CrashAfterStore, Dies
  <2> QED
    BY <1>1, <2>4, InvIsFineNext DEF IndInv
<1> QED
  BY <1>2, <1>3

\* IndInv holds in every state: until something fails, a table of a city that
\* runs this code is behind its acknowledgement or has been seen.
THEOREM ExchangeInductive == Spec => []IndInv
  BY InitInv, InvStep, PTL DEF Spec

\* The reach of the divergence from docs/architecture.md: until something fails
\* no city at all that runs this code stores a table of another one that does,
\* since respondWithOwnTable gives the acknowledgement the table's msgId.
THEOREM KinNeverStored == Spec => []KinIsDropped
<1>1. IndInv => KinIsDropped
  BY PlacesApart DEF IndInv, Traffic, KinIsDropped
<1> QED
  BY <1>1, ExchangeInductive, PTL
=============================================================================
