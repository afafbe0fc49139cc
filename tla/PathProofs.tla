----------------------------- MODULE PathProofs -----------------------------
(***************************************************************************)
(* Proofs about ShortestPaths, for every graph whose weights are not       *)
(* negative: the invariant of a run of Dijkstra's algorithm holds of both, *)
(* and what both return is a cheapest route.                               *)
(*                                                                         *)
(* That no route is cheaper is shown by duality.  A potential is a value   *)
(* for every city that no edge raises by more than its weight.  No         *)
(* potential exceeds a distance that was computed (Dominated, an invariant *)
(* of the steps), nor the total of a route (TotalIsBounded); at the end    *)
(* the distances are a potential (EndIsPotential).  That the results are   *)
(* routes is an invariant as well: there is a way back from every city     *)
(* that was reached, without a city twice (Ways).                          *)
(***************************************************************************)
EXTENDS PathProperties, FiniteSetTheorems, FunctionTheorems, SequenceTheorems,
        WellFoundedInduction, TLAPS

\* How one visit changes a run, for one city and for all.
Kept(run, next, u, v) ==
    /\ next.dist[v] = run.dist[v]
    /\ next.prev[v] = run.prev[v]
    /\ v \in run.done \cup {u}
         \/ ~Less(Plus(run.dist[u], weight[u][v]), run.dist[v])

Improved(run, next, u, v) ==
    /\ v \notin run.done \cup {u}
    /\ weight[u][v] # Infinity
    /\ Less(run.dist[u] + weight[u][v], run.dist[v])
    /\ next.dist[v] = run.dist[u] + weight[u][v]
    /\ next.prev[v] = u

VisitOf(run, next, u) ==
    /\ next.done = run.done \cup {u}
    /\ next.dist \in [Cities -> Nat \cup {Infinity}]
    /\ next.prev \in [Cities -> Cities \cup {NoCity}]
    /\ \A v \in Cities : Kept(run, next, u, v) \/ Improved(run, next, u, v)

Potential(p) ==
    /\ p \in [Cities -> Nat \cup {Infinity}]
    /\ p[Source] = 0
    /\ \A u, v \in Cities : ~Less(Plus(p[u], weight[u][v]), p[v])

\* No potential exceeds what was computed.
Dominated(run) ==
    \A p : Potential(p) => \A v \in Cities : ~Less(run.dist[v], p[v])

\* The path leads to v, along the predecessors of the run, from where they begin.
Backwards(run, v, path) ==
    /\ path \in Seq(Cities)
    /\ path # <<>>
    /\ path[Len(path)] = v
    /\ run.prev[path[1]] = NoCity
    /\ \A i \in 2..Len(path) : run.prev[path[i]] = path[i - 1]
    /\ \A i, j \in 1..Len(path) : path[i] = path[j] => i = j

\* The path leads from the source through visited cities to v.
IsWay(run, v, path) ==
    /\ Backwards(run, v, path)
    /\ path[1] = Source
    /\ \A i \in 1..(Len(path) - 1) : path[i] \in run.done

\* There is one to every city that was reached.
Ways(run) ==
    \A v \in Cities : run.dist[v] # Infinity => \E path : IsWay(run, v, path)

Proved ==
    /\ IndInv
    /\ Dominated(worker) /\ Dominated(quote)
    /\ Ways(worker) /\ Ways(quote)

-----------------------------------------------------------------------------
(* Both loops make visits.                                                 *)

LEMMA WorkerMakesVisit ==
    ASSUME Weights \subseteq Nat, WeightType, RunInv(worker),
           NEW u \in Cities, WorkerVisit(u)
    PROVE  VisitOf(worker, worker', u)
<1> USE ShortestPathsAssumption
<1>1. u \in Cities \ worker.done /\ worker.dist[u] \in Nat
  BY DEF WorkerVisit, Closest, RunInv, RunType
<1>2. worker' = Visit(worker, u, weight[u], Cities \ (worker.done \cup {u}))
  BY DEF WorkerVisit
<1>3. /\ worker'.done = worker.done \cup {u}
      /\ \A v \in Cities : Kept(worker, worker', u, v) \/ Improved(worker, worker', u, v)
  <2>1. worker'.done = worker.done \cup {u}
    BY <1>2 DEF Visit
  <2>2. ASSUME NEW v \in Cities
        PROVE  Kept(worker, worker', u, v) \/ Improved(worker, worker', u, v)
    <3>1. weight[u][v] \in Nat \cup {Infinity}
      BY <1>1 DEF WeightType
    <3>2. CASE /\ v \notin worker.done \cup {u}
               /\ Less(Plus(worker.dist[u], weight[u][v]), worker.dist[v])
      BY <1>1, <1>2, <3>1, <3>2 DEF Visit, Improved, Plus, Less
    <3>3. CASE ~ (/\ v \notin worker.done \cup {u}
                  /\ Less(Plus(worker.dist[u], weight[u][v]), worker.dist[v]))
      BY <1>1, <1>2, <3>3 DEF Visit, Kept
    <3> QED BY <3>2, <3>3
  <2> QED BY <2>1, <2>2
<1>4. worker'.dist \in [Cities -> Nat \cup {Infinity}]
  <2>1. worker'.dist = [v \in Cities |-> worker'.dist[v]]
    BY <1>2 DEF Visit
  <2>2. ASSUME NEW v \in Cities
        PROVE  worker'.dist[v] \in Nat \cup {Infinity}
    <3>1. worker.dist[v] \in Nat \cup {Infinity}
      BY DEF RunInv, RunType
    <3>2. weight[u][v] \in Nat \cup {Infinity}
      BY DEF WeightType
    <3> QED BY <1>1, <1>3, <3>1, <3>2 DEF Kept, Improved
  <2> QED BY <2>1, <2>2
<1>5. worker'.prev \in [Cities -> Cities \cup {NoCity}]
  BY <1>1, <1>2 DEF Visit, RunInv, RunType
<1> QED BY <1>3, <1>4, <1>5 DEF VisitOf

LEMMA QuoteMakesVisit ==
    ASSUME Weights \subseteq Nat, WeightType, RunInv(quote),
           NEW u \in Cities, QuoteVisit(u)
    PROVE  VisitOf(quote, quote', u)
<1> USE ShortestPathsAssumption
<1>1. u \in Cities \ quote.done /\ quote.dist[u] \in Nat
  BY DEF QuoteVisit, Closest, RunInv, RunType
<1>2. quote' = Visit(quote, u, [v \in Cities |-> Edge(u, v)], Cities)
  BY DEF QuoteVisit
<1>3. /\ quote'.done = quote.done \cup {u}
      /\ \A v \in Cities : Kept(quote, quote', u, v) \/ Improved(quote, quote', u, v)
  <2>1. quote'.done = quote.done \cup {u}
    BY <1>2 DEF Visit
  <2>2. ASSUME NEW v \in Cities
        PROVE  Kept(quote, quote', u, v) \/ Improved(quote, quote', u, v)
    <3>1. /\ weight[u][v] \in Nat \cup {Infinity}
          /\ quote.dist[v] \in Nat \cup {Infinity}
      <4>1. weight[u][v] \in Nat \cup {Infinity}
        BY DEF WeightType
      <4>2. quote.dist[v] \in Nat \cup {Infinity}
        BY DEF RunInv, RunType
      <4> QED BY <4>1, <4>2
    <3>2. Edge(u, v) = IF u = v THEN Infinity ELSE weight[u][v]
      BY <3>1 DEF Edge
    <3>3. CASE Less(Plus(quote.dist[u], Edge(u, v)), quote.dist[v])
      <4>1. u # v
        BY <3>2, <3>3 DEF Plus, Less
      <4>2. weight[u][v] \in Nat
        BY <3>1, <3>2, <3>3, <4>1 DEF Plus, Less
      <4>3. v \notin quote.done
        <5>1. SUFFICES ASSUME v \in quote.done PROVE FALSE
          OBVIOUS
        <5>2. quote.dist[v] \in Nat /\ ~Less(quote.dist[u], quote.dist[v])
          BY <1>1, <3>1, <5>1 DEF RunInv, Nearest
        <5> QED BY <1>1, <3>2, <3>3, <4>1, <4>2, <5>2 DEF Plus, Less
      <4> QED BY <1>1, <1>2, <3>2, <3>3, <4>1, <4>2, <4>3 DEF Visit, Improved, Plus
    <3>4. CASE ~Less(Plus(quote.dist[u], Edge(u, v)), quote.dist[v])
      BY <1>1, <1>2, <3>2, <3>4 DEF Visit, Kept
    <3> QED BY <3>3, <3>4
  <2> QED BY <2>1, <2>2
<1>4. quote'.dist \in [Cities -> Nat \cup {Infinity}]
  <2>1. quote'.dist = [v \in Cities |-> quote'.dist[v]]
    BY <1>2 DEF Visit
  <2>2. ASSUME NEW v \in Cities
        PROVE  quote'.dist[v] \in Nat \cup {Infinity}
    <3>1. quote.dist[v] \in Nat \cup {Infinity}
      BY DEF RunInv, RunType
    <3>2. weight[u][v] \in Nat \cup {Infinity}
      BY DEF WeightType
    <3> QED BY <1>1, <1>3, <3>1, <3>2 DEF Kept, Improved
  <2> QED BY <2>1, <2>2
<1>5. quote'.prev \in [Cities -> Cities \cup {NoCity}]
  BY <1>1, <1>2 DEF Visit, RunInv, RunType
<1> QED BY <1>3, <1>4, <1>5 DEF VisitOf

-----------------------------------------------------------------------------
(* A visit keeps the invariant of a run.                                   *)

LEMMA VisitKeepsInv ==
    ASSUME Weights \subseteq Nat, WeightType,
           NEW run, NEW next, NEW u \in Closest(run),
           RunInv(run), VisitOf(run, next, u)
    PROVE  RunInv(next)
<1> USE ShortestPathsAssumption
<1>1. /\ u \in Cities \ run.done
      /\ run.dist[u] \in Nat
      /\ \A v \in Cities \ run.done : ~Less(run.dist[v], run.dist[u])
  BY DEF Closest, RunInv, RunType
<1>2. \A v \in Cities : run.dist[v] \in Nat \cup {Infinity}
  BY DEF RunInv, RunType
<1>3. \A x, y \in Cities : weight[x][y] \in Nat \cup {Infinity}
  BY DEF WeightType
<1>4. RunType(next)
  BY <1>1 DEF RunInv, RunType, VisitOf
<1>5. next.done = run.done \cup {u} /\ run.done \subseteq Cities
  BY DEF VisitOf, RunInv, RunType
<1>6. \A v \in Cities : Kept(run, next, u, v) \/ Improved(run, next, u, v)
  BY DEF VisitOf
<1>7. \A v \in next.done : next.dist[v] = run.dist[v] /\ next.prev[v] = run.prev[v]
  BY <1>1, <1>5, <1>6 DEF Kept, Improved
<1>8. \A v \in Cities : ~Less(run.dist[v], next.dist[v])
  BY <1>1, <1>2, <1>3, <1>6 DEF Kept, Improved, Less
<1>9. Rooted(next)
  <2>1. ~Improved(run, next, u, Source)
    BY <1>1, <1>3 DEF Improved, Less, RunInv, Rooted
  <2> QED BY <1>6, <2>1 DEF Kept, RunInv, Rooted
<1>10. Tree(next)
  <2>1. SUFFICES ASSUME NEW v \in Cities \ {Source}
                 PROVE  IF next.dist[v] = Infinity
                        THEN next.prev[v] = NoCity
                        ELSE /\ next.prev[v] \in next.done
                             /\ weight[next.prev[v]][v] # Infinity
                             /\ next.dist[v] = next.dist[next.prev[v]]
                                               + weight[next.prev[v]][v]
    BY DEF Tree
  <2>2. CASE Kept(run, next, u, v)
    BY <1>5, <1>7, <2>2 DEF Kept, RunInv, Tree
  <2>3. CASE Improved(run, next, u, v)
    BY <1>1, <1>3, <1>5, <1>7, <2>3 DEF Improved
  <2> QED BY <1>6, <2>2, <2>3
<1>11. Relaxed(next)
  <2>1. SUFFICES ASSUME NEW x \in next.done, NEW v \in Cities
                 PROVE  ~Less(Plus(next.dist[x], weight[x][v]), next.dist[v])
    BY DEF Relaxed
  <2>2. /\ x \in Cities
        /\ next.dist[x] = run.dist[x]
        /\ next.dist[v] \in Nat \cup {Infinity}
    BY <1>1, <1>4, <1>5, <1>7 DEF RunType
  <2>3. ~Less(Plus(run.dist[x], weight[x][v]), run.dist[v])
          => ~Less(Plus(run.dist[x], weight[x][v]), next.dist[v])
    BY <1>2, <1>3, <1>8, <2>2 DEF Plus, Less
  <2>4. CASE x \in run.done
    BY <2>2, <2>3, <2>4 DEF RunInv, Relaxed
  <2>5. CASE x = u
    <3>1. CASE Improved(run, next, u, v)
      BY <1>1, <1>3, <2>2, <2>5, <3>1 DEF Improved, Plus, Less
    <3>2. CASE v \in run.done
      <4>1. run.dist[v] \in Nat /\ ~Less(run.dist[u], run.dist[v])
        BY <1>1, <1>2, <1>5, <3>2 DEF RunInv, Nearest
      <4>2. weight[u][v] \in Nat \cup {Infinity}
        BY <1>1, <1>3
      <4>3. next.dist[v] = run.dist[v]
        BY <1>5, <1>7, <3>2
      <4> QED BY <1>1, <2>2, <2>5, <4>1, <4>2, <4>3 DEF Plus, Less
    <3>3. CASE v = u
      BY <1>1, <1>3, <2>2, <2>5, <3>3 DEF Plus, Less
    <3>4. CASE ~Less(Plus(run.dist[u], weight[u][v]), run.dist[v])
      BY <2>2, <2>3, <2>5, <3>4
    <3> QED BY <1>6, <3>1, <3>2, <3>3, <3>4 DEF Kept
  <2> QED BY <1>5, <2>4, <2>5
<1>12. Nearest(next)
  <2>1. SUFFICES ASSUME NEW x \in next.done
                 PROVE  /\ next.dist[x] # Infinity
                        /\ \A v \in Cities \ next.done : ~Less(next.dist[v], next.dist[x])
    BY DEF Nearest
  <2>2. /\ next.dist[x] = run.dist[x]
        /\ run.dist[x] \in Nat
        /\ ~Less(run.dist[u], run.dist[x])
    BY <1>1, <1>2, <1>5, <1>7 DEF RunInv, Nearest, Less
  <2>3. ASSUME NEW v \in Cities \ next.done
        PROVE  ~Less(next.dist[v], next.dist[x])
    <3>1. ~Less(run.dist[v], run.dist[u])
      BY <1>1, <1>5
    <3>2. CASE Kept(run, next, u, v)
      BY <1>1, <1>2, <2>2, <3>1, <3>2 DEF Kept, Less
    <3>3. CASE Improved(run, next, u, v)
      BY <1>1, <1>3, <2>2, <3>3 DEF Improved, Less
    <3> QED BY <1>6, <3>2, <3>3
  <2> QED BY <2>2, <2>3
<1> QED BY <1>4, <1>9, <1>10, <1>11, <1>12 DEF RunInv

LEMMA VisitKeepsDominated ==
    ASSUME Weights \subseteq Nat, WeightType,
           NEW run, NEW next, NEW u \in Closest(run),
           RunInv(run), VisitOf(run, next, u), Dominated(run)
    PROVE  Dominated(next)
<1> USE ShortestPathsAssumption
<1>1. SUFFICES ASSUME NEW p, Potential(p), NEW v \in Cities
               PROVE  ~Less(next.dist[v], p[v])
  BY DEF Dominated
<1>2. u \in Cities /\ run.dist[u] \in Nat
  BY DEF Closest, RunInv, RunType
<1>3. weight[u][v] \in Nat \cup {Infinity}
  BY <1>2 DEF WeightType
<1>4. /\ p[u] \in Nat \cup {Infinity}
      /\ p[v] \in Nat \cup {Infinity}
      /\ ~Less(Plus(p[u], weight[u][v]), p[v])
  BY <1>1, <1>2 DEF Potential
<1>5. ~Less(run.dist[v], p[v]) /\ ~Less(run.dist[u], p[u])
  BY <1>1, <1>2 DEF Dominated
<1>6. CASE Kept(run, next, u, v)
  BY <1>5, <1>6 DEF Kept
<1>7. CASE Improved(run, next, u, v)
  BY <1>2, <1>3, <1>4, <1>5, <1>7 DEF Improved, Plus, Less
<1> QED BY <1>6, <1>7 DEF VisitOf

-----------------------------------------------------------------------------
(* Induction.                                                              *)

\* Induction over the natural numbers, stated with a set.
LEMMA SetInduction ==
  ASSUME NEW S, 0 \in S, \A n \in Nat : n \in S => n + 1 \in S
  PROVE  Nat \subseteq S
<1> DEFINE T == Nat \ S
<1>1. SUFFICES ASSUME T # {} PROVE FALSE
  OBVIOUS
<1>2. PICK x \in T : \A y \in T : ~(<<y, x>> \in OpToRel(<, Nat))
  <2>1. T \subseteq Nat
    OBVIOUS
  <2> HIDE DEF T
  <2> QED BY <1>1, <2>1, NatLessThanWellFounded, WFMin
<1>3. OpToRel(<, Nat) = {p \in Nat \X Nat : p[1] < p[2]}
  BY DEF OpToRel
<1>4. x \in Nat /\ x \notin S
  BY <1>2, Zenon
<1>5. x # 0 /\ x - 1 \in Nat
  BY <1>4
<1>6. <<x - 1, x>> \in OpToRel(<, Nat)
  <2>1. /\ <<x - 1, x>> \in Nat \X Nat
        /\ <<x - 1, x>>[1] < <<x - 1, x>>[2]
    BY <1>4, <1>5
  <2> QED BY <1>3, <2>1
<1>7. x - 1 \notin T
  BY <1>2, <1>6, Zenon
<1>8. (x - 1) + 1 \in S
  BY <1>5, <1>7
<1> QED BY <1>4, <1>8

-----------------------------------------------------------------------------
(* The way back along the predecessors.                                    *)

\* A path without a city twice has no more of them than there are.
LEMMA InjectionIsShort ==
  ASSUME NEW n \in Nat, NEW path \in [1..n -> Cities],
         \A i, j \in 1..n : path[i] = path[j] => i = j
  PROVE  n <= Cardinality(Cities)
<1>1. path \in Injection(1..n, Cities)
  BY DEF Injection, IsInjective
<1>2. Cardinality(1..n) = n
  BY FS_Interval
<1> QED BY <1>1, <1>2, FS_Injection, ShortestPathsAssumption

\* A path back is what reconstructPath returns: no city is on it twice, so that
\* it is not longer than the model looks for it.
LEMMA PathIsBackwards ==
  ASSUME NEW run, NEW v, NEW path, Backwards(run, v, path)
  PROVE  Path(run, v) = path
<1> USE ShortestPathsAssumption
<1> DEFINE N == Cardinality(Cities)
           L == Len(path)
           Longer(rest) == LET before == run.prev[Head(rest)]
                           IN  IF before = NoCity THEN rest ELSE <<before>> \o rest
           Tails == [n \in 0..N |-> SubSeq(path, IF n < L THEN L - n ELSE 1, L)]
<1>1. N \in Nat /\ L \in Nat \ {0} /\ path \in [1..L -> Cities]
  BY FS_CardinalityType DEF Backwards
<1>2. L <= N
  BY <1>1, InjectionIsShort DEF Backwards
<1>3. ASSUME NEW n \in 0..N
      PROVE  Tails[n] = IF n = 0 THEN <<v>> ELSE Longer(Tails[n - 1])
  <2>1. CASE n = 0
    <3>1. Tails[0] = SubSeq(path, L, L)
      <4>1. 0 \in 0..N /\ 0 < L /\ L - 0 = L
        BY <1>1
      <4> QED BY <4>1
    <3>2. SubSeq(path, L, L) = <<path[L]>> \o SubSeq(path, L + 1, L)
      <4>1. L \in 1..L /\ L \in L..L
        BY <1>1
      <4> QED BY <4>1, SubSeqRecursiveFirst DEF Backwards
    <3>3. SubSeq(path, L + 1, L) = <<>>
      BY <1>1, SubSeqEmpty
    <3>4. path[L] = v /\ <<v>> \o <<>> = <<v>>
      BY DEF Backwards
    <3> HIDE DEF Tails, Longer
    <3> QED BY <2>1, <3>1, <3>2, <3>3, <3>4
  <2>2. CASE n # 0 /\ n < L
    <3> DEFINE rest == SubSeq(path, L - n + 1, L)
    <3>1. /\ Tails[n - 1] = rest
          /\ Tails[n] = SubSeq(path, L - n, L)
      <4>1. n - 1 \in 0..N /\ n - 1 < L /\ L - (n - 1) = L - n + 1
        BY <1>1, <2>2
      <4> QED BY <1>1, <2>2, <4>1
    <3>2. Head(rest) = path[L - n + 1] /\ rest \in Seq(Cities)
      BY <1>1, <2>2, SubSeqProperties DEF Backwards
    <3>3. run.prev[Head(rest)] = path[L - n] /\ path[L - n] \in Cities
      <4>1. L - n + 1 \in 2..L /\ (L - n + 1) - 1 = L - n /\ L - n \in 1..L
        BY <1>1, <2>2
      <4> QED BY <1>1, <3>2, <4>1 DEF Backwards
    <3>4. <<path[L - n]>> \o rest = SubSeq(path, L - n, L)
      <4>1. L - n \in 1..L
        BY <1>1, <2>2
      <4> QED BY <1>1, <4>1, SubSeqRecursiveFirst DEF Backwards
    <3> QED BY <2>2, <3>1, <3>3, <3>4
  <2>3. CASE n # 0 /\ n >= L
    <3>1. Tails[n - 1] = path /\ Tails[n] = path
      <4>1. n - 1 \in 0..N /\ (n - 1 < L => L - (n - 1) = 1)
        BY <1>1, <2>3
      <4>2. SubSeq(path, 1, L) = path
        BY SubSeqFull DEF Backwards
      <4>3. Tails[n - 1] = SubSeq(path, 1, L)
        BY <4>1
      <4>4. Tails[n] = SubSeq(path, 1, L)
        <5>1. ~(n < L)
          BY <1>1, <2>3
        <5> QED BY <5>1
      <4> QED BY <4>2, <4>3, <4>4
    <3>2. run.prev[Head(path)] = NoCity
      BY DEF Backwards
    <3> QED BY <2>3, <3>1, <3>2
  <2> HIDE DEF Tails, Longer
  <2> QED BY <1>1, <2>1, <2>2, <2>3
<1> DEFINE back == CHOOSE b : b = [n \in 0..N |->
                                    IF n = 0 THEN <<v>> ELSE Longer(b[n - 1])]
<1>4. back = [n \in 0..N |-> IF n = 0 THEN <<v>> ELSE Longer(back[n - 1])]
  <2>1. Tails = [n \in 0..N |-> IF n = 0 THEN <<v>> ELSE Longer(Tails[n - 1])]
    BY <1>3
  <2> HIDE DEF Tails, Longer
  <2> QED BY <2>1
<1>5. Path(run, v) = back[N]
  BY DEF Path
<1>6. \A n \in 0..N : back[n] = Tails[n]
  <2> DEFINE S == {n \in Nat : n <= N => back[n] = Tails[n]}
  <2>1. 0 \in S
    <3>1. 0 \in 0..N
      BY <1>1
    <3>2. back[0] = <<v>>
      <4> HIDE DEF back, Longer
      <4> QED BY <1>4, <3>1
    <3>3. Tails[0] = <<v>>
      <4> HIDE DEF Tails, Longer
      <4> QED BY <1>3, <3>1
    <3> HIDE DEF back, Tails
    <3> QED BY <3>2, <3>3
  <2>2. ASSUME NEW n \in Nat, n \in S PROVE n + 1 \in S
    <3>1. SUFFICES ASSUME n + 1 <= N PROVE back[n + 1] = Tails[n + 1]
      BY <2>2
    <3>2. n + 1 \in 0..N /\ n + 1 # 0 /\ (n + 1) - 1 = n /\ back[n] = Tails[n]
      BY <1>1, <2>2, <3>1
    <3>3. back[n + 1] = Longer(back[n])
      <4> HIDE DEF back, Longer
      <4> QED BY <1>4, <3>2
    <3>4. Tails[n + 1] = Longer(Tails[n])
      <4> HIDE DEF Tails, Longer
      <4> QED BY <1>3, <3>2
    <3> HIDE DEF back, Tails, Longer
    <3> QED BY <3>2, <3>3, <3>4
  <2>3. Nat \subseteq S
    <3> HIDE DEF S
    <3> QED BY <2>1, <2>2, SetInduction
  <2> HIDE DEF back, Tails
  <2> QED BY <1>1, <2>3
<1>7. Tails[N] = path
  <2>1. N \in 0..N /\ (N < L => L - N = 1)
    BY <1>1, <1>2
  <2>2. SubSeq(path, 1, L) = path
    BY SubSeqFull DEF Backwards
  <2> QED BY <1>1, <2>1, <2>2
<1> HIDE DEF back, Tails
<1> QED BY <1>1, <1>5, <1>6, <1>7
-----------------------------------------------------------------------------
(* The sums along a path.                                                  *)

\* The sums that calculatePathTotals makes on its way, up to the m-th city.
Sums(path, sum, m) ==
    sum = [i \in 1..m |-> IF i = 1 THEN 0
                          ELSE sum[i - 1] + weight[path[i - 1]][path[i]]]

LEMMA SumsExist ==
  ASSUME NEW path, NEW m \in Nat
  PROVE  \E sum : Sums(path, sum, m)
<1> DEFINE S == {n \in Nat : \E sum : Sums(path, sum, n)}
<1>1. 0 \in S
  <2>1. Sums(path, [i \in 1..0 |-> 0], 0)
    BY DEF Sums
  <2> QED BY <2>1
<1>2. ASSUME NEW n \in Nat, n \in S PROVE n + 1 \in S
  <2>1. PICK sum : Sums(path, sum, n)
    BY <1>2
  <2> DEFINE w(i) == weight[path[i - 1]][path[i]]
             more == [i \in 1..(n + 1) |->
                        IF i = 1 THEN 0
                        ELSE IF i <= n THEN sum[i] ELSE sum[n] + w(i)]
  <2>2. ASSUME NEW i \in 1..(n + 1)
        PROVE  more[i] = IF i = 1 THEN 0 ELSE more[i - 1] + w(i)
    <3> HIDE DEF w
    <3>1. CASE i = 1
      BY <3>1
    <3>2. CASE i # 1
      <4>1. i - 1 \in 1..n /\ i - 1 \in 1..(n + 1) /\ i - 1 <= n
        BY <3>2
      <4>2. more[i - 1] = sum[i - 1]
        <5>1. more[i - 1] = IF i - 1 = 1 THEN 0 ELSE sum[i - 1]
          BY <4>1
        <5>2. i - 1 = 1 => sum[i - 1] = 0
          BY <2>1, <4>1 DEF Sums
        <5> QED BY <5>1, <5>2
      <4>3. CASE i <= n
        <5>1. i \in 1..n
          BY <4>3
        <5>2. sum[i] = sum[i - 1] + w(i)
          BY <2>1, <3>2, <5>1 DEF Sums, w
        <5>3. more[i] = sum[i]
          BY <3>2, <4>3
        <5> QED BY <3>2, <4>2, <5>2, <5>3
      <4>4. CASE ~(i <= n)
        <5>1. i - 1 = n
          BY <4>4
        <5>2. more[i] = sum[n] + w(i)
          BY <3>2, <4>4
        <5> QED BY <3>2, <4>2, <5>1, <5>2
      <4> QED BY <4>3, <4>4
    <3> QED BY <3>1, <3>2
  <2>3. more = [i \in 1..(n + 1) |-> IF i = 1 THEN 0 ELSE more[i - 1] + w(i)]
    <3>1. more = [i \in 1..(n + 1) |-> more[i]]
      OBVIOUS
    <3> HIDE DEF more, w
    <3> QED BY <2>2, <3>1
  <2>4. Sums(path, more, n + 1)
    <3> HIDE DEF more
    <3> QED BY <2>3 DEF Sums, w
  <2> QED BY <2>4
<1>3. Nat \subseteq S
  <2> HIDE DEF S
  <2> QED BY <1>1, <1>2, SetInduction
<1> QED BY <1>3

\* The last of them is the total.
LEMMA TotalSums ==
  ASSUME NEW path, Len(path) \in Nat
  PROVE  \E sum : Sums(path, sum, Len(path)) /\ Total(path) = sum[Len(path)]
<1> DEFINE sum == CHOOSE s : s = [i \in 1..Len(path) |->
                                   IF i = 1 THEN 0
                                   ELSE s[i - 1] + weight[path[i - 1]][path[i]]]
<1>1. Sums(path, sum, Len(path))
  BY SumsExist DEF Sums
<1>2. Total(path) = sum[Len(path)]
  BY DEF Total
<1> QED
  <2> HIDE DEF sum
  <2> QED BY <1>1, <1>2

\* Where each edge makes the difference of two values, the total is the last.
LEMMA TotalOfDifferences ==
  ASSUME NEW path \in Seq(Cities), path # <<>>, NEW d, d[path[1]] = 0,
         \A i \in 2..Len(path) :
            d[path[i]] = d[path[i - 1]] + weight[path[i - 1]][path[i]]
  PROVE  Total(path) = d[path[Len(path)]]
<1>1. Len(path) \in Nat \ {0}
  OBVIOUS
<1>2. PICK sum : Sums(path, sum, Len(path)) /\ Total(path) = sum[Len(path)]
  BY <1>1, TotalSums
<1> DEFINE S == {n \in Nat : n + 1 <= Len(path) => sum[n + 1] = d[path[n + 1]]}
<1>3. 0 \in S
  BY <1>1, <1>2 DEF Sums
<1>4. ASSUME NEW n \in Nat, n \in S PROVE n + 1 \in S
  <2>1. SUFFICES ASSUME n + 2 <= Len(path) PROVE sum[n + 2] = d[path[n + 2]]
    OBVIOUS
  <2>2. /\ n + 2 \in 1..Len(path) /\ n + 2 \in 2..Len(path)
        /\ n + 2 # 1 /\ (n + 2) - 1 = n + 1 /\ n + 1 <= Len(path)
    BY <1>1, <2>1
  <2>3. sum[n + 1] = d[path[n + 1]]
    BY <1>4, <2>2
  <2>4. sum[n + 2] = sum[n + 1] + weight[path[n + 1]][path[n + 2]]
    BY <1>2, <2>2 DEF Sums
  <2> QED BY <2>2, <2>3, <2>4
<1>5. Nat \subseteq S
  <2> HIDE DEF S
  <2> QED BY <1>3, <1>4, SetInduction
<1>6. Len(path) - 1 \in S /\ (Len(path) - 1) + 1 = Len(path)
  <2> HIDE DEF S
  <2> QED BY <1>1, <1>5
<1> QED BY <1>2, <1>6

\* A potential is no more than the total of any open path from the source.
LEMMA TotalIsBounded ==
  ASSUME Weights \subseteq Nat, WeightType, NEW p, Potential(p),
         NEW path \in Seq(Cities), path # <<>>, path[1] = Source, Open(path)
  PROVE  /\ p[path[Len(path)]] \in Nat
         /\ Total(path) \in Nat
         /\ p[path[Len(path)]] <= Total(path)
<1> USE ShortestPathsAssumption
<1>1. Len(path) \in Nat \ {0} /\ \A i \in 1..Len(path) : path[i] \in Cities
  OBVIOUS
<1>2. PICK sum : Sums(path, sum, Len(path)) /\ Total(path) = sum[Len(path)]
  BY <1>1, TotalSums
<1> DEFINE Below(i) == p[path[i]] \in Nat /\ sum[i] \in Nat /\ p[path[i]] <= sum[i]
           S == {n \in Nat : n + 1 <= Len(path) => Below(n + 1)}
<1>3. 0 \in S
  <2>1. sum[1] = 0 /\ p[path[1]] = 0
    BY <1>1, <1>2 DEF Sums, Potential
  <2> QED BY <2>1
<1>4. ASSUME NEW n \in Nat, n \in S PROVE n + 1 \in S
  <2>1. SUFFICES ASSUME n + 2 <= Len(path) PROVE Below(n + 2)
    OBVIOUS
  <2>2. /\ n + 2 \in 1..Len(path) /\ n + 1 \in 1..(Len(path) - 1)
        /\ n + 2 # 1 /\ (n + 2) - 1 = n + 1 /\ (n + 1) + 1 = n + 2
        /\ n + 1 <= Len(path) /\ n + 1 \in 1..Len(path)
    BY <1>1, <2>1
  <2> DEFINE u == path[n + 1]
             v == path[n + 2]
  <2>3. p[u] \in Nat /\ sum[n + 1] \in Nat /\ p[u] <= sum[n + 1]
    BY <1>4, <2>2
  <2>4. sum[n + 2] = sum[n + 1] + weight[u][v]
    BY <1>2, <2>2 DEF Sums
  <2>5. u \in Cities /\ v \in Cities
    BY <1>1, <2>2
  <2>6. weight[u][v] # Infinity
    BY <2>2 DEF Open
  <2> HIDE DEF u, v
  <2>7. weight[u][v] \in Nat
    BY <2>5, <2>6 DEF WeightType
  <2>8. ~Less(Plus(p[u], weight[u][v]), p[v]) /\ p[v] \in Nat \cup {Infinity}
    BY <2>5 DEF Potential
  <2>9. p[v] \in Nat /\ p[v] <= p[u] + weight[u][v]
    BY <2>3, <2>7, <2>8 DEF Plus, Less
  <2>10. sum[n + 2] \in Nat /\ p[v] <= sum[n + 2]
    BY <2>3, <2>4, <2>7, <2>9
  <2> QED BY <2>9, <2>10 DEF v
<1>5. Nat \subseteq S
  <2> HIDE DEF S
  <2> QED BY <1>3, <1>4, SetInduction
<1>6. Len(path) - 1 \in Nat /\ (Len(path) - 1) + 1 = Len(path)
  BY <1>1
<1> QED BY <1>2, <1>5, <1>6
-----------------------------------------------------------------------------
(* The ways of a run.                                                      *)

LEMMA StartHasWays == Ways(Start)
<1> USE ShortestPathsAssumption
<1>1. SUFFICES ASSUME NEW v \in Cities, Start.dist[v] # Infinity
               PROVE  \E path : IsWay(Start, v, path)
  BY DEF Ways
<1>2. v = Source /\ Start.prev[Source] = NoCity
  BY <1>1 DEF Start
<1>3. IsWay(Start, v, <<Source>>)
  <2>1. <<Source>> \in Seq(Cities) /\ Len(<<Source>>) = 1 /\ <<Source>>[1] = Source
    OBVIOUS
  <2> QED BY <1>2, <2>1 DEF IsWay, Backwards
<1> QED BY <1>3

\* A visit keeps the ways to the cities it does not improve, and makes those to
\* the others longer by one city.
LEMMA VisitKeepsWays ==
  ASSUME Weights \subseteq Nat, WeightType,
         NEW run, NEW next, NEW u \in Closest(run),
         RunInv(run), VisitOf(run, next, u), Ways(run)
  PROVE  Ways(next)
<1> USE ShortestPathsAssumption
<1>1. SUFFICES ASSUME NEW v \in Cities, next.dist[v] # Infinity
               PROVE  \E path : IsWay(next, v, path)
  BY DEF Ways
<1>2. /\ u \in Cities \ run.done
      /\ run.dist[u] # Infinity
      /\ next.done = run.done \cup {u}
      /\ \A x \in Cities : Kept(run, next, u, x) \/ Improved(run, next, u, x)
      /\ run.done \subseteq Cities
  BY DEF Closest, VisitOf, RunInv, RunType
<1>3. \A x \in next.done : next.prev[x] = run.prev[x]
  BY <1>2 DEF Kept, Improved
<1>4. CASE Kept(run, next, u, v)
  <2>1. next.dist[v] = run.dist[v] /\ next.prev[v] = run.prev[v]
    BY <1>4 DEF Kept
  <2>2. PICK path : IsWay(run, v, path)
    BY <1>1, <2>1 DEF Ways
  <2>3. Len(path) \in Nat \ {0}
    BY <2>2 DEF IsWay, Backwards
  <2>4. \A i \in 1..Len(path) : next.prev[path[i]] = run.prev[path[i]]
    <3>1. SUFFICES ASSUME NEW i \in 1..Len(path)
                   PROVE  next.prev[path[i]] = run.prev[path[i]]
      OBVIOUS
    <3>2. CASE i = Len(path)
      BY <2>1, <2>2, <3>2 DEF IsWay, Backwards
    <3>3. CASE i # Len(path)
      <4>1. i \in 1..(Len(path) - 1)
        BY <2>3, <3>3
      <4> QED BY <1>2, <1>3, <2>2, <4>1 DEF IsWay
    <3> QED BY <3>2, <3>3
  <2>5. Backwards(next, v, path)
    BY <2>2, <2>3, <2>4 DEF IsWay, Backwards
  <2>6. IsWay(next, v, path)
    BY <1>2, <2>2, <2>5 DEF IsWay
  <2> QED BY <2>6
<1>5. CASE Improved(run, next, u, v)
  <2>1. v \notin run.done \cup {u} /\ next.prev[v] = u
    BY <1>5 DEF Improved
  <2>2. PICK path : IsWay(run, u, path)
    BY <1>2 DEF Ways
  <2> DEFINE L == Len(path)
             longer == Append(path, v)
  <2>3. /\ L \in Nat \ {0} /\ path \in Seq(Cities) /\ path[1] = Source
        /\ path[L] = u /\ run.prev[path[1]] = NoCity
        /\ \A i \in 2..L : run.prev[path[i]] = path[i - 1]
        /\ \A i, j \in 1..L : path[i] = path[j] => i = j
    BY <2>2 DEF IsWay, Backwards
  <2>4. \A i \in 1..L : path[i] \in next.done
    <3>1. SUFFICES ASSUME NEW i \in 1..L PROVE path[i] \in next.done
      OBVIOUS
    <3>2. CASE i = L
      BY <1>2, <2>3, <3>2
    <3>3. CASE i # L
      <4>1. i \in 1..(L - 1)
        BY <2>3, <3>3
      <4> QED BY <1>2, <2>2, <4>1 DEF IsWay
    <3> QED BY <3>2, <3>3
  <2>5. /\ longer \in Seq(Cities) /\ longer # <<>> /\ Len(longer) = L + 1
        /\ \A i \in 1..L : longer[i] = path[i]
        /\ longer[L + 1] = v
    BY <2>3
  <2> HIDE DEF L, longer
  <2>6. longer[1] = Source /\ next.prev[longer[1]] = NoCity
    BY <1>3, <2>3, <2>4, <2>5
  <2>7. ASSUME NEW i \in 2..Len(longer)
        PROVE  next.prev[longer[i]] = longer[i - 1]
    <3>1. CASE i = L + 1
      <4>1. L \in Nat \ {0}
        BY <2>3
      <4>2. i - 1 = L /\ L \in 1..L
        BY <3>1, <4>1
      <4> QED BY <2>1, <2>3, <2>5, <3>1, <4>2
    <3>2. CASE i # L + 1
      <4>1. i \in 2..L /\ i \in 1..L /\ i - 1 \in 1..L
        BY <2>3, <2>5, <3>2
      <4> QED BY <1>3, <2>3, <2>4, <2>5, <4>1
    <3> QED BY <3>1, <3>2
  <2>8. ASSUME NEW i \in 1..Len(longer), NEW j \in 1..Len(longer),
               longer[i] = longer[j]
        PROVE  i = j
    <3>1. \A k \in 1..Len(longer) : k \in 1..L \/ k = L + 1
      BY <2>3, <2>5
    <3>2. \A k \in 1..L : longer[k] # v
      BY <1>2, <2>1, <2>4, <2>5
    <3> QED BY <2>3, <2>5, <2>8, <3>1, <3>2
  <2>9. \A i \in 1..(Len(longer) - 1) : longer[i] \in next.done
    BY <2>3, <2>4, <2>5
  <2>10. IsWay(next, v, longer)
    <3>1. longer[Len(longer)] = v
      BY <2>5
    <3> QED BY <2>5, <2>6, <2>7, <2>8, <2>9, <3>1 DEF IsWay, Backwards
  <2> QED BY <2>10
<1> QED BY <1>2, <1>4, <1>5

-----------------------------------------------------------------------------
(* The invariant of the specification.                                     *)

LEMMA InitProved == Init => Proved
<1> USE ShortestPathsAssumption
<1>1. SUFFICES ASSUME Init PROVE Proved
  OBVIOUS
<1>2. WeightType
  BY <1>1 DEF Init, WeightType
<1>3. RunInv(Start)
  BY DEF RunInv, RunType, Rooted, Tree, Relaxed, Nearest, Start
<1>4. Dominated(Start)
  BY DEF Dominated, Potential, Start, Less
<1> QED BY <1>1, <1>2, <1>3, <1>4, StartHasWays DEF Init, Proved, IndInv

LEMMA NextProved ==
    ASSUME Weights \subseteq Nat, Proved, [Next]_vars
    PROVE  Proved'
<1> USE DEF Proved, IndInv
<1>1. weight' = weight
  BY DEF Next, WorkerVisit, QuoteVisit, vars
<1>2. WeightType'
  BY <1>1 DEF WeightType
<1>3. CASE UNCHANGED vars
  BY <1>1, <1>2, <1>3 DEF vars, RunInv, RunType, Rooted, Tree, Relaxed, Nearest,
                          Dominated, Potential, Ways
<1>4. ASSUME NEW u \in Cities, WorkerVisit(u)
      PROVE  Proved'
  <2>1. VisitOf(worker, worker', u) /\ u \in Closest(worker) /\ quote' = quote
    BY <1>4, WorkerMakesVisit DEF WorkerVisit
  <2>2. RunInv(worker') /\ Dominated(worker') /\ Ways(worker')
    BY <2>1, VisitKeepsInv, VisitKeepsDominated, VisitKeepsWays
  <2> QED BY <1>1, <1>2, <2>1, <2>2
        DEF RunInv, Rooted, Tree, Relaxed, Nearest, Dominated, Potential, Ways
<1>5. ASSUME NEW u \in Cities, QuoteVisit(u)
      PROVE  Proved'
  <2>1. VisitOf(quote, quote', u) /\ u \in Closest(quote) /\ worker' = worker
    BY <1>5, QuoteMakesVisit DEF QuoteVisit
  <2>2. RunInv(quote') /\ Dominated(quote') /\ Ways(quote')
    BY <2>1, VisitKeepsInv, VisitKeepsDominated, VisitKeepsWays
  <2> QED BY <1>1, <1>2, <2>1, <2>2
        DEF RunInv, Rooted, Tree, Relaxed, Nearest, Dominated, Potential, Ways
<1> QED BY <1>3, <1>4, <1>5 DEF Next

\* A run that has ended has computed a potential.
LEMMA EndIsPotential ==
    ASSUME Weights \subseteq Nat, WeightType, NEW run, RunInv(run), Ended(run)
    PROVE  Potential(run.dist)
<1> USE ShortestPathsAssumption
<1>1. run.dist \in [Cities -> Nat \cup {Infinity}] /\ run.dist[Source] = 0
  BY DEF RunInv, RunType, Rooted
<1>2. ASSUME NEW u \in Cities, NEW v \in Cities
      PROVE  ~Less(Plus(run.dist[u], weight[u][v]), run.dist[v])
  <2>1. CASE u \in run.done
    BY <2>1 DEF RunInv, Relaxed
  <2>2. CASE u \notin run.done
    BY <2>2 DEF Ended, Plus, Less
  <2> QED BY <2>1, <2>2
<1> QED BY <1>1, <1>2 DEF Potential

-----------------------------------------------------------------------------
(* The results.                                                            *)

\* The way to a city that was reached is an open route, as long as its distance
\* says.
LEMMA WayIsRoute ==
  ASSUME Weights \subseteq Nat, WeightType, NEW run, RunInv(run),
         NEW v \in Cities \ {Source}, run.dist[v] # Infinity,
         NEW path, IsWay(run, v, path)
  PROVE  path \in RoutesTo(v) /\ Total(path) = run.dist[v]
<1> USE ShortestPathsAssumption
<1> DEFINE L == Len(path)
<1>1. /\ L \in Nat \ {0} /\ path \in Seq(Cities) /\ path[1] = Source
      /\ path # <<>> /\ path[L] = v
      /\ \A i \in 2..L : run.prev[path[i]] = path[i - 1]
      /\ \A i, j \in 1..L : path[i] = path[j] => i = j
      /\ \A i \in 1..(L - 1) : path[i] \in run.done
  BY DEF IsWay, Backwards
<1>2. L # 1 /\ path \in [1..L -> Cities]
  BY <1>1
<1>3. L <= Cardinality(Cities) /\ Cardinality(Cities) \in Nat
  BY <1>1, <1>2, InjectionIsShort, FS_CardinalityType
<1>4. ASSUME NEW i \in 2..L
      PROVE  /\ weight[path[i - 1]][path[i]] # Infinity
             /\ run.dist[path[i]] = run.dist[path[i - 1]]
                                     + weight[path[i - 1]][path[i]]
  <2>1. i \in 1..L /\ 1 \in 1..L /\ i # 1
    BY <1>1
  <2>2. path[i] \in Cities \ {Source} /\ run.prev[path[i]] = path[i - 1]
    BY <1>1, <1>2, <2>1
  <2>3. run.dist[path[i]] # Infinity
    <3>1. CASE i = L
      BY <1>1, <3>1
    <3>2. CASE i # L
      <4>1. i \in 1..(L - 1)
        BY <1>1, <3>2
      <4> QED BY <1>1, <4>1 DEF RunInv, Nearest
    <3> QED BY <3>1, <3>2
  <2> QED BY <2>2, <2>3 DEF RunInv, Tree
<1>5. Open(path)
  <2>1. SUFFICES ASSUME NEW i \in 1..(Len(path) - 1)
                 PROVE  weight[path[i]][path[i + 1]] # Infinity
    BY DEF Open
  <2>2. i + 1 \in 2..L /\ (i + 1) - 1 = i
    BY <1>1
  <2> QED BY <1>4, <2>2
<1>6. path \in Routes
  <2>1. L \in 2..Cardinality(Cities)
    BY <1>1, <1>2, <1>3
  <2>2. path \in UNION {[1..n -> Cities] : n \in 2..Cardinality(Cities)}
    BY <1>2, <2>1
  <2>3. DOMAIN path = 1..L
    BY <1>2
  <2> QED BY <1>1, <2>2, <2>3 DEF Routes
<1>7. Total(path) = run.dist[path[L]]
  <2>1. run.dist[path[1]] = 0
    BY <1>1 DEF RunInv, Rooted
  <2> QED BY <1>1, <1>4, <2>1, TotalOfDifferences
<1> QED BY <1>1, <1>5, <1>6, <1>7 DEF RoutesTo

\* At the end the distances and the ways back are those of cheapest routes.
LEMMA EndIsShortest ==
  ASSUME Weights \subseteq Nat, WeightType, NEW run, RunInv(run), Ways(run),
         Ended(run), NEW v \in Cities \ {Source}
  PROVE  IF run.dist[v] = Infinity
         THEN RoutesTo(v) = {} /\ Path(run, v) = <<v>>
         ELSE /\ Path(run, v) \in RoutesTo(v)
              /\ Total(Path(run, v)) = run.dist[v]
              /\ \A path \in RoutesTo(v) : Total(path) >= run.dist[v]
<1> USE ShortestPathsAssumption
<1>1. Potential(run.dist)
  BY EndIsPotential
<1>2. ASSUME NEW path \in RoutesTo(v)
      PROVE  run.dist[v] \in Nat /\ Total(path) \in Nat /\ run.dist[v] <= Total(path)
  <2>1. /\ path \in Routes /\ path[Len(path)] = v /\ Open(path)
        /\ path[1] = Source
    BY DEF RoutesTo, Routes
  <2>2. path \in Seq(Cities) /\ path # <<>>
    <3>1. PICK n \in 2..Cardinality(Cities) : path \in [1..n -> Cities]
      BY <2>1 DEF Routes
    <3>2. n \in Nat \ {0}
      BY <3>1, FS_CardinalityType
    <3> QED BY <3>1, <3>2
  <2> QED BY <1>1, <2>1, <2>2, TotalIsBounded
<1>3. CASE run.dist[v] = Infinity
  <2>1. RoutesTo(v) = {}
    BY <1>2, <1>3
  <2>2. run.prev[v] = NoCity
    BY <1>3 DEF RunInv, Tree
  <2>3. Backwards(run, v, <<v>>)
    <3>1. <<v>> \in Seq(Cities) /\ Len(<<v>>) = 1 /\ <<v>>[1] = v
      OBVIOUS
    <3> QED BY <2>2, <3>1 DEF Backwards
  <2> QED BY <1>3, <2>1, <2>3, PathIsBackwards
<1>4. CASE run.dist[v] # Infinity
  <2>1. PICK path : IsWay(run, v, path)
    BY <1>4 DEF Ways
  <2>2. Path(run, v) = path
    BY <2>1, PathIsBackwards DEF IsWay
  <2>3. path \in RoutesTo(v) /\ Total(path) = run.dist[v]
    BY <1>4, <2>1, WayIsRoute
  <2>4. \A other \in RoutesTo(v) : Total(other) >= run.dist[v]
    BY <1>2
  <2> QED BY <1>4, <2>2, <2>3, <2>4
<1> QED BY <1>3, <1>4

LEMMA EndsAreShortest ==
  ASSUME Weights \subseteq Nat, Proved
  PROVE  ResultsAreShortest
<1> USE ShortestPathsAssumption DEF Proved, IndInv
<1>1. SUFFICES ASSUME NEW v \in Cities \ {Source}
               PROVE  /\ Ended(worker) => Shortest(WorkerResult(v), v)
                      /\ Ended(quote) => Shortest(QuoteResult(v), v)
  BY DEF ResultsAreShortest
<1>2. \A path \in RoutesTo(v) : Head(path) = Source
  <2>1. SUFFICES ASSUME NEW path \in RoutesTo(v) PROVE Head(path) = Source
    OBVIOUS
  <2>2. path[1] = Source
    BY DEF RoutesTo, Routes
  <2> QED BY <2>2
<1>3. ASSUME Ended(worker) PROVE Shortest(WorkerResult(v), v)
  <2>1. CASE worker.dist[v] = Infinity
    <3>1. RoutesTo(v) = {} /\ Path(worker, v) = <<v>>
      BY <1>3, <2>1, EndIsShortest
    <3>2. Head(Path(worker, v)) # Source
      BY <3>1
    <3> QED BY <3>1, <3>2 DEF Shortest, WorkerResult
  <2>2. CASE worker.dist[v] # Infinity
    <3> DEFINE path == Path(worker, v)
    <3>1. /\ path \in RoutesTo(v)
          /\ \A other \in RoutesTo(v) : Total(other) >= Total(path)
      BY <1>3, <2>2, EndIsShortest
    <3>2. WorkerResult(v) = [nextHop |-> path[2], total |-> Total(path)]
      BY <1>2, <3>1 DEF WorkerResult
    <3> HIDE DEF path
    <3> QED BY <3>1, <3>2 DEF Shortest
  <2> QED BY <2>1, <2>2
<1>4. ASSUME Ended(quote) PROVE Shortest(QuoteResult(v), v)
  <2>1. CASE quote.dist[v] = Infinity
    <3>1. RoutesTo(v) = {}
      BY <1>4, <2>1, EndIsShortest
    <3> QED BY <2>1, <3>1 DEF Shortest, QuoteResult
  <2>2. CASE quote.dist[v] # Infinity
    <3> DEFINE path == Path(quote, v)
    <3>1. /\ path \in RoutesTo(v)
          /\ Total(path) = quote.dist[v]
          /\ \A other \in RoutesTo(v) : Total(other) >= quote.dist[v]
      BY <1>4, <2>2, EndIsShortest
    <3>2. QuoteResult(v) = [nextHop |-> path[2], total |-> quote.dist[v]]
      BY <2>2 DEF QuoteResult
    <3> HIDE DEF path
    <3> QED BY <3>1, <3>2 DEF Shortest
  <2> QED BY <2>1, <2>2
<1> QED BY <1>3, <1>4

-----------------------------------------------------------------------------
\* Both loops are Dijkstra's algorithm: in every state of either the visited
\* cities are the nearest and settled, and the rest was reached from them.
THEOREM DijkstraInductive ==
    ASSUME Weights \subseteq Nat PROVE Spec => []IndInv
<1>1. Init => Proved
  BY InitProved
<1>2. Proved /\ [Next]_vars => Proved'
  BY NextProved
<1>3. Proved => IndInv
  BY DEF Proved
<1> QED BY <1>1, <1>2, <1>3, PTL DEF Spec

\* On a given graph each program finds cheapest routes: what
\* buildDijkstraResults makes of the worker's predecessors, and pathTo of the
\* backend's, is a first hop of a cheapest open route and its total, on every
\* graph, in every order of the visits; and nothing for a city without a route.
THEOREM RoutesAreShortest ==
    ASSUME Weights \subseteq Nat PROVE Spec => []ResultsAreShortest
<1>1. Init => Proved
  BY InitProved
<1>2. Proved /\ [Next]_vars => Proved'
  BY NextProved
<1>3. Proved => ResultsAreShortest
  BY EndsAreShortest
<1> QED BY <1>1, <1>2, <1>3, PTL DEF Spec
=============================================================================
