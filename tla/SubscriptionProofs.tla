-------------------------- MODULE SubscriptionProofs --------------------------
(***************************************************************************)
(* Proofs about Subscriptions, for any number of invocations, retries,     *)
(* deliveries and faults and any budget, price and amount: the books       *)
(* balance, the budget is kept, a tick is charged and sent at most once,   *)
(* the execution passes no tick and neither stops early nor fails without  *)
(* more faults than retries, and the whole implements BudgetPromise.       *)
(*                                                                         *)
(* processTick writes back a copy of the row that it read earlier, in a    *)
(* READ COMMITTED transaction.  The argument why that is right is in       *)
(* NobodyIsAhead and CopiesAreFresh: all calls are about the tick of the   *)
(* execution or about earlier ones, and those are stored; so the row       *)
(* changes only together with the last tick that is not, and whoever has   *)
(* an old copy of the row then has a tick whose unique key is taken.       *)
(***************************************************************************)
EXTENDS SubscriptionProperties, FiniteSetTheorems, TLAPS

\* The states of a row that is not there are not those of a charged one.
LEMMA Statuses ==
  /\ "none" \notin Charged
  /\ "skipped-no-budget" \notin Charged
  /\ {"triggered", "sent", "failed", "expired-insured"} = Charged
  BY DEF Charged

\* Ticks and attempts are numbers, and the first of each exists.
LEMMA Numbers ==
  /\ Ticks \subseteq Nat /\ 0 \in Ticks
  /\ Attempts \subseteq Nat /\ 1 \in Attempts
  /\ MaxAmount \in Nat
  BY SubscriptionsAssumption DEF Ticks, Attempts

\* The price of one more shipment.
LEMMA OneMore ==
  ASSUME NEW price \in Nat, NEW sent \in Nat
  PROVE  price * sent + price = price * (sent + 1)
  OBVIOUS

\* A tick is stored when it was charged or skipped, and those are the first.
LEMMA StoredTicks ==
  ASSUME TypeOK, FilledInOrder, NEW t \in Ticks
  PROVE  rows[t] # "none" <=> \/ t < sub.sent
                              \/ sub.status = "exhausted" /\ t = sub.sent
  BY Statuses DEF TypeOK, FilledInOrder

\* The counters and ticks are numbers.
LEMMA SubTypes ==
  ASSUME TypeOK
  PROVE  /\ sub.budget \in Nat /\ sub.price \in Nat /\ sub.amount \in Nat
         /\ sub.spent \in Nat /\ sub.sent \in Nat
         /\ sm.tick \in Ticks /\ sm.tick \in Nat
         /\ \A w \in Workers :
               /\ call[w].tick \in Ticks /\ call[w].tick \in Nat
               /\ lambda[w].tick \in Ticks /\ lambda[w].tick \in Nat
<1>1. \A t \in Ticks : t \in Nat
  BY SubscriptionsAssumption DEF Ticks
<1>2. sub.budget \in Nat /\ sub.price \in Nat /\ sub.spent \in Nat
  BY DEF TypeOK
<1>3. sub.amount \in Nat /\ sub.sent \in Nat
  BY SubscriptionsAssumption DEF TypeOK
<1>4. sm.tick \in Ticks
  BY DEF TypeOK
<1>5. \A w \in Workers : call[w].tick \in Ticks /\ lambda[w].tick \in Ticks
  BY DEF TypeOK
<1> QED
  BY <1>1, <1>2, <1>3, <1>4, <1>5

\* The tick of a call that is not stored yet is the one the execution waits
\* for, and the next to be charged.
LEMMA OpenTick ==
  ASSUME TypeOK, FilledInOrder, NobodyIsAhead,
         NEW w \in Workers, rows[call[w].tick] = "none"
  PROVE  /\ call[w].tick = sm.tick
         /\ sub.status = "active" => call[w].tick = sub.sent
<1> DEFINE t == call[w].tick
<1>1. t \in Ticks /\ t \in Nat /\ sm.tick \in Nat /\ sub.sent \in Nat
  BY SubTypes
<1>2. t <= sm.tick /\ ~(t < sm.tick)
  BY <1>1 DEF NobodyIsAhead
<1>3. t = sm.tick
  BY <1>1, <1>2
<1>4. ~(t < sub.sent)
  BY <1>1, StoredTicks
<1>5. ASSUME sub.status = "active" PROVE ~(sub.sent < t)
  <2>1. sub.sent \in Ticks
    BY DEF TypeOK, Ticks
  <2>2. rows[sub.sent] = "none"
    BY <1>5, <2>1, <1>1, StoredTicks
  <2> QED
    BY <2>1, <2>2, <1>3 DEF NobodyIsAhead
<1> HIDE DEF t
<1>6. sub.status = "active" => t = sub.sent
  BY <1>1, <1>4, <1>5
<1> QED
  BY <1>3, <1>6 DEF t

-----------------------------------------------------------------------------
(* The answer of a call.                                                   *)

\* What Answer leaves of the types, and that nobody else is touched.
LEMMA AnswerType ==
  ASSUME TypeOK, NEW w \in Workers, NEW at \in {"report", "fail"},
         NEW answer \in Answers, Answer(w, at, answer)
  PROVE  /\ call' \in [Workers -> [pc : CallStates, tick : Ticks, spent : Nat,
                                   sent : 0..MaxAmount]]
         /\ lambda' \in [Workers -> [at : LambdaStates, tick : Ticks,
                                     attempt : Attempts, answer : Answers]]
<1> DEFINE L == [at : LambdaStates, tick : Ticks, attempt : Attempts,
                 answer : Answers]
<1>1. NoCall \in [pc : CallStates, tick : Ticks, spent : Nat, sent : 0..MaxAmount]
  BY Numbers DEF NoCall, CallStates
<1>2. call' = [call EXCEPT ![w] = NoCall]
  BY DEF Answer
<1>3. lambda[w] \in L /\ lambda \in [Workers -> L]
  BY DEF TypeOK
<1>4. [lambda[w] EXCEPT !.at = at, !.answer = answer] \in L
  BY <1>3 DEF LambdaStates
<1>5. lambda' \in [Workers -> L]
  BY <1>3, <1>4 DEF Answer
<1> QED
  BY <1>1, <1>2, <1>5 DEF TypeOK

\* What is stored stays as it is when the database does.
LEMMA DbFrame ==
  ASSUME UNCHANGED <<sub, rows, ledger>>
  PROVE  /\ BooksKept => BooksKept'
         /\ FilledInOrder => FilledInOrder'
  BY DEF BooksKept, FilledInOrder

\* Who sends, when nobody starts to.
LEMMA SenderFrame ==
  ASSUME OneSender,
         UNCHANGED <<rows, published>>,
         \A v \in Workers :
           call'[v].pc \in {"send", "markSent", "markFailed"} =>
             call'[v].pc = call[v].pc /\ call'[v].tick = call[v].tick
  PROVE  OneSender'
  BY DEF OneSender

\* What is told is true when the call that ends has made it true, and what was
\* true before stays true.
LEMMA AnswerHeard ==
  ASSUME TypeOK, AnswersAreTrue, NEW w \in Workers,
         NEW at \in {"report", "fail"}, NEW answer, Answer(w, at, answer),
         \A t \in Ticks : rows[t] # "none" => rows'[t] # "none",
         sub.status \in Over => sub'.status \in Over,
         at = "report" =>
           \/ /\ answer \in {"triggered", "duplicate"}
              /\ rows'[call[w].tick] # "none"
           \/ /\ answer \notin {"triggered", "duplicate"}
              /\ sub'.status \in Over
  PROVE  AnswersAreTrue'
<1> SUFFICES ASSUME NEW v \in Workers
             PROVE  /\ lambda'[v].at = "waiting" =>
                         call'[v].pc # "idle"
                         /\ call'[v].tick = lambda'[v].tick
                    /\ lambda'[v].at = "report" =>
                         \/ /\ lambda'[v].answer \in {"triggered", "duplicate"}
                            /\ rows'[lambda'[v].tick] # "none"
                         \/ /\ lambda'[v].answer \notin {"triggered", "duplicate"}
                            /\ sub'.status \in Over
  BY DEF AnswersAreTrue
<1>1. CASE v # w \/ lambda[w].at # "waiting"
  <2>1. lambda'[v] = lambda[v] /\ (v # w => call'[v] = call[v])
    BY <1>1 DEF Answer, TypeOK
  <2>2. rows[lambda[v].tick] # "none" => rows'[lambda[v].tick] # "none"
    BY SubTypes
  <2> QED
    BY <1>1, <2>1, <2>2 DEF AnswersAreTrue
<1>2. CASE v = w /\ lambda[w].at = "waiting"
  <2>1. /\ lambda'[w].at = at /\ lambda'[w].answer = answer
        /\ lambda'[w].tick = lambda[w].tick
    BY <1>2 DEF Answer, TypeOK
  <2>2. lambda[w].tick = call[w].tick
    BY <1>2 DEF AnswersAreTrue
  <2> QED
    BY <2>1, <2>2, <1>2
<1> QED
  BY <1>1, <1>2

\* A call that ends without having stored anything.
LEMMA AnswerStep ==
  ASSUME IndInv, NEW w \in Workers, call[w].pc # "idle",
         NEW at \in {"report", "fail"}, NEW answer \in Answers,
         Answer(w, at, answer),
         at = "report" =>
           \/ /\ answer \in {"triggered", "duplicate"}
              /\ rows[call[w].tick] # "none"
           \/ /\ answer \notin {"triggered", "duplicate"}
              /\ sub.status \in Over,
         UNCHANGED <<sub, rows, ledger, creator, sm, queue, published,
                     insurance>>,
         faults' \in 0..MaxFaults
  PROVE  IndInv'
<1> USE DEF IndInv
<1>0. call' = [call EXCEPT ![w] = NoCall]
  BY DEF Answer
<1>1. TypeOK'
  <2>1. /\ call' \in [Workers -> [pc : CallStates, tick : Ticks, spent : Nat,
                                   sent : 0..MaxAmount]]
        /\ lambda' \in [Workers -> [at : LambdaStates, tick : Ticks,
                                     attempt : Attempts, answer : Answers]]
    BY AnswerType
  <2> QED
    BY <2>1 DEF TypeOK
<1>2. /\ DOMAIN call = Workers /\ DOMAIN lambda = Workers
      /\ NoCall.pc = "idle" /\ NoCall.tick = 0
  BY DEF TypeOK, NoCall
<1>3. BegunTogether'
  BY DEF BegunTogether
<1>4. BooksKept' /\ FilledInOrder'
  BY DbFrame
<1>5. NobodyIsAhead'
  <2>1. \A v \in Workers : call'[v].tick <= sm.tick
    BY <1>0, <1>2, SubTypes DEF NobodyIsAhead
  <2>2. \A v \in Workers : lambda'[v].tick = lambda[v].tick
    <3>1. lambda \in [Workers -> [at : LambdaStates, tick : Ticks,
                                  attempt : Attempts, answer : Answers]]
      BY DEF TypeOK
    <3> HIDE DEF IndInv
    <3> QED
      BY <3>1 DEF Answer
  <2> QED
    BY <2>1, <2>2 DEF NobodyIsAhead
<1>6. CopiesAreFresh'
  BY <1>0, <1>2 DEF CopiesAreFresh, OutOfBudget
<1>7. OneSender' /\ OnePackagePerTick'
  BY <1>0, <1>2 DEF OneSender, OnePackagePerTick
<1>8. AnswersAreTrue'
  BY AnswerHeard
<1>9. EndsWhenOver'
  BY DEF EndsWhenOver
<1> QED
  BY <1>1, <1>3, <1>4, <1>5, <1>6, <1>7, <1>8, <1>9

\* A call that goes on keeps its copy.
LEMMA CallType ==
  ASSUME TypeOK, NEW w \in Workers, NEW pc \in CallStates,
         call' = [call EXCEPT ![w].pc = pc]
  PROVE  call' \in [Workers -> [pc : CallStates, tick : Ticks, spent : Nat,
                                sent : 0..MaxAmount]]
<1> DEFINE Call == [pc : CallStates, tick : Ticks, spent : Nat,
                    sent : 0..MaxAmount]
<1>1. call \in [Workers -> Call] /\ call[w] \in Call
  BY DEF TypeOK
<1>2. [call[w] EXCEPT !.pc = pc] \in Call
  <2> HIDE DEF CallStates
  <2> QED
    BY <1>1
<1>3. call' = [call EXCEPT ![w] = [call[w] EXCEPT !.pc = pc]]
  OBVIOUS
<1> HIDE DEF Call
<1>4. call' \in [Workers -> Call]
  BY <1>1, <1>2, <1>3
<1> QED
  BY <1>4 DEF Call

\* A call that goes on to a place where it holds no copy and sends nothing.
LEMMA GoOnStep ==
  ASSUME IndInv, NEW w \in Workers, call[w].pc # "idle",
         NEW pc \in {"load", "markSent", "markFailed"}, GoCall(w, pc),
         pc # "load" => rows[call[w].tick] \in Charged,
         UNCHANGED <<sub, rows, ledger, creator, sm, queue, lambda, published,
                     insurance>>,
         faults' \in 0..MaxFaults
  PROVE  IndInv'
<1> USE DEF IndInv
<1>0. call' = [call EXCEPT ![w].pc = pc]
  BY DEF GoCall
<1>1. TypeOK'
  <2>1. pc \in CallStates
    BY DEF CallStates
  <2>2. call' \in [Workers -> [pc : CallStates, tick : Ticks, spent : Nat,
                               sent : 0..MaxAmount]]
    BY <1>0, <2>1, CallType
  <2> QED
    BY <2>2 DEF TypeOK
<1>2. /\ \A v \in Workers : call'[v].tick = call[v].tick
      /\ \A v \in Workers : v # w => call'[v] = call[v]
      /\ call'[w].pc = pc
  BY <1>0 DEF TypeOK
<1>3. BegunTogether'
  BY DEF BegunTogether
<1>4. BooksKept' /\ FilledInOrder'
  BY DbFrame
<1>5. NobodyIsAhead'
  BY <1>2 DEF NobodyIsAhead
<1>6. CopiesAreFresh'
  BY <1>2 DEF CopiesAreFresh, OutOfBudget
<1>7. OneSender' /\ OnePackagePerTick'
  BY <1>2 DEF OneSender, OnePackagePerTick
<1>8. AnswersAreTrue'
  BY <1>2 DEF AnswersAreTrue
<1>9. EndsWhenOver'
  BY DEF EndsWhenOver
<1> QED
  BY <1>1, <1>3, <1>4, <1>5, <1>6, <1>7, <1>8, <1>9

-----------------------------------------------------------------------------
(* One lemma per action, or per few that change the same.                  *)

\* Before the row exists nothing is stored.
LEMMA NothingStored ==
  ASSUME IndInv, creator = "none", NEW t \in Ticks
  PROVE  rows[t] = "none"
<1>1. sub.status = "absent" /\ sub.sent = 0 /\ t \in Nat
  BY Numbers DEF IndInv, BegunTogether
<1> QED
  BY <1>1, StoredTicks DEF IndInv

LEMMA CreateStep == IndInv /\ Create => IndInv'
<1> SUFFICES ASSUME IndInv, Create PROVE IndInv'
  OBVIOUS
<1> USE DEF IndInv
<1>1. PICK budget \in Budgets, price \in Prices, amount \in Amounts :
        /\ price <= budget
        /\ sub' = [status |-> "active", budget |-> budget, price |-> price,
                   amount |-> amount, spent |-> 0, sent |-> 0]
        /\ ledger' = <<[delta |-> budget, balanceAfter |-> budget]>>
  BY DEF Create
<1>2. /\ budget \in Nat /\ price \in Nat
      /\ amount \in Nat /\ 0 < amount /\ amount <= MaxAmount
  BY SubscriptionsAssumption
<1>3. /\ creator = "none" /\ creator' = "start"
      /\ UNCHANGED <<rows, sm, queue, lambda, call, published, insurance,
                     faults>>
  BY DEF Create, awsVars
<1>4. /\ sub.status = "absent" /\ sm.state = "absent" /\ sm.tick = 0
      /\ \A w \in Workers : call[w].pc = "idle"
  BY <1>3 DEF BegunTogether
<1>5. \A t \in Ticks : rows[t] = "none"
  BY <1>3, NothingStored
<1>6. TypeOK'
  <2>1. sub' \in [status : {"absent", "active", "completed", "exhausted"},
                  budget : Nat, price : Nat, amount : 1..(MaxAmount + 1),
                  spent : Nat, sent : 0..MaxAmount]
    BY <1>1, <1>2, SubscriptionsAssumption
  <2>2. ledger' \in Seq([delta : Int, balanceAfter : Int])
    BY <1>1, <1>2
  <2> QED
    BY <2>1, <2>2, <1>3 DEF TypeOK
<1>7. BegunTogether'
  BY <1>1, <1>2, <1>3 DEF BegunTogether
<1>8. BooksKept'
  BY <1>1, <1>2 DEF BooksKept
<1>9. FilledInOrder'
  BY <1>1, <1>2, <1>3, <1>5, Statuses, Numbers DEF FilledInOrder
<1>10. NobodyIsAhead'
  BY <1>1, <1>2, <1>3, <1>4 DEF NobodyIsAhead
<1>11. CopiesAreFresh' /\ OneSender' /\ OnePackagePerTick'
  BY <1>3, <1>4 DEF CopiesAreFresh, OneSender, OnePackagePerTick
<1>12. AnswersAreTrue' /\ EndsWhenOver'
  <2>1. \A w \in Workers : lambda[w].at # "report"
    BY <1>4, <1>5, SubTypes DEF AnswersAreTrue, Over
  <2> QED
    BY <2>1, <1>3, <1>4 DEF AnswersAreTrue, EndsWhenOver
<1> QED
  BY <1>6, <1>7, <1>8, <1>9, <1>10, <1>11, <1>12

\* What does not touch the row, the ticks' rows or the calls.
LEMMA StartExecutionStep == IndInv /\ StartExecution => IndInv'
<1> SUFFICES ASSUME IndInv, StartExecution PROVE IndInv'
  OBVIOUS
<1> USE DEF IndInv
<1>1. /\ creator = "start" /\ creator' = "saveArn"
      /\ sm' = [sm EXCEPT !.state = "task"]
      /\ queue' = [queue EXCEPT ![<<0, 1>>] = MaxReceives]
      /\ UNCHANGED <<sub, rows, ledger, lambda, call, published, insurance,
                     faults>>
  BY DEF StartExecution, dbVars
<1>2. sm'.state = "task" /\ sm'.tick = sm.tick
  BY <1>1 DEF TypeOK
<1>3. TypeOK'
  <2>1. <<0, 1>> \in Ticks \X Attempts /\ MaxReceives \in 0..MaxReceives
    BY Numbers, SubscriptionsAssumption
  <2> QED
    BY <1>1, <2>1 DEF TypeOK
<1>4. BegunTogether'
  BY <1>1 DEF BegunTogether
<1>5. BooksKept' /\ FilledInOrder'
  BY <1>1, DbFrame
<1>6. NobodyIsAhead'
  <2>1. \A m \in Ticks \X Attempts : m = <<0, 1>> \/ queue'[m] = queue[m]
    BY <1>1 DEF TypeOK
  <2>2. <<0, 1>>[1] <= sm.tick
    BY SubTypes
  <2> QED
    BY <1>1, <1>2, <2>1, <2>2 DEF NobodyIsAhead
<1>7. CopiesAreFresh' /\ OneSender' /\ OnePackagePerTick'
  BY <1>1 DEF CopiesAreFresh, OneSender, OnePackagePerTick, OutOfBudget
<1>8. AnswersAreTrue' /\ EndsWhenOver'
  BY <1>1, <1>2 DEF AnswersAreTrue, EndsWhenOver
<1> QED
  BY <1>3, <1>4, <1>5, <1>6, <1>7, <1>8

\* A fault is counted.
LEMMA FaultType ==
  ASSUME TypeOK, Fault
  PROVE  faults' \in 0..MaxFaults
  BY SubscriptionsAssumption DEF TypeOK, Fault

LEMMA CreatorStep == IndInv /\ (SaveArn \/ CreateThrows) => IndInv'
<1> SUFFICES ASSUME IndInv, SaveArn \/ CreateThrows PROVE IndInv'
  OBVIOUS
<1> USE DEF IndInv
<1>1. /\ creator # "none" /\ creator' \in {"done", "failed"}
      /\ UNCHANGED <<sub, rows, ledger, sm, queue, lambda, call, published,
                     insurance>>
  BY DEF SaveArn, CreateThrows, dbVars, awsVars
<1>2. faults' \in 0..MaxFaults
  BY FaultType DEF SaveArn, CreateThrows, TypeOK
<1>3. TypeOK'
  BY <1>1, <1>2 DEF TypeOK
<1>4. BegunTogether'
  BY <1>1 DEF BegunTogether
<1>5. BooksKept' /\ FilledInOrder'
  BY <1>1, DbFrame
<1> QED
  BY <1>1, <1>3, <1>4, <1>5
     DEF NobodyIsAhead, CopiesAreFresh, OneSender, OnePackagePerTick,
         AnswersAreTrue, EndsWhenOver, OutOfBudget

LEMMA FindTickStep ==
  ASSUME IndInv, NEW w \in Workers, FindTick(w)
  PROVE  IndInv'
<1>1. /\ call[w].pc = "find"
      /\ UNCHANGED <<sub, rows, ledger, creator, sm, queue, published,
                     insurance>>
      /\ faults' \in 0..MaxFaults
  BY DEF FindTick, Calling, dbVars, awsVars, IndInv, TypeOK
<1>2. CASE rows[call[w].tick] # "none"
  <2>1. Answer(w, "report", "duplicate")
    BY <1>2 DEF FindTick
  <2>2. "duplicate" \in Answers
    BY DEF Answers
  <2> QED
    BY <1>1, <1>2, <2>1, <2>2, AnswerStep
<1>3. CASE rows[call[w].tick] = "none"
  BY <1>1, <1>3, GoOnStep DEF FindTick
<1> QED
  BY <1>2, <1>3

\* The copy is made.  An active row has charges left, so that the branch that
\* completes it is never taken.
LEMMA LoadSubscriptionStep ==
  ASSUME IndInv, NEW w \in Workers, LoadSubscription(w)
  PROVE  IndInv'
<1> USE DEF IndInv
<1>1. /\ call[w].pc = "load"
      /\ UNCHANGED <<rows, ledger, creator, sm, queue, published, insurance,
                     faults>>
  BY DEF LoadSubscription, Calling, awsVars
<1>2. creator # "none"
  BY <1>1 DEF BegunTogether
<1>3. CASE sub.status # "active" \/ sub.sent >= sub.amount
  <2>1. sub.status # "active"
    BY <1>3, SubTypes DEF FilledInOrder
  <2>2. sub' = sub /\ Answer(w, "report", "inactive")
    BY <2>1 DEF LoadSubscription
  <2>3. sub.status \in Over
    BY <2>1, <1>2 DEF BegunTogether, TypeOK, Over
  <2>4. "inactive" \in Answers
    BY DEF Answers
  <2>5. faults' \in 0..MaxFaults
    BY <1>1 DEF TypeOK
  <2> QED
    BY <1>1, <2>2, <2>3, <2>4, <2>5, AnswerStep
<1>4. CASE sub.status = "active" /\ sub.sent < sub.amount
  <2> DEFINE pc == IF OutOfBudget THEN "skip" ELSE "charge"
  <2>1. /\ call' = [call EXCEPT ![w] =
                      [pc |-> pc, tick |-> @.tick, spent |-> sub.spent,
                       sent |-> sub.sent]]
        /\ sub' = sub /\ lambda' = lambda
    BY <1>4, SubTypes DEF LoadSubscription
  <2>2. /\ \A v \in Workers : call'[v].tick = call[v].tick
        /\ \A v \in Workers : v # w => call'[v] = call[v]
        /\ call'[w].pc = pc
        /\ call'[w].spent = sub.spent
        /\ call'[w].sent = sub.sent
    BY <2>1 DEF TypeOK
  <2>10. pc \in {"skip", "charge"} /\ (pc = "charge" <=> ~OutOfBudget)
    OBVIOUS
  <2> HIDE DEF pc
  <2>3. TypeOK'
    <3>1. /\ sub.spent \in Nat /\ sub.sent \in 0..MaxAmount
          /\ pc \in CallStates
      BY <2>10 DEF TypeOK, CallStates
    <3>2. call' \in [Workers -> [pc : CallStates, tick : Ticks, spent : Nat,
                                 sent : 0..MaxAmount]]
      BY <2>1, <3>1 DEF TypeOK
    <3> QED
      BY <1>1, <2>1, <3>2 DEF TypeOK
  <2>4. BegunTogether'
    BY <1>1, <1>2, <2>1 DEF BegunTogether
  <2>5. BooksKept' /\ FilledInOrder'
    BY <1>1, <2>1, DbFrame
  <2>6. NobodyIsAhead'
    BY <1>1, <2>1, <2>2 DEF NobodyIsAhead
  <2>7. CopiesAreFresh'
    BY <1>1, <1>4, <2>1, <2>2, <2>10 DEF CopiesAreFresh, OutOfBudget
  <2>8. OneSender' /\ OnePackagePerTick'
    <3>1. \A v \in Workers :
            call'[v].pc \in {"send", "markSent", "markFailed"} =>
              call'[v].pc = call[v].pc /\ call'[v].tick = call[v].tick
      BY <2>2, <2>10
    <3>2. OneSender'
      BY <1>1, <3>1, SenderFrame
    <3> QED
      BY <1>1, <3>2 DEF OnePackagePerTick
  <2>9. AnswersAreTrue' /\ EndsWhenOver'
    BY <1>1, <2>1, <2>2, <2>10 DEF AnswersAreTrue, EndsWhenOver
  <2> QED
    BY <2>3, <2>4, <2>5, <2>6, <2>7, <2>8, <2>9
<1> QED
  BY <1>3, <1>4 DEF LoadSubscription

\* Another attempt has stored the tick: nothing is written.
LEMMA DuplicateStep ==
  ASSUME IndInv, NEW w \in Workers, call[w].pc # "idle",
         rows[call[w].tick] # "none", Answer(w, "report", "duplicate"),
         UNCHANGED <<sub, rows, ledger, creator, sm, queue, published,
                     insurance, faults>>
  PROVE  IndInv'
<1>1. "duplicate" \in Answers
  BY DEF Answers
<1>2. faults' \in 0..MaxFaults
  BY DEF IndInv, TypeOK
<1> QED
  BY <1>1, <1>2, AnswerStep

\* The tick of the execution is stored: whoever else is about to write has a
\* tick that is taken.
LEMMA StoredMeansTaken ==
  ASSUME IndInv, NEW w \in Workers, rows[call[w].tick] = "none",
         NEW status, status # "none",
         rows' = [rows EXCEPT ![call[w].tick] = status]
  PROVE  \A v \in Workers : rows'[call[v].tick] # "none"
<1> SUFFICES ASSUME NEW v \in Workers, rows[call[v].tick] = "none"
             PROVE  rows'[call[v].tick] # "none"
  BY SubTypes DEF IndInv, TypeOK
<1>1. call[v].tick = call[w].tick
  BY OpenTick DEF IndInv
<1> QED
  BY <1>1, SubTypes DEF IndInv, TypeOK

\* The tick is stored as skipped: its copy is fresh, so the budget does not
\* pay another shipment, and one was paid before.
LEMMA SkipTickStep ==
  ASSUME IndInv, NEW w \in Workers, SkipTick(w)
  PROVE  IndInv'
<1> USE DEF IndInv
<1> DEFINE t == call[w].tick
<1>1. /\ call[w].pc = "skip" /\ creator # "none"
      /\ UNCHANGED <<ledger, creator, sm, queue, published, insurance, faults>>
  BY DEF SkipTick, Calling, awsVars, BegunTogether
<1>2. CASE rows[t] # "none"
  BY <1>1, <1>2, DuplicateStep DEF SkipTick
<1>3. CASE rows[t] = "none"
  <2>1. /\ rows' = [rows EXCEPT ![t] = "skipped-no-budget"]
        /\ sub' = [sub EXCEPT !.status = "exhausted"]
        /\ Answer(w, "report", "skipped-no-budget")
    BY <1>3 DEF SkipTick
  <2>2. call' = [call EXCEPT ![w] = NoCall]
    BY <2>1 DEF Answer
  <2>3. /\ t \in Ticks /\ t \in Nat
        /\ sub.status = "active" /\ OutOfBudget
        /\ t = sm.tick /\ t = sub.sent
    BY <1>1, <1>3, SubTypes, OpenTick DEF CopiesAreFresh
  <2>4. sub.sent # 0
    BY <1>1, <2>3, SubTypes DEF BooksKept, OutOfBudget, BegunTogether
  <2>5. /\ sub'.status = "exhausted" /\ sub'.sent = sub.sent
        /\ sub'.spent = sub.spent /\ sub'.price = sub.price
        /\ sub'.budget = sub.budget /\ sub'.amount = sub.amount
    BY <2>1 DEF TypeOK
  <2>6. /\ rows'[t] = "skipped-no-budget"
        /\ \A u \in Ticks : u # t => rows'[u] = rows[u]
    BY <2>1, <2>3 DEF TypeOK
  <2>7. TypeOK'
    <3>1. "skipped-no-budget" \in Answers
      BY DEF Answers
    <3>2. /\ call' \in [Workers -> [pc : CallStates, tick : Ticks, spent : Nat,
                                     sent : 0..MaxAmount]]
          /\ lambda' \in [Workers -> [at : LambdaStates, tick : Ticks,
                                       attempt : Attempts, answer : Answers]]
      BY <2>1, <3>1, AnswerType
    <3> QED
      BY <1>1, <2>1, <3>2 DEF TypeOK
  <2>8. BegunTogether'
    BY <1>1, <2>5 DEF BegunTogether
  <2>9. BooksKept'
    BY <1>1, <2>5 DEF BooksKept
  <2>10. FilledInOrder'
    BY <2>3, <2>4, <2>5, <2>6, Statuses, SubTypes DEF FilledInOrder
  <2>11. NoCall.pc = "idle" /\ NoCall.tick = 0
    BY DEF NoCall
  <2>12. \A v \in Workers : call'[v] = call[v] \/ call'[v] = NoCall
    BY <2>2 DEF TypeOK
  <2>13. \A v \in Workers : lambda'[v].tick = lambda[v].tick
    BY <2>1 DEF Answer, TypeOK
  <2>14. NobodyIsAhead'
    <3>1. \A u \in Ticks : rows[u] # "none" => rows'[u] # "none"
      BY <2>6
    <3>2. \A v \in Workers : call'[v].tick <= sm.tick
      BY <2>11, <2>12, SubTypes DEF NobodyIsAhead
    <3> QED
      BY <1>1, <2>3, <2>5, <2>13, <3>1, <3>2, SubTypes DEF NobodyIsAhead
  <2>15. CopiesAreFresh'
    <3>1. \A v \in Workers : rows'[call[v].tick] # "none"
      BY <1>3, <2>1, StoredMeansTaken
    <3> QED
      BY <2>11, <2>12, <3>1 DEF CopiesAreFresh
  <2>16. OneSender' /\ OnePackagePerTick'
    <3>1. \A u \in Ticks : rows[u] \in Charged => rows'[u] = rows[u]
      BY <1>3, <2>6, Statuses
    <3>2. \A v \in Workers :
            call'[v].pc \in {"send", "markSent", "markFailed"} =>
              call'[v] = call[v] /\ rows'[call[v].tick] = rows[call[v].tick]
      BY <2>11, <2>12, <3>1, SubTypes DEF OneSender
    <3>3. OneSender'
      BY <1>1, <3>2 DEF OneSender
    <3> QED
      BY <1>1, <3>1, <3>3 DEF OnePackagePerTick
  <2>17. AnswersAreTrue'
    <3>1. \A u \in Ticks : rows[u] # "none" => rows'[u] # "none"
      BY <2>6
    <3> QED
      BY <2>1, <2>5, <3>1, AnswerHeard DEF Over
  <2>18. EndsWhenOver'
    BY <1>1, <2>5 DEF EndsWhenOver
  <2> QED
    BY <2>7, <2>8, <2>9, <2>10, <2>14, <2>15, <2>16, <2>17, <2>18
<1> QED
  BY <1>2, <1>3

\* The tick is charged: its copy is fresh, so the budget pays for it, it is
\* the next one, and it was never sent.
LEMMA ChargeTickStep ==
  ASSUME IndInv, NEW w \in Workers, ChargeTick(w)
  PROVE  IndInv'
<1> USE DEF IndInv
<1> DEFINE t == call[w].tick
<1>1. /\ call[w].pc = "charge" /\ creator # "none"
      /\ UNCHANGED <<creator, sm, queue, published, insurance, faults>>
  BY DEF ChargeTick, Calling, awsVars, BegunTogether
<1>2. CASE rows[t] # "none"
  BY <1>1, <1>2, DuplicateStep DEF ChargeTick
<1>3. CASE rows[t] = "none"
  <2>1. /\ rows' = [rows EXCEPT ![t] = "triggered"]
        /\ Debit(w)
        /\ call' = [call EXCEPT ![w].pc = "send"]
        /\ lambda' = lambda
    BY <1>3 DEF ChargeTick, GoCall
  <2>2. /\ t \in Ticks /\ t \in Nat
        /\ sub.status = "active" /\ ~OutOfBudget
        /\ call[w].spent = sub.spent /\ call[w].sent = sub.sent
        /\ t = sm.tick /\ t = sub.sent /\ sub.sent < sub.amount
    BY <1>1, <1>3, SubTypes, OpenTick DEF CopiesAreFresh, FilledInOrder
  <2>3. /\ sub'.sent = sub.sent + 1 /\ sub'.spent = sub.spent + sub.price
        /\ sub'.price = sub.price /\ sub'.budget = sub.budget
        /\ sub'.amount = sub.amount
        /\ sub'.status = IF sub.sent + 1 >= sub.amount THEN "completed"
                                                       ELSE "active"
    BY <2>1, <2>2 DEF Debit, TypeOK
  <2>4. ledger' = Append(ledger,
                    [delta |-> - sub.price,
                     balanceAfter |-> sub.budget - (sub.spent + sub.price)])
    BY <2>1, <2>2 DEF Debit
  <2>5. /\ rows'[t] = "triggered"
        /\ \A u \in Ticks : u # t => rows'[u] = rows[u]
    BY <2>1, <2>2 DEF TypeOK
  <2>6. /\ \A v \in Workers : call'[v].tick = call[v].tick
        /\ \A v \in Workers : v # w => call'[v] = call[v]
        /\ call'[w].pc = "send"
    BY <2>1 DEF TypeOK
  <2>7. TypeOK'
    <3>1. call' \in [Workers -> [pc : CallStates, tick : Ticks, spent : Nat,
                                 sent : 0..MaxAmount]]
      BY <2>1, CallType DEF CallStates
    <3>2. sub' \in [status : {"absent", "active", "completed", "exhausted"},
                    budget : Nat, price : Nat, amount : 1..(MaxAmount + 1),
                    spent : Nat, sent : 0..MaxAmount]
      <4>1. sub.spent + sub.price \in Nat /\ sub.sent + 1 \in 0..MaxAmount
        BY <1>1, <2>2, SubTypes, Numbers DEF BegunTogether
      <4> QED
        BY <2>1, <2>2, <4>1 DEF Debit, TypeOK
    <3>3. ledger' \in Seq([delta : Int, balanceAfter : Int])
      <4>1. [delta |-> - sub.price,
             balanceAfter |-> sub.budget - (sub.spent + sub.price)]
              \in [delta : Int, balanceAfter : Int]
        BY SubTypes
      <4> QED
        BY <2>4, <4>1 DEF TypeOK
    <3>4. rows' \in [Ticks -> Charged \cup {"none", "skipped-no-budget"}]
      BY <2>1, Statuses DEF TypeOK
    <3> QED
      BY <1>1, <2>1, <3>1, <3>2, <3>3, <3>4 DEF TypeOK
  <2>8. BegunTogether'
    <3>1. Len(ledger') = Len(ledger) + 1 /\ Len(ledger) \in Nat
      BY <2>4 DEF TypeOK
    <3>2. ledger' # <<>>
      BY <3>1
    <3> QED
      BY <1>1, <2>3, <3>2 DEF BegunTogether
  <2>9. BooksKept'
    <3>1. sub'.spent = sub'.price * sub'.sent /\ sub'.spent <= sub'.budget
      BY <2>2, <2>3, SubTypes, OneMore DEF BooksKept, OutOfBudget
    <3>2. ledger # <<>> /\ ledger \in Seq([delta : Int, balanceAfter : Int])
      BY <1>1 DEF BegunTogether, TypeOK
    <3>3. /\ Len(ledger) = 1 + sub.sent
          /\ ledger[Len(ledger)].balanceAfter = sub.budget - sub.spent
          /\ \A i \in 2..Len(ledger) :
                ledger[i].balanceAfter =
                  ledger[i - 1].balanceAfter + ledger[i].delta
      BY <3>2 DEF BooksKept
    <3>4. /\ Len(ledger') = Len(ledger) + 1 /\ Len(ledger) \in Nat
          /\ \A i \in 1..Len(ledger) : ledger'[i] = ledger[i]
          /\ ledger'[Len(ledger) + 1] =
                [delta |-> - sub.price,
                 balanceAfter |-> sub.budget - (sub.spent + sub.price)]
      BY <2>4, <3>2
    <3>5. ledger'[Len(ledger')].balanceAfter = sub'.budget - sub'.spent
      BY <3>4, <2>3
    <3>6. ASSUME NEW i \in 2..Len(ledger')
          PROVE  ledger'[i].balanceAfter =
                   ledger'[i - 1].balanceAfter + ledger'[i].delta
      <4>1. CASE i \in 2..Len(ledger)
        <5>1. i \in 1..Len(ledger) /\ i - 1 \in 1..Len(ledger)
          BY <4>1, <3>4
        <5> QED
          BY <4>1, <5>1, <3>3, <3>4
      <4>2. CASE i = Len(ledger) + 1
        <5>0. Len(ledger) \in Nat /\ Len(ledger) # 0
          BY <3>3, SubTypes
        <5>1. i - 1 = Len(ledger) /\ Len(ledger) \in 1..Len(ledger)
          BY <4>2, <5>0
        <5>2. /\ ledger'[i].balanceAfter = sub.budget - (sub.spent + sub.price)
              /\ ledger'[i].delta = - sub.price
          BY <4>2, <3>4
        <5>3. ledger'[i - 1].balanceAfter = sub.budget - sub.spent
          BY <5>1, <3>3, <3>4
        <5> QED
          BY <5>2, <5>3, SubTypes
      <4> QED
        BY <4>1, <4>2, <3>4
    <3> QED
      BY <3>1, <3>3, <3>4, <3>5, <3>6, <2>3, SubTypes DEF BooksKept
  <2>10. FilledInOrder'
    BY <2>2, <2>3, <2>5, Statuses, SubTypes, Numbers DEF FilledInOrder
  <2>11. NobodyIsAhead'
    <3>1. \A u \in Ticks : rows[u] # "none" => rows'[u] # "none"
      BY <2>5
    <3> QED
      BY <1>1, <2>1, <2>3, <2>6, <3>1, SubTypes DEF NobodyIsAhead
  <2>12. CopiesAreFresh'
    <3>1. \A v \in Workers : rows'[call[v].tick] # "none"
      BY <1>3, <2>1, StoredMeansTaken
    <3> QED
      BY <2>6, <3>1 DEF CopiesAreFresh
  <2>13. OneSender' /\ OnePackagePerTick'
    <3>1. published[t] = 0
      BY <1>3, <2>2, Statuses DEF OnePackagePerTick, TypeOK
    <3>2. \A u \in Ticks : rows[u] \in Charged => u # t /\ rows'[u] = rows[u]
      BY <1>3, <2>5, Statuses
    <3>3. rows'[t] \in Charged
      BY <2>5 DEF Charged
    <3>4. \A v \in Workers :
            v # w /\ call[v].pc \in {"send", "markSent", "markFailed"} =>
              call[v].tick # t /\ rows'[call[v].tick] = rows[call[v].tick]
      BY <3>2, SubTypes DEF OneSender
    <3>5. OneSender'
      BY <1>1, <2>6, <3>1, <3>3, <3>4 DEF OneSender
    <3> QED
      BY <1>1, <3>2, <3>5 DEF OnePackagePerTick
  <2>14. AnswersAreTrue'
    <3>1. \A v \in Workers :
            rows[lambda[v].tick] # "none" => rows'[lambda[v].tick] # "none"
      BY <2>5, SubTypes
    <3> QED
      BY <2>1, <2>2, <2>6, <3>1 DEF AnswersAreTrue, Over
  <2>15. EndsWhenOver'
    BY <1>1, <2>2 DEF EndsWhenOver
  <2> QED
    BY <2>7, <2>8, <2>9, <2>10, <2>11, <2>12, <2>13, <2>14, <2>15
<1> QED
  BY <1>2, <1>3

\* One package, by the one call that charged the tick.
LEMMA SendPackageStep ==
  ASSUME IndInv, NEW w \in Workers, SendPackage(w)
  PROVE  IndInv'
<1> USE DEF IndInv
<1> DEFINE t == call[w].tick
<1>1. /\ call[w].pc = "send" /\ t \in Ticks
      /\ rows[t] \in Charged /\ published[t] = 0
      /\ UNCHANGED <<sub, rows, ledger, creator, sm, queue, lambda, insurance,
                     faults>>
      /\ faults' \in 0..MaxFaults
  BY SubTypes DEF SendPackage, Calling, dbVars, awsVars, OneSender, TypeOK
<1>2. CASE GoCall(w, "markFailed") /\ published' = published
  BY <1>1, <1>2, GoOnStep
<1>3. CASE GoCall(w, "markSent")
           /\ published' = [published EXCEPT ![t] = @ + 1]
  <2>1. call' = [call EXCEPT ![w].pc = "markSent"]
    BY <1>3 DEF GoCall
  <2>2. /\ \A v \in Workers : call'[v].tick = call[v].tick
        /\ \A v \in Workers : v # w => call'[v] = call[v]
        /\ call'[w].pc = "markSent"
    BY <2>1 DEF TypeOK
  <2>3. /\ published'[t] = 1
        /\ \A u \in Ticks : u # t => published'[u] = published[u]
    BY <1>1, <1>3 DEF TypeOK
  <2>4. TypeOK'
    <3>1. call' \in [Workers -> [pc : CallStates, tick : Ticks, spent : Nat,
                                 sent : 0..MaxAmount]]
      BY <2>1, CallType DEF CallStates
    <3>2. published' \in [Ticks -> Nat]
      BY <1>3 DEF TypeOK
    <3> QED
      BY <1>1, <3>1, <3>2 DEF TypeOK
  <2>5. BegunTogether'
    BY <1>1 DEF BegunTogether
  <2>6. BooksKept' /\ FilledInOrder'
    BY <1>1, DbFrame
  <2>7. NobodyIsAhead'
    BY <1>1, <2>2 DEF NobodyIsAhead
  <2>8. CopiesAreFresh'
    BY <1>1, <2>2 DEF CopiesAreFresh, OutOfBudget
  <2>9. OneSender'
    <3>1. \A v \in Workers :
            call'[v].pc = "send" =>
              call[v].pc = "send" /\ call[v].tick # t /\ call[v].tick \in Ticks
      BY <1>1, <2>2, SubTypes DEF OneSender
    <3> QED
      BY <1>1, <2>2, <2>3, <3>1 DEF OneSender
  <2>10. OnePackagePerTick'
    BY <1>1, <2>3 DEF OnePackagePerTick
  <2>11. AnswersAreTrue' /\ EndsWhenOver'
    BY <1>1, <2>2 DEF AnswersAreTrue, EndsWhenOver
  <2> QED
    BY <2>4, <2>5, <2>6, <2>7, <2>8, <2>9, <2>10, <2>11
<1> QED
  BY <1>2, <1>3 DEF SendPackage

\* A charged tick that stays charged disturbs nothing that is stored.
LEMMA StaysCharged ==
  ASSUME TypeOK, FilledInOrder, BooksKept, OnePackagePerTick,
         NEW t \in Ticks, rows[t] \in Charged, NEW status \in Charged,
         rows' = [rows EXCEPT ![t] = status],
         UNCHANGED <<sub, ledger, published>>
  PROVE  /\ FilledInOrder' /\ BooksKept' /\ OnePackagePerTick'
         /\ rows' \in [Ticks -> Charged \cup {"none", "skipped-no-budget"}]
         /\ \A u \in Ticks :
               /\ rows'[u] = "none" <=> rows[u] = "none"
               /\ rows'[u] \in Charged <=> rows[u] \in Charged
<1>1. /\ rows'[t] = status
      /\ \A u \in Ticks : u # t => rows'[u] = rows[u]
  BY DEF TypeOK
<1>2. BooksKept'
  BY DEF BooksKept
<1>3. FilledInOrder'
  BY <1>1, Statuses DEF FilledInOrder
<1>4. OnePackagePerTick'
  BY <1>1 DEF OnePackagePerTick
<1>5. rows' \in [Ticks -> Charged \cup {"none", "skipped-no-budget"}]
  BY DEF TypeOK
<1> QED
  BY <1>1, <1>2, <1>3, <1>4, <1>5, Statuses

LEMMA MarkRowStep ==
  ASSUME IndInv, NEW w \in Workers, NEW pc \in {"markSent", "markFailed"},
         NEW status \in {"sent", "failed"}, MarkRow(w, pc, status)
  PROVE  IndInv'
<1> USE DEF IndInv
<1> DEFINE t == call[w].tick
<1>1. /\ call[w].pc = pc /\ t \in Ticks /\ rows[t] \in Charged
      /\ status \in Charged
      /\ rows' = [rows EXCEPT ![t] = status]
      /\ Answer(w, "report", "triggered")
      /\ UNCHANGED <<sub, ledger, creator, sm, queue, published, insurance,
                     faults>>
  BY SubTypes DEF MarkRow, Calling, awsVars, OneSender, Charged
<1>2. call' = [call EXCEPT ![w] = NoCall]
  BY <1>1 DEF Answer
<1>3. /\ \A u \in Ticks : /\ rows'[u] = "none" <=> rows[u] = "none"
                          /\ rows'[u] \in Charged <=> rows[u] \in Charged
      /\ rows' \in [Ticks -> Charged \cup {"none", "skipped-no-budget"}]
      /\ BooksKept' /\ FilledInOrder' /\ OnePackagePerTick'
  BY <1>1, StaysCharged
<1>4. TypeOK'
  <2>1. "triggered" \in Answers
    BY DEF Answers
  <2>2. /\ call' \in [Workers -> [pc : CallStates, tick : Ticks, spent : Nat,
                                   sent : 0..MaxAmount]]
        /\ lambda' \in [Workers -> [at : LambdaStates, tick : Ticks,
                                     attempt : Attempts, answer : Answers]]
    BY <1>1, <2>1, AnswerType
  <2> QED
    BY <1>1, <1>3, <2>2 DEF TypeOK
<1>5. NoCall.pc = "idle" /\ NoCall.tick = 0
  BY DEF NoCall
<1>6. \A v \in Workers : call'[v] = call[v] \/ call'[v] = NoCall
  BY <1>2 DEF TypeOK
<1>7. BegunTogether'
  BY <1>1, <1>5, <1>6 DEF BegunTogether
<1>8. NobodyIsAhead'
  <2>1. \A v \in Workers : call'[v].tick <= sm.tick
    BY <1>5, <1>6, SubTypes DEF NobodyIsAhead
  <2>2. \A v \in Workers : lambda'[v].tick = lambda[v].tick
    BY <1>1 DEF Answer, TypeOK
  <2> QED
    BY <1>1, <1>3, <2>1, <2>2, SubTypes DEF NobodyIsAhead
<1>9. CopiesAreFresh'
  <2>1. \A v \in Workers : call'[v].pc \in {"charge", "skip"} =>
          call'[v] = call[v]
          /\ (rows'[call[v].tick] = "none" => rows[call[v].tick] = "none")
    BY <1>3, <1>5, <1>6, SubTypes
  <2> QED
    BY <1>1, <2>1 DEF CopiesAreFresh, OutOfBudget
<1>10. OneSender'
  <2>1. \A v \in Workers :
          call'[v].pc \in {"send", "markSent", "markFailed"} =>
            call'[v] = call[v]
            /\ (rows[call[v].tick] \in Charged => rows'[call[v].tick] \in Charged)
    BY <1>3, <1>5, <1>6, SubTypes
  <2> QED
    BY <1>1, <2>1 DEF OneSender
<1>11. AnswersAreTrue'
  <2>1. rows'[t] # "none"
    BY <1>1, <1>3, Statuses
  <2> QED
    BY <1>1, <1>3, <2>1, AnswerHeard
<1>12. EndsWhenOver'
  BY <1>1 DEF EndsWhenOver
<1> QED
  BY <1>3, <1>4, <1>7, <1>8, <1>9, <1>10, <1>11, <1>12

LEMMA ChargeInsuranceStep ==
  ASSUME IndInv, NEW t \in Ticks, ChargeInsurance(t)
  PROVE  IndInv'
<1> USE DEF IndInv
<1> DEFINE status == IF rows[t] \in {"sent", "failed"} THEN "expired-insured"
                                                        ELSE rows[t]
<1>1. /\ rows' = [rows EXCEPT ![t] = status]
      /\ published[t] > 0 /\ insurance' = insurance \cup {t}
      /\ UNCHANGED <<sub, ledger, creator, sm, queue, lambda, call, published,
                     faults>>
  BY DEF ChargeInsurance, awsVars
<1>2. rows[t] \in Charged
  BY <1>1 DEF OnePackagePerTick, TypeOK
<1>3. status \in Charged
  BY <1>2 DEF Charged
<1> HIDE DEF status
<1>4. /\ \A u \in Ticks : /\ rows'[u] = "none" <=> rows[u] = "none"
                          /\ rows'[u] \in Charged <=> rows[u] \in Charged
      /\ rows' \in [Ticks -> Charged \cup {"none", "skipped-no-budget"}]
      /\ BooksKept' /\ FilledInOrder' /\ OnePackagePerTick'
  BY <1>1, <1>2, <1>3, StaysCharged
<1>5. TypeOK'
  BY <1>1, <1>4 DEF TypeOK
<1>6. BegunTogether'
  BY <1>1 DEF BegunTogether
<1>7. NobodyIsAhead'
  BY <1>1, <1>4, SubTypes DEF NobodyIsAhead
<1>8. CopiesAreFresh'
  BY <1>1, <1>4, SubTypes DEF CopiesAreFresh, OutOfBudget
<1>9. OneSender'
  BY <1>1, <1>4, SubTypes DEF OneSender
<1>10. AnswersAreTrue' /\ EndsWhenOver'
  BY <1>1, <1>4, SubTypes DEF AnswersAreTrue, EndsWhenOver
<1> QED
  BY <1>4, <1>5, <1>6, <1>7, <1>8, <1>9, <1>10

LEMMA ThrowStep ==
  ASSUME IndInv, NEW w \in Workers, Throw(w)
  PROVE  IndInv'
<1>1. /\ call[w].pc # "idle"
      /\ UNCHANGED <<sub, rows, ledger, creator, sm, queue, published,
                     insurance>>
      /\ faults' \in 0..MaxFaults
  BY FaultType DEF Throw, Calling, dbVars, awsVars, IndInv
<1>2. CASE /\ call[w].pc \in {"send", "markSent"}
           /\ GoCall(w, "markFailed") /\ lambda' = lambda
  <2>1. rows[call[w].tick] \in Charged
    BY <1>2 DEF IndInv, OneSender
  <2> QED
    BY <1>1, <1>2, <2>1, GoOnStep
<1>3. CASE Answer(w, "fail", "none")
  <2>1. "none" \in Answers
    BY DEF Answers
  <2> QED
    BY <1>1, <1>3, <2>1, AnswerStep
<1> QED
  BY <1>2, <1>3 DEF Throw

\* The backend dies: no call is left, and nobody waits for one.
LEMMA CrashStep == IndInv /\ Crash => IndInv'
<1> SUFFICES ASSUME IndInv, Crash PROVE IndInv'
  OBVIOUS
<1> USE DEF IndInv
<1>1. /\ UNCHANGED <<sub, rows, ledger, sm, queue, published, insurance>>
      /\ call' = [w \in Workers |-> NoCall]
      /\ lambda' = [w \in Workers |->
                      IF lambda[w].at = "waiting"
                      THEN [lambda[w] EXCEPT !.at = "fail"]
                      ELSE lambda[w]]
      /\ creator' = IF creator \in {"start", "saveArn"} THEN "failed"
                                                        ELSE creator
      /\ faults' \in 0..MaxFaults
  BY FaultType DEF Crash, dbVars, awsVars
<1>2. \A w \in Workers : call'[w].pc = "idle" /\ call'[w].tick = 0
  BY <1>1 DEF NoCall
<1>3. \A w \in Workers :
        /\ lambda'[w].tick = lambda[w].tick
        /\ lambda'[w].answer = lambda[w].answer
        /\ lambda'[w].at # "waiting"
        /\ lambda'[w].at = "report" => lambda[w].at = "report"
  BY <1>1 DEF TypeOK
<1>4. TypeOK'
  <2>1. NoCall \in [pc : CallStates, tick : Ticks, spent : Nat,
                    sent : 0..MaxAmount]
    BY Numbers DEF NoCall, CallStates
  <2>2. \A w \in Workers :
          [lambda[w] EXCEPT !.at = "fail"]
            \in [at : LambdaStates, tick : Ticks, attempt : Attempts,
                 answer : Answers]
    <3>1. \A w \in Workers :
            lambda[w] \in [at : LambdaStates, tick : Ticks,
                          attempt : Attempts, answer : Answers]
      BY DEF TypeOK
    <3>2. "fail" \in LambdaStates
      BY DEF LambdaStates
    <3> QED
      BY <3>1, <3>2
  <2>3. creator' \in {"none", "start", "saveArn", "done", "failed"}
    BY <1>1 DEF TypeOK
  <2>4. call' \in [Workers -> [pc : CallStates, tick : Ticks, spent : Nat,
                               sent : 0..MaxAmount]]
    BY <1>1, <2>1
  <2>5. lambda' \in [Workers -> [at : LambdaStates, tick : Ticks,
                                 attempt : Attempts, answer : Answers]]
    BY <1>1, <2>2 DEF TypeOK
  <2> QED
    BY <1>1, <2>3, <2>4, <2>5 DEF TypeOK
<1>5. BegunTogether'
  BY <1>1, <1>2 DEF BegunTogether
<1>6. BooksKept' /\ FilledInOrder'
  BY <1>1, DbFrame
<1>7. NobodyIsAhead'
  BY <1>1, <1>2, <1>3, SubTypes DEF NobodyIsAhead
<1>8. CopiesAreFresh' /\ OneSender' /\ OnePackagePerTick'
  BY <1>1, <1>2 DEF CopiesAreFresh, OneSender, OnePackagePerTick
<1>9. AnswersAreTrue'
  BY <1>1, <1>3 DEF AnswersAreTrue
<1>10. EndsWhenOver'
  BY <1>1 DEF EndsWhenOver
<1> QED
  BY <1>4, <1>5, <1>6, <1>7, <1>8, <1>9, <1>10

\* A message becomes an invocation, and it a call about the same tick.
LEMMA DeliverStep ==
  ASSUME IndInv, NEW w \in Workers, NEW m \in Ticks \X Attempts,
         Deliver(w, m), faults' \in 0..MaxFaults
  PROVE  IndInv'
<1> USE DEF IndInv
<1>1. /\ call[w].pc = "idle" /\ queue[m] > 0
      /\ queue' = [queue EXCEPT ![m] = @ - 1]
      /\ lambda' = [lambda EXCEPT ![w] = [at |-> "waiting", tick |-> m[1],
                                          attempt |-> m[2], answer |-> "none"]]
      /\ call' = [call EXCEPT ![w] = [pc |-> "find", tick |-> m[1],
                                      spent |-> 0, sent |-> 0]]
      /\ UNCHANGED <<sub, rows, ledger, creator, sm, published, insurance>>
  BY DEF Deliver, Calling, dbVars
<1>2. /\ m[1] \in Ticks /\ m[2] \in Attempts /\ m[1] <= sm.tick
      /\ queue[m] \in Nat
  BY <1>1, SubscriptionsAssumption DEF NobodyIsAhead, TypeOK
<1>3. /\ \A v \in Workers : v # w => call'[v] = call[v] /\ lambda'[v] = lambda[v]
      /\ call'[w].pc = "find" /\ call'[w].tick = m[1]
      /\ lambda'[w].at = "waiting" /\ lambda'[w].tick = m[1]
  BY <1>1 DEF TypeOK
<1>4. \A n \in Ticks \X Attempts :
        n # m => queue'[n] = queue[n]
  BY <1>1 DEF TypeOK
<1>5. TypeOK'
  <2>1. [pc |-> "find", tick |-> m[1], spent |-> 0, sent |-> 0]
          \in [pc : CallStates, tick : Ticks, spent : Nat, sent : 0..MaxAmount]
    BY <1>2, Numbers DEF CallStates
  <2>2. call' \in [Workers -> [pc : CallStates, tick : Ticks, spent : Nat,
                               sent : 0..MaxAmount]]
    BY <1>1, <2>1 DEF TypeOK
  <2>3. [at |-> "waiting", tick |-> m[1], attempt |-> m[2], answer |-> "none"]
          \in [at : LambdaStates, tick : Ticks, attempt : Attempts,
               answer : Answers]
    BY <1>2 DEF LambdaStates, Answers
  <2>4. lambda' \in [Workers -> [at : LambdaStates, tick : Ticks,
                                 attempt : Attempts, answer : Answers]]
    BY <1>1, <2>3 DEF TypeOK
  <2>5. queue' \in [Ticks \X Attempts -> 0..MaxReceives]
    <3>1. queue[m] - 1 \in 0..MaxReceives
      <4>1. queue[m] \in 0..MaxReceives /\ queue[m] > 0
        BY <1>1 DEF TypeOK
      <4> HIDE DEF IndInv
      <4> QED
        BY <4>1, SubscriptionsAssumption
    <3> QED
      BY <1>1, <3>1 DEF TypeOK
  <2> QED
    BY <1>1, <2>2, <2>4, <2>5 DEF TypeOK
<1>6. BegunTogether'
  BY <1>1, <1>2 DEF BegunTogether
<1>7. BooksKept' /\ FilledInOrder'
  BY <1>1, DbFrame
<1>8. NobodyIsAhead'
  <2>1. \A n \in Ticks \X Attempts : queue'[n] > 0 => n[1] <= sm.tick
    BY <1>2, <1>4 DEF NobodyIsAhead
  <2>2. \A v \in Workers : lambda'[v].tick <= sm.tick /\ call'[v].tick <= sm.tick
    BY <1>2, <1>3 DEF NobodyIsAhead
  <2> QED
    BY <1>1, <2>1, <2>2 DEF NobodyIsAhead
<1>9. CopiesAreFresh'
  BY <1>1, <1>3 DEF CopiesAreFresh, OutOfBudget
<1>10. OneSender'
  BY <1>1, <1>3 DEF OneSender
<1>11. OnePackagePerTick' /\ EndsWhenOver'
  BY <1>1 DEF OnePackagePerTick, EndsWhenOver
<1>12. AnswersAreTrue'
  BY <1>1, <1>3 DEF AnswersAreTrue
<1> QED
  BY <1>5, <1>6, <1>7, <1>8, <1>9, <1>10, <1>11, <1>12

\* A step of the execution, or of an invocation that answers it, ends or is
\* cut off, leaves the database and the calls alone.
LEMMA ExecutionStep ==
  ASSUME IndInv,
         UNCHANGED <<sub, rows, ledger, creator, call, published, insurance>>,
         faults' \in 0..MaxFaults,
         creator = "none" => UNCHANGED <<sm, queue>>,
         sm' \in [state : {"absent", "task", "wait", "done", "failed"},
                  tick : Ticks, attempt : Attempts, answer : Answers],
         queue' \in [Ticks \X Attempts -> 0..MaxReceives],
         lambda' \in [Workers -> [at : LambdaStates, tick : Ticks,
                                  attempt : Attempts, answer : Answers]],
         \A v \in Workers : \/ lambda'[v] = lambda[v]
                            \/ /\ lambda'[v].at \in {"idle", "fail"}
                               /\ lambda'[v].tick \in {0, lambda[v].tick},
         sm.tick <= sm'.tick, sm'.tick <= sub.amount,
         \A t \in Ticks : t < sm'.tick => rows[t] # "none",
         sm'.state = "wait" => rows[sm'.tick] # "none",
         sm'.state = "done" => sub.status \in Over,
         \A m \in Ticks \X Attempts : queue'[m] > 0 => m[1] <= sm'.tick
  PROVE  IndInv'
<1> USE DEF IndInv
<1>1. TypeOK'
  BY DEF TypeOK
<1>2. BegunTogether'
  BY DEF BegunTogether
<1>3. BooksKept' /\ FilledInOrder'
  BY DbFrame
<1>4. NobodyIsAhead'
  <2>1. sm'.tick \in Nat /\ sm.tick \in Nat
    BY Numbers, SubTypes
  <2>2. \A v \in Workers : lambda[v].tick <= sm.tick /\ call[v].tick <= sm.tick
    BY DEF NobodyIsAhead
  <2>3. \A v \in Workers : call'[v].tick <= sm'.tick
    BY <2>1, <2>2, SubTypes
  <2>4. \A v \in Workers : lambda'[v].tick <= sm'.tick
    BY <2>1, <2>2, SubTypes
  <2> QED
    BY <2>3, <2>4 DEF NobodyIsAhead
<1>5. CopiesAreFresh' /\ OneSender' /\ OnePackagePerTick'
  BY DEF CopiesAreFresh, OneSender, OnePackagePerTick, OutOfBudget
<1>6. AnswersAreTrue'
  BY DEF AnswersAreTrue
<1>7. EndsWhenOver'
  BY DEF EndsWhenOver, Over
<1> QED
  BY <1>1, <1>2, <1>3, <1>4, <1>5, <1>6, <1>7

\* An invocation that ends is as good as new.
LEMMA InvocationEnds ==
  ASSUME TypeOK, NEW w \in Workers, lambda' = [lambda EXCEPT ![w] = NoLambda]
  PROVE  /\ lambda' \in [Workers -> [at : LambdaStates, tick : Ticks,
                                     attempt : Attempts, answer : Answers]]
         /\ \A v \in Workers : \/ lambda'[v] = lambda[v]
                               \/ /\ lambda'[v].at = "idle"
                                  /\ lambda'[v].tick = 0
<1>1. NoLambda \in [at : LambdaStates, tick : Ticks, attempt : Attempts,
                    answer : Answers]
  BY Numbers DEF NoLambda, LambdaStates, Answers
<1> QED
  BY <1>1 DEF TypeOK, NoLambda

\* When the execution stays where it is.
LEMMA Halt ==
  ASSUME IndInv
  PROVE  /\ sm \in [state : {"absent", "task", "wait", "done", "failed"},
                    tick : Ticks, attempt : Attempts, answer : Answers]
         /\ queue \in [Ticks \X Attempts -> 0..MaxReceives]
         /\ sm.tick <= sm.tick /\ sm.tick <= sub.amount
         /\ \A t \in Ticks : t < sm.tick => rows[t] # "none"
         /\ sm.state = "wait" => rows[sm.tick] # "none"
         /\ sm.state = "done" => sub.status \in Over
         /\ \A m \in Ticks \X Attempts : queue[m] > 0 => m[1] <= sm.tick
         /\ sm.state = "task" => creator # "none"
<1>1. sm.tick <= sm.tick
  BY SubTypes DEF IndInv
<1> QED
  BY <1>1 DEF IndInv, TypeOK, NobodyIsAhead, EndsWhenOver, Over, BegunTogether

LEMMA LambdaAbortStep ==
  ASSUME IndInv, NEW w \in Workers, LambdaAbort(w)
  PROVE  IndInv'
<1>1. /\ UNCHANGED <<sub, rows, ledger, creator, sm, queue, call, published,
                     insurance>>
      /\ faults' \in 0..MaxFaults
      /\ lambda' = [lambda EXCEPT ![w].at = "fail", ![w].answer = "none"]
  BY FaultType DEF LambdaAbort, dbVars, awsVars, IndInv
<1> DEFINE L == [at : LambdaStates, tick : Ticks, attempt : Attempts,
                 answer : Answers]
<1>2. lambda \in [Workers -> L]
  BY DEF IndInv, TypeOK
<1>3. lambda'[w] = [at |-> "fail", tick |-> lambda[w].tick,
                    attempt |-> lambda[w].attempt, answer |-> "none"]
  BY <1>1, <1>2
<1>4. lambda'[w] \in L
  BY <1>2, <1>3 DEF LambdaStates, Answers
<1>5. lambda' \in [Workers -> L]
      /\ \A v \in Workers : v # w => lambda'[v] = lambda[v]
  BY <1>1, <1>2, <1>4
<1>6. \A v \in Workers : \/ lambda'[v] = lambda[v]
                         \/ /\ lambda'[v].at \in {"idle", "fail"}
                            /\ lambda'[v].tick \in {0, lambda[v].tick}
  BY <1>3, <1>5
<1> QED
  BY <1>1, <1>5, <1>6, Halt, ExecutionStep

LEMMA LambdaDiesStep ==
  ASSUME IndInv, NEW w \in Workers, LambdaDies(w)
  PROVE  IndInv'
<1>1. /\ UNCHANGED <<sub, rows, ledger, creator, sm, queue, call, published,
                     insurance>>
      /\ faults' \in 0..MaxFaults
      /\ lambda' = [lambda EXCEPT ![w] = NoLambda]
  BY FaultType DEF LambdaDies, dbVars, awsVars, IndInv
<1> QED
  BY <1>1, InvocationEnds, Halt, ExecutionStep DEF IndInv

\* An answer moves the execution only when it is true of the tick it waits
\* for: it goes on over a stored tick, and stops a subscription that is over.
LEMMA ReportSuccessStep ==
  ASSUME IndInv, NEW w \in Workers, ReportSuccess(w)
  PROVE  IndInv'
<1>1. /\ lambda[w].at = "report"
      /\ lambda' = [lambda EXCEPT ![w] = NoLambda]
      /\ UNCHANGED <<sub, rows, ledger, creator, call, published, insurance,
                     faults>>
      /\ faults' \in 0..MaxFaults
  BY DEF ReportSuccess, dbVars, IndInv, TypeOK
<1>2. CASE UNCHANGED <<sm, queue>>
  BY <1>1, <1>2, InvocationEnds, Halt, ExecutionStep DEF IndInv
<1>3. CASE /\ Current(Token(w))
           /\ sm' = [sm EXCEPT !.state = IF Proceeds(lambda[w].answer)
                                         THEN "wait" ELSE "done",
                               !.answer = lambda[w].answer]
           /\ queue' = [queue EXCEPT ![Token(w)] = 0]
  <2>1. sm.state = "task" /\ sm.tick = lambda[w].tick
    BY <1>3 DEF Current, Token
  <2>2. \/ Proceeds(lambda[w].answer) /\ rows[lambda[w].tick] # "none"
        \/ ~Proceeds(lambda[w].answer) /\ sub.status \in Over
    BY <1>1 DEF IndInv, AnswersAreTrue, Proceeds
  <2>3. /\ sm'.tick = sm.tick
        /\ sm'.state = IF Proceeds(lambda[w].answer) THEN "wait" ELSE "done"
    BY <1>3 DEF IndInv, TypeOK
  <2>4. sm' \in [state : {"absent", "task", "wait", "done", "failed"},
                 tick : Ticks, attempt : Attempts, answer : Answers]
    BY <1>3 DEF IndInv, TypeOK
  <2>5. /\ queue' \in [Ticks \X Attempts -> 0..MaxReceives]
        /\ \A m \in Ticks \X Attempts : queue'[m] > 0 => queue[m] > 0
    <3>1. 0 \in 0..MaxReceives /\ ~(0 > 0)
      BY SubscriptionsAssumption
    <3>2. queue \in [Ticks \X Attempts -> 0..MaxReceives]
      BY Halt
    <3>3. \A m \in Ticks \X Attempts : queue'[m] = queue[m] \/ queue'[m] = 0
      BY <1>3, <3>2
    <3> QED
      BY <1>3, <3>1, <3>2, <3>3
  <2>6. /\ sm'.state = "wait" => rows[sm'.tick] # "none"
        /\ sm'.state = "done" => sub.status \in Over
    BY <2>1, <2>2, <2>3
  <2> QED
    BY <1>1, <2>1, <2>3, <2>4, <2>5, <2>6, InvocationEnds, Halt, ExecutionStep
       DEF IndInv
<1> QED
  BY <1>2, <1>3 DEF ReportSuccess

\* A retry stays at its tick, and gives up after MaxRetries.
LEMMA RetryStep ==
  ASSUME IndInv, NEW done, sm.state = "task", Retry(done),
         UNCHANGED <<sub, rows, ledger, creator, call, published, insurance>>,
         faults' \in 0..MaxFaults,
         lambda' \in [Workers -> [at : LambdaStates, tick : Ticks,
                                  attempt : Attempts, answer : Answers]],
         \A v \in Workers : \/ lambda'[v] = lambda[v]
                            \/ /\ lambda'[v].at \in {"idle", "fail"}
                               /\ lambda'[v].tick \in {0, lambda[v].tick}
  PROVE  IndInv'
<1> DEFINE rest == [m \in DOMAIN queue |-> IF m \in done THEN 0 ELSE queue[m]]
<1>1. /\ rest \in [Ticks \X Attempts -> 0..MaxReceives]
      /\ \A m \in Ticks \X Attempts : rest[m] > 0 => queue[m] > 0
  BY SubscriptionsAssumption DEF IndInv, TypeOK
<1>2. sm.tick \in Ticks /\ sm.attempt \in Attempts /\ creator # "none"
  BY Halt DEF IndInv, TypeOK
<1>3. CASE RetriesLeft
  <2>1. sm.attempt + 1 \in Attempts
    BY <1>2, <1>3, SubscriptionsAssumption DEF Attempts, RetriesLeft
  <2>2. /\ sm' = [sm EXCEPT !.attempt = @ + 1]
        /\ queue' = [rest EXCEPT ![<<sm.tick, sm.attempt + 1>>] = MaxReceives]
    BY <1>3 DEF Retry
  <2> HIDE DEF rest
  <2>3. /\ sm' \in [state : {"absent", "task", "wait", "done", "failed"},
                    tick : Ticks, attempt : Attempts, answer : Answers]
        /\ sm'.tick = sm.tick /\ sm'.state = "task"
    BY <2>1, <2>2 DEF IndInv, TypeOK
  <2>4. <<sm.tick, sm.attempt + 1>> \in Ticks \X Attempts
        /\ MaxReceives \in 0..MaxReceives
    BY <1>2, <2>1, SubscriptionsAssumption
  <2>5. /\ queue' \in [Ticks \X Attempts -> 0..MaxReceives]
        /\ \A m \in Ticks \X Attempts :
              m = <<sm.tick, sm.attempt + 1>> \/ queue'[m] = rest[m]
    BY <1>1, <2>2, <2>4
  <2>6. \A m \in Ticks \X Attempts : queue'[m] > 0 => m[1] <= sm.tick
    BY <1>1, <2>5, Halt
  <2> QED
    BY <1>2, <2>3, <2>5, <2>6, Halt, ExecutionStep
<1>4. CASE ~RetriesLeft
  <2>1. sm' = [sm EXCEPT !.state = "failed"] /\ queue' = rest
    BY <1>4 DEF Retry
  <2> HIDE DEF rest
  <2>2. /\ sm' \in [state : {"absent", "task", "wait", "done", "failed"},
                    tick : Ticks, attempt : Attempts, answer : Answers]
        /\ sm'.tick = sm.tick /\ sm'.state = "failed"
    BY <2>1 DEF IndInv, TypeOK
  <2> QED
    BY <1>1, <1>2, <2>1, <2>2, Halt, ExecutionStep
<1> QED
  BY <1>3, <1>4

LEMMA ReportFailureStep ==
  ASSUME IndInv, NEW w \in Workers, ReportFailure(w)
  PROVE  IndInv'
<1>1. /\ lambda' = [lambda EXCEPT ![w] = NoLambda]
      /\ UNCHANGED <<sub, rows, ledger, creator, call, published, insurance,
                     faults>>
      /\ faults' \in 0..MaxFaults
  BY DEF ReportFailure, dbVars, IndInv, TypeOK
<1>2. CASE UNCHANGED <<sm, queue>>
  BY <1>1, <1>2, InvocationEnds, Halt, ExecutionStep DEF IndInv
<1>3. CASE Current(Token(w)) /\ Retry({Token(w)})
  <2>1. sm.state = "task"
    BY <1>3 DEF Current
  <2> QED
    BY <1>1, <1>3, <2>1, InvocationEnds, RetryStep DEF IndInv
<1> QED
  BY <1>2, <1>3 DEF ReportFailure

LEMMA TimeoutStep == IndInv /\ (TaskTimeout \/ TaskUnanswered) => IndInv'
<1> SUFFICES ASSUME IndInv, TaskTimeout \/ TaskUnanswered PROVE IndInv'
  OBVIOUS
<1>1. /\ sm.state = "task" /\ Retry({})
      /\ UNCHANGED <<sub, rows, ledger, creator, lambda, call, published,
                     insurance>>
      /\ faults' \in 0..MaxFaults
  BY FaultType DEF TaskTimeout, TaskUnanswered, dbVars, IndInv, TypeOK
<1>2. lambda \in [Workers -> [at : LambdaStates, tick : Ticks,
                              attempt : Attempts, answer : Answers]]
  BY DEF IndInv, TypeOK
<1> QED
  BY <1>1, <1>2, RetryStep

\* The execution goes on to the next tick only over a stored one, so that the
\* next one is not beyond the amount.
LEMMA NextTickStep == IndInv /\ NextTick => IndInv'
<1> SUFFICES ASSUME IndInv, NextTick PROVE IndInv'
  OBVIOUS
<1>1. /\ sm.state = "wait"
      /\ sm' = [state |-> "task", tick |-> sm.tick + 1, attempt |-> 1,
                answer |-> "none"]
      /\ queue' = [queue EXCEPT ![<<sm.tick + 1, 1>>] = MaxReceives]
      /\ UNCHANGED <<sub, rows, ledger, creator, lambda, call, published,
                     insurance, faults>>
  BY DEF NextTick, dbVars
<1>2. creator # "none"
  BY <1>1 DEF IndInv, BegunTogether
<1>3. /\ sm.tick \in Ticks /\ sm.tick \in Nat /\ sub.sent \in Nat
      /\ sub.amount \in Nat /\ sub.amount <= MaxAmount /\ rows[sm.tick] # "none"
  BY <1>1, <1>2, SubTypes DEF IndInv, NobodyIsAhead, BegunTogether
<1>4. sm.tick < sub.amount
  BY <1>3, StoredTicks DEF IndInv, FilledInOrder
<1>5. sm.tick + 1 \in Ticks /\ 1 \in Attempts
  BY <1>3, <1>4, Numbers DEF Ticks
<1>6. sm'.tick = sm.tick + 1 /\ sm'.state = "task"
  BY <1>1
<1>7. sm' \in [state : {"absent", "task", "wait", "done", "failed"},
               tick : Ticks, attempt : Attempts, answer : Answers]
  BY <1>1, <1>5 DEF Answers
<1>8. <<sm.tick + 1, 1>> \in Ticks \X Attempts /\ MaxReceives \in 0..MaxReceives
  BY <1>5, SubscriptionsAssumption
<1>9. /\ queue' \in [Ticks \X Attempts -> 0..MaxReceives]
      /\ \A m \in Ticks \X Attempts :
            m = <<sm.tick + 1, 1>> \/ queue'[m] = queue[m]
  BY <1>1, <1>8 DEF IndInv, TypeOK
<1>10. \A m \in Ticks \X Attempts : queue'[m] > 0 => m[1] <= sm'.tick
  <2> SUFFICES ASSUME NEW m \in Ticks \X Attempts, queue'[m] > 0
               PROVE  m[1] <= sm'.tick
    OBVIOUS
  <2>1. CASE m = <<sm.tick + 1, 1>>
    BY <2>1, <1>3, <1>6
  <2>2. CASE queue'[m] = queue[m]
    <3>1. m[1] <= sm.tick /\ m[1] \in Nat
      BY <2>2, Halt, Numbers
    <3> QED
      BY <3>1, <1>3, <1>6
  <2> QED
    BY <2>1, <2>2, <1>9
<1>11. \A t \in Ticks : t < sm'.tick => rows[t] # "none"
  <2>1. \A t \in Ticks : t < sm'.tick => t < sm.tick \/ t = sm.tick
    BY <1>3, <1>6, Numbers
  <2> QED
    BY <1>3, <2>1, Halt
<1>12. /\ sm.tick <= sm'.tick /\ sm'.tick <= sub.amount
       /\ faults' \in 0..MaxFaults
       /\ lambda' \in [Workers -> [at : LambdaStates, tick : Ticks,
                                   attempt : Attempts, answer : Answers]]
  BY <1>1, <1>3, <1>4, <1>6 DEF IndInv, TypeOK
<1> QED
  BY <1>1, <1>2, <1>6, <1>7, <1>9, <1>10, <1>11, <1>12, ExecutionStep

-----------------------------------------------------------------------------
LEMMA InitInv == Init => IndInv
<1> SUFFICES ASSUME Init PROVE IndInv
  OBVIOUS
<1>1. /\ sub = [status |-> "absent", budget |-> 0, price |-> 0, amount |-> 1,
                spent |-> 0, sent |-> 0]
      /\ \A t \in Ticks : rows[t] = "none" /\ published[t] = 0
      /\ ledger = <<>> /\ creator = "none" /\ insurance = {} /\ faults = 0
      /\ sm = [state |-> "absent", tick |-> 0, attempt |-> 1, answer |-> "none"]
      /\ \A m \in Ticks \X Attempts : queue[m] = 0
  BY DEF Init
<1>2. \A w \in Workers : /\ call[w].pc = "idle" /\ call[w].tick = 0
                         /\ lambda[w].at = "idle" /\ lambda[w].tick = 0
  BY DEF Init, NoCall, NoLambda
<1>3. TypeOK
  <2>1. NoCall \in [pc : CallStates, tick : Ticks, spent : Nat,
                    sent : 0..MaxAmount]
    BY Numbers DEF NoCall, CallStates
  <2>2. NoLambda \in [at : LambdaStates, tick : Ticks, attempt : Attempts,
                      answer : Answers]
    BY Numbers DEF NoLambda, LambdaStates, Answers
  <2>3. call \in [Workers -> [pc : CallStates, tick : Ticks, spent : Nat,
                              sent : 0..MaxAmount]]
    BY <2>1 DEF Init
  <2>4. lambda \in [Workers -> [at : LambdaStates, tick : Ticks,
                                attempt : Attempts, answer : Answers]]
    BY <2>2 DEF Init
  <2>5. sub \in [status : {"absent", "active", "completed", "exhausted"},
                 budget : Nat, price : Nat, amount : 1..(MaxAmount + 1),
                 spent : Nat, sent : 0..MaxAmount]
    BY <1>1, Numbers
  <2>6. sm \in [state : {"absent", "task", "wait", "done", "failed"},
                tick : Ticks, attempt : Attempts, answer : Answers]
    BY <1>1, Numbers DEF Answers
  <2>7. /\ rows \in [Ticks -> Charged \cup {"none", "skipped-no-budget"}]
        /\ published \in [Ticks -> Nat]
        /\ queue \in [Ticks \X Attempts -> 0..MaxReceives]
        /\ ledger \in Seq([delta : Int, balanceAfter : Int])
        /\ faults \in 0..MaxFaults
    BY SubscriptionsAssumption DEF Init
  <2> QED
    BY <1>1, <2>3, <2>4, <2>5, <2>6, <2>7 DEF TypeOK
<1>4. BegunTogether /\ BooksKept
  BY <1>1, <1>2, Numbers DEF BegunTogether, BooksKept
<1>5. FilledInOrder
  BY <1>1, Statuses, Numbers DEF FilledInOrder
<1>6. NobodyIsAhead
  BY <1>1, <1>2, Numbers DEF NobodyIsAhead
<1>7. CopiesAreFresh /\ OneSender /\ OnePackagePerTick
  BY <1>1, <1>2 DEF CopiesAreFresh, OneSender, OnePackagePerTick
<1>8. AnswersAreTrue /\ EndsWhenOver
  BY <1>1, <1>2 DEF AnswersAreTrue, EndsWhenOver
<1> QED
  BY <1>3, <1>4, <1>5, <1>6, <1>7, <1>8 DEF IndInv

LEMMA NextInv == IndInv /\ [Next]_vars => IndInv'
<1> SUFFICES ASSUME IndInv, [Next]_vars PROVE IndInv'
  OBVIOUS
<1>1. CASE Create \/ StartExecution \/ SaveArn \/ CreateThrows
  BY <1>1, CreateStep, StartExecutionStep, CreatorStep
<1>2. ASSUME NEW w \in Workers, CallStep(w) PROVE IndInv'
  <2>1. CASE FindTick(w) \/ LoadSubscription(w)
    BY <2>1, FindTickStep, LoadSubscriptionStep
  <2>2. CASE SkipTick(w) \/ ChargeTick(w) \/ SendPackage(w)
    BY <2>2, SkipTickStep, ChargeTickStep, SendPackageStep
  <2>3. CASE MarkSent(w) \/ MarkFailed(w)
    BY <2>3, MarkRowStep DEF MarkSent, MarkFailed
  <2> QED
    BY <1>2, <2>1, <2>2, <2>3 DEF CallStep
<1>3. ASSUME NEW w \in Workers, LambdaStep(w) PROVE IndInv'
  BY <1>3, ReportSuccessStep, ReportFailureStep DEF LambdaStep
<1>4. ASSUME NEW w \in Workers, Throw(w) \/ LambdaAbort(w) \/ LambdaDies(w)
      PROVE  IndInv'
  BY <1>4, ThrowStep, LambdaAbortStep, LambdaDiesStep
<1>5. ASSUME NEW w \in Workers, NEW m \in Ticks \X Attempts,
             Receive(w, m) \/ ReceiveAgain(w, m)
      PROVE  IndInv'
  <2>1. Deliver(w, m) /\ faults' \in 0..MaxFaults
    BY <1>5, FaultType DEF Receive, ReceiveAgain, IndInv, TypeOK
  <2> QED
    BY <2>1, DeliverStep
<1>6. CASE TaskTimeout \/ TaskUnanswered \/ NextTick \/ Crash
  BY <1>6, TimeoutStep, NextTickStep, CrashStep
<1>7. ASSUME NEW t \in Ticks, ChargeInsurance(t) PROVE IndInv'
  BY <1>7, ChargeInsuranceStep
<1>8. CASE UNCHANGED vars
  <2> USE <1>8 DEF vars
  <2>1. TypeOK'
    BY DEF IndInv, TypeOK
  <2>2. BegunTogether'
    BY DEF IndInv, BegunTogether
  <2>3. BooksKept'
    BY DEF IndInv, BooksKept
  <2>4. FilledInOrder'
    BY DEF IndInv, FilledInOrder
  <2>5. NobodyIsAhead'
    BY DEF IndInv, NobodyIsAhead
  <2>6. CopiesAreFresh'
    BY DEF IndInv, CopiesAreFresh, OutOfBudget
  <2>7. OneSender' /\ OnePackagePerTick'
    BY DEF IndInv, OneSender, OnePackagePerTick
  <2>8. AnswersAreTrue' /\ EndsWhenOver'
    BY DEF IndInv, AnswersAreTrue, EndsWhenOver
  <2> QED
    BY <2>1, <2>2, <2>3, <2>4, <2>5, <2>6, <2>7, <2>8 DEF IndInv
<1> QED
  BY <1>1, <1>2, <1>3, <1>4, <1>5, <1>6, <1>7, <1>8 DEF Next

\* The invariant of the whole, which the properties below follow from.
THEOREM SubscriptionInductive == Spec => []IndInv
<1>1. Init => IndInv
  BY InitInv
<1>2. IndInv /\ [Next]_vars => IndInv'
  BY NextInv
<1> QED
  BY <1>1, <1>2, PTL DEF Spec

-----------------------------------------------------------------------------
(* What follows from the invariant.                                        *)

\* There are n ticks before tick n.
LEMMA TicksBefore ==
  ASSUME NEW n \in Nat
  PROVE  Cardinality(0..(n - 1)) = n
<1>1. 0 \in Int /\ n - 1 \in Int
  OBVIOUS
<1>2. Cardinality(0..(n - 1)) = IF 0 > n - 1 THEN 0 ELSE (n - 1) - 0 + 1
  BY ONLY <1>1, FS_Interval
<1> QED
  BY <1>2

\* The charged ticks are the first ones, as many as the counter says.
LEMMA ChargedAreFirst ==
  ASSUME IndInv
  PROVE  /\ ChargedTicks = {t \in Ticks : t < sub.sent}
         /\ Cardinality(ChargedTicks) = sub.sent
<1>1. ChargedTicks = {t \in Ticks : t < sub.sent}
  BY DEF IndInv, FilledInOrder, ChargedTicks
<1>2. sub.sent \in 0..MaxAmount /\ MaxAmount \in Nat
  BY Numbers DEF IndInv, TypeOK
<1>3. {t \in Ticks : t < sub.sent} = 0..(sub.sent - 1)
  BY <1>2 DEF Ticks
<1>4. Cardinality(0..(sub.sent - 1)) = sub.sent
  BY <1>2, TicksBefore
<1> QED
  BY <1>1, <1>3, <1>4

\* The counters, the ledger and the charged ticks agree (processTick's
\* transaction, written from a copy).
THEOREM BooksAlwaysBalance == Spec => []BooksBalance
<1>1. IndInv => BooksBalance
  BY ChargedAreFirst DEF IndInv, BooksKept, BooksBalance
<1> QED
  BY <1>1, SubscriptionInductive, PTL

\* Neither the budget nor the amount is exceeded, and nobody is exhausted
\* before a first shipment.
THEOREM BudgetIsKept == Spec => []NeverOverspent
<1>1. IndInv => NeverOverspent
  BY SubTypes DEF IndInv, BooksKept, FilledInOrder, NeverOverspent
<1> QED
  BY <1>1, SubscriptionInductive, PTL

\* The unique key lets one attempt of a tick send one package.
THEOREM SentOnce == Spec => []OnePackagePerTick
<1>1. IndInv => OnePackagePerTick
  BY DEF IndInv
<1> QED
  BY <1>1, SubscriptionInductive, PTL

\* The execution passes only stored ticks, and not more than the amount.
THEOREM EveryTickIsStored == Spec => []NoTickIsSkipped
<1>1. IndInv => NoTickIsSkipped
  BY DEF IndInv, NobodyIsAhead, NoTickIsSkipped
<1> QED
  BY <1>1, SubscriptionInductive, PTL

\* EvaluateStatus ends the execution of a subscription that is over only.
THEOREM StopsWhenOver == Spec => []EndsWhenOver
<1>1. IndInv => EndsWhenOver
  BY DEF IndInv
<1> QED
  BY <1>1, SubscriptionInductive, PTL

-----------------------------------------------------------------------------
(* The subscription implements BudgetPromise.                              *)

LEMMA PromiseInit == Init => Promise!Init
<1> SUFFICES ASSUME Init PROVE Promise!Init
  OBVIOUS
<1>1. sub.status = "absent" /\ published = [t \in Ticks |-> 0]
  BY DEF Init
<1>2. \A t \in Ticks : rows[t] = "none"
  BY DEF Init
<1>3. ChargedTicks = {}
  BY <1>2, Statuses DEF ChargedTicks
<1> QED
  BY <1>1, <1>3 DEF Promise!Init

\* A step that leaves the row and the packages alone is none of the promise.
LEMMA PromiseStutters ==
  ASSUME IndInv, IndInv', UNCHANGED <<sub, published>>
  PROVE  UNCHANGED Promise!promiseVars
<1>1. /\ ChargedTicks = {t \in Ticks : t < sub.sent}
      /\ ChargedTicks' = {t \in Ticks : t < sub'.sent}
  BY DEF IndInv, FilledInOrder, ChargedTicks
<1> QED
  BY <1>1 DEF Promise!promiseVars

\* Create is Agree.
LEMMA PromiseAgree ==
  ASSUME IndInv, IndInv', Create
  PROVE  Promise!Agree
<1>1. /\ ChargedTicks = {t \in Ticks : t < sub.sent}
      /\ ChargedTicks' = {t \in Ticks : t < sub'.sent}
  BY DEF IndInv, FilledInOrder, ChargedTicks
<1>2. sub.status = "absent" /\ sub.sent = 0 /\ published' = published
  BY DEF Create, IndInv, BegunTogether
<1>3. PICK budget \in Budgets, price \in Prices, amount \in Amounts :
        /\ price <= budget
        /\ sub' = [status |-> "active", budget |-> budget, price |-> price,
                   amount |-> amount, spent |-> 0, sent |-> 0]
  BY DEF Create
<1>4. budget \in Nat /\ price \in Nat /\ amount \in Nat
  BY SubscriptionsAssumption
<1>5. ChargedTicks = {} /\ ChargedTicks' = {}
  <2>1. \A u \in Ticks : u \in Nat
    BY Numbers
  <2>2. \A u \in Ticks : ~(u < sub.sent) /\ ~(u < sub'.sent)
    BY <1>2, <1>3, <2>1
  <2> QED
    BY <1>1, <2>2
<1>6. /\ sub'.price = price /\ sub'.amount - sub'.sent = amount
      /\ sub'.budget - sub'.spent = budget /\ sub'.status = "active"
  BY <1>3, <1>4
<1> QED
  BY <1>2, <1>3, <1>4, <1>5, <1>6 DEF Promise!Agree

\* The commit of ChargeTick is Charge, and a duplicate's nothing.
LEMMA PromiseCharge ==
  ASSUME IndInv, IndInv', NEW w \in Workers, ChargeTick(w)
  PROVE  \/ Promise!Charge(call[w].tick)
         \/ UNCHANGED Promise!promiseVars
<1> DEFINE t == call[w].tick
<1>1. /\ ChargedTicks = {u \in Ticks : u < sub.sent}
      /\ ChargedTicks' = {u \in Ticks : u < sub'.sent}
  BY DEF IndInv, FilledInOrder, ChargedTicks
<1>2. call[w].pc = "charge" /\ published' = published
  BY DEF ChargeTick, Calling
<1>3. CASE rows[t] # "none"
  BY <1>2, <1>3, PromiseStutters DEF ChargeTick
<1>4. CASE rows[t] = "none"
  <2>1. /\ t \in Ticks /\ t \in Nat
        /\ sub.status = "active" /\ ~OutOfBudget
        /\ call[w].spent = sub.spent /\ call[w].sent = sub.sent
        /\ t = sub.sent /\ sub.sent < sub.amount
    BY <1>2, <1>4, SubTypes, OpenTick DEF IndInv, CopiesAreFresh, FilledInOrder
  <2>2. /\ sub'.sent = sub.sent + 1 /\ sub'.spent = sub.spent + sub.price
        /\ sub'.price = sub.price /\ sub'.budget = sub.budget
        /\ sub'.amount = sub.amount
        /\ sub'.status = IF sub.sent + 1 >= sub.amount THEN "completed"
                                                       ELSE "active"
    <3>1. Debit(w)
      BY <1>4 DEF ChargeTick
    <3> QED
      BY <2>1, <3>1 DEF Debit, IndInv, TypeOK
  <2>3. /\ sub.budget \in Nat /\ sub.price \in Nat /\ sub.amount \in Nat
        /\ sub.spent \in Nat /\ sub.sent \in Nat
    BY SubTypes DEF IndInv
  <2>4. sub.price <= sub.budget - sub.spent
    BY <2>1, <2>3 DEF OutOfBudget
  <2>5. t \notin ChargedTicks /\ ChargedTicks' = ChargedTicks \cup {t}
    <3>1. \A u \in Ticks : u \in Nat
      BY Numbers
    <3>2. \A u \in Ticks : u < sub.sent + 1 <=> u < sub.sent \/ u = t
      BY <2>1, <2>3, <3>1
    <3>3. ~(t < sub.sent)
      BY <2>1, <2>3
    <3> HIDE DEF t
    <3>4. t \notin ChargedTicks
      BY <1>1, <3>3
    <3>5. ChargedTicks' = {u \in Ticks : u < sub.sent + 1}
      BY <1>1, <2>2
    <3> QED
      BY <1>1, <2>1, <3>2, <3>4, <3>5
  <2>6. (sub'.status = "active") = (sub.amount - sub.sent > 1)
    BY <2>2, <2>3
  <2>7. /\ sub'.amount - sub'.sent = (sub.amount - sub.sent) - 1
        /\ sub'.budget - sub'.spent = (sub.budget - sub.spent) - sub.price
        /\ sub.amount - sub.sent > 0
        /\ sub.budget - sub.spent >= sub.price
    BY <2>1, <2>2, <2>3, <2>4
  <2> QED
    BY <1>2, <2>1, <2>2, <2>5, <2>6, <2>7 DEF Promise!Charge
<1> QED
  BY <1>3, <1>4

\* The commit of SkipTick is Exhaust, and a duplicate's nothing.
LEMMA PromiseExhaust ==
  ASSUME IndInv, IndInv', NEW w \in Workers, SkipTick(w)
  PROVE  Promise!Exhaust \/ UNCHANGED Promise!promiseVars
<1> DEFINE t == call[w].tick
<1>1. /\ ChargedTicks = {u \in Ticks : u < sub.sent}
      /\ ChargedTicks' = {u \in Ticks : u < sub'.sent}
  BY DEF IndInv, FilledInOrder, ChargedTicks
<1>2. call[w].pc = "skip" /\ published' = published
  BY DEF SkipTick, Calling
<1>3. CASE rows[t] # "none"
  BY <1>2, <1>3, PromiseStutters DEF SkipTick
<1>4. CASE rows[t] = "none"
  <2>1. sub.status = "active" /\ OutOfBudget
    BY <1>2, <1>4 DEF IndInv, CopiesAreFresh
  <2>2. /\ sub'.sent = sub.sent /\ sub'.spent = sub.spent
        /\ sub'.price = sub.price /\ sub'.budget = sub.budget
        /\ sub'.amount = sub.amount /\ sub'.status = "exhausted"
    BY <1>4 DEF SkipTick, IndInv, TypeOK
  <2>3. ChargedTicks' = ChargedTicks
    BY <1>1, <2>2
  <2> QED
    BY <1>2, <2>1, <2>2, <2>3 DEF Promise!Exhaust, OutOfBudget
<1> QED
  BY <1>3, <1>4

\* SendPackage is Ship, when there is a route.
LEMMA PromiseShip ==
  ASSUME IndInv, IndInv', NEW w \in Workers, SendPackage(w)
  PROVE  Promise!Ship(call[w].tick) \/ UNCHANGED Promise!promiseVars
<1> DEFINE t == call[w].tick
<1>1. call[w].pc = "send" /\ sub' = sub /\ rows' = rows
  BY DEF SendPackage, Calling, dbVars
<1>2. CASE published' = published
  BY <1>1, <1>2, PromiseStutters
<1>3. CASE published' = [published EXCEPT ![t] = @ + 1]
  <2>1. t \in Ticks /\ rows[t] \in Charged /\ published[t] = 0
    BY <1>1, SubTypes DEF IndInv, OneSender
  <2>2. published' = [published EXCEPT ![t] = 1]
    BY <1>3, <2>1 DEF IndInv, TypeOK
  <2>3. t \in ChargedTicks /\ ChargedTicks' = ChargedTicks
    BY <1>1, <2>1 DEF ChargedTicks
  <2> QED
    BY <1>1, <2>1, <2>2, <2>3 DEF Promise!Ship
<1> QED
  BY <1>2, <1>3 DEF SendPackage

\* The steps that change neither the row nor the packages.
LEMMA QuietStep ==
  ASSUME IndInv,
         NEW w \in Workers,
         \/ FindTick(w) \/ LoadSubscription(w) \/ MarkSent(w) \/ MarkFailed(w)
         \/ LambdaStep(w) \/ Throw(w) \/ LambdaAbort(w) \/ LambdaDies(w)
         \/ \E m \in Ticks \X Attempts : Receive(w, m) \/ ReceiveAgain(w, m)
  PROVE  UNCHANGED <<sub, published>>
<1>1. CASE LoadSubscription(w)
  BY <1>1, SubTypes DEF LoadSubscription, IndInv, FilledInOrder
<1>2. CASE FindTick(w) \/ MarkSent(w) \/ MarkFailed(w)
  BY <1>2 DEF FindTick, MarkSent, MarkFailed, MarkRow, dbVars
<1>3. CASE LambdaStep(w) \/ Throw(w) \/ LambdaAbort(w) \/ LambdaDies(w)
  BY <1>3 DEF LambdaStep, ReportSuccess, ReportFailure, Throw, LambdaAbort,
     LambdaDies, dbVars
<1>4. CASE \E m \in Ticks \X Attempts : Receive(w, m) \/ ReceiveAgain(w, m)
  BY <1>4 DEF Receive, ReceiveAgain, Deliver, dbVars
<1> QED
  BY <1>1, <1>2, <1>3, <1>4

LEMMA PromiseStep ==
  IndInv /\ IndInv' /\ [Next]_vars => [Promise!Next]_Promise!promiseVars
<1> SUFFICES ASSUME IndInv, IndInv', [Next]_vars
             PROVE  Promise!Next \/ UNCHANGED Promise!promiseVars
  OBVIOUS
<1>1. CASE Create
  BY <1>1, PromiseAgree DEF Promise!Next
<1>2. CASE StartExecution \/ SaveArn \/ CreateThrows
  <2>1. UNCHANGED <<sub, published>>
    BY <1>2 DEF StartExecution, SaveArn, CreateThrows, dbVars
  <2> QED
    BY <2>1, PromiseStutters
<1>3. ASSUME NEW w \in Workers,
             ChargeTick(w) \/ SkipTick(w) \/ SendPackage(w)
      PROVE  Promise!Next \/ UNCHANGED Promise!promiseVars
  <2>1. call[w].tick \in Ticks
    BY SubTypes DEF IndInv
  <2> QED
    BY <1>3, <2>1, PromiseCharge, PromiseExhaust, PromiseShip DEF Promise!Next
<1>4. ASSUME NEW w \in Workers,
             \/ FindTick(w) \/ LoadSubscription(w)
             \/ MarkSent(w) \/ MarkFailed(w)
             \/ LambdaStep(w) \/ Throw(w) \/ LambdaAbort(w) \/ LambdaDies(w)
             \/ \E m \in Ticks \X Attempts :
                   Receive(w, m) \/ ReceiveAgain(w, m)
      PROVE  UNCHANGED Promise!promiseVars
  BY <1>4, QuietStep, PromiseStutters
<1>5. CASE TaskTimeout \/ TaskUnanswered \/ NextTick \/ Crash
  <2>1. UNCHANGED <<sub, published>>
    BY <1>5 DEF TaskTimeout, TaskUnanswered, NextTick, Crash, dbVars
  <2> QED
    BY <2>1, PromiseStutters
<1>6. ASSUME NEW t \in Ticks, ChargeInsurance(t)
      PROVE  UNCHANGED Promise!promiseVars
  BY <1>6, PromiseStutters DEF ChargeInsurance
<1>7. CASE UNCHANGED vars
  BY <1>7, PromiseStutters DEF vars
<1> QED
  BY <1>1, <1>2, <1>3, <1>4, <1>5, <1>6, <1>7 DEF Next, CallStep

\* Repeated, late and interrupted attempts keep what the customer was promised:
\* a tick is charged once, inside budget and amount, and sends one package.
THEOREM SubscriptionRefines == Spec => KeepsBudget
<1>1. IndInv /\ IndInv' /\ [Next]_vars => [Promise!Next]_Promise!promiseVars
  BY PromiseStep
<1> QED
  BY <1>1, PromiseInit, SubscriptionInductive, PTL
     DEF Spec, KeepsBudget, Promise!Spec

-----------------------------------------------------------------------------
(* FailsWithReason.  Every retry is paid by something that went wrong in   *)
(* the attempt before: RetryInv is inductive beside IndInv.                *)

\* No invocation takes a token or lets one go, and none begins to fail.
SameTokens ==
    \A v \in Workers :
        /\ lambda'[v].tick = lambda[v].tick
        /\ lambda'[v].attempt = lambda[v].attempt
        /\ lambda'[v].at = "idle" <=> lambda[v].at = "idle"
        /\ lambda'[v].at = "fail" => lambda[v].at = "fail"

Early == {"none", "start"}

\* The types the retries are about.
LEMMA RetryTypes ==
  ASSUME TypeOK
  PROVE  /\ sm.tick \in Nat /\ sm.attempt \in Nat /\ faults \in Nat
         /\ Now \in Ticks \X Attempts
         /\ \A m \in Ticks \X Attempts : queue[m] \in Nat /\ queue[m] <= MaxReceives
         /\ \A w \in Workers : lambda[w].attempt \in Nat
                               /\ Token(w) \in Ticks \X Attempts
         /\ MaxRetries \in Nat /\ MaxReceives \in Nat /\ MaxReceives > 0
<1>1. MaxRetries \in Nat /\ MaxReceives \in Nat /\ MaxReceives > 0
  BY SubscriptionsAssumption
<1>2. sm.tick \in Ticks /\ sm.attempt \in Attempts
  BY DEF TypeOK
<1>3. sm.tick \in Nat /\ sm.attempt \in Nat /\ Now \in Ticks \X Attempts
  BY <1>2, Numbers DEF Now
<1>4. faults \in Nat
  BY SubscriptionsAssumption DEF TypeOK
<1>5. \A m \in Ticks \X Attempts : queue[m] \in Nat /\ queue[m] <= MaxReceives
  BY <1>1 DEF TypeOK
<1>6. ASSUME NEW w \in Workers
      PROVE  lambda[w].attempt \in Nat /\ Token(w) \in Ticks \X Attempts
  <2>1. lambda[w].tick \in Ticks /\ lambda[w].attempt \in Attempts
    BY DEF TypeOK
  <2> QED
    BY <2>1, Numbers DEF Token
<1> QED
  BY <1>1, <1>3, <1>4, <1>5, <1>6

\* A call that goes on, and what answers a request of a customer.
LEMMA CallsHold ==
  ASSUME TypeOK, NEW w \in Workers, CallStep(w)
  PROVE  SameTokens /\ UNCHANGED <<sm, queue, faults, creator>>
<1>1. ASSUME NEW answer, Answer(w, "report", answer)
      PROVE  SameTokens
  BY <1>1 DEF Answer, SameTokens, TypeOK
<1>2. UNCHANGED lambda => SameTokens
  BY DEF SameTokens
<1>3. UNCHANGED lambda \/ \E answer : Answer(w, "report", answer)
  BY DEF CallStep, FindTick, LoadSubscription, SkipTick, ChargeTick,
         SendPackage, MarkSent, MarkFailed, MarkRow
<1>4. UNCHANGED <<sm, queue, faults, creator>>
  BY DEF CallStep, FindTick, LoadSubscription, SkipTick, ChargeTick,
         SendPackage, MarkSent, MarkFailed, MarkRow, awsVars, dbVars
<1> QED
  BY <1>1, <1>2, <1>3, <1>4

\* What does not concern the execution.
LEMMA QuietRetries ==
  ASSUME RetryInv, UNCHANGED <<sm, queue, faults>>, SameTokens,
         creator' \in Early => creator \in Early
  PROVE  RetryInv'
<1>1. \A w \in Workers : Token(w)' = Token(w)
  BY DEF Token, SameTokens
<1>2. Now' = Now
  BY DEF Now
<1>3. InHand(Now)' <=> InHand(Now)
  BY <1>1, <1>2 DEF InHand, SameTokens
<1>4. Spoiled' => Spoiled
  BY <1>1, <1>2, <1>3 DEF Spoiled, SameTokens
<1>5. RetriesPaid'
  BY <1>4 DEF RetryInv, RetriesPaid
<1>6. NotStarted'
  BY DEF RetryInv, NotStarted, Early, SameTokens
<1>7. AttemptsInOrder'
  BY DEF RetryInv, AttemptsInOrder, SameTokens
<1> QED
  BY <1>5, <1>6, <1>7 DEF RetryInv, FailsWithReason

\* A failure pays for the retry it may lead to.
LEMMA FaultRetries ==
  ASSUME TypeOK, TypeOK', RetryInv, UNCHANGED sm, faults' = faults + 1,
         creator' \in Early => creator \in Early,
         \A m \in Ticks \X Attempts : queue'[m] > 0 => queue[m] > 0,
         \A v \in Workers :
            lambda'[v].at # "idle" =>
               \/ /\ lambda[v].at # "idle"
                  /\ lambda'[v].tick = lambda[v].tick
                  /\ lambda'[v].attempt = lambda[v].attempt
               \/ queue[Token(v)'] > 0
  PROVE  RetryInv'
<1>1. RetriesPaid'
  BY RetryTypes DEF RetryInv, RetriesPaid
<1>2. FailsWithReason'
  BY RetryTypes DEF RetryInv, FailsWithReason
<1>3. NotStarted'
  <2>1. ASSUME sm.state = "absent"
        PROVE  /\ \A m \in Ticks \X Attempts : queue'[m] = 0
               /\ \A w \in Workers : lambda'[w].at = "idle"
    <3>1. \A m \in Ticks \X Attempts : queue[m] = 0
      BY <2>1 DEF RetryInv, NotStarted
    <3>2. \A m \in Ticks \X Attempts : queue'[m] = 0
      <4>1. \A m \in Ticks \X Attempts : queue'[m] \in Nat
        BY RetryTypes DEF TypeOK
      <4> QED
        BY <3>1, <4>1
    <3>3. \A w \in Workers : Token(w)' \in Ticks \X Attempts
      BY DEF TypeOK, Token
    <3> QED
      BY <2>1, <3>1, <3>2, <3>3 DEF RetryInv, NotStarted
  <2> QED
    BY <2>1 DEF RetryInv, NotStarted, Early
<1>4. AttemptsInOrder'
  <2>1. ASSUME NEW w \in Workers, lambda'[w].at # "idle",
               lambda'[w].tick = sm.tick
        PROVE  lambda'[w].attempt <= sm.attempt
    <3>1. CASE queue[Token(w)'] > 0
      <4>1. Token(w)' \in Ticks \X Attempts
        BY DEF TypeOK, Token
      <4>2. Token(w)'[1] = sm.tick /\ Token(w)'[2] = lambda'[w].attempt
        BY <2>1 DEF Token
      <4> QED
        BY <3>1, <4>1, <4>2 DEF RetryInv, AttemptsInOrder
    <3> QED
      BY <2>1, <3>1 DEF RetryInv, AttemptsInOrder
  <2> QED
    BY <2>1 DEF RetryInv, AttemptsInOrder
<1> QED
  BY <1>1, <1>2, <1>3, <1>4 DEF RetryInv

\* A retry that is paid.
LEMMA PaidRetry ==
  ASSUME TypeOK, RetryInv, sm.state = "task", NEW done, Retry(done),
         UNCHANGED creator, faults' \in Nat, faults' >= sm.attempt,
         \A v \in Workers : lambda'[v].at # "idle" => lambda'[v] = lambda[v]
  PROVE  RetryInv'
<1> DEFINE rest == [m \in DOMAIN queue |-> IF m \in done THEN 0 ELSE queue[m]]
<1>1. /\ DOMAIN rest = Ticks \X Attempts
      /\ \A m \in Ticks \X Attempts : rest[m] > 0 => queue[m] > 0
  BY DEF TypeOK
<1>2. creator \notin Early
  BY DEF RetryInv, NotStarted, Early
<1>3. CASE RetriesLeft
  <2>1. /\ sm' = [sm EXCEPT !.attempt = @ + 1]
        /\ queue' = [rest EXCEPT ![<<sm.tick, sm.attempt + 1>>] = MaxReceives]
    BY <1>3 DEF Retry
  <2>2. /\ sm'.state = "task" /\ sm'.tick = sm.tick
        /\ sm'.attempt = sm.attempt + 1
    BY <2>1 DEF TypeOK
  <2>3. Now' = <<sm.tick, sm.attempt + 1>> /\ Now' \in Ticks \X Attempts
    <3>1. sm.attempt + 1 \in Attempts
      BY <1>3, RetryTypes DEF RetriesLeft, Attempts
    <3>2. sm.tick \in Ticks
      BY DEF TypeOK
    <3> QED
      BY <2>2, <3>1, <3>2 DEF Now
  <2> HIDE DEF rest
  <2>4. /\ queue'[Now'] = MaxReceives
        /\ \A m \in Ticks \X Attempts : m # Now' => queue'[m] = rest[m]
    BY <1>1, <2>1, <2>3
  <2>5. AttemptsInOrder'
    <3>1. ASSUME NEW m \in Ticks \X Attempts, queue'[m] > 0, m[1] = sm.tick
          PROVE  m[2] <= sm.attempt + 1
      <4>1. CASE m = Now'
        BY <2>3, <4>1, RetryTypes
      <4>2. CASE m # Now'
        <5>1. queue[m] > 0
          BY <1>1, <2>4, <3>1, <4>2
        <5>2. m[2] <= sm.attempt /\ m[2] \in Nat
          BY <3>1, <5>1 DEF RetryInv, AttemptsInOrder, Attempts
        <5> QED
          BY <5>2, RetryTypes
      <4> QED
        BY <4>1, <4>2
    <3>2. ASSUME NEW w \in Workers, lambda'[w].at # "idle",
                 lambda'[w].tick = sm.tick
          PROVE  lambda'[w].attempt <= sm.attempt + 1
      <4>1. lambda[w].attempt <= sm.attempt /\ lambda'[w] = lambda[w]
        BY <3>2 DEF RetryInv, AttemptsInOrder
      <4> QED
        BY <4>1, RetryTypes
    <3> QED
      BY <2>2, <3>1, <3>2 DEF AttemptsInOrder
  <2>6. ~Spoiled'
    <3>1. ASSUME NEW w \in Workers, lambda'[w].at = "fail", Token(w)' = Now'
          PROVE  FALSE
      <4>1. lambda'[w] = lambda[w] /\ lambda[w].at # "idle"
        BY <3>1
      <4>2. lambda[w].tick = sm.tick /\ lambda[w].attempt = sm.attempt + 1
        BY <2>3, <3>1, <4>1 DEF Token
      <4>3. lambda[w].attempt <= sm.attempt
        BY <4>1, <4>2 DEF RetryInv, AttemptsInOrder
      <4> QED
        BY <4>2, <4>3, RetryTypes
    <3> QED
      BY <2>4, <3>1, RetryTypes DEF Spoiled
  <2>7. RetriesPaid'
    BY <2>2, <2>6, RetryTypes DEF RetriesPaid
  <2> QED
    BY <1>2, <2>2, <2>5, <2>7
       DEF RetryInv, NotStarted, Early, FailsWithReason
<1>4. CASE ~RetriesLeft
  <2>1. sm' = [sm EXCEPT !.state = "failed"] /\ queue' = rest
    BY <1>4 DEF Retry
  <2>2. sm'.state = "failed" /\ sm'.tick = sm.tick /\ sm'.attempt = sm.attempt
    BY <2>1 DEF TypeOK
  <2>3. faults' > MaxRetries
    BY <1>4, RetryTypes DEF RetriesLeft
  <2>4. AttemptsInOrder'
    BY <1>1, <2>1, <2>2 DEF RetryInv, AttemptsInOrder
  <2> QED
    BY <1>2, <2>2, <2>3, <2>4
       DEF RetryInv, NotStarted, Early, FailsWithReason, RetriesPaid
<1> QED
  BY <1>3, <1>4

\* A delivery takes a token of the queue, and fails nothing yet.
LEMMA ReceiveRetry ==
  ASSUME TypeOK, TypeOK', RetryInv, NEW w \in Workers,
         NEW m \in Ticks \X Attempts, Receive(w, m)
  PROVE  RetryInv'
<1>1. /\ UNCHANGED <<sm, creator, faults>>
      /\ queue' = [queue EXCEPT ![m] = @ - 1]
      /\ queue[m] > 0
      /\ lambda[w].at = "idle"
      /\ lambda' = [lambda EXCEPT ![w] = [at |-> "waiting", tick |-> m[1],
                                          attempt |-> m[2],
                                          answer |-> "none"]]
  BY DEF Receive, Deliver
<1>2. /\ lambda'[w].at = "waiting" /\ Token(w)' = m
      /\ lambda'[w].tick = m[1] /\ lambda'[w].attempt = m[2]
      /\ \A v \in Workers : v # w => lambda'[v] = lambda[v]
  BY <1>1 DEF TypeOK, Token
<1>3. \A n \in Ticks \X Attempts :
         /\ n # m => queue'[n] = queue[n]
         /\ queue'[n] > 0 => queue[n] > 0
  BY <1>1, RetryTypes DEF TypeOK
<1>4. sm.state # "absent"
  BY <1>1 DEF RetryInv, NotStarted
<1>5. AttemptsInOrder'
  BY <1>1, <1>2, <1>3 DEF RetryInv, AttemptsInOrder
<1>6. Spoiled' => Spoiled
  <2>1. Now' = Now /\ Now \in Ticks \X Attempts
    BY <1>1, RetryTypes DEF Now
  <2>2. ASSUME NEW v \in Workers, lambda'[v].at = "fail", Token(v)' = Now'
        PROVE  Spoiled
    BY <1>2, <2>1, <2>2 DEF Spoiled, Token
  <2>3. ASSUME queue'[Now] < MaxReceives, ~InHand(Now)'
        PROVE  Spoiled
    <3>1. m # Now
      BY <1>2, <2>1, <2>3 DEF InHand
    <3>2. ~InHand(Now)
      BY <1>1, <1>2, <2>1, <2>3 DEF InHand, Token
    <3> QED
      BY <1>3, <2>1, <2>3, <3>1, <3>2 DEF Spoiled
  <2> QED
    BY <2>1, <2>2, <2>3 DEF Spoiled
<1> QED
  BY <1>1, <1>4, <1>5, <1>6
     DEF RetryInv, NotStarted, RetriesPaid, FailsWithReason

\* An invocation that ends leaves no token behind.
LEMMA EndOfInvocation ==
  ASSUME TypeOK, NEW w \in Workers,
         lambda' = [lambda EXCEPT ![w] = NoLambda]
  PROVE  /\ lambda'[w].at = "idle"
         /\ \A v \in Workers : v # w => lambda'[v] = lambda[v]
         /\ \A v \in Workers : lambda'[v].at # "idle" => lambda'[v] = lambda[v]
BY DEF TypeOK, NoLambda

\* A report to a task that is over, or about another attempt, changes nothing
\* of the current one.
LEMMA StaleReport ==
  ASSUME TypeOK, RetryInv, NEW w \in Workers,
         UNCHANGED <<sm, queue, faults, creator>>,
         lambda' = [lambda EXCEPT ![w] = NoLambda],
         ~Current(Token(w))
  PROVE  RetryInv'
<1>1. /\ lambda'[w].at = "idle"
      /\ \A v \in Workers : v # w => lambda'[v] = lambda[v]
  BY EndOfInvocation
<1>2. sm.state = "task" => Token(w) # Now
  BY DEF Current, Now
<1>3. Now' = Now
  BY DEF Now
<1>4. sm.state = "task" => (Spoiled' => Spoiled)
  BY <1>1, <1>2, <1>3 DEF Spoiled, InHand, Token
<1> QED
  BY <1>1, <1>4
     DEF RetryInv, NotStarted, AttemptsInOrder, RetriesPaid, FailsWithReason

\* The answer the execution waits for ends the attempt without a retry.
LEMMA SuccessRetry ==
  ASSUME TypeOK, RetryInv, NEW w \in Workers, ReportSuccess(w)
  PROVE  RetryInv'
<1>1. lambda' = [lambda EXCEPT ![w] = NoLambda] /\ UNCHANGED <<faults, creator>>
  BY DEF ReportSuccess
<1>2. CASE ~Current(Token(w))
  <2>1. UNCHANGED <<sm, queue>>
    BY <1>2 DEF ReportSuccess
  <2> QED
    BY <1>1, <1>2, <2>1, StaleReport
<1>3. CASE Current(Token(w))
  <2>1. /\ sm' = [sm EXCEPT !.state = IF Proceeds(lambda[w].answer)
                                      THEN "wait" ELSE "done",
                            !.answer = lambda[w].answer]
        /\ queue' = [queue EXCEPT ![Token(w)] = 0]
    BY <1>3 DEF ReportSuccess
  <2>2. /\ sm'.state \in {"wait", "done"}
        /\ sm'.tick = sm.tick /\ sm'.attempt = sm.attempt
    BY <2>1 DEF TypeOK
  <2>3. sm.state = "task"
    BY <1>3 DEF Current
  <2>4. \A n \in Ticks \X Attempts : queue'[n] > 0 => queue[n] > 0
    BY <2>1 DEF TypeOK
  <2>5. AttemptsInOrder'
    BY <1>1, <2>2, <2>4, EndOfInvocation DEF RetryInv, AttemptsInOrder
  <2>6. NotStarted' /\ RetriesPaid' /\ FailsWithReason'
    BY <1>1, <2>2, <2>3
       DEF RetryInv, NotStarted, RetriesPaid, FailsWithReason
  <2> QED
    BY <2>5, <2>6 DEF RetryInv
<1> QED
  BY <1>2, <1>3

LEMMA FailureRetry ==
  ASSUME TypeOK, RetryInv, NEW w \in Workers, ReportFailure(w)
  PROVE  RetryInv'
<1>1. /\ lambda' = [lambda EXCEPT ![w] = NoLambda]
      /\ UNCHANGED <<faults, creator>>
      /\ lambda[w].at = "fail"
  BY DEF ReportFailure
<1>2. CASE ~Current(Token(w))
  <2>1. UNCHANGED <<sm, queue>>
    BY <1>2 DEF ReportFailure
  <2> QED
    BY <1>1, <1>2, <2>1, StaleReport
<1>3. CASE Current(Token(w))
  <2>1. sm.state = "task" /\ Token(w) = Now /\ Retry({Token(w)})
    BY <1>3 DEF ReportFailure, Current, Now
  <2>2. Spoiled
    BY <1>1, <2>1 DEF Spoiled
  <2>3. faults' \in Nat /\ faults' >= sm.attempt
    BY <1>1, <2>1, <2>2, RetryTypes DEF RetryInv, RetriesPaid
  <2>4. \A v \in Workers : lambda'[v].at # "idle" => lambda'[v] = lambda[v]
    BY <1>1, EndOfInvocation
  <2> QED
    BY <1>1, <2>1, <2>3, <2>4, PaidRetry
<1> QED
  BY <1>2, <1>3

\* A task that times out costs a fault, or its message had used up one.
LEMMA TimeoutRetry ==
  ASSUME TypeOK, RetryInv, TaskTimeout \/ TaskUnanswered
  PROVE  RetryInv'
<1>1. UNCHANGED <<creator, lambda>> /\ sm.state = "task" /\ Retry({})
  BY DEF TaskTimeout, TaskUnanswered
<1>2. faults' \in Nat /\ faults' >= sm.attempt
  <2>1. CASE TaskTimeout
    BY <2>1, RetryTypes DEF TaskTimeout, Fault, RetryInv, RetriesPaid
  <2>2. CASE TaskUnanswered
    <3>1. queue[Now] = 0 /\ ~InHand(Now) /\ UNCHANGED faults
      BY <2>2 DEF TaskUnanswered, Now
    <3>2. Spoiled
      BY <3>1, RetryTypes DEF Spoiled
    <3> QED
      BY <1>1, <3>1, <3>2, RetryTypes DEF RetryInv, RetriesPaid
  <2> QED
    BY <2>1, <2>2
<1> QED
  BY <1>1, <1>2, PaidRetry

LEMMA StartRetry ==
  ASSUME TypeOK, RetryInv, StartExecution
  PROVE  RetryInv'
<1>1. sm.state = "absent" /\ sm.tick = 0 /\ sm.attempt = 1
  BY DEF StartExecution, RetryInv, NotStarted
<1>2. /\ \A m \in Ticks \X Attempts : queue[m] = 0
      /\ \A w \in Workers : lambda[w].at = "idle"
  BY <1>1 DEF RetryInv, NotStarted
<1>3. /\ sm'.state = "task" /\ sm'.tick = 0 /\ sm'.attempt = 1
      /\ queue' = [queue EXCEPT ![<<0, 1>>] = MaxReceives]
      /\ creator' = "saveArn"
      /\ UNCHANGED <<lambda, faults>>
  BY <1>1 DEF StartExecution, TypeOK
<1>4. /\ Now' = <<0, 1>> /\ <<0, 1>> \in Ticks \X Attempts
      /\ queue'[<<0, 1>>] = MaxReceives
      /\ \A m \in Ticks \X Attempts : m # <<0, 1>> => queue'[m] = 0
  BY <1>2, <1>3, Numbers DEF Now, TypeOK
<1>5. AttemptsInOrder'
  <2>1. ASSUME NEW m \in Ticks \X Attempts, queue'[m] > 0
        PROVE  m[2] <= 1
    BY <1>4, <2>1
  <2> QED
    BY <1>2, <1>3, <2>1 DEF AttemptsInOrder
<1>6. ~Spoiled'
  BY <1>2, <1>3, <1>4, RetryTypes DEF Spoiled
<1>7. RetriesPaid'
  BY <1>3, <1>6, RetryTypes DEF RetriesPaid
<1> QED
  BY <1>3, <1>5, <1>7 DEF RetryInv, NotStarted, FailsWithReason

\* A new tick begins with a message nobody has, whatever is still on its way
\* about the earlier ones.
LEMMA NextTickRetry ==
  ASSUME TypeOK, TypeOK', NobodyIsAhead, RetryInv, NextTick
  PROVE  RetryInv'
<1>1. /\ sm.state = "wait"
      /\ sm'.state = "task" /\ sm'.tick = sm.tick + 1 /\ sm'.attempt = 1
      /\ queue' = [queue EXCEPT ![<<sm.tick + 1, 1>>] = MaxReceives]
      /\ UNCHANGED <<creator, lambda, faults>>
  BY DEF NextTick
<1>2. /\ Now' = <<sm.tick + 1, 1>> /\ Now' \in Ticks \X Attempts
      /\ queue'[Now'] = MaxReceives
      /\ \A m \in Ticks \X Attempts : m # Now' => queue'[m] = queue[m]
  <2>1. Now' = <<sm.tick + 1, 1>>
    BY <1>1 DEF Now
  <2>2. sm'.tick \in Ticks
    BY DEF TypeOK
  <2>3. Now' \in Ticks \X Attempts
    BY <1>1, <2>1, <2>2, Numbers
  <2> QED
    BY <1>1, <2>1, <2>3 DEF TypeOK
<1>3. \A w \in Workers : lambda[w].tick # sm.tick + 1
  <2>1. ASSUME NEW w \in Workers
        PROVE  lambda[w].tick <= sm.tick /\ lambda[w].tick \in Nat
    BY Numbers DEF NobodyIsAhead, TypeOK
  <2> QED
    BY <2>1, RetryTypes
<1>4. AttemptsInOrder'
  <2>1. ASSUME NEW m \in Ticks \X Attempts, queue'[m] > 0, m[1] = sm.tick + 1
        PROVE  m[2] <= 1
    <3>1. m \in Ticks \X Attempts /\ m[1] \in Nat
      BY Numbers
    <3>2. CASE m = Now'
      BY <1>2, <3>2
    <3>3. CASE m # Now'
      <4>1. m[1] <= sm.tick
        BY <1>2, <2>1, <3>3 DEF NobodyIsAhead
      <4> QED
        BY <2>1, <4>1, RetryTypes
    <3> QED
      BY <3>2, <3>3
  <2> QED
    BY <1>1, <1>3, <2>1 DEF AttemptsInOrder
<1>5. ~Spoiled'
  <2>1. \A w \in Workers : Token(w)' # Now'
    BY <1>1, <1>2, <1>3 DEF Token
  <2> QED
    BY <1>2, <2>1, RetryTypes DEF Spoiled
<1>6. RetriesPaid'
  BY <1>1, <1>5, RetryTypes DEF RetriesPaid
<1>7. NotStarted'
  BY <1>1 DEF RetryInv, NotStarted
<1> QED
  BY <1>1, <1>4, <1>6, <1>7 DEF RetryInv, FailsWithReason

\* What goes wrong keeps the tokens, gives them up, or takes one again.
LEMMA FaultyRetry ==
  ASSUME TypeOK, TypeOK', RetryInv,
         \/ CreateThrows \/ Crash
         \/ \E w \in Workers :
               \/ Throw(w) \/ LambdaAbort(w) \/ LambdaDies(w)
               \/ \E m \in Ticks \X Attempts : ReceiveAgain(w, m)
  PROVE  RetryInv'
<1> DEFINE Kept ==
      \A v \in Workers :
         lambda'[v].at # "idle" =>
            \/ /\ lambda[v].at # "idle"
               /\ lambda'[v].tick = lambda[v].tick
               /\ lambda'[v].attempt = lambda[v].attempt
            \/ queue[Token(v)'] > 0
<1> DEFINE Paid ==
      /\ UNCHANGED sm
      /\ faults' = faults + 1
      /\ creator' \in Early => creator \in Early
      /\ \A m \in Ticks \X Attempts : queue'[m] > 0 => queue[m] > 0
<1> SUFFICES Kept /\ Paid
  BY FaultRetries
<1>1. CASE CreateThrows
  BY <1>1 DEF CreateThrows, Fault, awsVars, Early
<1>2. CASE Crash
  <2>1. Paid
    BY <1>2 DEF Crash, Fault, awsVars, Early
  <2>2. ASSUME NEW v \in Workers
        PROVE  /\ lambda'[v].at # "idle" => lambda[v].at # "idle"
               /\ lambda'[v].tick = lambda[v].tick
               /\ lambda'[v].attempt = lambda[v].attempt
    <3>1. lambda[v] \in [at : LambdaStates, tick : Ticks,
                         attempt : Attempts, answer : Answers]
      BY DEF TypeOK
    <3>2. \/ lambda'[v] = lambda[v]
          \/ /\ lambda[v].at = "waiting"
             /\ lambda'[v] = [lambda[v] EXCEPT !.at = "fail"]
      BY <1>2 DEF Crash
    <3> QED
      BY <3>1, <3>2
  <2> QED
    BY <2>1, <2>2
<1>3. ASSUME NEW w \in Workers, Throw(w)
      PROVE  Kept /\ Paid
  <2>1. Paid
    BY <1>3 DEF Throw, Fault, awsVars
  <2>2. UNCHANGED lambda \/ Answer(w, "fail", "none")
    BY <1>3 DEF Throw
  <2>3. CASE UNCHANGED lambda
    BY <2>1, <2>3
  <2>4. CASE Answer(w, "fail", "none")
    <3>1. CASE lambda[w].at = "waiting"
      <4>1. lambda' = [lambda EXCEPT ![w].at = "fail", ![w].answer = "none"]
        BY <2>4, <3>1 DEF Answer
      <4>2. \A v \in Workers : v # w => lambda'[v] = lambda[v]
        BY <4>1 DEF TypeOK
      <4>3. /\ lambda'[w].tick = lambda[w].tick
            /\ lambda'[w].attempt = lambda[w].attempt
        BY <4>1 DEF TypeOK
      <4> QED
        BY <2>1, <3>1, <4>2, <4>3
    <3>2. CASE lambda[w].at # "waiting"
      BY <2>1, <2>4, <3>2 DEF Answer
    <3> QED
      BY <3>1, <3>2
  <2> QED
    BY <2>2, <2>3, <2>4
<1>4. ASSUME NEW w \in Workers, LambdaAbort(w) \/ LambdaDies(w)
      PROVE  Kept /\ Paid
  <2>1. Paid
    BY <1>4 DEF LambdaAbort, LambdaDies, Fault, awsVars
  <2>2. CASE LambdaAbort(w)
    BY <2>1, <2>2 DEF LambdaAbort, TypeOK
  <2>3. CASE LambdaDies(w)
    BY <2>1, <2>3, EndOfInvocation DEF LambdaDies
  <2> QED
    BY <1>4, <2>2, <2>3
<1>5. ASSUME NEW w \in Workers, NEW m \in Ticks \X Attempts,
             ReceiveAgain(w, m)
      PROVE  Kept /\ Paid
  <2>1. /\ UNCHANGED <<sm, creator>> /\ faults' = faults + 1
        /\ queue[m] > 0
        /\ queue' = [queue EXCEPT ![m] = @ - 1]
        /\ lambda' = [lambda EXCEPT ![w] = [at |-> "waiting", tick |-> m[1],
                                            attempt |-> m[2],
                                            answer |-> "none"]]
    BY <1>5 DEF ReceiveAgain, Deliver, Fault
  <2>2. Token(w)' = m /\ \A v \in Workers : v # w => lambda'[v] = lambda[v]
    BY <2>1 DEF TypeOK, Token
  <2>3. \A n \in Ticks \X Attempts : queue'[n] > 0 => queue[n] > 0
    BY <2>1, RetryTypes DEF TypeOK
  <2> QED
    BY <2>1, <2>2, <2>3
<1> QED
  BY <1>1, <1>2, <1>3, <1>4, <1>5

LEMMA QuietRetry ==
  ASSUME TypeOK, RetryInv,
         \/ Create \/ SaveArn \/ UNCHANGED vars
         \/ \E t \in Ticks : ChargeInsurance(t)
         \/ \E w \in Workers : CallStep(w)
  PROVE  RetryInv'
<1>1. CASE Create \/ SaveArn \/ UNCHANGED vars
           \/ \E t \in Ticks : ChargeInsurance(t)
  <2>1. UNCHANGED <<sm, queue, faults, lambda>>
    BY <1>1 DEF Create, SaveArn, vars, ChargeInsurance, awsVars
  <2>2. creator' \in Early => creator \in Early
    BY <1>1 DEF Create, SaveArn, vars, ChargeInsurance, Early
  <2>3. SameTokens
    BY <2>1 DEF SameTokens
  <2> QED
    BY <2>1, <2>2, <2>3, QuietRetries
<1>2. ASSUME NEW w \in Workers, CallStep(w)
      PROVE  RetryInv'
  BY <1>2, CallsHold, QuietRetries
<1> QED
  BY <1>1, <1>2

LEMMA InitRetry == Init => RetryInv
<1> SUFFICES ASSUME Init PROVE RetryInv
  OBVIOUS
<1>1. NotStarted /\ FailsWithReason /\ RetriesPaid
  BY DEF Init, NotStarted, FailsWithReason, RetriesPaid, NoLambda
<1>2. AttemptsInOrder
  BY DEF Init, AttemptsInOrder, NoLambda
<1> QED
  BY <1>1, <1>2 DEF RetryInv

LEMMA NextRetry == IndInv /\ IndInv' /\ RetryInv /\ [Next]_vars => RetryInv'
<1> SUFFICES ASSUME TypeOK, TypeOK', NobodyIsAhead, RetryInv, [Next]_vars
             PROVE  RetryInv'
  BY DEF IndInv
<1>1. CASE Create \/ SaveArn \/ UNCHANGED vars
           \/ \E t \in Ticks : ChargeInsurance(t)
  BY <1>1, QuietRetry
<1>2. CASE StartExecution
  BY <1>2, StartRetry
<1>3. CASE CreateThrows \/ Crash
  BY <1>3, FaultyRetry
<1>4. CASE TaskTimeout \/ TaskUnanswered
  BY <1>4, TimeoutRetry
<1>5. CASE NextTick
  BY <1>5, NextTickRetry
<1>6. ASSUME NEW w \in Workers,
             CallStep(w) \/ LambdaStep(w) \/ Throw(w) \/ LambdaAbort(w)
                \/ LambdaDies(w)
      PROVE  RetryInv'
  BY <1>6, QuietRetry, FaultyRetry, SuccessRetry, FailureRetry
     DEF LambdaStep
<1>7. ASSUME NEW w \in Workers, NEW m \in Ticks \X Attempts,
             Receive(w, m) \/ ReceiveAgain(w, m)
      PROVE  RetryInv'
  BY <1>7, ReceiveRetry, FaultyRetry
<1> QED
  BY <1>1, <1>2, <1>3, <1>4, <1>5, <1>6, <1>7 DEF Next

\* An execution that fails saw more go wrong than it may retry: late answers,
\* messages that come twice and outcomes nobody heard cost no retry.
THEOREM RetriesHaveReasons == Spec => []FailsWithReason
<1>1. RetryInv => FailsWithReason
  BY DEF RetryInv
<1> QED
  BY <1>1, InitRetry, NextRetry, SubscriptionInductive, PTL DEF Spec
=============================================================================
