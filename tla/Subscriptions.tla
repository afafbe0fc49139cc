---------------------------- MODULE Subscriptions ----------------------------
(***************************************************************************)
(* One subscription, from POST /subscriptions to the end of its state      *)
(* machine: SubscriptionsService (create, processTick) and                 *)
(* SubscriptionEngineService in the backend, the dispatcher lambda, the    *)
(* tick queue and the Step Functions execution that drives the ticks.      *)
(* Subscriptions share no state, so one stands for all of them.            *)
(*                                                                         *)
(* A tick crosses three processes that fail on their own.  A timeout of    *)
(* one (the lambda's 15 s fetch, the task's 60 s) does not stop what       *)
(* another has begun, so several attempts of one tick run at once, and     *)
(* processTick reads and writes in one READ COMMITTED transaction whose    *)
(* only protection is the unique idempotencyKey.                           *)
(*                                                                         *)
(* The queue and the execution are external AWS services, configured by    *)
(* infra/subscriptions.                                                    *)
(***************************************************************************)
EXTENDS Integers, Sequences, FiniteSets

CONSTANTS
    Workers,      \* lambda invocations, each with its call to the backend
    Budgets, Prices, Amounts,  \* what a customer and the quote may ask for
    MaxAmount,    \* bound: the largest amount
    MaxRetries,   \* Retry.MaxAttempts of DispatchTick (3)
    MaxReceives,  \* maxReceiveCount of the tick queue (5)
    MaxFaults,    \* bound: timeouts, crashes, errors, second deliveries
    Hops,         \* what getNextHop may answer: a subset of {"hop", "none"}
    Insured       \* TRUE: the packages are insured

ASSUME SubscriptionsAssumption ==
    /\ Budgets \subseteq Nat
    /\ Prices \subseteq Nat
    /\ MaxAmount \in Nat
    /\ Amounts \subseteq 1..MaxAmount
    /\ MaxRetries \in Nat
    /\ MaxReceives \in Nat \ {0}
    /\ MaxFaults \in Nat
    /\ Hops \subseteq {"hop", "none"}
    /\ Insured \in BOOLEAN

Ticks == 0..MaxAmount
Attempts == 1..(MaxRetries + 1)
Charged == {"triggered", "sent", "failed", "expired-insured"}

VARIABLES
    sub,        \* the Subscription row; status "absent" before it exists
    rows,       \* rows[t]: status of the SubscriptionShipment of tick t
    ledger,     \* the BudgetLedgerEntry rows, in the order of createdAt
    creator,    \* where POST /subscriptions is
    sm,         \* the execution: state, tick number, attempt of the task
    queue,      \* queue[<<t, a>>]: deliveries left of the message of attempt a
    lambda,     \* lambda[w]: what the invocation is doing, and for which token
    call,       \* call[w]: the backend's handling of POST /tick
    published,  \* published[t]: packages handed to the broker for tick t
    insurance,  \* the ticks whose package has its `insurance:` claim
    faults

vars == <<sub, rows, ledger, creator, sm, queue, lambda, call, published,
          insurance, faults>>

dbVars == <<sub, rows, ledger>>
awsVars == <<sm, queue>>

-----------------------------------------------------------------------------
NoLambda == [at |-> "idle", tick |-> 0, attempt |-> 1, answer |-> "none"]
NoCall == [pc |-> "idle", tick |-> 0, spent |-> 0, sent |-> 0]

Init ==
    /\ sub = [status |-> "absent", budget |-> 0, price |-> 0, amount |-> 1,
              spent |-> 0, sent |-> 0]
    /\ rows = [t \in Ticks |-> "none"]
    /\ ledger = <<>>
    /\ creator = "none"
    /\ sm = [state |-> "absent", tick |-> 0, attempt |-> 1, answer |-> "none"]
    /\ queue = [m \in Ticks \X Attempts |-> 0]
    /\ lambda = [w \in Workers |-> NoLambda]
    /\ call = [w \in Workers |-> NoCall]
    /\ published = [t \in Ticks |-> 0]
    /\ insurance = {}
    /\ faults = 0

Fault == faults < MaxFaults /\ faults' = faults + 1

-----------------------------------------------------------------------------
(* POST /subscriptions *)

\* The transaction that creates the row and the initial ledger entry.
Create ==
    /\ creator = "none"
    /\ \E budget \in Budgets, price \in Prices, amount \in Amounts :
          /\ price <= budget
          /\ sub' = [status |-> "active", budget |-> budget, price |-> price,
                     amount |-> amount, spent |-> 0, sent |-> 0]
          /\ ledger' = <<[delta |-> budget, balanceAfter |-> budget]>>
    /\ creator' = "start"
    /\ UNCHANGED <<rows, awsVars, lambda, call, published, insurance, faults>>

\* StartExecution, outside the transaction: Initialize, then the first tick.
StartExecution ==
    /\ creator = "start"
    /\ sm' = [sm EXCEPT !.state = "task"]
    /\ queue' = [queue EXCEPT ![<<0, 1>>] = MaxReceives]
    /\ creator' = "saveArn"
    /\ UNCHANGED <<dbVars, lambda, call, published, insurance, faults>>

SaveArn ==
    /\ creator = "saveArn"
    /\ creator' = "done"
    /\ UNCHANGED <<dbVars, awsVars, lambda, call, published, insurance,
                   faults>>

\* No ARN configured, AWS refuses, or the update throws: a 500, and the
\* active row stays.
CreateThrows ==
    /\ creator \in {"start", "saveArn"}
    /\ Fault
    /\ creator' = "failed"
    /\ UNCHANGED <<dbVars, awsVars, lambda, call, published, insurance>>

-----------------------------------------------------------------------------
(* POST /subscriptions/:id/tick: processTick, then dispatch.  A call that   *)
(* ends answers its lambda, unless the lambda has stopped waiting.          *)

Calling(w, pc) == call[w].pc = pc
GoCall(w, pc) == call' = [call EXCEPT ![w].pc = pc]

Answer(w, at, answer) ==
    /\ call' = [call EXCEPT ![w] = NoCall]
    /\ lambda' = IF lambda[w].at = "waiting"
                 THEN [lambda EXCEPT ![w].at = at, ![w].answer = answer]
                 ELSE lambda

\* findUnique of the idempotencyKey.
FindTick(w) ==
    /\ Calling(w, "find")
    /\ IF rows[call[w].tick] # "none"
       THEN Answer(w, "report", "duplicate")
       ELSE GoCall(w, "load") /\ UNCHANGED lambda
    /\ UNCHANGED <<dbVars, creator, awsVars, published, insurance, faults>>

\* Mutant of OutOfBudget: the last shipment the budget pays is not made.
OutOfBudget_AtPrice == sub.budget - sub.spent <= sub.price

OutOfBudget == sub.budget - sub.spent < sub.price

\* The gate, on a copy of the row that later steps write back.
LoadSubscription(w) ==
    /\ Calling(w, "load")
    /\ \/ /\ sub.status # "active" \/ sub.sent >= sub.amount
          /\ sub' = IF sub.status = "active"
                    THEN [sub EXCEPT !.status = "completed"]
                    ELSE sub
          /\ Answer(w, "report", IF sub.status = "active" THEN "completed"
                                                          ELSE "inactive")
       \/ /\ sub.status = "active"
          /\ sub.sent < sub.amount
          /\ call' = [call EXCEPT ![w] =
                        [pc |-> IF OutOfBudget THEN "skip" ELSE "charge",
                         tick |-> @.tick,
                         spent |-> sub.spent,
                         sent |-> sub.sent]]
          /\ UNCHANGED <<sub, lambda>>
    /\ UNCHANGED <<rows, ledger, creator, awsVars, published, insurance,
                   faults>>

\* The rest of the transaction and its commit.  The unique key makes the
\* insert fail (P2002) when another attempt of the tick committed first:
\* everything is rolled back and the answer is `duplicate`.
SkipTick(w) ==
    /\ Calling(w, "skip")
    /\ LET t == call[w].tick IN
         \/ /\ rows[t] = "none"
            /\ rows' = [rows EXCEPT ![t] = "skipped-no-budget"]
            /\ sub' = [sub EXCEPT !.status = "exhausted"]
            /\ Answer(w, "report", "skipped-no-budget")
         \/ /\ rows[t] # "none"
            /\ Answer(w, "report", "duplicate")
            /\ UNCHANGED <<rows, sub>>
    /\ UNCHANGED <<ledger, creator, awsVars, published, insurance, faults>>

Debit(w) ==
    LET spent == call[w].spent + sub.price
        sent == call[w].sent + 1
    IN  /\ sub' = [sub EXCEPT
                     !.spent = spent,
                     !.sent = sent,
                     !.status = IF sent >= sub.amount THEN "completed"
                                                      ELSE "active"]
        /\ ledger' = Append(ledger,
                        [delta |-> - sub.price,
                         balanceAfter |-> sub.budget - spent])

\* Mutant of ChargeTick: no unique key on the shipment's row.
ChargeTick_NoUniqueKey(w) ==
    /\ Calling(w, "charge")
    /\ rows' = [rows EXCEPT ![call[w].tick] = "triggered"]
    /\ Debit(w)
    /\ GoCall(w, "send")
    /\ UNCHANGED <<lambda, creator, awsVars, published, insurance, faults>>

\* Mutant of ChargeTick: the debit is written before the insert fails, in a
\* transaction of its own.
ChargeTick_NotAtomic(w) ==
    /\ Calling(w, "charge")
    /\ LET t == call[w].tick IN
         /\ Debit(w)
         /\ \/ /\ rows[t] = "none"
               /\ rows' = [rows EXCEPT ![t] = "triggered"]
               /\ GoCall(w, "send")
               /\ UNCHANGED lambda
            \/ /\ rows[t] # "none"
               /\ Answer(w, "report", "duplicate")
               /\ UNCHANGED rows
    /\ UNCHANGED <<creator, awsVars, published, insurance, faults>>

ChargeTick(w) ==
    /\ Calling(w, "charge")
    /\ LET t == call[w].tick IN
         \/ /\ rows[t] = "none"
            /\ rows' = [rows EXCEPT ![t] = "triggered"]
            /\ Debit(w)
            /\ GoCall(w, "send")
            /\ UNCHANGED lambda
         \/ /\ rows[t] # "none"
            /\ Answer(w, "report", "duplicate")
            /\ UNCHANGED <<rows, sub, ledger>>
    /\ UNCHANGED <<creator, awsVars, published, insurance, faults>>

\* dispatch -> InitialShipmentService.send of a new package: its claim
\* `initial:<packageId>` is never taken, so sending is one step.
SendPackage(w) ==
    /\ Calling(w, "send")
    /\ \/ /\ "hop" \in Hops
          /\ published' = [published EXCEPT ![call[w].tick] = @ + 1]
          /\ GoCall(w, "markSent")
       \/ /\ "none" \in Hops
          /\ GoCall(w, "markFailed")
          /\ UNCHANGED published
    /\ UNCHANGED <<dbVars, lambda, creator, awsVars, insurance, faults>>

\* The update after the send; the catch's update swallows the error, and the
\* answer is `triggered` either way.
MarkRow(w, pc, status) ==
    /\ Calling(w, pc)
    /\ rows' = [rows EXCEPT ![call[w].tick] = status]
    /\ Answer(w, "report", "triggered")
    /\ UNCHANGED <<sub, ledger, creator, awsVars, published, insurance,
                   faults>>

MarkSent(w) == MarkRow(w, "markSent", "sent")
MarkFailed(w) == MarkRow(w, "markFailed", "failed")

\* A statement or the broker throws: dispatch catches what happens while
\* sending and writes `failed`; everything else is a 500, the statement
\* before its try block included.
Throw(w) ==
    /\ ~Calling(w, "idle")
    /\ Fault
    /\ \/ /\ call[w].pc \in {"send", "markSent"}
          /\ GoCall(w, "markFailed")
          /\ UNCHANGED lambda
       \/ /\ ~Calling(w, "markSent")
          /\ Answer(w, "fail", "none")
    /\ UNCHANGED <<dbVars, creator, awsVars, published, insurance>>

\* The backend dies with its calls; the lambdas see a broken connection.
Crash ==
    /\ Fault
    /\ call' = [w \in Workers |-> NoCall]
    /\ lambda' = [w \in Workers |->
                    IF lambda[w].at = "waiting"
                    THEN [lambda[w] EXCEPT !.at = "fail"]
                    ELSE lambda[w]]
    /\ creator' = IF creator \in {"start", "saveArn"} THEN "failed"
                                                      ELSE creator
    /\ UNCHANGED <<dbVars, awsVars, published, insurance>>

-----------------------------------------------------------------------------
(* The dispatcher lambda and the queue that invokes it.                     *)

Token(w) == <<lambda[w].tick, lambda[w].attempt>>
InHand(m) == \E w \in Workers : lambda[w].at # "idle" /\ Token(w) = m

\* SQS delivers a message; the lambda posts the tick.
Deliver(w, m) ==
    /\ lambda[w].at = "idle"
    /\ Calling(w, "idle")
    /\ queue[m] > 0
    /\ queue' = [queue EXCEPT ![m] = @ - 1]
    /\ lambda' = [lambda EXCEPT ![w] = [at |-> "waiting", tick |-> m[1],
                                        attempt |-> m[2], answer |-> "none"]]
    /\ call' = [call EXCEPT ![w] = [pc |-> "find", tick |-> m[1],
                                    spent |-> 0, sent |-> 0]]
    /\ UNCHANGED <<dbVars, creator, sm, published, insurance>>

Receive(w, m) == ~InHand(m) /\ Deliver(w, m) /\ UNCHANGED faults

\* At-least-once delivery: the message is being handled already.
ReceiveAgain(w, m) == InHand(m) /\ Deliver(w, m) /\ Fault

\* The fetch is aborted after 15 s, or SendTaskSuccess throws: SendTaskFailure
\* is next.  A call that was begun goes on.
LambdaAbort(w) ==
    /\ lambda[w].at \in {"waiting", "report"}
    /\ Fault
    /\ lambda' = [lambda EXCEPT ![w].at = "fail", ![w].answer = "none"]
    /\ UNCHANGED <<dbVars, creator, awsVars, call, published, insurance>>

\* The invocation dies and its message becomes visible again.
LambdaDies(w) ==
    /\ lambda[w].at # "idle"
    /\ Fault
    /\ lambda' = [lambda EXCEPT ![w] = NoLambda]
    /\ UNCHANGED <<dbVars, creator, awsVars, call, published, insurance>>

\* Mutant of Current: any answer moves the execution.
Current_AnyToken(m) == sm.state = "task"

\* The execution still waits for this token.
Current(m) == sm.state = "task" /\ m = <<sm.tick, sm.attempt>>

\* Mutants of Proceeds: a repeated tick stops the execution; nothing does.
Proceeds_OnlyTriggered(status) == status = "triggered"
Proceeds_Always(status) == status # "none"

\* EvaluateStatus.
Proceeds(status) == status \in {"triggered", "duplicate"}

\* SendTaskSuccess.  A token that is no longer current makes it throw, and
\* the SendTaskFailure of the catch too: the message stays in the queue.
ReportSuccess(w) ==
    /\ lambda[w].at = "report"
    /\ LET answer == lambda[w].answer IN
         \/ /\ Current(Token(w))
            /\ sm' = [sm EXCEPT
                        !.state = IF Proceeds(answer) THEN "wait" ELSE "done",
                        !.answer = answer]
            /\ queue' = [queue EXCEPT ![Token(w)] = 0]
         \/ /\ ~Current(Token(w))
            /\ UNCHANGED <<sm, queue>>
    /\ lambda' = [lambda EXCEPT ![w] = NoLambda]
    /\ UNCHANGED <<dbVars, creator, call, published, insurance, faults>>

\* Mutant of RetriesLeft: the first attempt is counted as a retry.
RetriesLeft_OneLess == sm.attempt < MaxRetries

RetriesLeft == sm.attempt <= MaxRetries

\* DispatchTick's Retry, with a new token and a new message, then its Catch.
\* done is the message the lambda deletes, or {}.
Retry(done) ==
    LET rest == [m \in DOMAIN queue |-> IF m \in done THEN 0 ELSE queue[m]]
    IN  IF RetriesLeft
        THEN /\ sm' = [sm EXCEPT !.attempt = @ + 1]
             /\ queue' = [rest EXCEPT ![<<sm.tick, sm.attempt + 1>>] =
                                                                MaxReceives]
        ELSE /\ sm' = [sm EXCEPT !.state = "failed"]
             /\ queue' = rest

\* SendTaskFailure.
ReportFailure(w) ==
    /\ lambda[w].at = "fail"
    /\ \/ Current(Token(w)) /\ Retry({Token(w)})
       \/ ~Current(Token(w)) /\ UNCHANGED <<sm, queue>>
    /\ lambda' = [lambda EXCEPT ![w] = NoLambda]
    /\ UNCHANGED <<dbVars, creator, call, published, insurance, faults>>

\* TimeoutSeconds (60) of the task passes while somebody may still answer.
TaskTimeout ==
    /\ sm.state = "task"
    /\ Fault
    /\ Retry({})
    /\ UNCHANGED <<dbVars, creator, lambda, call, published, insurance>>

\* It passes because nobody is left to answer.
TaskUnanswered ==
    /\ sm.state = "task"
    /\ queue[<<sm.tick, sm.attempt>>] = 0
    /\ ~InHand(<<sm.tick, sm.attempt>>)
    /\ Retry({})
    /\ UNCHANGED <<dbVars, creator, lambda, call, published, insurance,
                   faults>>

\* WaitPeriod ends, IncrementTick, and DispatchTick again.
NextTick ==
    /\ sm.state = "wait"
    /\ sm' = [state |-> "task", tick |-> sm.tick + 1, attempt |-> 1,
              answer |-> "none"]
    /\ queue' = [queue EXCEPT ![<<sm.tick + 1, 1>>] = MaxReceives]
    /\ UNCHANGED <<dbVars, creator, lambda, call, published, insurance,
                   faults>>

-----------------------------------------------------------------------------
\* InsuranceService.chargeInsurance, when the package of tick t expired on
\* its way: one claim per package, then the row that has its packageId.
ChargeInsurance(t) ==
    /\ Insured
    /\ published[t] > 0
    /\ t \notin insurance
    /\ insurance' = insurance \cup {t}
    /\ rows' = [rows EXCEPT ![t] = IF @ \in {"sent", "failed"}
                                   THEN "expired-insured" ELSE @]
    /\ UNCHANGED <<sub, ledger, creator, awsVars, lambda, call, published,
                   faults>>

\* The rest of a call, and of an invocation.
CallStep(w) ==
    \/ FindTick(w) \/ LoadSubscription(w) \/ SkipTick(w) \/ ChargeTick(w)
    \/ SendPackage(w) \/ MarkSent(w) \/ MarkFailed(w)

LambdaStep(w) == ReportSuccess(w) \/ ReportFailure(w)

Next ==
    \/ Create \/ StartExecution \/ SaveArn \/ CreateThrows
    \/ \E w \in Workers :
          \/ CallStep(w) \/ LambdaStep(w)
          \/ Throw(w) \/ LambdaAbort(w) \/ LambdaDies(w)
          \/ \E m \in Ticks \X Attempts :
                Receive(w, m) \/ ReceiveAgain(w, m)
    \/ TaskTimeout \/ TaskUnanswered \/ NextTick \/ Crash
    \/ \E t \in Ticks : ChargeInsurance(t)

Spec == Init /\ [][Next]_vars

\* A handler and an invocation that run go on, AWS delivers, times out and
\* waits out the period.  Nothing has to fail, and no package has to expire.
FairSpec ==
    /\ Spec
    /\ \A w \in Workers : WF_vars(CallStep(w)) /\ WF_vars(LambdaStep(w))
    /\ \A m \in Ticks \X Attempts : WF_vars(\E w \in Workers : Receive(w, m))
    /\ WF_vars(TaskUnanswered) /\ WF_vars(NextTick)
=============================================================================
