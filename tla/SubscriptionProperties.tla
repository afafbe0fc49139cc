----------------------- MODULE SubscriptionProperties -----------------------
(***************************************************************************)
(* What must hold of Subscriptions.                                        *)
(***************************************************************************)
EXTENDS Subscriptions

LambdaStates == {"idle", "waiting", "report", "fail"}
CallStates ==
    {"idle", "find", "load", "skip", "charge", "send", "markSent",
     "markFailed"}
Answers ==
    {"none", "triggered", "duplicate", "inactive", "completed",
     "skipped-no-budget"}

\* Every variable keeps the shape its table or record has.
TypeOK ==
    /\ sub \in [status : {"absent", "active", "completed", "exhausted"},
                budget : Nat, price : Nat, amount : 1..(MaxAmount + 1),
                spent : Nat, sent : 0..MaxAmount]
    /\ rows \in [Ticks -> Charged \cup {"none", "skipped-no-budget"}]
    /\ ledger \in Seq([delta : Int, balanceAfter : Int])
    /\ creator \in {"none", "start", "saveArn", "done", "failed"}
    /\ sm \in [state : {"absent", "task", "wait", "done", "failed"},
               tick : Ticks, attempt : Attempts, answer : Answers]
    /\ queue \in [Ticks \X Attempts -> 0..MaxReceives]
    /\ lambda \in [Workers -> [at : LambdaStates, tick : Ticks,
                               attempt : Attempts, answer : Answers]]
    /\ call \in [Workers -> [pc : CallStates, tick : Ticks, spent : Nat,
                             sent : 0..MaxAmount]]
    /\ published \in [Ticks -> Nat]
    /\ insurance \subseteq Ticks
    /\ faults \in 0..MaxFaults

ChargedTicks == {t \in Ticks : rows[t] \in Charged}

\* The three records of one charge agree, although each is written from a
\* copy read earlier: the ledger is a running balance that ends at what is
\* left of the budget, with one debit per charged tick, and the counters of
\* the subscription count those ticks.
BooksBalance ==
    ledger # <<>> =>
      /\ ledger[Len(ledger)].balanceAfter = sub.budget - sub.spent
      /\ \A i \in 2..Len(ledger) :
            ledger[i].balanceAfter =
              ledger[i - 1].balanceAfter + ledger[i].delta
      /\ Len(ledger) = 1 + sub.sent
      /\ sub.sent = Cardinality(ChargedTicks)
      /\ sub.spent = sub.price * sub.sent

\* Repeated attempts of a tick spend neither more than the budget nor more
\* than the amount, and a subscription that can pay a shipment at all.
NeverOverspent ==
    /\ sub.spent <= sub.budget
    /\ sub.sent <= sub.amount
    /\ sub.status = "exhausted" => sub.sent > 0

\* At most one package leaves for a tick, however often the queue delivers
\* it and the execution retries it, and only for a tick that was charged.
OnePackagePerTick ==
    \A t \in Ticks :
        /\ published[t] <= 1
        /\ published[t] = 1 => rows[t] \in Charged

\* The execution moves on only over a tick whose outcome is stored, and makes
\* at most amount + 1 of them (docs/step-functions.md:154), even when the
\* retry of the tick that found no budget is told `duplicate` and goes on.
NoTickIsSkipped ==
    /\ \A t \in Ticks : t < sm.tick => rows[t] # "none"
    /\ sm.tick <= sub.amount

\* The execution ends normally only when the subscription is over: an answer
\* to an old attempt cannot stop it with budget and amount left.
EndsWhenOver == sm.state = "done" => sub.status \in {"completed", "exhausted"}

\* The subscription, with all its processes, keeps the promise.
Promise == INSTANCE BudgetPromise WITH
    open <- sub.status = "active",
    price <- sub.price,
    left <- sub.amount - sub.sent,
    balance <- sub.budget - sub.spent,
    charged <- ChargedTicks,
    shipped <- published

KeepsBudget == Promise!Spec

\* An execution ends in its Fail state only when more than MaxRetries things
\* went wrong: no retry is spent on what an old attempt answers, on a message
\* that comes twice or on an outcome that was stored but not heard.
FailsWithReason == sm.state = "failed" => faults > MaxRetries

\* An execution that has begun ends normally, and not in its Fail state,
\* when at most MaxRetries things go wrong: an attempt that failed is
\* retried, and a retry of a tick that was charged is a `duplicate`, which
\* goes on.
ExecutionFinishes ==
    sm.state = "task" ~> sm.state = "done" \/ faults > MaxRetries

-----------------------------------------------------------------------------
(* The inductive invariant of SubscriptionProofs, in parts.                *)

Over == {"completed", "exhausted"}

\* The row and the first entry of the ledger exist together, before any call,
\* message or execution.
BegunTogether ==
    /\ creator = "none" =>
          /\ sub.status = "absent"
          /\ sub.sent = 0
          /\ sub.spent = 0
          /\ ledger = <<>>
          /\ sm.state = "absent"
          /\ sm.tick = 0
          /\ \A w \in Workers : call[w].pc = "idle"
          /\ \A m \in Ticks \X Attempts : queue[m] = 0
    /\ creator # "none" =>
          /\ sub.status # "absent"
          /\ ledger # <<>>
          /\ sub.price <= sub.budget
          /\ sub.amount <= MaxAmount

\* BooksBalance without the count of the charged ticks.
BooksKept ==
    /\ sub.spent = sub.price * sub.sent
    /\ sub.spent <= sub.budget
    /\ ledger # <<>> =>
          /\ Len(ledger) = 1 + sub.sent
          /\ ledger[Len(ledger)].balanceAfter = sub.budget - sub.spent
          /\ \A i \in 2..Len(ledger) :
                ledger[i].balanceAfter =
                  ledger[i - 1].balanceAfter + ledger[i].delta

\* The ticks are charged in their order, and at most one more is skipped.
FilledInOrder ==
    /\ sub.sent <= sub.amount
    /\ sub.status = "active" => sub.sent < sub.amount
    /\ sub.status = "exhausted" => 0 < sub.sent /\ sub.sent < sub.amount
    /\ \A t \in Ticks :
          /\ rows[t] \in Charged <=> t < sub.sent
          /\ rows[t] = "skipped-no-budget"
                <=> sub.status = "exhausted" /\ t = sub.sent

\* Nothing is about a tick the execution has not come to, and what it has
\* passed is stored.
NobodyIsAhead ==
    /\ \A t \in Ticks : t < sm.tick => rows[t] # "none"
    /\ sm.state = "wait" => rows[sm.tick] # "none"
    /\ sm.tick <= sub.amount
    /\ \A m \in Ticks \X Attempts : queue[m] > 0 => m[1] <= sm.tick
    /\ \A w \in Workers : lambda[w].tick <= sm.tick /\ call[w].tick <= sm.tick

\* The copy a call will write back is still what the row says, or else its
\* tick is stored and the call will be rolled back.
CopiesAreFresh ==
    \A w \in Workers :
        /\ call[w].pc \in {"charge", "skip"}
        /\ rows[call[w].tick] = "none"
        => /\ sub.status = "active"
           /\ call[w].spent = sub.spent
           /\ call[w].sent = sub.sent
           /\ call[w].pc = "charge" <=> ~OutOfBudget

\* Only the call that charged a tick sends its package.
OneSender ==
    /\ \A w \in Workers :
          /\ call[w].pc \in {"send", "markSent", "markFailed"}
                => rows[call[w].tick] \in Charged
          /\ call[w].pc = "send" => published[call[w].tick] = 0
    /\ \A v, w \in Workers :
          /\ call[v].pc = "send"
          /\ call[w].pc = "send"
          /\ call[v].tick = call[w].tick
          => v = w

\* An invocation that waits has its call, and what it is going to report is
\* still true.
AnswersAreTrue ==
    \A w \in Workers :
        /\ lambda[w].at = "waiting" =>
              call[w].pc # "idle" /\ call[w].tick = lambda[w].tick
        /\ lambda[w].at = "report" =>
              \/ /\ lambda[w].answer \in {"triggered", "duplicate"}
                 /\ rows[lambda[w].tick] # "none"
              \/ /\ lambda[w].answer \notin {"triggered", "duplicate"}
                 /\ sub.status \in Over

IndInv ==
    /\ TypeOK
    /\ BegunTogether
    /\ BooksKept
    /\ FilledInOrder
    /\ NobodyIsAhead
    /\ CopiesAreFresh
    /\ OneSender
    /\ OnePackagePerTick
    /\ AnswersAreTrue
    /\ EndsWhenOver

-----------------------------------------------------------------------------
(* What FailsWithReason needs besides.                                     *)

Now == <<sm.tick, sm.attempt>>

\* Before the execution starts there is neither a message nor an invocation.
NotStarted ==
    /\ creator \in {"none", "start"} => sm.state = "absent"
    /\ sm.state = "absent" =>
          /\ sm.tick = 0
          /\ sm.attempt = 1
          /\ \A m \in Ticks \X Attempts : queue[m] = 0
          /\ \A w \in Workers : lambda[w].at = "idle"

\* No token is of a later attempt than the one the execution waits for.
AttemptsInOrder ==
    /\ \A m \in Ticks \X Attempts :
          queue[m] > 0 /\ m[1] = sm.tick => m[2] <= sm.attempt
    /\ \A w \in Workers :
          lambda[w].at # "idle" /\ lambda[w].tick = sm.tick
            => lambda[w].attempt <= sm.attempt

\* The attempt will fail: an invocation is about to say so, or one has died.
Spoiled ==
    \/ \E w \in Workers : lambda[w].at = "fail" /\ Token(w) = Now
    \/ queue[Now] < MaxReceives /\ ~InHand(Now)

\* Something went wrong for each retry, and for one that is to come.
RetriesPaid ==
    sm.state = "task" =>
        /\ faults >= sm.attempt - 1
        /\ Spoiled => faults >= sm.attempt

RetryInv ==
    /\ NotStarted
    /\ AttemptsInOrder
    /\ RetriesPaid
    /\ FailsWithReason
=============================================================================
