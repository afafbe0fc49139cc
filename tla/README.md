# CityExpress: verification project

TLA+ models of the CityExpress backend of group 15 (a NestJS process, a job
service, a lambda and a state machine), TLC configurations that check them, and
proofs that TLAPS checks. Paths are relative to the repository, which is `src/`
here: the backend's own sources are under `src/src/`.

A city of the federation sells shipments to its customers (one at a time, paid
through Webpay, or by subscription, prepaid), sends their packages to the next
city of their route over an AMQP broker, and passes on the packages of other
cities. What is hard in it is the same everywhere: several handlers of one
process are in progress at once, each of them waits between two statements
while others move the same rows; the process dies and restarts; every callback,
message and job comes at least once; and most protections are one unique key or
one conditional update. The models keep exactly these: a handler is split where
it awaits, rows survive a crash and memory does not, deliveries repeat.

## 1. The system

| Component | State | Operations | Modelled in |
|---|---|---|---|
| Payments (`src/src/payments`) | `Payment`, `UserShipment.status` | `initPayment`, `commitPayment` with `finalize`, `waitForFinalState` | Payments |
| Initial shipment (`src/src/shipments/initial-shipment.service.ts`) | `PackageEvent` rows `initial:<id>` | `send` | Payments, Subscriptions |
| Shipments and quote | `UserShipment` | `createShipment`, reads | not modelled |
| Pricing | none | arithmetic | not modelled |
| Subscriptions (`src/src/subscriptions`) | `Subscription`, `SubscriptionShipment`, `BudgetLedgerEntry` | `create`, `processTick`, the engine's `dispatch` | Subscriptions |
| Tick dispatcher, queue, state machine (`src/infra/subscriptions`, the lambda) | invocations, messages, task tokens | deliver, report, retry, time out, wait | Subscriptions (external by its configuration) |
| Routing subscriber (`src/src/routing`) | the ids it has seen | `isDuplicate`, dispatch by type | PackageTransit, TableExchange |
| Package service | `PackageEvent`, drain cursor and flag | `handlePackageTransit`, `processPendingRoutes` | PackageTransit |
| Posted packages (`src/src/packages/packages.service.ts`) | `PackageEvent` | `createPackage` | PackageTransit |
| Insurance | claim rows | `handleUndeliverable`, `chargeInsurance` | PackageTransit (effects also in Payments, Subscriptions) |
| Distance tables | own table, `ReceivedTable`, throttles | `applyOwnTable`, `applyPeerTable`, `respondWithOwnTable`, `requestTablesFromAllCities`, `requestInitialTable` | TableExchange, RouteRecompute |
| Orchestrator, job service | timer, guard, jobs, routes | `runRecomputation`, `pollJobResult`, worker | RouteRecompute |
| AMQP broker client (`src/src/messaging`) | connection, channel, buffer | `connect`, `scheduleReconnect`, `send`, `flush`, `startConsuming`, ack | Broker (acks also in PackageTransit) |
| Messages (`message.schemas.ts`) | none | which kinds there are, what may be missing | partly: TableExchange |
| Route computation, both Dijkstras | `CalculatedRoute` | `compute`, `getRoute`; `runDijkstra` | ShortestPaths, without the stored rows |
| Package delivery (`src/src/packages`) | `AuditEvent` rows of deliveries | `deliverPackage` | PackageDelivery |
| Audit, events | none that is read back | publish | partly, as observers |
| Authentication, views, connector, configuration, infrastructure | none of a protocol | | not modelled |

`PROJECT.json` lists the components with their files and says what each leaves
out, and the hazards with the line where each bites and the properties that
would catch it.

How they interact. Payments and the subscription engine call the initial
shipment, which asks the distance table service for the next hop and hands a
package to the broker. The broker delivers package-transit, package-status and
distance tables to the routing subscriber. An expired insured package leads to
`chargeInsurance`, which overwrites the status of a row that Payments or
Subscriptions own: both modules have that step. A distance table starts a
recomputation (through a timer, a job and its polling) and a drain of the
packages that wait for a route; the drain reads the routes the orchestrator
replaces. `POST /packages` inserts rows of any type and with any number of hops
into the table the drain reads. Everything that is sent goes through the one channel of the broker
client, which its own reconnections replace underneath the senders: Broker is
the layer below PackageDelivery for that reason. Everything else that is shared
is a database row.

What makes each correct, and is hard to test:

- Payments: money is taken once per payment; SUCCESS means that Webpay took it;
  one package per paid shipment, though callbacks repeat, requests overlap and
  the process dies; every caller hears the same outcome, and hears one.
- Subscriptions: the counters, the ledger and the rows of the ticks agree; the
  budget is not overspent; one package per tick; the execution passes no tick
  that has no outcome and does not stop early, though three processes time out
  independently of each other.
- Transit: a package is in one place at a time; the drain neither forwards
  twice nor starves; insurance is settled once, whether a handler or the drain
  finds the package dead.
- Routes: on the graph it is given, each of the two implementations of Dijkstra's
  algorithm finds cheapest routes. What a sender is quoted need not be what the
  route of the package costs: the stored quotes are of older graphs (section 5).
- Recomputation: the last table ends up in the routes, routes never go back,
  and no failure closes the guard for good.
- Broker: whatever overlaps and fails, the client is never left without a
  channel, a consumer or a call that will make one, and nothing stays in its
  buffer.
- Delivery: who hears that a package was delivered can rely on its row; what was
  recorded is reported, once per row.
- Tables: the cities' exchanges end, though every table may start new ones, and
  every other city's table is stored in the end. The code does the latter for
  cities that run another program, and not for those that run this one.

## 2. The modules

| Module | Extends | Content |
|---|---|---|
| PaymentPromise | | abstract: a payment settles once, SUCCESS only after Webpay's money, one dispatch |
| Payments | | `PaymentsService` and `AmqpInitialShipmentService` |
| PaymentProperties | Payments | properties, inductive invariant, refinement of PaymentPromise |
| PaymentsProofs | PaymentProperties, TLAPS | its theorems |
| BudgetPromise | | abstract: a tick is charged once, at the price, within budget and amount |
| Subscriptions | | backend, lambda, queue and execution of one subscription |
| SubscriptionProperties | Subscriptions | properties, inductive invariant, refinement of BudgetPromise |
| SubscriptionProofs | SubscriptionProperties, TLAPS | its theorems |
| PackageTransit | | subscriber, package service, insurance, drain |
| TransitProperties | PackageTransit | properties, inductive invariant |
| TransitProofs | TransitProperties, TLAPS | its theorems |
| Broker | | the connection, the channel, the buffer and the consumers of a city |
| PackageDelivery | Broker | `deliverPackage` and its report, over Broker |
| DeliveryPromise | | abstract: each row has one report, told once or lost with its process or channel |
| DeliveryProperties | PackageDelivery | properties of both, inductive invariant, refinement of DeliveryPromise |
| DeliveryProofs | DeliveryProperties, TLAPS | their theorems |
| TableExchange, ExchangeProperties | | requests for tables, tables and acknowledgements between cities, inductive invariant |
| ExchangeProofs | ExchangeProperties, TLAPS | what becomes of the tables of cities with this code |
| ExchangeEndProofs | ExchangeProofs | why exchanges end and the tables of the others come |
| RoutePromise | | abstract: routes are those of tables that came, and never go back |
| RouteRecompute, RecomputeProperties | | tables, timer, guard, job, polling, worker; refinement of RoutePromise |
| RecomputeProofs | RecomputeProperties, TLAPS | its theorems |
| ShortestPaths, PathProperties | | both Dijkstras over one matrix of tables |
| PathProofs | PathProperties, TLAPS | its theorems |
| MC... | the properties | constants and symmetry of the TLC instances |

### Payments

`shipment`, `payment`, `covers`, `token` and `claims` are the rows, and the
columns of them that decide something; `req[r]` is an HTTP request in progress,
with the place where it waits and its locals (the verdict it is about to
store). One action stands for the code between two awaits; its guard is the
`where` of the update or the `if` around it. `Claim` is the TRYING to
COMMITTING `updateMany`, `Finalize` the second one. `Throw` is an exception at
any await: `triggerInitialShipment` catches what happens while it sends, and
everywhere else the request ends with a 500. `Crash` ends every request and
leaves the rows. Webpay is external: a transaction is absent, open, authorized
or rejected, `webpay.commit` settles it and may lose its answer or never
arrive, a second commit is an error, and `webpay.status` may fail too.

`commits`, `published`, `audited` and `told` are observers of what left the
process. The HTTP requests come from customers who may do anything at any time:
pay, cancel in another tab, repeat a callback.

### Subscriptions

Subscriptions share no state, so one stands for all. `call[w]` is the
backend's handling of a POST /tick, `lambda[w]` the invocation that waits for
it, `queue[<<t, a>>]` the deliveries left of the message of attempt `a`, `sm`
the execution. `processTick` runs in a READ COMMITTED transaction: it reads the
row in one step (`LoadSubscription`) and writes from that copy in a later one
(`ChargeTick`, `SkipTick`), which is atomic with the insert under the unique
idempotencyKey: a repeated key rolls everything back. The lambda's abort, its
death, the task's timeout and a second delivery each leave a call that goes on,
so attempts of one tick overlap.

### PackageTransit

`handler[h]` is a message in progress (prefetch), `drain[d]` the run of
`drainPendingRoutes` a distance table started. `seen` and `routed`, `running`
and `cursor` are memory; `row` and `claims` are `PackageEvent`. `Receive` marks
the id as seen before anything is done, as `isDuplicate` does. A `Throw` is the
nack with requeue; a `Crash` gives unacknowledged messages back. The order of
idpks, which the drain's cursor follows, is the order of numbers.

Rows come from two writers: messages (`RecordInbound`, which `Accept` lets wait
only with hops left) and `POST /packages` (`CreatePackage`), whose body gives
type and `maxHops` freely. A `pending-route` row without hops therefore reaches
the first branch of `RoutePending`: the package dies, `handleUndeliverable`
settles its insurance, and only then `RemovePending` deletes the row. So not only
`Handlers` call `InsuranceService` but also the drain: `Callers` are both, and
`handler[d]` is the call that the run of drain `d` awaits. Meanwhile handlers and
statuses go on with the same claims, and repetitions come with the same idpk.
`forwarded`, `delivered`, `expired` count, as a package that was deleted may be
posted or delivered again. What is posted is abstracted: the body belongs to the
idpk (a post and a message of one idpk have the same hops, destination and
insurance), the type `"other"` stands for every type that nothing in the module
works on, and nobody posts under the keys of the claims (`pkg-status:...`,
`insurance:...`).

### Broker and PackageDelivery

`call[c]` is where the call of `connect()` that made connection `c` awaits:
`prefetch`, then `consume`, then it has returned. The listeners of a connection
are registered between the two, so one that fails before (`ServerClosesUnheard`,
`SocketFailsUnheard`) is treated otherwise than one that fails later
(`SocketFails`, `ServerCloses`). `channel` is the one field `this.channel` that
every call and listener writes; after its await a call goes on with whatever is
in it, its own channel, another call's (`target[c]`), none, or one whose
connection is gone (`Closed`). `attempts` counts the calls that are scheduled or
dial. `Lose` is what a lost connection does at once to consumers, calls and
messages; `Exit` ends the process, and is the second half of an unhandled
rejection as well as of a `Crash`.

A request (`request[r]`) awaits at `find`, `create` and `report`. `audit` holds the
delivered rows by idempotency key, and may hold a row of some other package
(`OldPackage`) under a key that a client uses again. `Report` is `send()` of the
layer below: published, put into the buffer, or, on a closed channel, an
exception after the row was written. When the process ends, `CutShort` ends the
requests with it; Broker's steps leave the requests alone and theirs leave the
connections alone.

### TableExchange

One queue for each city and one for the central. `Cities` run this code;
`Others` are external and answer a request by a table; the central is external
and answers with the table of the city that asks. The handler of a message is one
step, except that a peer's table is stored after an await (`StartStore`, `Store`,
`StoreFails`), during which the process may die. `did[c]` is what the throttles
have let pass since the start: a repetition may be held or pass, the first
time never is held. An acknowledgement and the table after it are built from
one base message and share its msgId (`Answer`), which is what `seen` compares.
msgIds are random: a name is used again once no message carries it.

### RouteRecompute

A table is the number of tables its sender has sent, and a graph, a job and the
routes are the tables they were built from. The own table is memory, those of
other cities are rows. `timer` is the debounce timer, `recomputing` and `rerun`
the two flags, `step` where the recomputation waits. `ReadPeerTables` and
`PostJob` are apart because the own table is read after the await. `PollAgain`
counts the ten polls; `polls[j]` belongs to job `j`. A job is taken, completed
or retried as BullMQ does with its default of one job at a time per worker and
`attempts` as the job was added with (3 in the code).

### ShortestPaths

`weight` is the matrix one metric of the tables makes: an entry that is disabled
or missing is `Infinity`. `worker` and `quote` are the locals of the two loops
(the cities visited, distances, predecessors), and an action is one turn of a
loop. Which of several closest cities is next depends on the order of an
object's keys and is open. `Edge` is what `buildAdjacency` leaves out. The
results (`WorkerResult`, `QuoteResult`) are the way back along the predecessors
and the totals, as the code computes them when no reached city is left.

The two run in different processes and each is looked at for itself. The module
gives both one matrix only because one `weight` will do for two questions; the
code does not ensure that they see the same one. A quote is read from
`CalculatedRoute` rows that are never refreshed
(`route-computation.service.ts:28-36`) and were computed from distances cut to
integers (`route.repository.ts:66`); the worker uses the tables as they came.

## 3. The runs

Every run below was chosen for one question. Where a counter is bounded, the
bound is a constant in the guard of the action (`MaxPayments`, `MaxFaults`,
`MaxCopies`, `MaxAmount`, `MaxRetries`, `MaxReceives`, `MaxTables`,
`MaxPeerTables`, `MaxConns`, `MaxRequests`, `MaxEvents`, `MaxIds`).

| Run | Distinct states | Question and bounds |
|---|---|---|
| payments_all | 321 511 | Two requests, one insured shipment, two payments, one fault, a flaky Webpay, a route or none: the inductive invariant, three safety properties, the refinement, and that requests are answered and a SUCCESS is dispatched |
| payments_lost_dispatch | violation | A crash after the claim and before the publication |
| payments_abort_race | violation | An abort overtakes a commit |
| subscriptions_all | 782 228 | Two invocations, an amount of two, budgets 1 to 4 at price 2, one retry, two faults: the inductive invariant, five safety properties (one about retries), the refinement, and that the execution ends |
| transit_all | 960 576 | Two passages of an insured package, one that may wait and one without hops that comes or is posted twice, a status about it, two handlers, two tables, one fault: the inductive invariant, places, batches, insurance settled by handler or drain |
| transit_routed | 74 056 | Batches and runs of one row, a package for which there is never a route and one that waits behind it, and an insured one of this city without hops behind both: nobody starves, and its insurance is charged |
| transit_dropped | violation | An error while a message is handled |
| recompute_live | 86 974 | Two own tables, one of another city, two polls, one attempt, one fault: four questions about the routes |
| shortest_paths | 125 949 | All 19 683 matrices of four cities with weights 0, 1 or no edge, every order of visits: each finds cheapest routes |
| delivery_all | 468 963 | Two connections at once, two requests for one package, one incoming message, two faults: the inductive invariant, the client's recovery, the reports |
| tables_all | 363 392 | Two cities with this code and one without, six msgIds, one event that nobody asked for or one fault: exchanges end and go in no circles, and tables of the other program are stored |
| tables_kin_lost | violation | Two cities with this code and one without ask each other, and nothing fails: the two drop each other's tables |

Why these bounds are enough to meet the interesting cases. The protections are
pairwise (a key, a claim, a flag, a channel): two requests, two invocations, two
handlers, two drainers and two connections are all that can collide at one of
them, and for the safety properties the proofs show that more of them change
nothing. One fault is enough for every single crash, error or timeout at every
await, two for an attempt that fails while another that was given up still runs
(subscriptions_all), and for a connection that is lost while its replacement is
being made (delivery_all). Budgets 1 to 4 at price 2 are refused, exhausted
exactly, exhausted with a rest and not exhausted before the amount is reached. A
run of the drain with a cap of one row has to continue from its cursor. One
recomputation that is given up, with one that follows, needs two tables and two
polls. Six msgIds are more than the three cities of tables_all ever have on their way
at once, so that no answer waits for a name; one event is a reconnection, a
table or a request out of turn, a crash or a failed upsert. In delivery_all every
package is for this city (`Elsewhere = {}`): a package for another one is
refused where one that is not due is, which the run does meet. SYMMETRY is used
over interchangeable requests, handlers, drainers and cities, and only in runs
without liveness.

The deliveries and posts of a transit are bounded together (`MaxCopies`, a number
for each message): a row that was posted and deleted can be followed by a message
and the reverse, and two posts, or two messages, by each other.

`CHECK_DEADLOCK FALSE` is said where the system rightly comes to rest once the
rows, messages or tables of the bound are used. PackageTransit never does: routes
change for ever.

### Properties

- `CommittedAtMostOnce`, `OneOutcomeHeard`, `StatusIsBacked`: what Payments owes
  to the customer and to the central.
- `KeepsPromise`: Payments implements PaymentPromise, with outcome, charged and
  dispatched as the abstract variables. That a package is published once
  (`PublishedAtMostOnce`, a part of the inductive invariant) is in it.
- `SettledIsDispatched`, `RequestsAreAnswered`: liveness.
- `BooksBalance`, `OnePackagePerTick`, `NoTickIsSkipped`, `EndsWhenOver` and
  `KeepsBudget` (refinement of BudgetPromise, in which budget and amount are
  never exceeded), `ExecutionFinishes`.
- `FailsWithReason`: late answers, second deliveries and outcomes nobody heard use
  up no retry; an execution fails only after more faults than it has retries.
- `InOnePlace`, `BatchStillWaits`, `InsuredOnce`, `InsuredDeathIsSettled`,
  `WaitingIsRouted`. `InOnePlace` and
  `InsuredDeathIsSettled` are about behaviours in which nothing has failed yet:
  after a failure the code does lose packages, see section 5.
- `KeepsRoutes` (refinement of RoutePromise: routes are those of tables that came,
  and never go back while the process lives), `RoutesFollowTables`,
  `RecomputationEnds`.
- `ResultsAreShortest`: what each algorithm returns, against all simple routes, by
  definition.
- `NeverStranded`, `Recovers`, `QueueIsDrained`: what the broker client owes to
  everything above it. `Recovers` and `QueueIsDrained` hold over any failures
  of the bound, as nothing is left that would have to be done by hand.
- `KeepsReports` (refinement of DeliveryPromise), `AnswerHasItsRow`,
  `RecordedIsReported`: the row of a delivery, the answer to its client and the
  one report to the central.
  `RecordedIsReported` assumes that the process lives and that no closed channel
  stays in the field; without that the code loses reports, see section 5.
- `ExchangesEnd`, `NoCircles`, `OthersAreStored`. The last excepts an answer that comes
  again after its upsert failed, which the code drops.
- `KinIsStored` is what the documents say of tables between cities with this code;
  tables_kin_lost violates it. `KinIsDropped` is what the code does instead, for
  the proof; no run asks it.

### Fairness

Nothing obliges a customer, Webpay, a sender or a fault to act, so none of these
is fair. What is fair, weakly:

- a request that was accepted goes on (Payments `Step`), a handler goes on
  (PackageTransit `HandlerStep`, `InsuranceStep`, `DrainStep`), a call and an invocation go on
  (Subscriptions `CallStep`, `LambdaStep`): Node runs every continuation, and
  each awaited call has an answer, an error or a timeout;
- SQS and RabbitMQ deliver what they hold, AWS ends a wait or a task nobody
  answers, BullMQ's worker works (`Receive`, `NextTick`, `TaskUnanswered`,
  `Work`);
- tables keep coming to start drains (`StartDrain`), as the central and the
  other cities send them for as long as the federation runs; and the own table,
  which a process asks for at its start, comes (`ApplyOwnTable`);
- a timer that was armed fires (`RunRecomputation`, `Connected`), amqplib
  answers (`Connecting`), a handler ends (`Acknowledge`), and the container is
  started again (`restart: unless-stopped`: `Restart`, `Start`);
- a city works on its queue (`Works`), and the central and the other cities
  answer what they are asked (`CentralAnswers`, `OtherAnswers`). That they answer
  is not in this repository; `ExchangesEnd` and `OthersAreStored` assume it.

## 4. What is proved

### PaymentsProofs

For any set of shipments and requests, any number of payments and faults, from
`PaymentsAssumption` alone:

- `Inductive`: `Spec => []IndInv`;
- `TypeCorrect`, `CommitOnce`, `PublishOnce`, `OneOutcome`, `BackedStatus`: the
  invariants of payments_all, and that a package is published once, from it;
- `Refinement`: `Spec => KeepsPromise`;
- `SettledLeaves`: `Spec => SettledIsOnItsWay`, the safety core of
  `SettledIsDispatched`.

None of these is inductive by itself. That a payment is committed once needs to
know that the winner of the claim is alone at `webpayCommit` and that no commit
came before (`OneCommitter`); that a package is published once needs the same of
the claim on the package (`OnePublisher`); that SUCCESS is backed by Webpay's
money needs to know what a request carries in its verdict while it is between
two statements (`VerdictsAreTrue`), and that the transaction of a row is created
once (`OneCreator`), or else a second creation would open it again. That nobody
hears two outcomes follows from a stronger fact, that whoever heard a final
outcome heard the one the row still has (`HeardIsStored`), which in turn needs
that a final row never changes (`SettledStays`). `RowsExist` says that a request
past its creation holds a row that belongs to a shipment. Each lemma of the step
goes through the actions that touch what it is about; the refinement maps each
action to one action of the promise or to a stutter.

`SettledIsOnItsWay` is not about states but about behaviours in which nothing has
failed: in those a settled payment's package was published, or some request has it in
hand. The hard case is two payments of one shipment, where the request that finds
the claim taken sends nothing: that is right because a claim is held by somebody
who is about to publish (`ClaimsLead`). payments_lost_dispatch shows that one
crash breaks it.

### RecomputeProofs

For any set of cities and any number of tables, polls, attempts and faults, from
`RouteRecomputeAssumption`:

- `RecomputeInductive`: `Spec => []IndInv`, with `RecomputeTypes`;
- `RoutesForward`: `Spec => RoutesNeverGoBack`;
- `RoutesRefine`: `Spec => KeepsRoutes`;
- `TablesAreFollowed`: `Spec => [](SomeJobPolled /\ NoTableForgotten)`.

That new routes are never older than the ones they replace is a chain: routes,
what a recomputation has read of the other cities (`ReadBetween`), the job it
waits for (`JobBetween`) and the tables (`RoutesBehindTables`) are each at least
as new as the one before. The chain holds because only one job is polled, by the
recomputation that posted it (`OnePolled`), which is what the guard is for
(`GuardHeld`): without the await of the polling (mutant `PostJob_NotAwaited`)
two jobs are polled, and the older may finish last. A job that was given up may
still finish and is never read again. The central lemma, `PolledAfter`, says
what a step can do to the set of polled jobs; `AttemptsLeft` is needed for the
type of a job's attempts. The same chain makes the step of `RoutePromise` that
replaces the routes: theirs, and what was stored, bound the new ones from both
sides. Every other step but the stores and the crash is a stutter.

`NoTableForgotten` is what `RoutesFollowTables` says without fairness: unless
something is armed that leads to another recomputation (`Scheduled`), the last
tables are in the routes, in the job that is polled or in what was read. A table
that comes while a recomputation runs is the hard case, and `rerun` the reason.
`SomeJobPolled` is the same for `RecomputationEnds`: whoever polls has a job, and
its polls are counted down.

### PathProofs

For any finite set of cities, and all matrices whose weights are not negative:

- `DijkstraInductive`: `Spec => []IndInv`, the invariant of Dijkstra's algorithm
  (`Rooted`, `Tree`, `Relaxed`, `Nearest`) for both loops;
- `RoutesAreShortest`: `Spec => []ResultsAreShortest`.

Both loops are first shown to make the same kind of step (`WorkerMakesVisit`,
`QuoteMakesVisit`), though the worker skips visited cities and the backend does
not: by `Nearest` those never get nearer. That nothing is cheaper is shown by
duality: no potential (a value for each city that no edge raises by more than
its weight) exceeds the distances of a run (`Dominated`) nor the total of a
route (`TotalIsBounded`), and the distances of a run that has ended are a
potential (`EndIsPotential`). So they are bounds of every route. That there is a route with that total is an invariant
too (`Ways`): every city that was reached has a way back along the predecessors,
through visited cities and without a city twice, on which each distance is the
one before plus the weight. `PathIsBackwards` says that `reconstructPath` returns
that way, `TotalOfDifferences` that its total is the distance.

`Path` and `Total` are recursive functions, which the prover knows as the CHOOSE
of their equations: existence is shown first (`SumsExist`), and the induction is
over a set of numbers (`SetInduction`), as the library's induction over an
operator cannot be instantiated. `Dominated` and `Ways` quantify over all
potentials and all sequences and are therefore not in the run.

### SubscriptionProofs

For any number of invocations, retries, second deliveries and faults, any
budget, price and amount, from `SubscriptionsAssumption`:

- `SubscriptionInductive`: `Spec => []IndInv`;
- `BooksAlwaysBalance`, `SentOnce`, `EveryTickIsStored`, `StopsWhenOver`: the
  invariants of subscriptions_all, and `BudgetIsKept`, from it;
- `SubscriptionRefines`: `Spec => KeepsBudget`;
- `RetriesHaveReasons`: `Spec => []FailsWithReason`.

`processTick` writes back a copy of the row that it read before, and READ
COMMITTED does not object. Why that is right is not in `processTick`: nothing is
ever about a tick the execution has not come to, and what the execution has
passed is stored (`NobodyIsAhead`); ticks are stored in their order
(`FilledInOrder`); so the row changes only together with the one tick that is
not stored yet, and a call whose copy is old has a tick whose unique key is
taken, and is rolled back (`CopiesAreFresh`). A second execution for the
subscription would break this. `OneSender` says that only the call that charged
sends, `AnswersAreTrue` that an invocation reports nothing that has stopped being
true, which is why the execution does not stop early. In the refinement `Create`
is the promise's agreement, the commit of `ChargeTick` a charge, that of
`SkipTick` the exhaustion, `SendPackage` a shipment, and every other action a
stutter.

`FailsWithReason` needs an invariant of its own beside `IndInv` (`RetryInv`). It keeps an
account: the faults cover the retries that were made (`RetriesPaid`), and one
more while the attempt is spoiled, that is, while an invocation is about to fail
it, or the message was delivered and is in nobody's hands. A retry takes that one
more. It also has to be known that no old invocation can be taken for one of the
new attempt (`AttemptsInOrder`), and of the new tick (`NobodyIsAhead`, again).
Messages are delivered at least once by assumption (`MaxReceives` is not 0).

### TransitProofs

For any finite sets of transits and handlers, any number of drains, deliveries,
posts and faults, from `PackageTransitAssumption`:

- `TransitInductive`: `Spec => []IndInv`;
- `NothingIsLost`, `BatchIsFresh`, `SettledOnce`, `DeathsAreSettled`: the
  invariants of transit_all.

The row of an idpk excludes every post and every handler but the one that
inserted it (`OneTaker`). So the account of a package (in progress, in a row that
waits or was posted, forwarded, delivered, expired) changes by one at one place
in every step of that handler or of the drain, and adds up to
the number of times it was recorded until something fails (`InOnePlace`). A
batch stays fresh because one run works at a time (`SingleFlight`) and only a
run deletes rows, when the call to `InsuranceService` it may wait for has returned
(`CallsAreAwaited`): without `running` (mutant) two runs hold the same rows.
Insurance is settled once because a claim that is not in the table was not used
and a claim's holder is alone with it (`ClaimsAreHeld`), over any failures; that it
is settled at all (`Settling`) holds while nothing fails.

### DeliveryProofs

For any number of connections, requests, messages and faults and any sets of
packages and keys, from `BrokerAssumption` and `PackageDeliveryAssumption`:

- `DeliveryInductive`: `Spec => []IndInv`;
- `NotStranded`: `Spec => []NeverStranded`;
- `AnswersAreBacked`: `Spec => []AnswerHasItsRow`;
- `OneReportPerRow`: `Spec => []ReportedOncePerRow`;
- `DeliveryRefines`: `Spec => KeepsReports`.

Calls of `connect()` overlap and use each other's channel, and no lock keeps them
apart. What holds instead: where there is no working channel a call is scheduled
(`ChannelIsAwaited`), because every listener that forgets a channel, its own or
not, schedules one; a working channel is in the hands of the call that made it or
has a consumer (`ChannelIsServed`); and a message in the buffer is ahead of
some call's flush (`BufferIsAwaited`). The proof looks at each step of Broker
once; the steps of requests touch it only by `send()`. `RequestHasItsRow` rests on
rows never being deleted. One report per row is a sum: the reports that were
published, those in the buffer and the requests that are about to report are
together at most the rows (`ReportsHaveRows`); a row adds to both sides, a report
moves along, and a failure only takes away. The refinement says more, step by
step: while the process and its channel are well nothing is taken away, so every
row's report is told or still on its way, which is the safety core of
`RecordedIsReported`.

### ExchangeProofs

For any sets of cities with this code and without, any number of msgIds and
events, from `TableExchangeAssumption`:

- `ExchangeInductive`: `Spec => []IndInv`;
- `KinNeverStored`: `Spec => []KinIsDropped`.

This is not something the code should do. tables_kin_lost shows that two cities with
this code never get each other's tables; the theorem says that the instance is
no accident: as long as nothing fails it meets every such city, whatever the
others send and in whatever order.

A table from another city with this code is behind an acknowledgement with its
msgId in the queue, or its msgId was seen (`KinIsAnnounced`): both are sent
together, and whatever takes the acknowledgement out marks the msgId. A queue
keeps its order until something fails, so the handler that stores tables never
gets one of these.

### ExchangeEndProofs

For any finite set of cities with this code, any set of others, any number of
msgIds and events:

- `EndInductive`: `Spec => []EndInv`, what can be in which queue (`Addressed`);
- `ExchangesCool`: `Spec => NoCircles`;
- `TablesStillCome`: `Spec => NothingForgotten`.

`ExchangesEnd` and `OthersAreStored` have only fairness beyond these. Each message
has a rank, its distance to the end of its exchange (a restart, the request to
the central, the own table, the requests to the cities, tables, upserts,
acknowledgements). A step that is not one of the bounded events takes something of
some rank out of one place and leaves as much of that rank, and of all above it,
in every other one; what it adds is of lower ranks. An answer that asks back
(mutant `Answer_AsksBack`) is a circle. That a request is answered at all
needs `Addressed`, or else a place could be stuck on what it does not read; `"fanout"`
is no city, as both are keys of one throttle; and `Cities` is finite, as a fan-out
sends to all of them in one step.

`TablesAreComing` is about all behaviours, crashes and failed upserts included: the
table of another program is stored, or in the queue, or asked for, or what makes
the city ask is still there. Its assumption, that no answer is dropped as a duplicate after a
failure (`AnswerIsDropped`), is the exception of `OthersAreStored`.

### What stays with TLC

Liveness and everything under fairness, and ENABLED, are out of the prover's
reach. Every safety property of the passing runs, action properties and
refinements included, is proved. Of most liveness properties the part that
could really be wrong, that what must happen next is never lost, is proved as an
invariant or an action property: `SettledIsOnItsWay` for `SettledIsDispatched`,
`FailsWithReason` for `ExecutionFinishes`, `NoTableForgotten` for
`RoutesFollowTables`, `SomeJobPolled` for `RecomputationEnds`, `NeverStranded` and
`BufferIsAwaited` for `Recovers` and `QueueIsDrained`, `KeepsReports` for
`RecordedIsReported`, `NoCircles` and `NothingForgotten` for `ExchangesEnd` and
`OthersAreStored`. `RequestsAreAnswered` and `WaitingIsRouted`, that the drain's
cursor comes round to every package, have no such part yet.

## 5. Where code and documents disagree

Runs that end in a violation of what a document or a comment says:

- payments_lost_dispatch: the claim `initial:<id>` is stored before the
  publication and nothing looks for claims without one; a crash in between loses
  the package (`src/plan_e2_victor.md:122`).
- payments_abort_race: a callback with TBK_TOKEN finalizes as FAILED while a
  commit of the same payment is in progress, without asking webpay.status
  (`src/docs/webpay-integration.md:96-97`).
- transit_dropped: a message that failed is dropped as a duplicate when the
  broker delivers it again (`src/src/routing/routing-subscriber.service.ts:51`).
- tables_kin_lost: the acknowledgement of a request and the table that follows it
  are built from one `createBaseMessage` and share its msgId
  (`distance-table.service.ts:166`). The receiver remembers the msgId of the
  acknowledgement and drops the table as a repetition: two cities with this code
  never store each other's table, although `src/docs/architecture.md:196-212`
  draws exactly that exchange, and `src/docs/requirements.md:137` wants the
  acknowledgement to echo the msgId of the message it answers. If `Answer` does
  what that line says, `KinIsStored` holds of the same instance.

Further ones the modules reproduce and no run is spent on:

- `payments.service.ts:49`: a second payment is refused for paid and sent
  shipments only. A shipment that is pending-routing, or failed, can be paid
  again, although `src/docs/webpay-integration.md:38-39` says that a paid one
  answers 409.
- `payments.service.ts:53`: two requests at once create two TRYING payments of
  one shipment; the same lines say that one is reused.
- `payments.service.ts:258`: after a failed payment the shipment is `failed`,
  and one that succeeds later does not change that, although its package is
  sent (`src/docs/webpay-integration.md:65-66` says paid, then sent).
- `payments.service.ts:213`: a waiting request answers COMMITTING after 25
  reads; `src/docs/webpay-integration.md:92-94` says that it returns the result.
- `subscription-engine.service.ts:34`: after a crash between the charge and the
  dispatch the retry is told `duplicate`: a tick is charged and never sent
  (`src/docs/step-functions.md:149` says one shipment left).
- `subscriptions.service.ts:211`: the tick after the last is answered
  `inactive`, since the last charge completed the subscription; the state
  machine's description and `src/docs/step-functions.md:154-156` say
  `completed`. It ends either way.
- `subscription-engine.service.ts:89`: a tick whose package could not be sent is
  charged and counted in the amount that `src/docs/step-functions.md:151` calls
  shipments reached.
- `insurance.service.ts:86`: the charge looks for the row by packageId; the
  engine stores that id after it sent the package, so a charge that comes first
  changes no row.
- `package.service.ts:164`: a row that exists ends the redelivery, so what a
  crash left half done is not replayed (`src/docs/architecture.md:33` says that
  it is).
- `pending-packages.repository.ts:49`: the drain deletes the row and the idpk
  with it, so a late repetition is recorded, announced as received and forwarded
  again, although `package.service.ts:169` says once per idpk. `InOnePlace`
  counts recordings and says that each is still in one place.
- `payments.service.ts:258`, with no route: after a failed payment and one that
  succeeds later without a next hop, the shipment is `failed` although it is
  paid and no package was sent; nothing looks for it again.
- `distance-table.service.ts`, `respondWithOwnTable`: a city that is asked before
  the central sent its table answers with an empty one.
- `routing-subscriber.service.ts:113`: a table without cityId is taken for the
  own table, overwrites it and starts a fan-out, whoever sent it. TableExchange
  assumes that only the central sends such tables.
- `packages.service.ts:167`: the existing row is looked for before the new one is
  created, and unique is only the idempotency key. Two requests with different
  keys at once make two delivered rows and two reports
  (`src/docs/requirements.md:65`: "sin doble entrega"); `ReportedOncePerRow`
  says what does hold, one report per row.
- `packages.service.ts:191`: the row comes before the report; after a crash in
  between the central is never told, and a retry is answered `alreadyDelivered`.
- `amqp-message-broker.service.ts:74`: a failing socket emits `error` and `close`,
  and each schedules a call of `connect()`. Connections multiply, the older ones
  keep consuming, and prefetch(10) (`src/docs/architecture.md:167-169`) becomes ten
  for each; what `src/docs/prompts/2026-06-09-fix-central-response-routing-citycase.md:28`
  calls "doble request (pares)" is this.
- `amqp-message-broker.service.ts`, `flush`: a message is shifted out of the buffer
  before it is published. On a closed channel publish throws, and the first
  message that waited is lost, although its sender was told that it is on its
  way.
- `amqp-message-broker.service.ts:169`: the ack of a message whose connection is
  gone throws, the nack in the catch throws too, and the unhandled rejection ends
  the process. So does an `error` event before the listeners are registered.
- `route-computation.service.ts:28-37`: a row of `CalculatedRoute` is never
  computed again once it exists. The first quote before any table stores
  unreachable routes for good, and no later table changes a price
  (`src/plan_e2.md:96` has the recomputation store its results there,
  `src/docs/webpay-integration.md:29` the optimal route's cost in the quote).
- `distance-table.service.ts:235`: `saveSnapshot` is not awaited, so the copies of
  two tables in a row may be stored in the wrong order, and a quote uses what
  stays; `route.repository.ts:66` truncates distances and costs to integers
  on the way.
- `package.service.ts:183`: `processPendingDeliveries` has no caller outside its
  test: packages that wait for their date stay.

## 6. What is not modelled, and the plan

One backend process is modelled: `src/docker-compose.prod.yml` runs one, though
`src/docs/prompts/2026-06-09-fix-routes-persist-db-multiproceso.md:44-48` saw
several once. Two processes on one database would share its rows, but not
`running`, `seen`, the cursor or the own table. Amounts, texts, message bodies,
authentication and the views carry no state of a protocol.

- Shipments and quote, Pricing: `createShipment` inserts one row after a quote,
  and a quote is floating-point arithmetic over one stored route. The rows are
  the constants of Payments, the price is a parameter of Subscriptions.
- `CalculatedRoute` and the copy of the own table in `Route`: with rows that are
  never refreshed every property of a quote fails at once, so there is nothing
  a model would find beyond section 5.
- Broker: publisher confirms (the code asks for none, so a message that was
  published on a connection about to fail counts as sent), an orderly shutdown,
  an error of a channel alone, and malformed messages, which are dropped.
- PackageTransit abstracts from the channel: a message is handed out, acknowledged
  or returned. TableExchange abstracts from it as well, except that an upsert
  whose connection was lost ends the process (`CrashAfterStore`).
- RouteRecompute numbers the tables of a city as they are stored; two that
  overtake each other cannot be told apart there.
- The eviction of seen msgIds by age and number: a repetition that late is
  taken for a new message.

ShortestPaths gives each algorithm a matrix without negative weights. The
schema of a table accepts negative ones (`message.schemas.ts:52`), which the
worker uses and `buildAdjacency` drops; and the backend reads its own table from
`Route`, where it is truncated to integers, and the worker gets the one in memory.
In both cases the quote and the route are computed over different graphs, and
after the first quote they are in any case (section 5). Even on one graph only the
cost of the two routes agrees: among routes of equal cost the worker may choose
one with more hops than were quoted, since the two take cities at equal distance
in different orders.

What is left of the plan, in this order:

1. PackageTransit over Broker, as PackageDelivery is.
2. Pricing over scaled integers.
3. The proof that the drain's cursor misses no package that waits, the safety core
   of `WaitingIsRouted`.

## 7. Running it

    tlc -workers 2 -config MCPayments_all.cfg MCPayments.tla
    tlapm PaymentsProofs.tla

Each `MC<Module>_<run>.cfg` belongs to `MC<Module>.tla`, and its properties are
listed in `PROJECT.json`. The longest runs are tables_all, subscriptions_all and
delivery_all, two to three minutes each. The operators named `<Definition>_<Change>` in the modules are mutants:
plausible errors in that definition, at least one for each property, which the
property detects.
