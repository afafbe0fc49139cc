------------------------- MODULE PaymentProperties -------------------------
(***************************************************************************)
(* What must hold of Payments: the state predicates and formulas its runs  *)
(* check and PaymentsProofs proves.                                        *)
(***************************************************************************)
EXTENDS Payments

\* Every variable keeps the shape its table or record has.
TypeOK ==
    /\ shipment \in [Shipments -> ShipmentStatus]
    /\ payment \in [Payments -> PaymentStatus]
    /\ covers \in [Payments -> Shipments \cup {NoShipment}]
    /\ token \subseteq Payments
    /\ claims \subseteq Shipments
    /\ req \in [Requests -> Request]
    /\ webpay \in [Payments -> {"absent", "open", "authorized", "rejected"}]
    /\ commits \in [Payments -> Nat]
    /\ published \in [Shipments -> Nat]
    /\ audited \subseteq Payments \X PaymentStatus
    /\ told \subseteq Payments \X PaymentStatus
    /\ faults \in 0..MaxFaults

\* However often Webpay's callback is repeated, by however many requests at
\* once and across crashes, webpay.commit is called at most once for a
\* payment: the TRYING -> COMMITTING claim is won by one request, ever.
CommittedAtMostOnce == \A p \in Payments : commits[p] <= 1

\* The package of a shipment is handed to the broker at most once, whatever
\* payments of the shipment succeed and whatever crashes (RNF07).
PublishedAtMostOnce == \A s \in Shipments : published[s] <= 1

\* Nobody hears two outcomes of one payment: neither the callers of
\* POST /payments/commit nor the central (payment-status), nor one of them
\* another outcome than the other.
OneOutcomeHeard ==
    \A p \in Payments :
        ~ /\ <<p, "SUCCESS">> \in audited \cup told
          /\ <<p, "FAILED">> \in audited \cup told

\* The payment flow, with all its handlers, keeps the promise: a payment
\* settles once and as SUCCESS only with Webpay's money, a package leaves
\* once and only for a settled payment.
Promise == INSTANCE PaymentPromise WITH
    outcome <- [p \in Payments |->
                   IF payment[p] \in Final THEN payment[p] ELSE "open"],
    charged <- {p \in Payments : webpay[p] = "authorized"},
    dispatched <- published

KeepsPromise == Promise!Spec

\* The money taken for a shipment.
Charges(s) == {p \in Payments : covers[p] = s /\ webpay[p] = "authorized"}

\* What the customer reads in the shipment's status is backed by a payment:
\* paid, sent and pending-routing by one that succeeded with Webpay's money,
\* sent also by the claim on its package, failed by one that failed.  It
\* spans two tables that no transaction covers together.
StatusIsBacked ==
    \A s \in Shipments :
        /\ shipment[s] \in {"paid", "sent", "pending-routing"}
             => \E p \in Charges(s) : payment[p] = "SUCCESS"
        /\ shipment[s] = "sent" => s \in claims
        /\ shipment[s] = "failed"
             => \E p \in Payments : covers[p] = s /\ payment[p] = "FAILED"

\* Nothing crashes and a route is known.
NothingFails == faults = 0 /\ \A r \in Requests : ~At(r, "markPending")

\* Then a settled payment gets its package on the way: two requests cannot
\* leave it to each other.
SettledIsDispatched ==
    []NothingFails
      => \A p \in Payments :
            payment[p] = "SUCCESS" ~> \E s \in Shipments :
                                         covers[p] = s /\ published[s] > 0

\* The package has left, or the request that will send it has not ended.
Carries(r, s) ==
    req[r].pc \in {"markPaid", "send", "publish"} /\ covers[req[r].p] = s
OnItsWay(s) == published[s] > 0 \/ \E r \in Requests : Carries(r, s)

\* A claim on a package is won by who publishes it.
ClaimsLead ==
    \A s \in claims :
        \/ published[s] > 0
        \/ \E r \in Requests : At(r, "publish") /\ Carries(r, s)

\* The safety core of SettledIsDispatched: at no moment has every request left
\* the package of a settled payment to another one, nor a claim on it been
\* won by nobody.
SettledIsOnItsWay ==
    []NothingFails
      => [](/\ \A p \in Payments : payment[p] = "SUCCESS" => OnItsWay(covers[p])
            /\ ClaimsLead)

\* A request that was accepted is answered, by a result or an error, even
\* when the request it waits for died while it was COMMITTING.
RequestsAreAnswered == \A r \in Requests : ~At(r, "idle") ~> At(r, "idle")

-----------------------------------------------------------------------------
(* The inductive invariant of PaymentsProofs, in parts.                    *)

BeforeRow == {"idle", "find", "create"}
Sending == {"markPaid", "send", "publish", "markSent", "markPending"}

\* A request past the creation of its row holds a row of the table; a row
\* belongs to a shipment; a stored token belongs to a row.
RowsExist ==
    /\ \A r \in Requests :
          /\ req[r].pc \in {"find", "create"} => req[r].s \in Shipments
          /\ req[r].pc \notin BeforeRow =>
                req[r].p \in Payments /\ payment[req[r].p] # "NONE"
    /\ \A p \in Payments :
          /\ payment[p] = "NONE" => covers[p] = NoShipment
          /\ payment[p] # "NONE" => covers[p] \in Shipments
          /\ p \in token => payment[p] # "NONE"

\* One request creates the Webpay transaction of a row, before any other use.
OneCreator ==
    /\ \A p \in Payments : payment[p] = "NONE" => webpay[p] = "absent"
    /\ \A r \in Requests :
          At(r, "webpayCreate") => webpay[req[r].p] = "absent"
    /\ \A r, q \in Requests :
          At(r, "webpayCreate") /\ At(q, "webpayCreate")
            /\ req[r].p = req[q].p => r = q

\* The winner of the claim is the only one to commit, and the first.
OneCommitter ==
    /\ \A p \in Payments :
          payment[p] \in {"NONE", "TRYING"} => commits[p] = 0
    /\ \A r \in Requests :
          At(r, "webpayCommit") =>
             /\ payment[req[r].p] \notin {"NONE", "TRYING"}
             /\ commits[req[r].p] = 0
    /\ \A r, q \in Requests :
          At(r, "webpayCommit") /\ At(q, "webpayCommit")
            /\ req[r].p = req[q].p => r = q

\* The winner of the package's claim is the only one to publish.
OnePublisher ==
    /\ \A s \in Shipments : s \notin claims => published[s] = 0
    /\ \A r \in Requests :
          At(r, "publish") =>
             /\ covers[req[r].p] \in claims
             /\ published[covers[req[r].p]] = 0
    /\ \A r, q \in Requests :
          At(r, "publish") /\ At(q, "publish")
            /\ covers[req[r].p] = covers[req[q].p] => r = q

\* What a request is about to write is what Webpay and the row say.
VerdictsAreTrue ==
    /\ \A p \in Payments :
          payment[p] = "SUCCESS" => webpay[p] = "authorized"
    /\ \A r \in Requests :
          /\ At(r, "finalize") /\ req[r].verdict = "SUCCESS"
               => webpay[req[r].p] = "authorized"
          /\ req[r].pc \in Sending =>
                payment[req[r].p] = "SUCCESS" /\ req[r].verdict = "SUCCESS"
          /\ At(r, "markFailed") =>
                payment[req[r].p] = "FAILED" /\ req[r].verdict = "FAILED"
          /\ At(r, "audit") => payment[req[r].p] = req[r].verdict
          /\ At(r, "markSent") => covers[req[r].p] \in claims

\* What a step may never do: a settled payment keeps its outcome, its
\* shipment and Webpay's money; a claim is never given back.
SettledStays ==
    /\ \A p \in Payments :
          payment[p] \in Final =>
             /\ payment'[p] = payment[p]
             /\ covers'[p] = covers[p]
             /\ webpay[p] = "authorized" => webpay'[p] = "authorized"
    /\ claims \subseteq claims'

\* Whoever heard a final status heard the one the row still has.
HeardIsStored ==
    \A p \in Payments, x \in Final :
        <<p, x>> \in audited \cup told => payment[p] = x

IndInv ==
    /\ TypeOK
    /\ RowsExist
    /\ OneCreator
    /\ OneCommitter
    /\ CommittedAtMostOnce
    /\ OnePublisher
    /\ PublishedAtMostOnce
    /\ VerdictsAreTrue
    /\ HeardIsStored
    /\ StatusIsBacked

-----------------------------------------------------------------------------
(* What the documentation says and the code does not do.                   *)

\* plan_e2_victor.md:122: "ante callbacks Webpay duplicados o
\* reintentos/reboot, el paquete se publica exactamente una vez".
ClaimedIsPublished ==
    \A s \in Shipments : s \in claims ~> published[s] = 1

\* docs/webpay-integration.md:96-97: status is consulted "para no marcar como
\* error un pago que en realidad se autorizo".
AuthorizedIsNotFailed ==
    \A p \in Payments : webpay[p] = "authorized" => payment[p] # "FAILED"
=============================================================================
