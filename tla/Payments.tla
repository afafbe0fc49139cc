------------------------------ MODULE Payments ------------------------------
(***************************************************************************)
(* PaymentsService and the initial shipment it triggers: POST /payments    *)
(* (initPayment) and POST /payments/commit (commitPayment), run by several *)
(* HTTP requests at once, each split at every await between two database   *)
(* statements or remote calls.  The tables UserShipment, Payment and       *)
(* PackageEvent (its `initial:<packageId>` rows) survive a crash; a        *)
(* request does not.                                                       *)
(*                                                                         *)
(* Webpay is external: it is modelled by the outcomes the service must be  *)
(* ready for.  Amounts, texts and the package body are left out: no        *)
(* property depends on them.                                               *)
(***************************************************************************)
EXTENDS Naturals, FiniteSets

CONSTANTS
    Shipments,    \* UserShipment rows, each with its packageId
    NoShipment,   \* "no shipment yet"
    Requests,     \* HTTP requests that can be in progress at once
    MaxPayments,  \* bound: Payment rows in one behaviour
    MaxFaults,    \* bound: crashes and thrown database errors
    Hops,         \* what getNextHop may answer: a subset of {"hop", "none"}
    Insured,      \* the shipments bought with insurance
    Flaky         \* TRUE: a call to Webpay may fail or lose its answer

ASSUME PaymentsAssumption ==
    /\ NoShipment \notin Shipments
    /\ MaxPayments \in Nat
    /\ MaxFaults \in Nat
    /\ Hops \subseteq {"hop", "none"}
    /\ Insured \subseteq Shipments
    /\ Flaky \in BOOLEAN

Payments == 1..MaxPayments  \* numbered in the order of createdAt

Final == {"SUCCESS", "FAILED"}
PaymentStatus == {"NONE", "TRYING", "COMMITTING"} \cup Final
ShipmentStatus ==
    {"pending-payment", "paid", "sent", "failed", "pending-routing",
     "expired-insured"}

\* Where a request waits.  "idle": no request is being served.
PcStates ==
    {"idle", "find", "create", "webpayCreate", "saveToken", "auditTrying",
     "claim", "webpayCommit", "webpayStatus", "finalize", "wait",
     "markPaid", "send", "publish", "markSent", "markPending", "markFailed",
     "audit"}

VARIABLES
    shipment,   \* shipment[s]: UserShipment.status
    payment,    \* payment[p]: Payment.status; "NONE" before the row exists
    covers,     \* covers[p]: Payment.shipmentId
    token,      \* the payments whose webpayToken is stored
    claims,     \* the shipments with a PackageEvent `initial:<packageId>`
    req,        \* req[r]: program counter and locals of request r
    webpay,     \* webpay[p]: Webpay's transaction for p (external)
    commits,    \* commits[p]: calls of webpay.commit for p (observer)
    published,  \* published[s]: package-transit messages handed to the broker
    audited,    \* <<p, status>> pairs sent to the central as payment-status
    told,       \* <<p, status>> pairs answered to a POST /payments/commit
    faults

vars == <<shipment, payment, covers, token, claims, req, webpay, commits,
          published, audited, told, faults>>

dbVars == <<shipment, payment, covers, token, claims>>
outVars == <<webpay, commits, published, audited, told>>

-----------------------------------------------------------------------------
Locals(where, s, p) == [pc |-> where, s |-> s, p |-> p, verdict |-> "FAILED"]
Idle == Locals("idle", NoShipment, 0)

Request ==
    [pc : PcStates, s : Shipments \cup {NoShipment}, p : 0..MaxPayments,
     verdict : Final]

Init ==
    /\ shipment = [s \in Shipments |-> "pending-payment"]
    /\ payment = [p \in Payments |-> "NONE"]
    /\ covers = [p \in Payments |-> NoShipment]
    /\ token = {}
    /\ claims = {}
    /\ req = [r \in Requests |-> Idle]
    /\ webpay = [p \in Payments |-> "absent"]
    /\ commits = [p \in Payments |-> 0]
    /\ published = [s \in Shipments |-> 0]
    /\ audited = {}
    /\ told = {}
    /\ faults = 0

At(r, where) == req[r].pc = where
Begin(r, where, s, p) == req' = [req EXCEPT ![r] = Locals(where, s, p)]
Go(r, where) == req' = [req EXCEPT ![r].pc = where]
Done(r) == req' = [req EXCEPT ![r] = Idle]
Answer(p) == told' = told \cup {<<p, payment[p]>>}

\* Prisma's updateMany on one shipment row: it changes only a row that has
\* the status the where clause names.
UpdateShipment(s, from, to) ==
    shipment' = [shipment EXCEPT ![s] = IF @ = from THEN to ELSE @]

-----------------------------------------------------------------------------
(* POST /payments *)

\* Bound: a row is left for every request that may still create one.
RowsLeft ==
    Cardinality({p \in Payments : payment[p] # "NONE"})
      + Cardinality({r \in Requests : req[r].pc \in {"find", "create"}})
      < MaxPayments

\* loadOwnedShipment and the 409 for a shipment that is paid or sent.
InitPayment(r, s) ==
    /\ At(r, "idle")
    /\ RowsLeft
    /\ shipment[s] \notin {"paid", "sent"}
    /\ Begin(r, "find", s, 0)
    /\ UNCHANGED <<dbVars, outVars, faults>>

Trying(s) == {p \in Payments : covers[p] = s /\ payment[p] = "TRYING"}

\* findFirst of the newest TRYING payment: reused if it has its token.
FindTrying(r) ==
    /\ At(r, "find")
    /\ IF \E p \in Trying(req[r].s) \cap token :
              \A q \in Trying(req[r].s) : q <= p
       THEN Done(r)
       ELSE Go(r, "create")
    /\ UNCHANGED <<dbVars, outVars, faults>>

NextRow(p) ==
    /\ payment[p] = "NONE"
    /\ \A q \in Payments : q < p => payment[q] # "NONE"

CreatePayment(r) ==
    /\ At(r, "create")
    /\ \E p \in Payments :
          /\ NextRow(p)
          /\ payment' = [payment EXCEPT ![p] = "TRYING"]
          /\ covers' = [covers EXCEPT ![p] = req[r].s]
          /\ Begin(r, "webpayCreate", req[r].s, p)
    /\ UNCHANGED <<shipment, token, claims, outVars, faults>>

\* webpay.create: a thrown error ends the request with a 500.
WebpayCreate(r) ==
    /\ At(r, "webpayCreate")
    /\ \/ /\ webpay' = [webpay EXCEPT ![req[r].p] = "open"]
          /\ Go(r, "saveToken")
       \/ /\ Flaky
          /\ Done(r)
          /\ UNCHANGED webpay
    /\ UNCHANGED <<dbVars, commits, published, audited, told, faults>>

SaveToken(r) ==
    /\ At(r, "saveToken")
    /\ token' = token \cup {req[r].p}
    /\ Go(r, "auditTrying")
    /\ UNCHANGED <<shipment, payment, covers, claims, outVars, faults>>

AuditTrying(r) ==
    /\ At(r, "auditTrying")
    /\ audited' = audited \cup {<<req[r].p, "TRYING">>}
    /\ Done(r)
    /\ UNCHANGED <<dbVars, webpay, commits, published, told, faults>>

-----------------------------------------------------------------------------
(* POST /payments/commit.  Webpay's callback and its repetitions: any       *)
(* request may carry the token of any payment, as token_ws after a normal   *)
(* return or as TBK_TOKEN after the customer pressed cancel.                *)

\* A final payment answers with its stored result.
CommitAgain(r, p) ==
    /\ At(r, "idle")
    /\ p \in token
    /\ payment[p] \in Final
    /\ Answer(p)
    /\ UNCHANGED <<dbVars, req, webpay, commits, published, audited, faults>>

\* Another request is committing: wait for its result.
CommitJoins(r, p) ==
    /\ At(r, "idle")
    /\ p \in token
    /\ payment[p] = "COMMITTING"
    /\ Begin(r, "wait", NoShipment, p)
    /\ UNCHANGED <<dbVars, outVars, faults>>

CommitPayment(r, p) ==
    /\ At(r, "idle")
    /\ p \in token
    /\ payment[p] = "TRYING"
    /\ Begin(r, "claim", NoShipment, p)
    /\ UNCHANGED <<dbVars, outVars, faults>>

\* TBK_TOKEN: finalize as FAILED (ABORTED) without the COMMITTING claim.
CommitAborted(r, p) ==
    /\ At(r, "idle")
    /\ p \in token
    /\ payment[p] = "TRYING"
    /\ Begin(r, "finalize", NoShipment, p)
    /\ UNCHANGED <<dbVars, outVars, faults>>

\* Mutant of Claim: read before, written without the where on TRYING.
Claim_Unconditional(r) ==
    /\ At(r, "claim")
    /\ payment' = [payment EXCEPT ![req[r].p] = "COMMITTING"]
    /\ Go(r, "webpayCommit")
    /\ UNCHANGED <<shipment, covers, token, claims, outVars, faults>>

\* The claim TRYING -> COMMITTING: who loses it waits.
Claim(r) ==
    /\ At(r, "claim")
    /\ LET p == req[r].p IN
         \/ /\ payment[p] = "TRYING"
            /\ payment' = [payment EXCEPT ![p] = "COMMITTING"]
            /\ Go(r, "webpayCommit")
         \/ /\ payment[p] # "TRYING"
            /\ Go(r, "wait")
            /\ UNCHANGED payment
    /\ UNCHANGED <<shipment, covers, token, claims, outVars, faults>>

\* Mutants of Verdict: Webpay's own word is stored; only a rejection fails.
Verdict_Verbatim(w) == w
Verdict_UnlessRejected(w) == IF w = "rejected" THEN "FAILED" ELSE "SUCCESS"

Verdict(w) == IF w = "authorized" THEN "SUCCESS" ELSE "FAILED"

Decide(r, verdict) ==
    req' = [req EXCEPT ![r] = [@ EXCEPT !.pc = "finalize", !.verdict = verdict]]

\* webpay.commit settles an open transaction.  Its answer may get lost, the
\* call may never arrive, and a second call is an error: then ask for status.
WebpayCommit(r) ==
    /\ At(r, "webpayCommit")
    /\ LET p == req[r].p IN
         /\ commits' = [commits EXCEPT ![p] = @ + 1]
         /\ \/ /\ webpay[p] = "open"
               /\ \E w \in {"authorized", "rejected"} :
                     /\ webpay' = [webpay EXCEPT ![p] = w]
                     /\ Decide(r, Verdict(w))
            \/ /\ webpay[p] = "open"
               /\ Flaky
               /\ \E w \in {"open", "authorized", "rejected"} :
                     webpay' = [webpay EXCEPT ![p] = w]
               /\ Go(r, "webpayStatus")
            \/ /\ webpay[p] # "open"
               /\ Go(r, "webpayStatus")
               /\ UNCHANGED webpay
    /\ UNCHANGED <<dbVars, published, audited, told, faults>>

\* Mutant of WebpayStatus: no answer is taken for an authorization.
WebpayStatus_Optimistic(r) ==
    /\ At(r, "webpayStatus")
    /\ \/ Decide(r, Verdict(webpay[req[r].p]))
       \/ Flaky /\ Decide(r, "SUCCESS")
    /\ UNCHANGED <<dbVars, outVars, faults>>

\* webpay.status: its answer decides; if it throws too the payment is
\* FAILED (ERROR).
WebpayStatus(r) ==
    /\ At(r, "webpayStatus")
    /\ \/ Decide(r, Verdict(webpay[req[r].p]))
       \/ Flaky /\ Decide(r, "FAILED")
    /\ UNCHANGED <<dbVars, outVars, faults>>

\* Mutant of WaitForFinalState: it polls for as long as it takes.
WaitForFinalState_Unbounded(r) ==
    /\ At(r, "wait")
    /\ payment[req[r].p] \in Final
    /\ Answer(req[r].p)
    /\ Done(r)
    /\ UNCHANGED <<dbVars, webpay, commits, published, audited, faults>>

\* waitForFinalState: answers once the payment is final, or after 25 reads
\* with whatever status the payment has then.
WaitForFinalState(r) ==
    /\ At(r, "wait")
    /\ Answer(req[r].p)
    /\ Done(r)
    /\ UNCHANGED <<dbVars, webpay, commits, published, audited, faults>>

\* Mutant of Finalize: the update has no where on the status.
Finalize_Unconditional(r) ==
    /\ At(r, "finalize")
    /\ payment' = [payment EXCEPT ![req[r].p] = req[r].verdict]
    /\ Go(r, IF req[r].verdict = "SUCCESS" THEN "markPaid" ELSE "markFailed")
    /\ UNCHANGED <<shipment, covers, token, claims, outVars, faults>>

\* finalize: only one request moves the payment to a final status.
Finalize(r) ==
    /\ At(r, "finalize")
    /\ LET p == req[r].p IN
         \/ /\ payment[p] \in {"TRYING", "COMMITTING"}
            /\ payment' = [payment EXCEPT ![p] = req[r].verdict]
            /\ Go(r, IF req[r].verdict = "SUCCESS" THEN "markPaid"
                                                   ELSE "markFailed")
            /\ UNCHANGED told
         \/ /\ payment[p] \in Final
            /\ Answer(p)
            /\ Done(r)
            /\ UNCHANGED payment
    /\ UNCHANGED <<shipment, covers, token, claims, webpay, commits,
                   published, audited, faults>>

ShipmentStep(r, here, from, to, next) ==
    /\ At(r, here)
    /\ UpdateShipment(covers[req[r].p], from, to)
    /\ Go(r, next)
    /\ UNCHANGED <<payment, covers, token, claims, outVars, faults>>

\* Mutant of MarkPaid: nothing is sent when no row changed.
MarkPaid_OnlyPending(r) ==
    ShipmentStep(r, "markPaid", "pending-payment", "paid",
        IF shipment[covers[req[r].p]] = "pending-payment" THEN "send"
                                                          ELSE "audit")
MarkPaid(r) == ShipmentStep(r, "markPaid", "pending-payment", "paid", "send")
MarkFailed(r) ==
    ShipmentStep(r, "markFailed", "pending-payment", "failed", "audit")
MarkSent(r) == ShipmentStep(r, "markSent", "paid", "sent", "audit")
MarkPending(r) ==
    ShipmentStep(r, "markPending", "paid", "pending-routing", "audit")

\* Mutant of SendInitial: it publishes whatever the claim answered.
SendInitial_IgnoresDuplicate(r) ==
    /\ At(r, "send")
    /\ claims' = claims \cup {covers[req[r].p]}
    /\ Go(r, "publish")
    /\ UNCHANGED <<shipment, payment, covers, token, outVars, faults>>

\* InitialShipmentService.send: no next hop throws before anything is
\* recorded; the claim `initial:<packageId>` decides who publishes, and a
\* duplicate returns as if it had published.
SendInitial(r) ==
    /\ At(r, "send")
    /\ LET s == covers[req[r].p] IN
         \/ /\ "none" \in Hops
            /\ Go(r, "markPending")
            /\ UNCHANGED claims
         \/ /\ "hop" \in Hops
            /\ claims' = claims \cup {s}
            /\ Go(r, IF s \in claims THEN "markSent" ELSE "publish")
    /\ UNCHANGED <<shipment, payment, covers, token, outVars, faults>>

Publish(r) ==
    /\ At(r, "publish")
    /\ published' = [published EXCEPT ![covers[req[r].p]] = @ + 1]
    /\ Go(r, "markSent")
    /\ UNCHANGED <<dbVars, webpay, commits, audited, told, faults>>

\* The last step of finalize: tell the central, then answer the caller.
AuditFinal(r) ==
    /\ At(r, "audit")
    /\ audited' = audited \cup {<<req[r].p, req[r].verdict>>}
    /\ Answer(req[r].p)
    /\ Done(r)
    /\ UNCHANGED <<dbVars, webpay, commits, published, faults>>

-----------------------------------------------------------------------------
(* What happens to the handlers from outside.                              *)

\* A package of an insured shipment that was sent expires on its way: the
\* insurance charge overwrites whatever status the shipment has.
ChargeInsurance(s) ==
    /\ s \in Insured
    /\ published[s] > 0
    /\ shipment' = [shipment EXCEPT ![s] = "expired-insured"]
    /\ UNCHANGED <<payment, covers, token, claims, req, outVars, faults>>

\* The process dies: every request in progress is gone, the rows stay.
Crash ==
    /\ faults < MaxFaults
    /\ req' = [r \in Requests |-> Idle]
    /\ faults' = faults + 1
    /\ UNCHANGED <<dbVars, outVars>>

\* A statement or the channel throws.  triggerInitialShipment catches what
\* happens while sending; everywhere else the request ends with a 500.
Throw(r) ==
    /\ faults < MaxFaults
    /\ ~At(r, "idle")
    /\ faults' = faults + 1
    /\ IF req[r].pc \in {"send", "publish", "markSent"}
       THEN Go(r, "markPending")
       ELSE Done(r)
    /\ UNCHANGED <<dbVars, outVars>>

\* The rest of a request once it was accepted.
Step(r) ==
    \/ FindTrying(r) \/ CreatePayment(r) \/ WebpayCreate(r)
    \/ SaveToken(r) \/ AuditTrying(r)
    \/ Claim(r) \/ WebpayCommit(r) \/ WebpayStatus(r)
    \/ WaitForFinalState(r) \/ Finalize(r)
    \/ MarkPaid(r) \/ MarkFailed(r) \/ SendInitial(r) \/ Publish(r)
    \/ MarkSent(r) \/ MarkPending(r) \/ AuditFinal(r)

Accept(r) ==
    \/ \E s \in Shipments : InitPayment(r, s)
    \/ \E p \in Payments :
          CommitAgain(r, p) \/ CommitJoins(r, p) \/ CommitPayment(r, p)
            \/ CommitAborted(r, p)

Next ==
    \/ \E r \in Requests : Accept(r) \/ Step(r) \/ Throw(r)
    \/ \E s \in Shipments : ChargeInsurance(s)
    \/ Crash

Spec == Init /\ [][Next]_vars

\* Node's event loop runs every pending continuation: a request that was
\* accepted goes on.  Nothing obliges a customer to pay, to come back or to
\* retry, nor the environment to fail.
FairSpec == Spec /\ \A r \in Requests : WF_vars(Step(r))
=============================================================================
