--------------------------- MODULE PaymentPromise ---------------------------
(***************************************************************************)
(* What the payment flow promises to a customer and to the federation,     *)
(* with no handler, token or database claim in sight:                      *)
(*   - a payment is opened for one shipment and settled at most once;      *)
(*   - it is settled as SUCCESS only after Webpay took the money;          *)
(*   - a shipment's package leaves the city at most once, and only after   *)
(*     one of its payments was settled as SUCCESS.                         *)
(***************************************************************************)
EXTENDS Naturals

CONSTANTS Shipments, Payments, NoShipment

VARIABLES
    covers,     \* covers[p]: the shipment payment p was opened for
    outcome,    \* outcome[p]: "open" until settled, then "SUCCESS" or "FAILED"
    charged,    \* the payments whose money Webpay took
    dispatched  \* dispatched[s]: how often the package of s was sent

promiseVars == <<covers, outcome, charged, dispatched>>

Init ==
    /\ covers = [p \in Payments |-> NoShipment]
    /\ outcome = [p \in Payments |-> "open"]
    /\ charged = {}
    /\ dispatched = [s \in Shipments |-> 0]

Open(p, s) ==
    /\ covers[p] = NoShipment
    /\ covers' = [covers EXCEPT ![p] = s]
    /\ UNCHANGED <<outcome, charged, dispatched>>

Charge(p) ==
    /\ covers[p] # NoShipment
    /\ p \notin charged
    /\ charged' = charged \cup {p}
    /\ UNCHANGED <<covers, outcome, dispatched>>

Settle(p, result) ==
    /\ covers[p] # NoShipment
    /\ outcome[p] = "open"
    /\ result = "SUCCESS" => p \in charged
    /\ outcome' = [outcome EXCEPT ![p] = result]
    /\ UNCHANGED <<covers, charged, dispatched>>

Dispatch(s) ==
    /\ dispatched[s] = 0
    /\ \E p \in Payments : covers[p] = s /\ outcome[p] = "SUCCESS"
    /\ dispatched' = [dispatched EXCEPT ![s] = 1]
    /\ UNCHANGED <<covers, outcome, charged>>

Next ==
    \/ \E p \in Payments, s \in Shipments : Open(p, s)
    \/ \E p \in Payments : Charge(p)
    \/ \E p \in Payments, result \in {"SUCCESS", "FAILED"} : Settle(p, result)
    \/ \E s \in Shipments : Dispatch(s)

Spec == Init /\ [][Next]_promiseVars
=============================================================================
