---------------------------- MODULE BudgetPromise ----------------------------
(***************************************************************************)
(* What a subscription promises to the customer who prepaid it, with no    *)
(* queue, lambda, retry or transaction in sight: a tick is charged at most *)
(* once, at the agreed price, while the balance and the amount allow it;   *)
(* at most one package leaves for a tick, and only for a charged one; once *)
(* closed, nothing more is charged, and it is closed only for a reason.    *)
(***************************************************************************)
EXTENDS Integers

CONSTANTS Ticks

VARIABLES
    open,     \* the subscription takes charges
    price,    \* of one shipment
    left,     \* how many shipments it may still charge
    balance,  \* what is left of the budget
    charged,  \* the ticks that were charged
    shipped   \* shipped[t]: the packages that left for tick t

promiseVars == <<open, price, left, balance, charged, shipped>>

Init ==
    /\ ~open
    /\ charged = {}
    /\ shipped = [t \in Ticks |-> 0]

Agree ==
    /\ ~open
    /\ charged = {}
    /\ open'
    /\ {price', left', balance'} \subseteq Nat
    /\ price' <= balance'
    /\ UNCHANGED <<charged, shipped>>

Charge(t) ==
    /\ open
    /\ t \notin charged
    /\ left > 0
    /\ balance >= price
    /\ left' = left - 1
    /\ balance' = balance - price
    /\ charged' = charged \cup {t}
    /\ open' = (left > 1)
    /\ UNCHANGED <<price, shipped>>

Exhaust ==
    /\ open
    /\ balance < price
    /\ ~open'
    /\ UNCHANGED <<price, left, balance, charged, shipped>>

Ship(t) ==
    /\ t \in charged
    /\ shipped[t] = 0
    /\ shipped' = [shipped EXCEPT ![t] = 1]
    /\ UNCHANGED <<open, price, left, balance, charged>>

Next == Agree \/ Exhaust \/ \E t \in Ticks : Charge(t) \/ Ship(t)

Spec == Init /\ [][Next]_promiseVars
=============================================================================
