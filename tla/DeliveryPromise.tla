--------------------------- MODULE DeliveryPromise ---------------------------
(***************************************************************************)
(* What the delivery of packages promises to the central and to those who  *)
(* ask for it, with no connection, buffer, key or request in sight: every  *)
(* row that is created has one report, which is pending until the central  *)
(* is told or it is lost; a report is lost only when the process ends or   *)
(* its channel is closed; and nobody is told that a package was delivered  *)
(* before there is a row of it.                                            *)
(***************************************************************************)
EXTENDS Naturals

CONSTANT Packages

VARIABLES
    rows,      \* rows[p]: the delivered rows of package p
    pending,   \* pending[p]: the reports of p that are still to come
    told,      \* told[p]: how often the central was told
    answered,  \* the packages somebody was told were delivered
    well       \* the process runs, and its channel is not a closed one

promiseVars == <<rows, pending, told, answered, well>>

Counts == [Packages -> Nat]

Init ==
    /\ rows = [p \in Packages |-> 0]
    /\ pending = [p \in Packages |-> 0]
    /\ told = [p \in Packages |-> 0]
    /\ answered = {}
    /\ well = TRUE

Record(p) ==
    /\ rows' = [rows EXCEPT ![p] = @ + 1]
    /\ pending' = [pending EXCEPT ![p] = @ + 1]
    /\ UNCHANGED <<told, answered, well>>

\* Reports reach the central, and answers the clients: any number at once, or
\* none when only the process or its channel recovers or fails.
Tell ==
    /\ {pending', told'} \subseteq Counts
    /\ \A p \in Packages :
          /\ told'[p] >= told[p]
          /\ told'[p] + pending'[p] = told[p] + pending[p]
    /\ answered \subseteq answered'
    /\ \A p \in answered' : rows[p] > 0
    /\ UNCHANGED rows

Lose ==
    /\ ~(well /\ well')
    /\ pending' \in Counts
    /\ \A p \in Packages : pending'[p] <= pending[p]
    /\ UNCHANGED <<rows, told, answered>>

Next == (\E p \in Packages : Record(p)) \/ Tell \/ Lose

Spec == Init /\ [][Next]_promiseVars
=============================================================================
