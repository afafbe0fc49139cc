--------------------------- MODULE PackageDelivery ---------------------------
(***************************************************************************)
(* POST /packages/:id/deliver: PackagesService.deliverPackage records in   *)
(* AuditEvent that a package reached its customer, under an idempotency    *)
(* key, and AuditService reports it to the central through the broker of   *)
(* module Broker.  The requests overlap with each other, with the calls of *)
(* connect() and with the end of the process.                              *)
(*                                                                         *)
(* The message the broker sends about a package is named by the package.   *)
(* The key of a request that brings none, delivered:<id>, is named by the  *)
(* package too.                                                            *)
(***************************************************************************)
EXTENDS Broker

CONSTANTS
    Packages,
    Elsewhere,    \* those whose destination is another city
    Held,         \* those with a deliverNotBefore that has not passed yet
    ClientKeys,   \* values of body.idpk or the Idempotency-Key header
    NoPackage,
    OldPackage,   \* any package that was delivered long ago
    MaxRequests   \* bound: requests, in the order they arrive

ASSUME PackageDeliveryAssumption ==
    /\ Packages = Outgoing
    /\ Elsewhere \subseteq Packages
    /\ Held \subseteq Packages
    /\ NoPackage \notin Packages
    /\ OldPackage \notin Packages \cup {NoPackage}
    /\ ClientKeys \cap Packages = {}
    /\ MaxRequests \in Nat

Keys == Packages \cup ClientKeys
Requests == 1..MaxRequests

VARIABLES
    package,      \* package[p]: its latest PackageEvent, if there is one
    audit,        \* audit[k]: the package of the delivered row with idpk k
    request       \* request[r]: where a request awaits, and its answer

deliveryVars == <<package, audit, request>>
vars == <<brokerVars, deliveryVars>>

Idle == [pc |-> "idle", p |-> NoPackage, key |-> NoPackage]

Init ==
    /\ BrokerInit
    /\ package = [p \in Packages |-> "absent"]
    /\ audit \in {a \in [Keys -> {NoPackage, OldPackage}] :
                   \A p \in Packages : a[p] = NoPackage}
    /\ request = [r \in Requests |-> Idle]

At(r, pc) == request[r].pc = pc
Go(r, pc) == request' = [request EXCEPT ![r].pc = pc]

\* alreadyDelivered is false or true; 400, 404 and 409; 500 or no answer.
Answers == {"delivered", "already", "rejected", "error"}
Ended(r) == request[r].pc \in Answers

RowsOf(p) == {k \in Keys : audit[k] = p}

-----------------------------------------------------------------------------
(* The packages.                                                           *)

\* A package is stored: createPackage, or the message of another city.
CreatePackage(p) ==
    /\ up
    /\ package[p] = "absent"
    /\ package' = [package EXCEPT ![p] = IF p \in Held THEN "held" ELSE "due"]
    /\ UNCHANGED <<brokerVars, audit, request>>

\* deliverNotBefore passes.
BecomesDue(p) ==
    /\ package[p] = "held"
    /\ package' = [package EXCEPT ![p] = "due"]
    /\ UNCHANGED <<brokerVars, audit, request>>

-----------------------------------------------------------------------------
(* deliverPackage                                                          *)

\* The HTTP server listens once the first call of connect() has returned,
\* connected or refused: a request may find either.
Ask(r, p, k) ==
    /\ up
    /\ At(r, "idle")
    /\ \A q \in 1..(r - 1) : ~At(q, "idle")
    /\ request' = [request EXCEPT ![r] = [pc |-> "find", p |-> p, key |-> k]]
    /\ UNCHANGED <<brokerVars, package, audit>>

\* The package is read and then its delivered row.  One step: a package that
\* is due stays due.
Find(r) ==
    /\ At(r, "find")
    /\ LET p == request[r].p IN
         Go(r, CASE package[p] = "absent" -> "rejected"
                 [] p \in Elsewhere \/ package[p] = "held" -> "rejected"
                 [] OTHER -> IF RowsOf(p) # {} THEN "already" ELSE "create")
    /\ UNCHANGED <<brokerVars, package, audit>>

CreateAudit(r) ==
    /\ At(r, "create")
    /\ audit[request[r].key] = NoPackage
    /\ audit' = [audit EXCEPT ![request[r].key] = request[r].p]
    /\ Go(r, "report")
    /\ UNCHANGED <<brokerVars, package>>

\* A mutant: every P2002 is taken for a repetition.
KeyIsTaken_IsRepetition(r) ==
    /\ At(r, "create")
    /\ audit[request[r].key] # NoPackage
    /\ Go(r, "already")
    /\ UNCHANGED <<brokerVars, package, audit>>

\* P2002: the key is taken, by a delivery of this package or of another one.
\* The row of the package is read again, and rows are never deleted.
KeyIsTaken(r) ==
    /\ At(r, "create")
    /\ audit[request[r].key] # NoPackage
    /\ Go(r, IF RowsOf(request[r].p) # {} THEN "already" ELSE "rejected")
    /\ UNCHANGED <<brokerVars, package, audit>>

\* Another error of the database; the row is not written.
CreateFails(r) ==
    /\ At(r, "create")
    /\ Fault
    /\ Go(r, "error")
    /\ UNCHANGED <<up, connVars, outVars, queueVars, package, audit>>

\* reportDelivered
Report(r) ==
    /\ At(r, "report")
    /\ ~SendThrows
    /\ Send(request[r].p)
    /\ Go(r, "delivered")
    /\ UNCHANGED <<up, connVars, queueVars, faults, package, audit>>

\* send() throws, and the row stays.
ReportThrows(r) ==
    /\ At(r, "report")
    /\ SendThrows
    /\ Go(r, "error")
    /\ UNCHANGED <<brokerVars, package, audit>>

-----------------------------------------------------------------------------
\* The requests in progress end with the process, whatever they had done.
CutShort ==
    /\ request' = [r \in Requests |->
                     IF At(r, "idle") \/ Ended(r) THEN request[r]
                     ELSE [request[r] EXCEPT !.pc = "error"]]
    /\ UNCHANGED <<package, audit>>

Handle(r) ==
    \/ Find(r) \/ CreateAudit(r) \/ KeyIsTaken(r)
    \/ Report(r) \/ ReportThrows(r)

Next ==
    \/ BrokerNext /\ UNCHANGED deliveryVars
    \/ BrokerExit /\ CutShort
    \/ \E p \in Packages : CreatePackage(p) \/ BecomesDue(p)
    \/ \E r \in Requests :
          \/ Handle(r) \/ CreateFails(r)
          \/ \E p \in Packages : \E k \in ClientKeys \cup {p} : Ask(r, p, k)

Spec == Init /\ [][Next]_vars

FairSpec ==
    /\ Spec
    /\ BrokerFairness
    /\ WF_vars(\E r \in Requests : Handle(r))
=============================================================================
