--------------------------- MODULE PaymentsProofs ---------------------------
(***************************************************************************)
(* Proofs about Payments, for every set of shipments and requests and every *)
(* bound: types, webpay.commit and publication at most once, one outcome    *)
(* heard, statuses backed by payments, the refinement of PaymentPromise,    *)
(* and that the package of a settled payment leaves unless something fails. *)
(*                                                                          *)
(* The argument is one inductive invariant, IndInv.  Two claims carry it:   *)
(* TRYING -> COMMITTING (OneCommitter) and the row `initial:<packageId>`    *)
(* (OnePublisher); the rest says that a request past a claim still agrees   *)
(* with the rows it won it on (VerdictsAreTrue).                            *)
(***************************************************************************)
EXTENDS PaymentProperties, TLAPS

\* Fresh locals have the shape of a request.
LEMMA LocalsType ==
  ASSUME NEW where \in PcStates, NEW s \in Shipments \cup {NoShipment},
         NEW p \in 0..MaxPayments
  PROVE  Locals(where, s, p) \in Request
  BY DEF Locals, Request, Final

\* Accepting a request keeps the table of requests well typed.
LEMMA BeginType ==
  ASSUME req \in [Requests -> Request], NEW r \in Requests,
         NEW where \in PcStates, NEW s \in Shipments \cup {NoShipment},
         NEW p \in 0..MaxPayments, Begin(r, where, s, p)
  PROVE  req' \in [Requests -> Request]
  BY LocalsType DEF Begin

\* Moving a request keeps the table of requests well typed.
LEMMA GoType ==
  ASSUME req \in [Requests -> Request], NEW r \in Requests,
         NEW where \in PcStates, Go(r, where)
  PROVE  req' \in [Requests -> Request]
  BY DEF Go, Request

\* An idle request is a request.
LEMMA IdleType == Idle \in Request
  BY LocalsType, PaymentsAssumption DEF Idle, PcStates

\* Ending a request keeps the table of requests well typed.
LEMMA DoneType ==
  ASSUME req \in [Requests -> Request], NEW r \in Requests, Done(r)
  PROVE  req' \in [Requests -> Request]
  BY IdleType DEF Done

\* A verdict keeps the table of requests well typed.
LEMMA DecideType ==
  ASSUME req \in [Requests -> Request], NEW r \in Requests,
         NEW v \in Final, Decide(r, v)
  PROVE  req' \in [Requests -> Request]
  BY DEF Decide, Request, PcStates

\* The locals after Decide: used instead of the nested EXCEPT.
LEMMA DecideLocals ==
  ASSUME TypeOK, NEW r \in Requests, NEW v \in Final, Decide(r, v)
  PROVE  /\ \A q \in Requests : q # r => req'[q] = req[q]
         /\ req'[r].pc = "finalize"
         /\ req'[r].p = req[r].p
         /\ req'[r].verdict = v
  BY DEF Decide, TypeOK, Request

\* An answer reports a status of the table.
LEMMA AnswerType ==
  ASSUME TypeOK, NEW p \in Payments, Answer(p)
  PROVE  told' \subseteq Payments \X PaymentStatus
  BY DEF Answer, TypeOK

\* Every step of every handler keeps the types.
LEMMA TypeStep ==
  ASSUME TypeOK, RowsExist, [Next]_vars
  PROVE  TypeOK'
<1> USE DEF TypeOK, dbVars, outVars
<1>1. ASSUME NEW r \in Requests, NEW s \in Shipments, InitPayment(r, s)
      PROVE  TypeOK'
  <2>1. req' \in [Requests -> Request]
    BY <1>1, BeginType, PaymentsAssumption DEF InitPayment, PcStates
  <2> QED  BY <1>1, <2>1 DEF InitPayment
<1>2. ASSUME NEW r \in Requests, NEW p \in Payments, CommitAgain(r, p)
      PROVE  TypeOK'
  BY <1>2, AnswerType DEF CommitAgain
<1>3. ASSUME NEW r \in Requests, NEW p \in Payments, CommitJoins(r, p)
      PROVE  TypeOK'
  <2>1. req' \in [Requests -> Request]
    BY <1>3, BeginType, PaymentsAssumption DEF CommitJoins, PcStates, Payments
  <2> QED  BY <1>3, <2>1 DEF CommitJoins
<1>4. ASSUME NEW r \in Requests, NEW p \in Payments, CommitPayment(r, p)
      PROVE  TypeOK'
  <2>1. req' \in [Requests -> Request]
    BY <1>4, BeginType, PaymentsAssumption DEF CommitPayment, PcStates, Payments
  <2> QED  BY <1>4, <2>1 DEF CommitPayment
<1>5. ASSUME NEW r \in Requests, NEW p \in Payments, CommitAborted(r, p)
      PROVE  TypeOK'
  <2>1. req' \in [Requests -> Request]
    BY <1>5, BeginType, PaymentsAssumption DEF CommitAborted, PcStates, Payments
  <2> QED  BY <1>5, <2>1 DEF CommitAborted
<1>6. ASSUME NEW r \in Requests, FindTrying(r)
      PROVE  TypeOK'
  <2>1. req' \in [Requests -> Request]
    BY <1>6, GoType, DoneType DEF FindTrying, PcStates
  <2> QED  BY <1>6, <2>1 DEF FindTrying
<1>7. ASSUME NEW r \in Requests, CreatePayment(r)
      PROVE  TypeOK'
  <2>1. req[r].s \in Shipments
    BY <1>7 DEF CreatePayment, RowsExist, At
  <2>2. PICK p \in Payments :
          /\ payment' = [payment EXCEPT ![p] = "TRYING"]
          /\ covers' = [covers EXCEPT ![p] = req[r].s]
          /\ Begin(r, "webpayCreate", req[r].s, p)
    BY <1>7 DEF CreatePayment
  <2>3. req' \in [Requests -> Request]
    BY <2>1, <2>2, BeginType DEF PcStates, Payments
  <2> QED  BY <1>7, <2>1, <2>2, <2>3 DEF CreatePayment, PaymentStatus
<1>8. ASSUME NEW r \in Requests, WebpayCreate(r)
      PROVE  TypeOK'
  <2>1. req' \in [Requests -> Request]
    BY <1>8, GoType, DoneType DEF WebpayCreate, PcStates
  <2>2. req[r] \in Request /\ req[r].p \in Payments /\ covers[req[r].p] \in Shipments
    BY <1>8 DEF WebpayCreate, RowsExist, BeforeRow, At, Request
  <2> QED  BY <1>8, <2>1, <2>2 DEF WebpayCreate
<1>9. ASSUME NEW r \in Requests, SaveToken(r)
      PROVE  TypeOK'
  <2>1. req' \in [Requests -> Request]
    BY <1>9, GoType DEF SaveToken, PcStates
  <2>2. req[r] \in Request /\ req[r].p \in Payments /\ covers[req[r].p] \in Shipments
    BY <1>9 DEF SaveToken, RowsExist, BeforeRow, At, Request
  <2> QED  BY <1>9, <2>1, <2>2 DEF SaveToken
<1>10. ASSUME NEW r \in Requests, AuditTrying(r)
      PROVE  TypeOK'
  <2>1. req' \in [Requests -> Request]
    BY <1>10, DoneType DEF AuditTrying, PcStates
  <2>2. req[r] \in Request /\ req[r].p \in Payments /\ covers[req[r].p] \in Shipments
    BY <1>10 DEF AuditTrying, RowsExist, BeforeRow, At, Request
  <2> QED  BY <1>10, <2>1, <2>2 DEF AuditTrying, PaymentStatus, Final, Request
<1>11. ASSUME NEW r \in Requests, Claim(r)
      PROVE  TypeOK'
  <2>1. req' \in [Requests -> Request]
    BY <1>11, GoType DEF Claim, PcStates
  <2>2. req[r] \in Request /\ req[r].p \in Payments /\ covers[req[r].p] \in Shipments
    BY <1>11 DEF Claim, RowsExist, BeforeRow, At, Request
  <2> QED  BY <1>11, <2>1, <2>2 DEF Claim, PaymentStatus, Final, Request
<1>12. ASSUME NEW r \in Requests, WebpayCommit(r)
      PROVE  TypeOK'
  <2>1. req' \in [Requests -> Request]
    BY <1>12, GoType, DecideType DEF WebpayCommit, PcStates, Verdict, Final
  <2>2. req[r] \in Request /\ req[r].p \in Payments /\ covers[req[r].p] \in Shipments
    BY <1>12 DEF WebpayCommit, RowsExist, BeforeRow, At, Request
  <2> QED  BY <1>12, <2>1, <2>2 DEF WebpayCommit
<1>13. ASSUME NEW r \in Requests, WebpayStatus(r)
      PROVE  TypeOK'
  <2>1. req' \in [Requests -> Request]
    BY <1>13, DecideType DEF WebpayStatus, PcStates, Verdict, Final
  <2> QED  BY <1>13, <2>1 DEF WebpayStatus
<1>14. ASSUME NEW r \in Requests, WaitForFinalState(r)
      PROVE  TypeOK'
  <2>1. req' \in [Requests -> Request]
    BY <1>14, DoneType DEF WaitForFinalState, PcStates
  <2>2. req[r] \in Request /\ req[r].p \in Payments /\ covers[req[r].p] \in Shipments
    BY <1>14 DEF WaitForFinalState, RowsExist, BeforeRow, At, Request
  <2> QED  BY <1>14, <2>1, <2>2, AnswerType DEF WaitForFinalState
<1>15. ASSUME NEW r \in Requests, Finalize(r)
      PROVE  TypeOK'
  <2>1. req' \in [Requests -> Request]
    BY <1>15, GoType, DoneType DEF Finalize, PcStates
  <2>2. req[r] \in Request /\ req[r].p \in Payments /\ covers[req[r].p] \in Shipments
    BY <1>15 DEF Finalize, RowsExist, BeforeRow, At, Request
  <2> QED  BY <1>15, <2>1, <2>2, AnswerType DEF Finalize, PaymentStatus, Final, Request
<1>16. ASSUME NEW r \in Requests, MarkPaid(r)
      PROVE  TypeOK'
  <2>1. req' \in [Requests -> Request]
    BY <1>16, GoType DEF MarkPaid, ShipmentStep, PcStates
  <2>2. req[r] \in Request /\ req[r].p \in Payments /\ covers[req[r].p] \in Shipments
    BY <1>16 DEF MarkPaid, ShipmentStep, RowsExist, BeforeRow, At, Request
  <2> QED  BY <1>16, <2>1, <2>2 DEF MarkPaid, ShipmentStep, UpdateShipment, ShipmentStatus
<1>17. ASSUME NEW r \in Requests, MarkFailed(r)
      PROVE  TypeOK'
  <2>1. req' \in [Requests -> Request]
    BY <1>17, GoType DEF MarkFailed, ShipmentStep, PcStates
  <2>2. req[r] \in Request /\ req[r].p \in Payments /\ covers[req[r].p] \in Shipments
    BY <1>17 DEF MarkFailed, ShipmentStep, RowsExist, BeforeRow, At, Request
  <2> QED  BY <1>17, <2>1, <2>2 DEF MarkFailed, ShipmentStep, UpdateShipment, ShipmentStatus
<1>18. ASSUME NEW r \in Requests, SendInitial(r)
      PROVE  TypeOK'
  <2>1. req' \in [Requests -> Request]
    BY <1>18, GoType DEF SendInitial, PcStates
  <2>2. req[r] \in Request /\ req[r].p \in Payments /\ covers[req[r].p] \in Shipments
    BY <1>18 DEF SendInitial, RowsExist, BeforeRow, At, Request
  <2> QED  BY <1>18, <2>1, <2>2 DEF SendInitial
<1>19. ASSUME NEW r \in Requests, Publish(r)
      PROVE  TypeOK'
  <2>1. req' \in [Requests -> Request]
    BY <1>19, GoType DEF Publish, PcStates
  <2>2. req[r] \in Request /\ req[r].p \in Payments /\ covers[req[r].p] \in Shipments
    BY <1>19 DEF Publish, RowsExist, BeforeRow, At, Request
  <2> QED  BY <1>19, <2>1, <2>2 DEF Publish
<1>20. ASSUME NEW r \in Requests, MarkSent(r)
      PROVE  TypeOK'
  <2>1. req' \in [Requests -> Request]
    BY <1>20, GoType DEF MarkSent, ShipmentStep, PcStates
  <2>2. req[r] \in Request /\ req[r].p \in Payments /\ covers[req[r].p] \in Shipments
    BY <1>20 DEF MarkSent, ShipmentStep, RowsExist, BeforeRow, At, Request
  <2> QED  BY <1>20, <2>1, <2>2 DEF MarkSent, ShipmentStep, UpdateShipment, ShipmentStatus
<1>21. ASSUME NEW r \in Requests, MarkPending(r)
      PROVE  TypeOK'
  <2>1. req' \in [Requests -> Request]
    BY <1>21, GoType DEF MarkPending, ShipmentStep, PcStates
  <2>2. req[r] \in Request /\ req[r].p \in Payments /\ covers[req[r].p] \in Shipments
    BY <1>21 DEF MarkPending, ShipmentStep, RowsExist, BeforeRow, At, Request
  <2> QED  BY <1>21, <2>1, <2>2 DEF MarkPending, ShipmentStep, UpdateShipment, ShipmentStatus
<1>22. ASSUME NEW r \in Requests, AuditFinal(r)
      PROVE  TypeOK'
  <2>1. req' \in [Requests -> Request]
    BY <1>22, DoneType DEF AuditFinal, PcStates
  <2>2. req[r] \in Request /\ req[r].p \in Payments /\ covers[req[r].p] \in Shipments
    BY <1>22 DEF AuditFinal, RowsExist, BeforeRow, At, Request
  <2> QED  BY <1>22, <2>1, <2>2, AnswerType DEF AuditFinal, PaymentStatus, Final, Request
<1>23. ASSUME NEW r \in Requests, Throw(r)
      PROVE  TypeOK'
  <2>1. req' \in [Requests -> Request]
    BY <1>23, GoType, DoneType DEF Throw, PcStates
  <2> QED  BY <1>23, <2>1, PaymentsAssumption DEF Throw
<1>24. ASSUME NEW s \in Shipments, ChargeInsurance(s)
      PROVE  TypeOK'
  BY <1>24 DEF ChargeInsurance, ShipmentStatus
<1>25. ASSUME Crash
      PROVE  TypeOK'
  BY <1>25, IdleType, PaymentsAssumption DEF Crash
<1>26. CASE UNCHANGED vars
  BY <1>26 DEF vars, dbVars, outVars
<1> QED
  BY <1>1, <1>2, <1>3, <1>4, <1>5, <1>6, <1>7, <1>8, <1>9, <1>10, <1>11, <1>12, <1>13, <1>14, <1>15, <1>16, <1>17, <1>18, <1>19, <1>20, <1>21, <1>22, <1>23, <1>24, <1>25, <1>26
     DEF Next, Accept, Step

(***************************************************************************)
(* A step of request r that wins no claim and changes no row of payments    *)
(* or packages keeps the invariant if the place r goes to suits its row.    *)
(***************************************************************************)
Rows == <<payment, covers, token, claims, webpay, commits, published>>

Parts == RowsExist /\ OneCreator /\ OneCommitter /\ OnePublisher
           /\ VerdictsAreTrue

Others(r) == \A q \in Requests : q # r => req'[q] = req[q]

Moves(r, where) ==
    /\ Others(r)
    /\ req'[r].pc = where
    /\ req'[r].s = req[r].s
    /\ req'[r].p = req[r].p
    /\ req'[r].verdict = req[r].verdict

Suits(l) ==
    /\ l.pc \in {"find", "create"} => l.s \in Shipments
    /\ l.pc \notin BeforeRow => l.p \in Payments /\ payment[l.p] # "NONE"
    /\ l.pc = "finalize" /\ l.verdict = "SUCCESS" => webpay[l.p] = "authorized"
    /\ l.pc \in Sending => payment[l.p] = "SUCCESS" /\ l.verdict = "SUCCESS"
    /\ l.pc = "markFailed" => payment[l.p] = "FAILED" /\ l.verdict = "FAILED"
    /\ l.pc = "audit" => payment[l.p] = l.verdict
    /\ l.pc = "markSent" => covers[l.p] \in claims

\* A quiet step of r keeps every part.
LEMMA QuietStep ==
  ASSUME Parts, NEW r \in Requests, UNCHANGED Rows, Others(r), Suits(req'[r]),
         req'[r].pc \notin {"webpayCreate", "webpayCommit", "publish"}
  PROVE  Parts'
<1> USE DEF Rows, Parts, Others, At
<1>1. RowsExist'
  BY DEF RowsExist, Suits
<1>2. OneCreator' /\ OneCommitter' /\ OnePublisher'
  BY DEF OneCreator, OneCommitter, OnePublisher
<1>3. VerdictsAreTrue'
  BY DEF VerdictsAreTrue, Suits
<1> QED
  BY <1>1, <1>2, <1>3

\* Go changes the place of its request and nothing else of any request.
LEMMA GoMoves ==
  ASSUME TypeOK, NEW r \in Requests, NEW where \in PcStates, Go(r, where)
  PROVE  Moves(r, where)
  BY DEF Go, TypeOK, Request, Moves, Others

\* Done empties its request and touches no other.
LEMMA DoneLocals ==
  ASSUME TypeOK, NEW r \in Requests, Done(r)
  PROVE  Others(r) /\ req'[r].pc = "idle"
  BY DEF Done, TypeOK, Others, Idle, Locals

\* A request that ends disturbs nothing.
LEMMA DoneStep ==
  ASSUME TypeOK, Parts, NEW r \in Requests, Done(r), UNCHANGED Rows
  PROVE  Parts'
<1>1. Others(r) /\ req'[r].pc = "idle"
  BY DoneLocals
<1>2. Suits(req'[r])
  BY <1>1 DEF Suits, BeforeRow, Sending
<1> QED
  BY <1>1, <1>2, QuietStep

\* A request that goes on with its row, to a place that suits it.
LEMMA GoStep ==
  ASSUME TypeOK, Parts, NEW r \in Requests, NEW where \in PcStates,
         Go(r, where), UNCHANGED Rows, Suits([req[r] EXCEPT !.pc = where]),
         where \notin {"webpayCreate", "webpayCommit", "publish"}
  PROVE  Parts'
<1>1. Moves(r, where)
  BY GoMoves
<1>2. Suits(req'[r])
  BY <1>1 DEF Suits, Moves, TypeOK, Request
<1> QED
  BY <1>1, <1>2, QuietStep DEF Moves

\* A request that is accepted at a place that suits its row.
LEMMA BeginStep ==
  ASSUME TypeOK, Parts, NEW r \in Requests, NEW where, NEW s, NEW p,
         Begin(r, where, s, p), UNCHANGED Rows, Suits(Locals(where, s, p)),
         where \notin {"webpayCreate", "webpayCommit", "publish"}
  PROVE  Parts'
<1>1. Others(r) /\ req'[r] = Locals(where, s, p)
  BY DEF Begin, Others, TypeOK
<1> QED
  BY <1>1, QuietStep DEF Locals

\* A verdict that Webpay backs disturbs nothing.
LEMMA DecideStep ==
  ASSUME TypeOK, Parts, NEW r \in Requests, NEW v \in Final, Decide(r, v),
         UNCHANGED Rows, req[r].pc \notin BeforeRow,
         v = "SUCCESS" => webpay[req[r].p] = "authorized"
  PROVE  Parts'
<1>1. /\ Others(r) /\ req'[r].pc = "finalize"
      /\ req'[r].p = req[r].p /\ req'[r].verdict = v
  BY DecideLocals DEF Others
<1>2. Suits(req'[r])
  BY <1>1 DEF Suits, Parts, RowsExist, BeforeRow, Sending
<1> QED
  BY <1>1, <1>2, QuietStep

(***************************************************************************)
(* The steps that write a row, or win a claim.                             *)
(***************************************************************************)
\* initPayment inserts its row: nobody else holds it yet.
LEMMA CreateStep ==
  ASSUME TypeOK, Parts, NEW r \in Requests, CreatePayment(r)
  PROVE  Parts'
<1> USE DEF Parts
<1>1. PICK p \in Payments :
        /\ payment[p] = "NONE"
        /\ payment' = [payment EXCEPT ![p] = "TRYING"]
        /\ covers' = [covers EXCEPT ![p] = req[r].s]
        /\ Begin(r, "webpayCreate", req[r].s, p)
  BY DEF CreatePayment, NextRow
<1>2. req[r].s \in Shipments /\ UNCHANGED <<token, claims, webpay, commits, published>>
  BY DEF CreatePayment, RowsExist, At, outVars
<1>3. Others(r) /\ req'[r].pc = "webpayCreate" /\ req'[r].p = p
  BY <1>1 DEF Begin, Locals, TypeOK, Others
<1>4. \A q \in Requests : req[q].pc \notin BeforeRow => req[q].p # p
  BY <1>1 DEF RowsExist
<1> USE DEF Others, At, TypeOK, BeforeRow
<1>5. RowsExist'
  BY <1>1, <1>2, <1>3 DEF RowsExist
<1>6. OneCreator'
  BY <1>1, <1>2, <1>3, <1>4 DEF OneCreator, RowsExist
<1>7. OneCommitter'
  BY <1>1, <1>2, <1>3, <1>4 DEF OneCommitter, RowsExist
<1>8. OnePublisher'
  BY <1>1, <1>2, <1>3, <1>4 DEF OnePublisher, RowsExist
<1>9. VerdictsAreTrue'
  BY <1>1, <1>2, <1>3, <1>4 DEF VerdictsAreTrue, RowsExist, Sending
<1> QED
  BY <1>5, <1>6, <1>7, <1>8, <1>9

\* The row's creator opens its Webpay transaction.
LEMMA WebpayCreateStep ==
  ASSUME TypeOK, Parts, NEW r \in Requests, WebpayCreate(r)
  PROVE  Parts'
<1> USE DEF Parts
<1>1. CASE Done(r) /\ UNCHANGED webpay
  BY <1>1, DoneStep DEF WebpayCreate, dbVars, Rows
<1>2. CASE /\ webpay' = [webpay EXCEPT ![req[r].p] = "open"]
           /\ Go(r, "saveToken")
  <2>1. Moves(r, "saveToken")
    BY <1>2, GoMoves DEF PcStates
  <2>2. /\ req[r].pc = "webpayCreate" /\ req[r].p \in Payments
        /\ webpay[req[r].p] = "absent"
        /\ UNCHANGED <<payment, covers, token, claims, commits, published>>
    BY DEF WebpayCreate, dbVars, At, RowsExist, BeforeRow, OneCreator
  <2> USE DEF Moves, Others, At, TypeOK, BeforeRow
  <2>3. RowsExist'
    BY <2>1, <2>2 DEF RowsExist
  <2>4. OneCreator'
    BY <1>2, <2>1, <2>2 DEF OneCreator, RowsExist
  <2>5. OneCommitter' /\ OnePublisher'
    BY <2>1, <2>2 DEF OneCommitter, OnePublisher
  <2>6. VerdictsAreTrue'
    BY <1>2, <2>1, <2>2 DEF VerdictsAreTrue, RowsExist, Sending
  <2> QED
    BY <2>3, <2>4, <2>5, <2>6
<1> QED
  BY <1>1, <1>2 DEF WebpayCreate

\* The token is stored on an existing row.
LEMMA SaveTokenStep ==
  ASSUME TypeOK, Parts, NEW r \in Requests, SaveToken(r)
  PROVE  Parts'
<1> USE DEF Parts
<1>1. Moves(r, "auditTrying")
  BY GoMoves DEF SaveToken, PcStates
<1>2. /\ req[r].pc = "saveToken" /\ token' = token \cup {req[r].p}
      /\ UNCHANGED <<payment, covers, claims, webpay, commits, published>>
  BY DEF SaveToken, At, outVars
<1> USE DEF Moves, Others, At, BeforeRow
<1>3. RowsExist'
  BY <1>1, <1>2 DEF RowsExist
<1>4. OneCreator' /\ OneCommitter' /\ OnePublisher'
  BY <1>1, <1>2 DEF OneCreator, OneCommitter, OnePublisher
<1>5. VerdictsAreTrue'
  BY <1>1, <1>2 DEF VerdictsAreTrue, Sending
<1> QED
  BY <1>3, <1>4, <1>5

\* TRYING -> COMMITTING: one request wins the right to commit.
LEMMA ClaimStep ==
  ASSUME TypeOK, Parts, NEW r \in Requests, Claim(r)
  PROVE  Parts'
<1> USE DEF Parts
<1>1. CASE Go(r, "wait") /\ UNCHANGED payment
  <2>1. Suits([req[r] EXCEPT !.pc = "wait"])
    BY DEF Suits, Claim, At, RowsExist, BeforeRow, Sending, TypeOK, Request
  <2> QED
    BY <1>1, <2>1, GoStep DEF Claim, Rows, outVars, PcStates
<1>2. CASE /\ payment[req[r].p] = "TRYING"
           /\ payment' = [payment EXCEPT ![req[r].p] = "COMMITTING"]
           /\ Go(r, "webpayCommit")
  <2>1. Moves(r, "webpayCommit")
    BY <1>2, GoMoves DEF PcStates
  <2>2. /\ req[r].pc = "claim" /\ req[r].p \in Payments
        /\ UNCHANGED <<covers, token, claims, webpay, commits, published>>
    BY DEF Claim, At, outVars, RowsExist, BeforeRow
  <2> USE DEF Moves, Others, At, TypeOK, BeforeRow
  <2>3. RowsExist'
    BY <1>2, <2>1, <2>2 DEF RowsExist
  <2>4. OneCreator'
    BY <1>2, <2>1, <2>2 DEF OneCreator, RowsExist
  <2>5. OneCommitter'
    BY <1>2, <2>1, <2>2 DEF OneCommitter, RowsExist
  <2>6. OnePublisher'
    BY <2>1, <2>2 DEF OnePublisher
  <2>7. VerdictsAreTrue'
    BY <1>2, <2>1, <2>2 DEF VerdictsAreTrue, RowsExist, Sending, Final, Request
  <2> QED
    BY <2>3, <2>4, <2>5, <2>6, <2>7
<1> QED
  BY <1>1, <1>2 DEF Claim

\* The winner commits; the verdict is what Webpay did.
LEMMA WebpayCommitStep ==
  ASSUME TypeOK, Parts, NEW r \in Requests, WebpayCommit(r)
  PROVE  Parts'
<1> USE DEF Parts
<1>1. /\ req[r].pc = "webpayCommit" /\ req[r].p \in Payments
      /\ payment[req[r].p] \notin {"NONE", "TRYING"}
      /\ commits' = [commits EXCEPT ![req[r].p] = @ + 1]
      /\ UNCHANGED <<payment, covers, token, claims, published>>
  BY DEF WebpayCommit, dbVars, At, RowsExist, BeforeRow, OneCommitter
<1>2. PICK v \in Final :
        /\ Others(r) /\ req'[r].p = req[r].p
        /\ \/ /\ req'[r].pc = "finalize" /\ req'[r].verdict = v
              /\ v = "SUCCESS" => webpay'[req[r].p] = "authorized"
           \/ req'[r].pc = "webpayStatus"
  <2>1. CASE /\ webpay[req[r].p] = "open"
             /\ \E w \in {"authorized", "rejected"} :
                   /\ webpay' = [webpay EXCEPT ![req[r].p] = w]
                   /\ Decide(r, Verdict(w))
    BY <1>1, <2>1, DecideLocals DEF Verdict, Final, Others, TypeOK
  <2>2. CASE Go(r, "webpayStatus")
    BY <2>2, GoMoves DEF PcStates, Moves, Final
  <2> QED
    BY <2>1, <2>2 DEF WebpayCommit
<1>3. \A p \in Payments :
         \/ webpay'[p] = webpay[p]
         \/ p = req[r].p /\ webpay[p] = "open" /\ webpay'[p] # "absent"
  BY <1>1 DEF WebpayCommit, TypeOK
<1> USE DEF Others, At, TypeOK, BeforeRow
<1>4. RowsExist'
  BY <1>1, <1>2 DEF RowsExist
<1>5. OneCreator'
  BY <1>1, <1>2, <1>3 DEF OneCreator, RowsExist
<1>6. OneCommitter'
  BY <1>1, <1>2 DEF OneCommitter, RowsExist
<1>7. OnePublisher'
  BY <1>1, <1>2 DEF OnePublisher
<1>8. VerdictsAreTrue'
  BY <1>1, <1>2, <1>3 DEF VerdictsAreTrue, RowsExist, Sending
<1> QED
  BY <1>4, <1>5, <1>6, <1>7, <1>8

\* One request settles the row, with a verdict Webpay backs.
LEMMA FinalizeStep ==
  ASSUME TypeOK, Parts, NEW r \in Requests, Finalize(r)
  PROVE  Parts'
<1> USE DEF Parts
<1> DEFINE next == IF req[r].verdict = "SUCCESS" THEN "markPaid" ELSE "markFailed"
<1>1. CASE Done(r) /\ UNCHANGED payment
  BY <1>1, DoneStep DEF Finalize, Rows
<1>2. CASE /\ payment[req[r].p] \in {"TRYING", "COMMITTING"}
           /\ payment' = [payment EXCEPT ![req[r].p] = req[r].verdict]
           /\ Go(r, next)
  <2>1. Moves(r, next)
    BY <1>2, GoMoves DEF PcStates
  <2>2. /\ req[r].pc = "finalize" /\ req[r].p \in Payments
        /\ req[r].verdict \in Final
        /\ UNCHANGED <<covers, token, claims, webpay, commits, published>>
    BY DEF Finalize, At, RowsExist, BeforeRow, TypeOK, Request
  <2>3. /\ req'[r].pc \in {"markPaid", "markFailed"}
        /\ req'[r].pc = "markPaid" <=> req[r].verdict = "SUCCESS"
    BY <2>1 DEF Moves
  <2> USE DEF Moves, Others, At, TypeOK, BeforeRow, Final
  <2>4. RowsExist'
    BY <1>2, <2>1, <2>2 DEF RowsExist
  <2>5. OneCreator'
    BY <1>2, <2>1, <2>2, <2>3 DEF OneCreator, RowsExist
  <2>6. OneCommitter'
    BY <1>2, <2>1, <2>2, <2>3 DEF OneCommitter, RowsExist
  <2>7. OnePublisher'
    BY <2>1, <2>2, <2>3 DEF OnePublisher
  <2>8. VerdictsAreTrue'
    <3> HIDE DEF next
    <3>1. \A p \in Payments :
             payment'[p] = "SUCCESS" => webpay'[p] = "authorized"
      BY <1>2, <2>2 DEF VerdictsAreTrue
    <3> DEFINE Fits(q) == Suits(req[q])
    <3>2. Fits(r)'
      BY <1>2, <2>1, <2>2, <2>3 DEF Suits, Sending
    <3>3. ASSUME NEW q \in Requests, q # r PROVE Fits(q)'
      <4>1. Fits(q) /\ req'[q] = req[q] /\ req[q].verdict \in Final
        BY <2>1, <3>3 DEF Suits, RowsExist, VerdictsAreTrue, Request
      <4> QED
        BY <1>2, <2>2, <4>1 DEF Suits, Sending
    <3> QED
      BY <3>1, <3>2, <3>3 DEF VerdictsAreTrue, Suits, Sending
  <2> QED
    BY <2>4, <2>5, <2>6, <2>7, <2>8
<1> QED
  BY <1>1, <1>2 DEF Finalize

\* One request wins the right to publish the package.
LEMMA SendStep ==
  ASSUME TypeOK, Parts, NEW r \in Requests, SendInitial(r)
  PROVE  Parts'
<1> USE DEF Parts
<1>1. /\ req[r].pc = "send" /\ req[r].p \in Payments
      /\ payment[req[r].p] = "SUCCESS" /\ req[r].verdict = "SUCCESS"
      /\ covers[req[r].p] \in Shipments
      /\ UNCHANGED <<payment, covers, token, webpay, commits, published>>
  BY DEF SendInitial, At, outVars, RowsExist, BeforeRow, VerdictsAreTrue, Sending
<1>2. CASE Go(r, "markPending") /\ UNCHANGED claims
  <2>1. Suits([req[r] EXCEPT !.pc = "markPending"])
    BY <1>1 DEF Suits, Sending, TypeOK, Request
  <2> QED
    BY <1>1, <1>2, <2>1, GoStep DEF Rows, PcStates
<1>3. CASE /\ claims' = claims \cup {covers[req[r].p]}
           /\ Go(r, IF covers[req[r].p] \in claims THEN "markSent" ELSE "publish")
  <2>1. CASE covers[req[r].p] \in claims
    <3>1. Suits([req[r] EXCEPT !.pc = "markSent"])
      BY <1>1, <2>1 DEF Suits, Sending, TypeOK, Request
    <3> QED
      BY <1>1, <1>3, <2>1, <3>1, GoStep DEF Rows, PcStates
  <2>2. CASE covers[req[r].p] \notin claims
    <3>1. Moves(r, "publish")
      BY <1>3, <2>2, GoMoves DEF PcStates
    <3> USE DEF Moves, Others, At, BeforeRow
    <3>2. RowsExist'
      BY <1>1, <3>1 DEF RowsExist
    <3>3. OneCreator' /\ OneCommitter'
      BY <1>1, <3>1 DEF OneCreator, OneCommitter
    <3>4. OnePublisher'
      BY <1>1, <1>3, <2>2, <3>1 DEF OnePublisher
    <3>5. VerdictsAreTrue'
      BY <1>1, <1>3, <3>1 DEF VerdictsAreTrue, Sending
    <3> QED
      BY <3>2, <3>3, <3>4, <3>5
  <2> QED
    BY <2>1, <2>2
<1> QED
  BY <1>2, <1>3 DEF SendInitial

\* The winner publishes.
LEMMA PublishStep ==
  ASSUME TypeOK, Parts, NEW r \in Requests, Publish(r)
  PROVE  Parts'
<1> USE DEF Parts
<1>1. /\ req[r].pc = "publish" /\ req[r].p \in Payments
      /\ payment[req[r].p] = "SUCCESS" /\ req[r].verdict = "SUCCESS"
      /\ covers[req[r].p] \in claims /\ covers[req[r].p] \in Shipments
      /\ published' = [published EXCEPT ![covers[req[r].p]] = @ + 1]
      /\ UNCHANGED <<payment, covers, token, claims, webpay, commits>>
  BY DEF Publish, At, dbVars, RowsExist, BeforeRow, VerdictsAreTrue, Sending,
         OnePublisher
<1>2. Moves(r, "markSent")
  BY GoMoves DEF Publish, PcStates
<1> USE DEF Moves, Others, At, BeforeRow
<1>3. RowsExist'
  BY <1>1, <1>2 DEF RowsExist
<1>4. OneCreator' /\ OneCommitter'
  BY <1>1, <1>2 DEF OneCreator, OneCommitter
<1>5. OnePublisher'
  BY <1>1, <1>2 DEF OnePublisher, RowsExist, TypeOK
<1>6. VerdictsAreTrue'
  BY <1>1, <1>2 DEF VerdictsAreTrue, Sending
<1> QED
  BY <1>3, <1>4, <1>5, <1>6

(***************************************************************************)
(* All the steps.                                                          *)
(***************************************************************************)
\* Every step keeps the parts of the invariant that speak of requests.
LEMMA PartsStep == ASSUME TypeOK, Parts, [Next]_vars PROVE Parts'
<1> USE DEF dbVars, outVars, Rows
<1>1. ASSUME NEW r \in Requests, Accept(r) PROVE Parts'
  <2>1. ASSUME NEW s \in Shipments, InitPayment(r, s) PROVE Parts'
    <3>1. Suits(Locals("find", s, 0))
      BY DEF Suits, Locals, BeforeRow, Sending
    <3> QED
      BY <2>1, <3>1, BeginStep DEF InitPayment
  <2>2. ASSUME NEW p \in Payments, CommitAgain(r, p) PROVE Parts'
    BY <2>2 DEF CommitAgain, Parts, RowsExist, OneCreator, OneCommitter,
                OnePublisher, VerdictsAreTrue, At
  <2>3. ASSUME NEW p \in Payments, p \in token,
               NEW where \in {"wait", "claim", "finalize"},
               Begin(r, where, NoShipment, p), UNCHANGED <<dbVars, outVars>>
        PROVE  Parts'
    <3>1. Suits(Locals(where, NoShipment, p))
      BY <2>3 DEF Suits, Locals, BeforeRow, Sending, Parts, RowsExist
    <3> QED
      BY <2>3, <3>1, BeginStep
  <2> QED
    BY <1>1, <2>1, <2>2, <2>3
       DEF Accept, CommitJoins, CommitPayment, CommitAborted
<1>2. ASSUME NEW r \in Requests, FindTrying(r) PROVE Parts'
  <2>1. Suits([req[r] EXCEPT !.pc = "create"])
    BY <1>2 DEF FindTrying, Suits, At, Parts, RowsExist, BeforeRow, Sending,
                TypeOK, Request
  <2> QED
    BY <1>2, <2>1, GoStep, DoneStep DEF FindTrying, PcStates
<1>3. ASSUME NEW r \in Requests,
             \/ AuditTrying(r) \/ WaitForFinalState(r) \/ AuditFinal(r)
      PROVE  Parts'
  BY <1>3, DoneStep DEF AuditTrying, WaitForFinalState, AuditFinal
<1>4. ASSUME NEW r \in Requests, WebpayStatus(r) PROVE Parts'
  <2>1. PICK v \in Final :
          Decide(r, v) /\ (v = "SUCCESS" => webpay[req[r].p] = "authorized")
    BY <1>4 DEF WebpayStatus, Verdict, Final
  <2> QED
    BY <1>4, <2>1, DecideStep DEF WebpayStatus, At, BeforeRow
<1>5. ASSUME NEW r \in Requests, NEW from, NEW to,
             NEW here \in Sending \cup {"markFailed"},
             NEW next \in {"send", "audit"}, next = "send" => here \in Sending,
             ShipmentStep(r, here, from, to, next)
      PROVE  Parts'
  <2>1. Suits([req[r] EXCEPT !.pc = next])
    BY <1>5 DEF ShipmentStep, Suits, At, Parts, RowsExist, BeforeRow, Sending,
                VerdictsAreTrue, TypeOK, Request
  <2> QED
    BY <1>5, <2>1, GoStep DEF ShipmentStep, PcStates
<1>6. ASSUME NEW r \in Requests,
             \/ MarkPaid(r) \/ MarkFailed(r) \/ MarkSent(r) \/ MarkPending(r)
      PROVE  Parts'
  BY <1>5, <1>6 DEF MarkPaid, MarkFailed, MarkSent, MarkPending, Sending
<1>7. ASSUME NEW r \in Requests, Throw(r) PROVE Parts'
  <2>1. CASE /\ req[r].pc \in {"send", "publish", "markSent"}
             /\ Go(r, "markPending")
    <3>1. Suits([req[r] EXCEPT !.pc = "markPending"])
      BY <2>1 DEF Suits, Parts, RowsExist, BeforeRow, Sending,
                  VerdictsAreTrue, TypeOK, Request
    <3> QED
      BY <1>7, <2>1, <3>1, GoStep DEF Throw, PcStates
  <2>2. CASE Done(r)
    BY <1>7, <2>2, DoneStep DEF Throw
  <2> QED
    BY <1>7, <2>1, <2>2 DEF Throw
<1>8. ASSUME Crash PROVE Parts'
  BY <1>8 DEF Crash, Parts, RowsExist, OneCreator, OneCommitter, OnePublisher,
              VerdictsAreTrue, At, Idle, Locals, BeforeRow, Sending
<1>9. ASSUME UNCHANGED vars \/ \E s \in Shipments : ChargeInsurance(s)
      PROVE  Parts'
  BY <1>9 DEF vars, ChargeInsurance, Parts, RowsExist, OneCreator,
              OneCommitter, OnePublisher, VerdictsAreTrue, At
<1> QED
  BY <1>1, <1>2, <1>3, <1>4, <1>6, <1>7, <1>8, <1>9, CreateStep,
     WebpayCreateStep, SaveTokenStep, ClaimStep, WebpayCommitStep,
     FinalizeStep, SendStep, PublishStep
     DEF Next, Step

(***************************************************************************)
(* Which steps write which variable.                                       *)
(***************************************************************************)
Ledger == <<payment, covers, webpay, claims>>

WritesLedger(r) ==
    \/ CreatePayment(r) \/ WebpayCreate(r) \/ Claim(r) \/ WebpayCommit(r)
    \/ Finalize(r) \/ SendInitial(r)
WritesShipment(r) == MarkPaid(r) \/ MarkFailed(r) \/ MarkSent(r) \/ MarkPending(r)
Reports(r) ==
    \/ AuditTrying(r) \/ WaitForFinalState(r) \/ Finalize(r) \/ AuditFinal(r)
    \/ \E p \in Payments : CommitAgain(r, p)

\* Which handler steps write which tables.
LEMMA Frame ==
  ASSUME [Next]_vars
  PROVE  /\ UNCHANGED shipment \/ (\E r \in Requests : WritesShipment(r))
              \/ \E s \in Shipments : ChargeInsurance(s)
         /\ UNCHANGED commits \/ \E r \in Requests : WebpayCommit(r)
         /\ UNCHANGED published \/ \E r \in Requests : Publish(r)
         /\ UNCHANGED Ledger \/ \E r \in Requests : WritesLedger(r)
         /\ UNCHANGED <<audited, told>> \/ \E r \in Requests : Reports(r)
<1> USE DEF Ledger, dbVars, outVars
<1>1. ASSUME NEW r \in Requests, Accept(r)
      PROVE  /\ UNCHANGED <<shipment, commits, published, Ledger>>
             /\ UNCHANGED <<audited, told>> \/ Reports(r)
  BY <1>1 DEF Accept, InitPayment, CommitAgain, CommitJoins, CommitPayment,
              CommitAborted, Reports
<1>2. ASSUME Crash \/ UNCHANGED vars \/ \E r \in Requests : Throw(r)
      PROVE  UNCHANGED <<dbVars, outVars>>
  BY <1>2 DEF Throw, Crash, vars
<1>3. ASSUME NEW s \in Shipments, ChargeInsurance(s)
      PROVE  UNCHANGED <<outVars, Ledger>>
  BY <1>3 DEF ChargeInsurance
<1>4. ASSUME NEW r \in Requests, Step(r)
      PROVE  /\ UNCHANGED shipment \/ WritesShipment(r)
             /\ UNCHANGED commits \/ WebpayCommit(r)
             /\ UNCHANGED published \/ Publish(r)
             /\ UNCHANGED Ledger \/ WritesLedger(r)
             /\ UNCHANGED <<audited, told>> \/ Reports(r)
  <2>1. ASSUME FindTrying(r) \/ SaveToken(r) \/ WebpayStatus(r)
        PROVE  UNCHANGED <<shipment, outVars, Ledger>>
    BY <2>1 DEF FindTrying, SaveToken, WebpayStatus
  <2>2. ASSUME AuditTrying(r) \/ WaitForFinalState(r) \/ AuditFinal(r)
        PROVE  /\ UNCHANGED <<shipment, commits, published, Ledger>>
               /\ Reports(r)
    BY <2>2 DEF AuditTrying, WaitForFinalState, AuditFinal, Reports
  <2>3. ASSUME WritesShipment(r)
        PROVE  UNCHANGED <<outVars, Ledger>>
    BY <2>3 DEF WritesShipment, MarkPaid, MarkFailed, MarkSent, MarkPending,
                ShipmentStep
  <2>4. ASSUME Publish(r)
        PROVE  UNCHANGED <<shipment, commits, audited, told, Ledger>>
    BY <2>4 DEF Publish
  <2>5. ASSUME CreatePayment(r) \/ Claim(r) \/ SendInitial(r)
        PROVE  UNCHANGED <<shipment, commits, published, audited, told>>
    BY <2>5 DEF CreatePayment, Claim, SendInitial
  <2>6. ASSUME WebpayCreate(r) \/ WebpayCommit(r)
        PROVE  /\ UNCHANGED <<shipment, published, audited, told>>
               /\ WebpayCreate(r) => UNCHANGED commits
    BY <2>6 DEF WebpayCreate, WebpayCommit
  <2>7. ASSUME Finalize(r)
        PROVE  UNCHANGED <<shipment, commits, published>> /\ Reports(r)
    BY <2>7 DEF Finalize, Reports
  <2> QED
    BY <1>4, <2>1, <2>2, <2>3, <2>4, <2>5, <2>6, <2>7
       DEF Step, WritesShipment, WritesLedger
<1> QED
  BY <1>1, <1>2, <1>3, <1>4 DEF Next

\* No step takes back a settlement, a charge or a claim.
LEMMA SettledStaysStep ==
  ASSUME TypeOK, Parts, [Next]_vars
  PROVE  SettledStays
<1> USE DEF SettledStays, Parts, RowsExist, BeforeRow, OneCreator, Final, TypeOK,
           At, dbVars, outVars
<1>1. CASE UNCHANGED Ledger
  BY <1>1 DEF Ledger
<1>2. ASSUME NEW r \in Requests, CreatePayment(r) PROVE SettledStays
  BY <1>2 DEF CreatePayment, NextRow
<1>3. ASSUME NEW r \in Requests, WebpayCreate(r) PROVE SettledStays
  BY <1>3 DEF WebpayCreate
<1>4. ASSUME NEW r \in Requests, Claim(r) PROVE SettledStays
  BY <1>4 DEF Claim
<1>5. ASSUME NEW r \in Requests, WebpayCommit(r) PROVE SettledStays
  BY <1>5 DEF WebpayCommit
<1>6. ASSUME NEW r \in Requests, Finalize(r) PROVE SettledStays
  BY <1>6 DEF Finalize
<1>7. ASSUME NEW r \in Requests, SendInitial(r) PROVE SettledStays
  BY <1>7 DEF SendInitial
<1> QED
  BY <1>1, <1>2, <1>3, <1>4, <1>5, <1>6, <1>7, Frame DEF WritesLedger

\* Whatever is reported is what the row says for good.
LEMMA HeardStep ==
  ASSUME TypeOK, Parts, HeardIsStored, [Next]_vars
  PROVE  HeardIsStored'
<1>1. SettledStays
  BY SettledStaysStep
<1>2. ASSUME \A p \in Payments, x \in Final :
                <<p, x>> \in audited' \cup told' =>
                   <<p, x>> \in audited \cup told \/ payment'[p] = x
      PROVE  HeardIsStored'
  BY <1>1, <1>2 DEF HeardIsStored, SettledStays
<1>3. CASE UNCHANGED <<audited, told>>
  BY <1>2, <1>3
<1>4. ASSUME NEW p \in Payments, Answer(p), UNCHANGED <<audited, payment>>
      PROVE  HeardIsStored'
  BY <1>2, <1>4 DEF Answer
<1>5. ASSUME NEW r \in Requests, NEW p \in Payments, CommitAgain(r, p)
      PROVE  HeardIsStored'
  BY <1>4, <1>5 DEF CommitAgain, dbVars
<1>6. ASSUME NEW r \in Requests, Reports(r), req[r].pc \notin BeforeRow
      PROVE  HeardIsStored'
  <2>1. req[r].p \in Payments
    BY <1>6 DEF Parts, RowsExist
  <2>2. CASE AuditTrying(r)
    BY <1>2, <2>2 DEF AuditTrying, Final
  <2>3. CASE WaitForFinalState(r)
    BY <1>4, <2>1, <2>3 DEF WaitForFinalState, dbVars
  <2>4. CASE Finalize(r)
    BY <1>3, <1>4, <2>1, <2>4 DEF Finalize
  <2>5. CASE AuditFinal(r)
    <3>1. payment[req[r].p] = req[r].verdict
      BY <2>5 DEF AuditFinal, Parts, VerdictsAreTrue
    <3> QED
      BY <1>2, <2>5, <3>1 DEF AuditFinal, Answer, dbVars
  <2> QED
    BY <1>5, <1>6, <2>2, <2>3, <2>4, <2>5 DEF Reports
<1>7. ASSUME NEW r \in Requests, Reports(r)
      PROVE  \/ req[r].pc \notin BeforeRow
             \/ \E p \in Payments : CommitAgain(r, p)
  BY <1>7 DEF Reports, AuditTrying, WaitForFinalState, Finalize, AuditFinal, At,
              BeforeRow
<1> QED
  BY <1>3, <1>5, <1>6, <1>7, Frame

(***************************************************************************)
(* StatusIsBacked.  A step either leaves the shipments alone, and then what *)
(* backs them stays (SettledStays), or writes one status of its own.        *)
(***************************************************************************)
\* An untouched shipment keeps what backs its status.
LEMMA BackingKept ==
  ASSUME TypeOK, TypeOK', SettledStays, StatusIsBacked,
         NEW s \in Shipments, shipment'[s] = shipment[s]
  PROVE  /\ shipment'[s] \in {"paid", "sent", "pending-routing"}
              => \E p \in Charges(s)' : payment'[p] = "SUCCESS"
         /\ shipment'[s] = "sent" => s \in claims'
         /\ shipment'[s] = "failed"
              => \E p \in Payments : covers'[p] = s /\ payment'[p] = "FAILED"
  <1>1. ASSUME NEW p \in Charges(s), payment[p] = "SUCCESS"
        PROVE  p \in Charges(s)' /\ payment'[p] = "SUCCESS"
    BY <1>1 DEF Charges, SettledStays, Final
  <1>2. ASSUME NEW p \in Payments, covers[p] = s, payment[p] = "FAILED"
        PROVE  covers'[p] = s /\ payment'[p] = "FAILED"
    BY <1>2 DEF SettledStays, Final
  <1>3. s \in claims => s \in claims'
    BY DEF SettledStays
  <1> QED
    BY <1>1, <1>2, <1>3 DEF StatusIsBacked

\* A step that writes a shipment status backs it.
LEMMA StatusIsBackedStep ==
  ASSUME TypeOK, TypeOK', Parts, StatusIsBacked, [Next]_vars
  PROVE  StatusIsBacked'
<1>1. SettledStays
  BY SettledStaysStep
<1>2. CASE UNCHANGED shipment
  BY <1>1, <1>2, BackingKept DEF StatusIsBacked
<1>3. ASSUME NEW r \in Requests, NEW here \in Sending \cup {"markFailed"},
             NEW from, NEW to, NEW next,
             ShipmentStep(r, here, from, to, next),
             \/ to = "paid"
             \/ to \in {"sent", "pending-routing"} /\ from = "paid"
             \/ to = "failed",
             to = "sent" <=> here = "markSent",
             to = "failed" <=> here = "markFailed"
      PROVE  StatusIsBacked'
  <2> DEFINE p == req[r].p
             t == covers[p]
  <2>1. /\ p \in Payments /\ t \in Shipments
        /\ shipment' = [shipment EXCEPT ![t] = IF @ = from THEN to ELSE @]
        /\ UNCHANGED <<payment, covers, claims, webpay>>
    BY <1>3 DEF ShipmentStep, UpdateShipment, Parts, RowsExist, BeforeRow, At,
                Sending, outVars
  <2>2. here # "markFailed" => payment[p] = "SUCCESS" /\ webpay[p] = "authorized"
    BY <1>3, <2>1 DEF ShipmentStep, Parts, VerdictsAreTrue, At
  <2>3. here = "markFailed" => payment[p] = "FAILED"
    BY <1>3 DEF ShipmentStep, Parts, VerdictsAreTrue, At
  <2>4. here = "markSent" => t \in claims
    BY <1>3 DEF ShipmentStep, Parts, VerdictsAreTrue, At
  <2>5. ASSUME NEW s \in Shipments, shipment'[s] # shipment[s]
        PROVE  s = t /\ shipment'[s] = to
    BY <2>1, <2>5 DEF TypeOK
  <2>7. ASSUME NEW s \in Shipments, shipment'[s] # shipment[s]
        PROVE  /\ shipment'[s] \in {"paid", "sent", "pending-routing"}
                    => \E q \in Charges(s)' : payment'[q] = "SUCCESS"
               /\ shipment'[s] = "sent" => s \in claims'
               /\ shipment'[s] = "failed"
                    => \E q \in Payments :
                          covers'[q] = s /\ payment'[q] = "FAILED"
    <3> HIDE DEF p, t
    <3>1. s = t /\ shipment'[s] = to
      BY <2>5, <2>7
    <3>2. CASE here = "markFailed"
      <4>1. covers'[p] = s /\ payment'[p] = "FAILED" /\ p \in Payments
        BY <2>1, <2>3, <3>1, <3>2 DEF t
      <4> QED  BY <1>3, <3>1, <3>2, <4>1
    <3>3. CASE here # "markFailed"
      <4>1. /\ p \in Payments /\ covers'[p] = s
            /\ webpay'[p] = "authorized" /\ payment'[p] = "SUCCESS"
        BY <2>1, <2>2, <3>1, <3>3 DEF t
      <4>2. to = "sent" => s \in claims'
        BY <1>3, <2>1, <2>4, <3>1
      <4> QED  BY <1>3, <3>1, <3>3, <4>1, <4>2 DEF Charges
    <3> QED  BY <3>2, <3>3
  <2> QED
    BY <1>1, <2>7, BackingKept DEF StatusIsBacked
<1>4. ASSUME NEW r \in Requests, MarkPaid(r)
      PROVE  StatusIsBacked'
  BY <1>3, <1>4 DEF MarkPaid, Sending
<1>5. ASSUME NEW r \in Requests, MarkFailed(r)
      PROVE  StatusIsBacked'
  BY <1>3, <1>5 DEF MarkFailed, Sending
<1>6. ASSUME NEW r \in Requests, MarkSent(r)
      PROVE  StatusIsBacked'
  BY <1>3, <1>6 DEF MarkSent, Sending
<1>7. ASSUME NEW r \in Requests, MarkPending(r)
      PROVE  StatusIsBacked'
  BY <1>3, <1>7 DEF MarkPending, Sending
<1>8. ASSUME NEW t \in Shipments, ChargeInsurance(t)
      PROVE  StatusIsBacked'
  <2>1. \A s \in Shipments :
           shipment'[s] = shipment[s] \/ shipment'[s] = "expired-insured"
    BY <1>8 DEF ChargeInsurance, TypeOK
  <2> QED
    BY <1>1, <2>1, BackingKept DEF StatusIsBacked
<1> QED
  BY <1>2, <1>4, <1>5, <1>6, <1>7, <1>8, Frame DEF WritesShipment

-----------------------------------------------------------------------------
\* The empty database satisfies the invariant.
LEMMA InitIndInv == Init => IndInv
<1> SUFFICES ASSUME Init PROVE IndInv
  OBVIOUS
<1> USE DEF Init, Idle, Locals, Final
<1>1. TypeOK
  BY IdleType, PaymentsAssumption
     DEF TypeOK, ShipmentStatus, PaymentStatus
<1>2. RowsExist
  BY DEF RowsExist, BeforeRow
<1>3. OneCreator
  BY DEF OneCreator, At
<1>4. OneCommitter /\ CommittedAtMostOnce
  BY DEF OneCommitter, CommittedAtMostOnce, At
<1>5. OnePublisher /\ PublishedAtMostOnce
  BY DEF OnePublisher, PublishedAtMostOnce, At
<1>6. VerdictsAreTrue
  BY DEF VerdictsAreTrue, At, Sending
<1>7. HeardIsStored
  BY DEF HeardIsStored
<1>8. StatusIsBacked
  BY DEF StatusIsBacked
<1> QED
  BY <1>1, <1>2, <1>3, <1>4, <1>5, <1>6, <1>7, <1>8 DEF IndInv

\* The counters move once, by the winner of the claim.
LEMMA CountsStep ==
  ASSUME TypeOK, Parts, CommittedAtMostOnce, PublishedAtMostOnce, [Next]_vars
  PROVE  CommittedAtMostOnce' /\ PublishedAtMostOnce'
<1> USE DEF Parts, RowsExist, BeforeRow, At, TypeOK
<1>1. ASSUME NEW r \in Requests, WebpayCommit(r) PROVE CommittedAtMostOnce'
  <2>1. /\ req[r].p \in Payments /\ commits[req[r].p] = 0
        /\ commits' = [commits EXCEPT ![req[r].p] = @ + 1]
    BY <1>1 DEF WebpayCommit, OneCommitter
  <2> QED
    BY <2>1 DEF CommittedAtMostOnce
<1>2. ASSUME NEW r \in Requests, Publish(r) PROVE PublishedAtMostOnce'
  <2>1. /\ covers[req[r].p] \in Shipments /\ published[covers[req[r].p]] = 0
        /\ published' = [published EXCEPT ![covers[req[r].p]] = @ + 1]
    BY <1>2 DEF Publish, OnePublisher
  <2> QED
    BY <2>1 DEF PublishedAtMostOnce
<1>3. (UNCHANGED commits => CommittedAtMostOnce')
      /\ (UNCHANGED published => PublishedAtMostOnce')
  BY DEF CommittedAtMostOnce, PublishedAtMostOnce
<1> QED
  BY <1>1, <1>2, <1>3, Frame

\* The invariant is inductive.
LEMMA IndInvStep == IndInv /\ [Next]_vars => IndInv'
<1> SUFFICES ASSUME IndInv, [Next]_vars PROVE IndInv'
  OBVIOUS
<1>1. TypeOK /\ Parts
  BY DEF IndInv, Parts
<1>2. TypeOK'
  BY TypeStep DEF IndInv
<1>3. Parts'
  BY <1>1, PartsStep
<1>4. CommittedAtMostOnce' /\ PublishedAtMostOnce'
  BY <1>1, CountsStep DEF IndInv
<1>5. HeardIsStored'
  BY <1>1, HeardStep DEF IndInv
<1>6. StatusIsBacked'
  BY <1>1, <1>2, StatusIsBackedStep DEF IndInv
<1> QED
  BY <1>2, <1>3, <1>4, <1>5, <1>6 DEF IndInv, Parts

\* The strengthening of everything below, for every set of shipments and
\* requests and every bound on payments and failures.
THEOREM Inductive == Spec => []IndInv
  BY InitIndInv, IndInvStep, PTL DEF Spec

\* The tables and records of the payment flow keep their shape.
THEOREM TypeCorrect == Spec => []TypeOK
<1>1. IndInv => TypeOK
  BY DEF IndInv
<1> QED
  BY <1>1, Inductive, PTL

\* webpay.commit is called at most once for a payment, by however many
\* repeated callbacks and across crashes.
THEOREM CommitOnce == Spec => []CommittedAtMostOnce
<1>1. IndInv => CommittedAtMostOnce
  BY DEF IndInv
<1> QED
  BY <1>1, Inductive, PTL

\* The package of a shipment is published at most once.
THEOREM PublishOnce == Spec => []PublishedAtMostOnce
<1>1. IndInv => PublishedAtMostOnce
  BY DEF IndInv
<1> QED
  BY <1>1, Inductive, PTL

\* No two outcomes of one payment are ever reported.
THEOREM OneOutcome == Spec => []OneOutcomeHeard
<1>1. IndInv => OneOutcomeHeard
  BY DEF IndInv, HeardIsStored, OneOutcomeHeard, Final
<1> QED
  BY <1>1, Inductive, PTL

\* The status the customer reads is backed by a payment.
THEOREM BackedStatus == Spec => []StatusIsBacked
<1>1. IndInv => StatusIsBacked
  BY DEF IndInv
<1> QED
  BY <1>1, Inductive, PTL

-----------------------------------------------------------------------------
(***************************************************************************)
(* Refinement.  The promise sees a payment's outcome, the money Webpay took *)
(* and the packages that left; a step that changes none of them stutters.   *)
(***************************************************************************)
Outcome == [p \in Payments |->
               IF payment[p] \in Final THEN payment[p] ELSE "open"]
Charged == {p \in Payments : webpay[p] = "authorized"}

\* Refinement: initial states.
LEMMA PromiseInit == Init => Promise!Init
  BY DEF Init, Promise!Init, Final

\* Refinement: every step is a step of the promise or a stutter.
LEMMA PromiseStep ==
  ASSUME IndInv, [Next]_vars
  PROVE  [Promise!Next]_Promise!promiseVars
<1> USE DEF Promise!promiseVars, Outcome, Charged, Final
<1>1. TypeOK /\ Parts
  BY DEF IndInv, Parts
<1>2. CASE UNCHANGED Ledger /\ UNCHANGED published
  BY <1>2 DEF Ledger
<1>3. ASSUME NEW r \in Requests, Publish(r)
      PROVE  [Promise!Next]_Promise!promiseVars
  <2>1. /\ req[r].p \in Payments /\ covers[req[r].p] \in Shipments
        /\ payment[req[r].p] = "SUCCESS"
        /\ published[covers[req[r].p]] = 0
    BY <1>1, <1>3 DEF Publish, At, Parts, RowsExist, BeforeRow, OnePublisher,
                      VerdictsAreTrue, Sending
  <2>2. Promise!Dispatch(covers[req[r].p])
    BY <1>3, <2>1 DEF Publish, dbVars, Promise!Dispatch
  <2> QED
    BY <2>1, <2>2 DEF Promise!Next
<1>4. ASSUME NEW r \in Requests, CreatePayment(r)
      PROVE  [Promise!Next]_Promise!promiseVars
  <2>1. PICK p \in Payments :
          /\ payment[p] = "NONE" /\ covers[p] = NoShipment
          /\ payment' = [payment EXCEPT ![p] = "TRYING"]
          /\ covers' = [covers EXCEPT ![p] = req[r].s]
    BY <1>1, <1>4 DEF CreatePayment, NextRow, Parts, RowsExist
  <2>2. req[r].s \in Shipments /\ UNCHANGED <<webpay, published>>
    BY <1>1, <1>4 DEF CreatePayment, outVars, At, Parts, RowsExist
  <2>3. Outcome' = Outcome
    BY <1>1, <2>1 DEF TypeOK
  <2>4. Promise!Open(p, req[r].s)
    BY <2>1, <2>2, <2>3 DEF Promise!Open
  <2> QED
    BY <2>2, <2>4 DEF Promise!Next
<1>5. ASSUME NEW r \in Requests, WebpayCreate(r) \/ Claim(r) \/ SendInitial(r)
      PROVE  UNCHANGED <<covers, Outcome, Charged, published>>
  <2>1. req[r].p \in Payments
    BY <1>1, <1>5 DEF WebpayCreate, Claim, SendInitial, At, Parts, RowsExist,
                      BeforeRow
  <2>2. CASE WebpayCreate(r)
    BY <1>1, <2>1, <2>2 DEF WebpayCreate, dbVars, At, Parts, OneCreator, TypeOK
  <2>3. CASE Claim(r)
    BY <1>1, <2>1, <2>3 DEF Claim, outVars, TypeOK
  <2>4. CASE SendInitial(r)
    BY <2>4 DEF SendInitial, outVars
  <2> QED
    BY <1>5, <2>2, <2>3, <2>4
<1>6. ASSUME NEW r \in Requests, WebpayCommit(r)
      PROVE  [Promise!Next]_Promise!promiseVars
  <2>1. PICK p \in Payments :
          /\ covers[p] # NoShipment
          /\ UNCHANGED <<payment, covers, published>>
          /\ \/ UNCHANGED webpay
             \/ /\ webpay[p] = "open"
                /\ \E w \in {"open", "authorized", "rejected"} :
                      webpay' = [webpay EXCEPT ![p] = w]
    BY <1>1, <1>6, PaymentsAssumption
       DEF WebpayCommit, dbVars, At, Parts, RowsExist, BeforeRow
  <2>2. UNCHANGED Charged \/ (p \notin Charged /\ Charged' = Charged \cup {p})
    BY <1>1, <2>1 DEF TypeOK
  <2>3. UNCHANGED Outcome
    BY <2>1
  <2>4. CASE p \notin Charged /\ Charged' = Charged \cup {p}
    <3>1. Promise!Charge(p)
      BY <2>1, <2>3, <2>4 DEF Promise!Charge
    <3> QED
      BY <3>1 DEF Promise!Next
  <2> QED
    BY <2>1, <2>2, <2>3, <2>4
<1>7. ASSUME NEW r \in Requests, Finalize(r)
      PROVE  [Promise!Next]_Promise!promiseVars
  <2>1. PICK p \in Payments, v \in Final :
          /\ covers[p] # NoShipment
          /\ v = "SUCCESS" => webpay[p] = "authorized"
          /\ UNCHANGED <<covers, webpay, published>>
          /\ \/ UNCHANGED payment
             \/ /\ payment[p] \in {"TRYING", "COMMITTING"}
                /\ payment' = [payment EXCEPT ![p] = v]
    BY <1>1, <1>7, PaymentsAssumption
       DEF Finalize, At, Parts, RowsExist, BeforeRow, VerdictsAreTrue, TypeOK,
           Request
  <2>2. CASE UNCHANGED payment
    BY <2>1, <2>2
  <2>3. CASE /\ payment[p] \in {"TRYING", "COMMITTING"}
             /\ payment' = [payment EXCEPT ![p] = v]
    <3>1. Outcome' = [Outcome EXCEPT ![p] = v]
      BY <1>1, <2>1, <2>3 DEF TypeOK
    <3>2. Promise!Settle(p, v)
      BY <2>1, <2>3, <3>1 DEF Promise!Settle
    <3> QED
      BY <3>2 DEF Promise!Next
  <2> QED
    BY <2>1, <2>2, <2>3
<1> QED
  BY <1>2, <1>3, <1>4, <1>5, <1>6, <1>7, Frame DEF WritesLedger

\* The handlers keep the promise: one settlement per payment, SUCCESS only
\* for money Webpay took, one package per shipment and only for a success.
THEOREM Refinement == Spec => KeepsPromise
<1>1. IndInv /\ [Next]_vars => [Promise!Next]_Promise!promiseVars
  BY PromiseStep
<1> QED
  BY <1>1, PromiseInit, Inductive, PTL DEF Spec, KeepsPromise, Promise!Spec

-----------------------------------------------------------------------------
(* The safety core of SettledIsDispatched.                                 *)

\* While nothing fails one request moves at a time, by its own step, and
\* whatever moves it keeps its row.
LEMMA OneMoves ==
  ASSUME TypeOK, NothingFails, NothingFails', [Next]_vars
  PROVE  \/ UNCHANGED <<req, payment, covers, claims, published>>
         \/ \E r \in Requests : Others(r) /\ (Accept(r) \/ Step(r))
<1>1. ASSUME NEW r \in Requests, Accept(r) \/ Step(r)
      PROVE  Others(r)
  BY <1>1 DEF Accept, InitPayment, CommitAgain, CommitJoins, CommitPayment,
     CommitAborted, Step, FindTrying, CreatePayment, WebpayCreate, SaveToken,
     AuditTrying, Claim, WebpayCommit, WebpayStatus, WaitForFinalState,
     Finalize, MarkPaid, MarkFailed, SendInitial, Publish, MarkSent,
     MarkPending, ShipmentStep, AuditFinal, Begin, Go, Done, Decide, Others,
     TypeOK
<1>2. faults = 0 /\ faults' = 0
  BY DEF NothingFails
<1>3. ~Crash /\ \A r \in Requests : ~Throw(r)
  BY <1>2 DEF Crash, Throw
<1>4. CASE UNCHANGED vars
  BY <1>4 DEF vars
<1>5. ASSUME NEW s \in Shipments, ChargeInsurance(s)
      PROVE  UNCHANGED <<req, payment, covers, claims, published>>
  BY <1>5 DEF ChargeInsurance, outVars
<1> QED
  BY <1>1, <1>3, <1>4, <1>5 DEF Next

\* Who carries a package goes on with it until it has left.
LEMMA CarriedOn ==
  ASSUME TypeOK, Parts, NothingFails', ClaimsLead, [Next]_vars,
         NEW r \in Requests, Others(r), Accept(r) \/ Step(r),
         NEW s \in Shipments, Carries(r, s)
  PROVE  OnItsWay(s)'
<1>0. /\ covers' = covers \/ CreatePayment(r)
      /\ req[r].p \in Payments /\ req[r].pc \in {"markPaid", "send", "publish"}
      /\ covers[req[r].p] = s
  BY DEF Carries, Parts, RowsExist, BeforeRow, Accept, InitPayment, CommitAgain,
     CommitJoins, CommitPayment, CommitAborted, Step, FindTrying, WebpayCreate,
     SaveToken, AuditTrying, Claim, WebpayCommit, WebpayStatus,
     WaitForFinalState, Finalize, MarkPaid, MarkFailed, SendInitial, Publish,
     MarkSent, MarkPending, ShipmentStep, AuditFinal, dbVars
<1>1. MarkPaid(r) \/ SendInitial(r) \/ Publish(r)
  BY <1>0 DEF At, Accept, InitPayment, CommitAgain, CommitJoins, CommitPayment,
     CommitAborted, Step, FindTrying, CreatePayment, WebpayCreate, SaveToken,
     AuditTrying, Claim, WebpayCommit, WebpayStatus, WaitForFinalState,
     Finalize, MarkFailed, MarkSent, MarkPending, ShipmentStep, AuditFinal
<1>2. CASE MarkPaid(r)
  <2>1. covers' = covers /\ Moves(r, "send")
    BY <1>2, GoMoves DEF MarkPaid, ShipmentStep, PcStates
  <2> QED
    BY <1>0, <2>1 DEF Moves, OnItsWay, Carries
<1>3. CASE SendInitial(r)
  <2>1. covers' = covers /\ published' = published
    BY <1>3 DEF SendInitial, outVars
  <2>2. CASE Go(r, "markPending")
    BY <2>2, GoMoves DEF PcStates, Moves, NothingFails, At
  <2>3. CASE Go(r, "publish")
    <3>1. Moves(r, "publish")
      BY <2>3, GoMoves DEF PcStates
    <3> QED
      BY <1>0, <2>1, <3>1 DEF Moves, OnItsWay, Carries
  <2>4. CASE s \in claims
    <3>1. CASE published[s] > 0
      BY <2>1, <3>1 DEF OnItsWay
    <3>2. ASSUME NEW q \in Requests, At(q, "publish"), Carries(q, s)
          PROVE  OnItsWay(s)'
      <4>1. q # r
        BY <1>3, <3>2 DEF SendInitial, At
      <4>2. req'[q] = req[q]
        BY <4>1 DEF Others
      <4> QED
        BY <2>1, <3>2, <4>2 DEF OnItsWay, Carries
    <3> QED
      BY <2>4, <3>1, <3>2 DEF ClaimsLead
  <2> QED
    BY <1>0, <1>3, <2>2, <2>3, <2>4 DEF SendInitial
<1>4. CASE Publish(r)
  BY <1>0, <1>4 DEF Publish, OnItsWay, TypeOK
<1> QED
  BY <1>1, <1>2, <1>3, <1>4

\* What a request does not touch stays: its row is not one that is created.
LEMMA CarriedAside ==
  ASSUME TypeOK, Parts, [Next]_vars, NEW r \in Requests, req'[r] = req[r],
         NEW s \in Shipments, Carries(r, s)
  PROVE  Carries(r, s)'
<1>1. req[r].p \in Payments /\ req[r].pc \in {"markPaid", "send", "publish"}
  BY DEF Carries, Parts, RowsExist, BeforeRow
<1>2. payment[req[r].p] = "SUCCESS"
  BY <1>1 DEF Parts, VerdictsAreTrue, Sending
<1>3. covers'[req[r].p] = covers[req[r].p]
  BY <1>1, <1>2, SettledStaysStep DEF SettledStays, Final
<1> QED
  BY <1>3 DEF Carries

\* What has left has left, and what is on its way stays on it.
LEMMA WayStep ==
  ASSUME TypeOK, Parts, NothingFails, NothingFails', ClaimsLead, [Next]_vars,
         NEW s \in Shipments, OnItsWay(s)
  PROVE  OnItsWay(s)'
<1>1. CASE published[s] > 0
  <2>1. published'[s] > 0
    BY <1>1, Frame DEF Publish, TypeOK
  <2> QED
    BY <2>1 DEF OnItsWay
<1>2. ASSUME NEW r \in Requests, Carries(r, s) PROVE OnItsWay(s)'
  <2>1. CASE req'[r] = req[r]
    BY <1>2, <2>1, CarriedAside DEF OnItsWay
  <2>2. CASE req'[r] # req[r]
    <3>1. Others(r) /\ (Accept(r) \/ Step(r))
      BY <2>2, OneMoves DEF Others
    <3> QED
      BY <1>2, <3>1, CarriedOn
  <2> QED
    BY <2>1, <2>2
<1> QED
  BY <1>1, <1>2 DEF OnItsWay

\* A claim that is won is won by who publishes the package.
LEMMA ClaimsLeadStep ==
  ASSUME TypeOK, Parts, NothingFails, NothingFails', ClaimsLead, [Next]_vars
  PROVE  ClaimsLead'
<1> SUFFICES ASSUME NEW s \in claims'
             PROVE  \/ published'[s] > 0
                    \/ \E r \in Requests : At(r, "publish")' /\ Carries(r, s)'
  BY DEF ClaimsLead
<1>1. ASSUME s \notin claims
      PROVE  \E r \in Requests : At(r, "publish")' /\ Carries(r, s)'
  <2>1. PICK r \in Requests : SendInitial(r)
    BY <1>1, Frame DEF Ledger, WritesLedger, CreatePayment, WebpayCreate, Claim,
       WebpayCommit, Finalize, dbVars
  <2>2. s = covers[req[r].p] /\ Go(r, "publish") /\ covers' = covers
    BY <1>1, <2>1 DEF SendInitial
  <2>3. Moves(r, "publish")
    BY <2>2, GoMoves DEF PcStates
  <2> QED
    BY <2>2, <2>3 DEF Moves, At, Carries
<1>2. CASE s \in claims
  <2>1. s \in Shipments
    BY <1>2 DEF TypeOK
  <2>2. CASE published[s] > 0
    BY <2>1, <2>2, Frame DEF Publish, TypeOK
  <2>3. ASSUME NEW r \in Requests, At(r, "publish"), Carries(r, s)
        PROVE  \/ published'[s] > 0
               \/ \E q \in Requests : At(q, "publish")' /\ Carries(q, s)'
    <3>1. CASE req'[r] = req[r]
      BY <2>1, <2>3, <3>1, CarriedAside DEF At
    <3>2. CASE req'[r] # req[r]
      <4>1. Accept(r) \/ Step(r)
        BY <3>2, OneMoves DEF Others
      <4>2. Publish(r)
        BY <2>3, <4>1 DEF At, Accept, InitPayment, CommitAgain, CommitJoins,
           CommitPayment, CommitAborted, Step, FindTrying, CreatePayment,
           WebpayCreate, SaveToken, AuditTrying, Claim, WebpayCommit,
           WebpayStatus, WaitForFinalState, Finalize, MarkPaid, MarkFailed,
           SendInitial, MarkSent, MarkPending, ShipmentStep, AuditFinal
      <4> QED
        BY <2>1, <2>3, <4>2 DEF Publish, Carries, TypeOK
    <3> QED
      BY <3>1, <3>2
  <2> QED
    BY <1>2, <2>2, <2>3 DEF ClaimsLead
<1> QED
  BY <1>1, <1>2

\* Every package of a settled payment is on its way.
Leaving == \A p \in Payments : payment[p] = "SUCCESS" => OnItsWay(covers[p])

LEMMA LeavingStep ==
  ASSUME IndInv, NothingFails, NothingFails', Leaving, ClaimsLead, [Next]_vars
  PROVE  Leaving' /\ ClaimsLead'
<1>0. TypeOK /\ Parts
  BY DEF IndInv, Parts
<1>1. ASSUME NEW p \in Payments, payment'[p] = "SUCCESS"
      PROVE  OnItsWay(covers[p])' /\ covers'[p] = covers[p]
  <2>1. CASE payment[p] = "SUCCESS"
    <3>1. covers'[p] = covers[p]
      BY <1>0, <2>1, SettledStaysStep DEF SettledStays, Final
    <3>2. covers[p] \in Shipments
      BY <1>0, <2>1 DEF Parts, RowsExist
    <3>3. OnItsWay(covers[p])
      BY <2>1 DEF Leaving
    <3>4. PICK s \in Shipments : s = covers[p]
      BY <3>2
    <3>5. OnItsWay(s)'
      BY <1>0, <3>3, <3>4, WayStep
    <3> QED
      BY <3>1, <3>4, <3>5
  <2>2. CASE payment[p] # "SUCCESS"
    <3>1. PICK r \in Requests : Finalize(r)
      BY <1>0, <1>1, <2>2, Frame
         DEF Ledger, WritesLedger, CreatePayment, WebpayCreate, Claim,
             WebpayCommit, SendInitial, dbVars, TypeOK
    <3>2. req[r].p \in Payments
      BY <1>0, <3>1 DEF Finalize, At, Parts, RowsExist, BeforeRow
    <3>3. p = req[r].p /\ Go(r, "markPaid") /\ covers' = covers
      BY <1>0, <1>1, <2>2, <3>1, <3>2 DEF Finalize, TypeOK, Final
    <3>4. Moves(r, "markPaid")
      BY <1>0, <3>3, GoMoves DEF PcStates
    <3> QED
      BY <3>3, <3>4 DEF Moves, OnItsWay, Carries
  <2> QED
    BY <2>1, <2>2
<1> QED
  BY <1>0, <1>1, ClaimsLeadStep DEF Leaving

\* Unless something crashes or no route is known, the package of a settled
\* payment has left or a request still carries it: of two requests that settle
\* payments of one shipment at once neither leaves it to the other in vain.
\* What SettledIsDispatched needs besides is fairness.
THEOREM SettledLeaves == Spec => SettledIsOnItsWay
<1>1. Init => Leaving /\ ClaimsLead
  BY DEF Init, Leaving, ClaimsLead
<1>2. IndInv /\ NothingFails /\ NothingFails' /\ Leaving /\ ClaimsLead
        /\ [Next]_vars => Leaving' /\ ClaimsLead'
  BY LeavingStep
<1>3. Leaving <=> \A p \in Payments :
                     payment[p] = "SUCCESS" => OnItsWay(covers[p])
  BY DEF Leaving
<1> QED
  BY <1>1, <1>2, <1>3, Inductive, PTL DEF Spec, SettledIsOnItsWay
=============================================================================
