--------------------------- MODULE CheckoutProofs ---------------------------
(***************************************************************************)
(* Theorems about Checkout, for every store, cart, key, user and set of    *)
(* concurrent requests.                                                    *)
(***************************************************************************)
EXTENDS Checkout, Sums, TLAPS

-----------------------------------------------------------------------------
(* Typing.                                                                 *)

(* Fields of what a request carries, from InputAssumption.                 *)
LEMMA SubmissionFields ==
    ASSUME TypeOK, NEW r \in Requests
    PROVE  /\ req[r] \in Submissions
           /\ req[r].key \in Keys /\ req[r].user \in Users
           /\ req[r].cart \in Seq(CartLine) /\ req[r].cash \in Nat /\ req[r].card \in Nat
           /\ req[r].shift \in Requests \cup {NoOne}
           /\ req[r].type \in {"NONE", "PAID_IN", "PAID_OUT"} /\ req[r].amount \in Nat
  BY InputAssumption DEF TypeOK, Submission

(* Recording a cart line in a session.                                     *)
LEMMA SessionLine ==
    ASSUME NEW t \in Session, NEW w \in [Products -> Int], NEW d \in [Products -> Seq(Movement)],
           NEW n \in Nat \ {0}
    PROVE  [t EXCEPT !.work = w, !.pend = d, !.line = n] \in Session
  BY DEF Session

(* A session with nothing loaded, an empty till and a shift that was never *)
(* opened have their types.                                                *)
LEMMA EmptyTypes == EmptyTx \in Session /\ NoRows \in TillRows /\ NoShiftRow \in ShiftRow
  <1>1. <<>> \in Seq(Movement)
    OBVIOUS
  <1> QED BY <1>1 DEF EmptyTx, Session, NoRows, TillRows, NoShiftRow, ShiftRow

(* At the start every request is waiting to be sent, or is never sent.     *)
LEMMA InitWork ==
    Init => /\ req \in [Requests -> Submissions]
            /\ pc \in [Requests -> {"idle", "done"}]
  <1> SUFFICES ASSUME Init
               PROVE  req \in [Requests -> Submissions] /\ pc \in [Requests -> {"idle", "done"}]
    OBVIOUS
  <1>1. PICK w \in Workloads :
           /\ req = w.body
           /\ pc = [r \in Requests |-> IF r \in w.sent THEN "idle" ELSE "done"]
    BY DEF Init
  <1>2. w \in [sent : SUBSET Requests, body : [Requests -> Submissions]]
    BY InputAssumption
  <1> QED BY <1>1, <1>2

(* The tables as they are before the first request, and idle sessions, are *)
(* typed.                                                                  *)
LEMMA InitType == Init => TypeOK
  <1> SUFFICES ASSUME Init PROVE TypeOK
    OBVIOUS
  <1>1. ledger \in [Products -> Seq(Movement)]
    <2>1. ASSUME NEW p \in Products
          PROVE  /\ <<>> \in Seq(Movement)
                 /\ [delta |-> InitialQty[p], result |-> InitialQty[p], sale |-> NoOne] \in Movement
      BY StoreAssumption DEF Movement
    <2> QED BY <2>1 DEF Init
  <1>2. qty \in [Products -> Int]
    BY StoreAssumption DEF Init
  <1>3. /\ sales \subseteq SaleRow /\ cashMoves \subseteq CashMoveRow /\ outbox \subseteq Requests
        /\ \A e \in journal : e.source \in {"SALE", "CASH_SHIFT_VARIANCE"} /\ e.id \in Requests
        /\ periodClosed \in BOOLEAN
    BY DEF Init
  <1>4. shifts \in [Requests -> ShiftRow] /\ tx \in [Requests -> Session]
    BY EmptyTypes DEF Init
  <1>5. /\ pc \in [Requests -> Labels]
        /\ productLock \in [Products -> Requests \cup {NoOne}]
        /\ shiftLock \in [Requests -> Requests \cup {NoOne}]
    BY InitWork DEF Init, Labels
  <1>6. answer \in [Requests -> [code : Codes, row : Requests \cup {NoOne}]]
    BY DEF Init, Codes
  <1>7. req \in [Requests -> Submissions]
    BY InitWork
  <1> QED BY <1>1, <1>2, <1>3, <1>4, <1>5, <1>6, <1>7 DEF TypeOK

(* Ending a session keeps the session variables well typed.                *)
LEMMA FinishType ==
    ASSUME TypeOK, NEW r \in Requests, NEW code \in Codes, NEW row \in Requests \cup {NoOne},
           Finish(r, code, row)
    PROVE  /\ productLock' \in [Products -> Requests \cup {NoOne}]
           /\ shiftLock' \in [Requests -> Requests \cup {NoOne}]
           /\ pc' \in [Requests -> Labels]
           /\ req' \in [Requests -> Submissions]
           /\ tx' \in [Requests -> Session]
           /\ answer' \in [Requests -> [code : Codes, row : Requests \cup {NoOne}]]
  BY EmptyTypes DEF TypeOK, Finish, Free, Labels

(* Closing a session without a commit changes no row and leaves an empty   *)
(* session.                                                                *)
LEMMA ReturnType ==
    ASSUME TypeOK, NEW r \in Requests, NEW code \in Codes, NEW row \in Requests \cup {NoOne},
           Return(r, code, row)
    PROVE  TypeOK'
  BY FinishType DEF Return, TypeOK, tables

(* Moving a session to its next label keeps the rows' types.               *)
LEMMA GotoType ==
    ASSUME TypeOK, NEW r \in Requests, NEW label \in Labels,
           Goto(r, label), Private, UNCHANGED <<locks, tx>>
    PROVE  TypeOK'
  BY DEF Goto, Private, TypeOK, tables, locks

(* Most steps either end the session with nothing committed, or only move  *)
(* it to its next statement.                                               *)
Ends(r)  == \E code \in Codes, row \in Requests \cup {NoOne} : Return(r, code, row)
Moves(r) == \E label \in Labels : Goto(r, label) /\ Private /\ UNCHANGED <<locks, tx>>

(* Whatever finalize_sale's checks find, the answer is one of its codes.   *)
LEMMA VerdictCode == ASSUME NEW r PROVE Verdict(r) \in Codes
  <1>1. ASSUME NEW cart, NEW i PROVE LineError(cart, i) \in Codes
    BY DEF LineError, Codes
  <1> QED BY <1>1 DEF Verdict, Codes

(* The steps that write no row end the transaction or only move it on.     *)
LEMMA QuietSteps ==
    ASSUME TypeOK, NEW r \in Requests
    PROVE  /\ BeginSale(r) => Ends(r) \/ Moves(r)
           /\ RejectSale(r) => Ends(r)
           /\ InsertSale(r) => Ends(r) \/ Moves(r)
           /\ PostSale(r) => Ends(r) \/ Moves(r)
           /\ BeginOpen(r) => Ends(r) \/ Moves(r)
           /\ InsertShift(r) => Moves(r)
           /\ RecoverOpen(r) => Ends(r)
           /\ BeginMovement(r) => Ends(r) \/ Moves(r)
           /\ CheckMovement(r) => Ends(r) \/ Moves(r)
           /\ InsertMovement(r) => Ends(r) \/ Moves(r)
           /\ BeginClose(r) => Ends(r) \/ Moves(r)
           /\ WriteClose(r) => Ends(r) \/ Moves(r)
           /\ PostVariance(r) => Ends(r) \/ Moves(r)
           /\ Fail(r) => Ends(r)
  <1>1. /\ \A k : \A s \in SalesWithKey(k) : s.id \in Requests
        /\ \A k : \A s \in MovesWithKey(k) : s.id \in Requests
        /\ \A k : \A s \in ShiftsWithKey(k) : s \in Requests
        /\ \A k : \A s \in ClosedWithKey(k) : s \in Requests
    BY DEF TypeOK, SalesWithKey, MovesWithKey, ShiftsWithKey, ClosedWithKey, SaleRow, CashMoveRow
  <1>2. /\ "lock" \in Labels /\ "lines" \in Labels /\ "commit" \in Labels /\ "insert" \in Labels
        /\ "recover" \in Labels /\ "check" \in Labels
    BY DEF Labels
  <1>3. BeginSale(r) => Ends(r) \/ Moves(r)
    BY <1>1, <1>2 DEF BeginSale, Ends, Moves, Codes
  <1>4. RejectSale(r) => Ends(r)
    BY VerdictCode DEF RejectSale, Ends
  <1>5. InsertSale(r) => Ends(r) \/ Moves(r)
    BY <1>1, <1>2 DEF InsertSale, Ends, Moves, Codes
  <1>6. PostSale(r) => Ends(r) \/ Moves(r)
    BY <1>2 DEF PostSale, Ends, Moves, Codes
  <1>7. BeginOpen(r) => Ends(r) \/ Moves(r)
    BY <1>1, <1>2 DEF BeginOpen, Ends, Moves, Codes
  <1>8. InsertShift(r) => Moves(r)
    BY <1>2 DEF InsertShift, Moves
  <1>9. RecoverOpen(r) => Ends(r)
    BY <1>1 DEF RecoverOpen, Ends, Codes
  <1>10. BeginMovement(r) => Ends(r) \/ Moves(r)
    BY <1>1, <1>2 DEF BeginMovement, Ends, Moves, Codes
  <1>11. CheckMovement(r) => Ends(r) \/ Moves(r)
    BY <1>2 DEF CheckMovement, Ends, Moves, Codes
  <1>12. InsertMovement(r) => Ends(r) \/ Moves(r)
    BY <1>1, <1>2 DEF InsertMovement, Ends, Moves, Codes
  <1>13. BeginClose(r) => Ends(r) \/ Moves(r)
    BY <1>1, <1>2 DEF BeginClose, Ends, Moves, Codes
  <1>14. WriteClose(r) => Ends(r) \/ Moves(r)
    BY <1>1, <1>2 DEF WriteClose, Ends, Moves, Codes
  <1>15. PostVariance(r) => Ends(r) \/ Moves(r)
    BY <1>2 DEF PostVariance, Ends, Moves, Codes
  <1>16. Fail(r) => Ends(r)
    BY DEF Fail, Ends, Codes
  <1> QED BY <1>3, <1>4, <1>5, <1>6, <1>7, <1>8, <1>9, <1>10, <1>11, <1>12, <1>13, <1>14,
             <1>15, <1>16
(* Those steps keep every type.                                            *)
LEMMA QuietType ==
    ASSUME TypeOK, NEW r \in Requests, Ends(r) \/ Moves(r)
    PROVE  TypeOK'
  BY ReturnType, GotoType DEF Ends, Moves

(* Of the steps that do more, the ones that change only the session.       *)
LEMMA SessionStepType ==
    ASSUME TypeOK, NEW r \in Requests,
           \/ LockProduct(r) \/ FindShift(r) \/ HoldShift(r) \/ RecordMovement(r)
           \/ LockShiftRow(r) \/ CheckClose(r)
    PROVE  TypeOK'
  <1>0. tx \in [Requests -> Session]
    BY DEF TypeOK
  <1>1. CASE Ends(r)
    BY <1>1, QuietType
  <1>2. CASE LockProduct(r) /\ ~Ends(r)
    <2> DEFINE left == ProductsOf(req[r].cart) \ tx[r].held
               p    == CHOOSE m \in left : \A o \in left : m <= o
    <2>1. /\ productLock' = [productLock EXCEPT ![p] = r]
          /\ tx' = [tx EXCEPT ![r] = [tx[r] EXCEPT !.held = tx[r].held \cup {p},
                                       !.work = [tx[r].work EXCEPT ![p] = qty[p] * SubUnits]]]
          /\ Private /\ UNCHANGED <<pc, shiftLock>> /\ p \in Sellable
      BY <1>2 DEF LockProduct, Ends, Codes
    <2> HIDE DEF p
    <2>2. p \in Products /\ qty[p] * SubUnits \in Int
      BY <2>1, StoreAssumption DEF TypeOK
    <2>3. tx' \in [Requests -> Session]
      BY <1>0, <2>1, <2>2 DEF Session
    <2>4. productLock' \in [Products -> Requests \cup {NoOne}]
      BY <2>1, <2>2 DEF TypeOK
    <2> QED BY <2>1, <2>3, <2>4 DEF TypeOK, Private, tables
  <1>3. CASE FindShift(r)
    <2>1. tx' \in [Requests -> Session]
      <3>1. CASE tx' = tx
        BY <1>0, <3>1
      <3>2. CASE \E s \in OpenShiftsOf(req[r].user) : tx' = [tx EXCEPT ![r].shift = s]
        <4>1. PICK s \in Requests : tx' = [tx EXCEPT ![r].shift = s]
          BY <3>2 DEF OpenShiftsOf
        <4> QED BY <1>0, <4>1 DEF Session
      <3> QED BY <1>3, <3>1, <3>2 DEF FindShift
    <2>2. pc' \in [Requests -> Labels]
      BY <1>3 DEF FindShift, TypeOK, Goto, Labels
    <2> QED BY <1>3, <2>1, <2>2 DEF FindShift, TypeOK, Private, tables, locks
  <1>4. CASE HoldShift(r)
    <2>1. tx' \in [Requests -> Session]
      <3>1. CASE tx' = tx
        BY <1>0, <3>1
      <3>2. CASE tx' = [tx EXCEPT ![r].shift = NoOne]
        BY <1>0, <3>2 DEF Session
      <3> QED BY <1>4, <3>1, <3>2 DEF HoldShift
    <2>2. pc' \in [Requests -> Labels] /\ shiftLock' \in [Requests -> Requests \cup {NoOne}]
      BY <1>4 DEF HoldShift, TypeOK, Goto, Labels
    <2> QED BY <1>4, <2>1, <2>2 DEF HoldShift, TypeOK, Private, tables
  <1>5. CASE RecordMovement(r) /\ ~Ends(r)
    <2> DEFINE l   == req[r].cart[tx[r].line]
               new == tx[r].work[l.product] - l.qty
               row == [delta |-> Stored(-l.qty), result |-> Stored(new), sale |-> r]
    <2>1. /\ tx' = [tx EXCEPT ![r] =
                      [tx[r] EXCEPT !.work = [tx[r].work EXCEPT ![l.product] = new],
                                    !.pend = [tx[r].pend EXCEPT ![l.product] = Append(tx[r].pend[l.product], row)],
                                    !.line = tx[r].line + 1]]
          /\ Private /\ UNCHANGED <<pc, locks>> /\ tx[r].line <= Len(req[r].cart)
      BY <1>5 DEF RecordMovement, Ends, Codes
    <2>2. l \in CartLine
      <3>1. req[r].cart \in Seq(CartLine) /\ tx[r].line \in Nat \ {0}
        BY <1>0, SubmissionFields DEF Session
      <3> QED BY <3>1, <2>1
    <2>3. l.product \in Products /\ new \in Int /\ -l.qty \in Int
      BY <2>2, SMTT(40) DEF CartLine, TypeOK, Session
    <2>4. row \in Movement
      <3>1. \A n \in Int : Stored(n) \in Int
        BY StoreAssumption DEF Stored, RoundHalfUp
      <3> QED BY <3>1, <2>3 DEF Movement
    <2> HIDE DEF l, new, row
    <2>5. tx[r].pend[l.product] \in Seq(Movement) /\ tx[r].line \in Nat \ {0}
      BY <2>3 DEF TypeOK, Session
    <2>6. Append(tx[r].pend[l.product], row) \in Seq(Movement)
      BY <2>4, <2>5
    <2>7. tx' \in [Requests -> Session]
      <3>1. /\ [tx[r].work EXCEPT ![l.product] = new] \in [Products -> Int]
            /\ [tx[r].pend EXCEPT ![l.product] = Append(tx[r].pend[l.product], row)]
                  \in [Products -> Seq(Movement)]
            /\ tx[r].line + 1 \in Nat \ {0}
        BY <1>0, <2>3, <2>5, <2>6 DEF Session
      <3> QED BY <1>0, <2>1, <3>1, SessionLine
    <2> QED BY <2>1, <2>7 DEF TypeOK, Private, tables, locks
  <1>6. CASE LockShiftRow(r) /\ ~Ends(r)
    BY <1>6 DEF LockShiftRow, Ends, Codes, TypeOK, Goto, Private, tables, Labels
  <1>7. CASE CheckClose(r) /\ ~Ends(r)
    <2>1. /\ tx' = [tx EXCEPT ![r].basis = AttributedTo(req[r].shift)]
          /\ Goto(r, "insert") /\ Private /\ UNCHANGED locks
      BY <1>7 DEF CheckClose, Ends, Codes, ClosedWithKey
    <2>2. AttributedTo(req[r].shift) \in TillRows
      BY DEF AttributedTo, TillRows, TypeOK
    <2>3. tx' \in [Requests -> Session]
      BY <1>0, <2>1, <2>2 DEF Session
    <2> QED BY <2>1, <2>3 DEF TypeOK, Goto, Private, tables, locks, Labels
  <1> QED BY <1>1, <1>2, <1>3, <1>4, <1>5, <1>6, <1>7

(* A cash movement or a close that got past the row lock names a shift.    *)
ShiftKnown ==
    \A r \in Requests : req[r].kind \in {"MOVE", "CLOSE"} /\ pc[r] \notin {"idle", "lock", "done"}
        => req[r].shift \in Requests

(* The totals of a cart are integers.                                      *)
LEMMA RoundedIsInt ==
    ASSUME NEW n \in Int, NEW d \in Nat \ {0} PROVE RoundHalfUp(n, d) \in Int
  BY DEF RoundHalfUp

(* The amounts of a cart line are integers: rounding and multiplying stay  *)
(* within the ledger's quanta.                                             *)
LEMMA LineTypes ==
    ASSUME NEW l \in CartLine
    PROVE  LineSubtotal(l) \in Int /\ LineTax(l) \in Int /\ LineCost(l) \in Int /\ l.discount \in Int
  <1>1. /\ l.product \in Products /\ l.qty \in Nat /\ l.discount \in Nat
        /\ Price[l.product] \in Nat /\ Cost[l.product] \in Nat /\ TaxPercent[l.product] \in Nat
    BY StoreAssumption DEF CartLine
  <1>2. QtyScale * SubUnits \in Nat \ {0}
    BY StoreAssumption
  <1>3. l.qty * Price[l.product] \in Int /\ l.qty * Cost[l.product] \in Int
    BY <1>1
  <1>4. LineSubtotal(l) \in Int
    BY <1>2, <1>3, RoundedIsInt DEF LineSubtotal
  <1>5. LineCost(l) \in Int
    BY <1>2, <1>3, RoundedIsInt DEF LineCost
  <1>6. (LineSubtotal(l) - l.discount) * TaxPercent[l.product] \in Int
    BY <1>1, <1>4
  <1>7. LineTax(l) \in Int
    BY <1>6, RoundedIsInt DEF LineTax
  <1> QED BY <1>1, <1>4, <1>5, <1>7

(* The totals of a cart, sums over its lines, are integers.                *)
LEMMA TotalsAreInt ==
    ASSUME NEW cart \in Seq(CartLine)
    PROVE  /\ Subtotal(cart) \in Int /\ DiscountTotal(cart) \in Int
           /\ TaxTotal(cart) \in Int /\ CogsTotal(cart) \in Int
  <1>1. IsFiniteSet(DOMAIN cart)
    <2>1. DOMAIN cart = 1 .. Len(cart) /\ Len(cart) \in Nat
      OBVIOUS
    <2> QED BY <2>1, FS_Interval
  <1>2. \A n \in DOMAIN cart : cart[n] \in CartLine
    OBVIOUS
  <1> DEFINE sub  == [n \in DOMAIN cart |-> LineSubtotal(cart[n])]
             disc == [n \in DOMAIN cart |-> cart[n].discount]
             tax  == [n \in DOMAIN cart |-> LineTax(cart[n])]
             cogs == [n \in DOMAIN cart |-> LineCost(cart[n])]
  <1>3. \A n \in DOMAIN cart : sub[n] \in Int /\ disc[n] \in Int /\ tax[n] \in Int /\ cogs[n] \in Int
    BY <1>2, LineTypes
  <1>4. /\ Subtotal(cart) = SumFunctionOnSet(sub, DOMAIN cart)
        /\ DiscountTotal(cart) = SumFunctionOnSet(disc, DOMAIN cart)
        /\ TaxTotal(cart) = SumFunctionOnSet(tax, DOMAIN cart)
        /\ CogsTotal(cart) = SumFunctionOnSet(cogs, DOMAIN cart)
    BY DEF Subtotal, DiscountTotal, TaxTotal, CogsTotal, SumLines
  <1> HIDE DEF sub, disc, tax, cogs
  <1> QED BY <1>1, <1>3, <1>4, SumInt

(* The four commits write rows of the declared shapes.                     *)
LEMMA CommitType ==
    ASSUME TypeOK, ShiftKnown, NEW r \in Requests,
           CommitSale(r) \/ CommitOpen(r) \/ CommitMovement(r) \/ CommitClose(r)
    PROVE  TypeOK'
  <1>1. "OK" \in Codes
    BY DEF Codes
  <1>2. CASE CommitSale(r)
    <2>1. Finish(r, "OK", r)
      BY <1>2 DEF CommitSale
    <2>2. qty' \in [Products -> Int]
      <3>1. \A n \in Int : Stored(n) \in Int
        BY StoreAssumption DEF Stored, RoundHalfUp
      <3> QED BY <1>2, <3>1 DEF CommitSale, TypeOK, Session
    <2>3. ledger' \in [Products -> Seq(Movement)]
      <3>1. \A p \in Products : ledger[p] \in Seq(Movement) /\ tx[r].pend[p] \in Seq(Movement)
        BY DEF TypeOK, Session
      <3>2. \A p \in Products : ledger[p] \o tx[r].pend[p] \in Seq(Movement)
        BY <3>1
      <3> QED BY <1>2, <3>2 DEF CommitSale
    <2>4. SaleRowOf(r) \in SaleRow
      <3>1. GrandTotal(req[r].cart) \in Int
        BY TotalsAreInt, SubmissionFields DEF GrandTotal
      <3> HIDE DEF GrandTotal
      <3> QED BY <3>1, SubmissionFields DEF SaleRowOf, SaleRow, TypeOK, Session
    <2>5. SaleEntry(r).source = "SALE" /\ SaleEntry(r).id = r
      BY DEF SaleEntry, NoLines
    <2>6. /\ sales' = sales \cup {SaleRowOf(r)} /\ journal' = journal \cup {SaleEntry(r)}
          /\ outbox' \subseteq outbox \cup {r} /\ UNCHANGED <<shifts, cashMoves, periodClosed>>
      BY <1>2 DEF CommitSale
    <2>7. \A e \in journal' : e.source \in {"SALE", "CASH_SHIFT_VARIANCE"} /\ e.id \in Requests
      BY <2>5, <2>6 DEF TypeOK
    <2> QED BY <1>1, <2>1, <2>2, <2>3, <2>4, <2>6, <2>7, FinishType DEF TypeOK
  <1>3. CASE CommitOpen(r)
    <2>1. shifts' \in [Requests -> ShiftRow]
      BY <1>3, SubmissionFields, EmptyTypes DEF CommitOpen, TypeOK, ShiftRow
    <2> QED BY <1>1, <1>3, <2>1, FinishType DEF CommitOpen, TypeOK
  <1>4. CASE CommitMovement(r)
    <2>1. cashMoves' \subseteq CashMoveRow
      BY <1>4, SubmissionFields DEF CommitMovement, TypeOK, CashMoveRow
    <2> QED BY <1>1, <1>4, <2>1, FinishType DEF CommitMovement, TypeOK
  <1>5. CASE CommitClose(r)
    <2>0. req[r].shift \in Requests
      BY <1>5 DEF CommitClose, At, ShiftKnown
    <2>1. shifts' \in [Requests -> ShiftRow]
      BY <1>5, <2>0, SubmissionFields DEF CommitClose, TypeOK, ShiftRow, Session
    <2>2. VarianceEntry(r).source = "CASH_SHIFT_VARIANCE" /\ VarianceEntry(r).id = req[r].shift
      BY DEF VarianceEntry, NoLines
    <2>3. \A e \in journal' : e.source \in {"SALE", "CASH_SHIFT_VARIANCE"} /\ e.id \in Requests
      BY <1>5, <2>0, <2>2 DEF CommitClose, TypeOK
    <2> QED BY <1>1, <1>5, <2>0, <2>1, <2>3, FinishType DEF CommitClose, TypeOK
  <1> QED BY <1>2, <1>3, <1>4, <1>5
(* A step of request r moves r only, and what was asked for never changes. *)
LEMMA StepFrame ==
    ASSUME TypeOK, NEW r \in Requests, Step(r) \/ Fail(r)
    PROVE  /\ req' = req
           /\ \A o \in Requests \ {r} : pc'[o] = pc[o] /\ tx'[o] = tx[o]
  <1>1. CASE Ends(r) \/ Moves(r)
    BY <1>1 DEF Ends, Moves, Return, Finish, Goto, Private, TypeOK
  <1>2. CASE LockProduct(r)
    BY <1>2 DEF LockProduct, Return, Finish, Private, TypeOK
  <1>3. CASE FindShift(r) \/ HoldShift(r)
    BY <1>3, SMTT(40) DEF FindShift, HoldShift, Goto, Private, TypeOK
  <1>4. CASE RecordMovement(r)
    BY <1>4 DEF RecordMovement, Return, Finish, Private, TypeOK
  <1>5. CASE LockShiftRow(r)
    BY <1>5 DEF LockShiftRow, Return, Finish, Goto, Private, TypeOK
  <1>6. CASE CheckClose(r)
    BY <1>6 DEF CheckClose, Return, Finish, Goto, Private, TypeOK
  <1>7. CASE CommitSale(r) \/ CommitOpen(r) \/ CommitMovement(r) \/ CommitClose(r)
    BY <1>7 DEF CommitSale, CommitOpen, CommitMovement, CommitClose, Finish, TypeOK
  <1> QED BY <1>1, <1>2, <1>3, <1>4, <1>5, <1>6, <1>7, QuietSteps DEF Step, SaleStep, ShiftStep

(* A cash movement or a close goes past the row lock by LockShiftRow only. *)
LEMMA KnownStep ==
    ASSUME TypeOK, ShiftKnown, NEW r \in Requests, Step(r) \/ Fail(r)
    PROVE  ShiftKnown'
  <1>1. SUFFICES ASSUME req[r].kind \in {"MOVE", "CLOSE"},
                        pc'[r] \notin {"idle", "lock", "done"},
                        pc[r] \in {"idle", "lock", "done"}
                 PROVE  req[r].shift \in Requests
    BY StepFrame DEF ShiftKnown
  <1>2. ~Ends(r) /\ ~Fail(r)
    BY <1>1, QuietSteps, SMTT(40) DEF Ends, Return, Finish, TypeOK
  <1>3. ~SaleStep(r)
    BY <1>1 DEF SaleStep, BeginSale, LockProduct, RejectSale, FindShift, HoldShift, InsertSale,
                RecordMovement, PostSale, CommitSale, At, AllLocked
  <1>4. LockShiftRow(r)
    <2>1. ~BeginOpen(r) /\ ~InsertShift(r) /\ ~RecoverOpen(r) /\ ~CommitOpen(r)
      BY <1>1 DEF BeginOpen, InsertShift, RecoverOpen, CommitOpen, At
    <2>2. /\ ~CheckMovement(r) /\ ~InsertMovement(r) /\ ~CommitMovement(r)
          /\ ~CheckClose(r) /\ ~WriteClose(r) /\ ~PostVariance(r) /\ ~CommitClose(r)
      BY <1>1 DEF CheckMovement, InsertMovement, CommitMovement, CheckClose, WriteClose,
                  PostVariance, CommitClose, At
    <2>3. ~BeginMovement(r)
      BY <1>1 DEF BeginMovement, Goto, Return, Finish, TypeOK
    <2>4. ~BeginClose(r)
      BY <1>1 DEF BeginClose, Goto, Return, Finish, TypeOK
    <2> QED BY <1>2, <1>3, <2>1, <2>2, <2>3, <2>4 DEF Step, ShiftStep
  <1> QED BY <1>2, <1>4, SubmissionFields DEF LockShiftRow, Ends, Codes

(* Every step, of every session, keeps the types and the shift a sale      *)
(* looked up.                                                              *)
LEMMA TypeStep ==
    ASSUME TypeOK, ShiftKnown, [Next]_vars
    PROVE  TypeOK' /\ ShiftKnown'
  <1>1. CASE \E r \in Requests : Step(r) \/ Fail(r)
    <2>1. PICK r \in Requests : Step(r) \/ Fail(r)
      BY <1>1
    <2>2. TypeOK'
      BY <2>1, QuietSteps, QuietType, SessionStepType, CommitType DEF Step, SaleStep, ShiftStep
    <2> QED BY <2>1, <2>2, KnownStep
  <1>2. CASE ClosePeriod
    BY <1>2 DEF ClosePeriod, TypeOK, ShiftKnown, tables, locks, session
  <1>3. CASE UNCHANGED vars
    BY <1>3 DEF TypeOK, ShiftKnown, vars, tables, locks, session
  <1> QED BY <1>1, <1>2, <1>3 DEF Next, AllAnswered

(* In every reachable state, for every store, catalogue and set of         *)
(* concurrent requests, the rows and the sessions have their declared      *)
(* shapes.                                                                 *)
THEOREM TypeCorrect == Spec => []TypeOK
  <1>1. Init => TypeOK /\ ShiftKnown
    BY InitType DEF Init, ShiftKnown
  <1>2. TypeOK /\ ShiftKnown /\ [Next]_vars => (TypeOK /\ ShiftKnown)'
    BY TypeStep
  <1> QED BY <1>1, <1>2, PTL DEF Spec
-----------------------------------------------------------------------------
(* Stock.  The ledger of every product leads to its cached quantity, up to *)
(* the rounding of the columns.  The inductive step needs what a session   *)
(* that holds a product knows: it has the row lock, so the committed       *)
(* quantity has not moved since it read it, and its own pending movements  *)
(* lead from there to what its working copy will be stored as.             *)

Leads(q, rows, w) == ChainedWithin(RoundingSlack, q, rows, w)

Locked == \A r \in Requests, p \in Products : p \in tx[r].held => productLock[p] = r

Working ==
    \A r \in Requests, p \in Products :
        IF p \in tx[r].held THEN Leads(qty[p], tx[r].pend[p], Stored(tx[r].work[p]))
                            ELSE tx[r].pend[p] = <<>>

(* Past the lock statements a sale holds every product of its cart.        *)
CartHeld ==
    \A r \in Requests : req[r].kind = "SALE" /\ pc[r] \in {"hold", "insert", "lines", "commit"}
        => ProductsOf(req[r].cart) \subseteq tx[r].held

StockInv == TypeOK /\ ShiftKnown /\ Locked /\ Working /\ CartHeld /\ QtyMatchesLedger

(* A rounded fraction is within half of the fraction, on either side.      *)
LEMMA RoundedNear ==
    ASSUME NEW n \in Int, NEW d \in Nat \ {0}
    PROVE  /\ RoundHalfUp(n, d) \in Int
           /\ 2 * n - d <= (2 * d) * RoundHalfUp(n, d)
           /\ (2 * d) * RoundHalfUp(n, d) <= 2 * n + d
  <1>0. ASSUME NEW m \in Nat
        PROVE  /\ (2 * m + d) \div (2 * d) \in Nat
               /\ (2 * d) * ((2 * m + d) \div (2 * d)) <= 2 * m + d
               /\ 2 * m - d < (2 * d) * ((2 * m + d) \div (2 * d))
    <2> DEFINE a == 2 * m + d
               b == 2 * d
               k == a \div b
    <2>1. a \in Nat /\ b \in Nat \ {0}
      OBVIOUS
    <2> HIDE DEF a, b
    <2>2. k \in Nat /\ b * k <= a /\ a < b * k + b
      BY <2>1, DivBounds
    <2> HIDE DEF k
    <2>3. b * k \in Nat
      BY <2>1, <2>2
    <2>4. b * k <= a /\ 2 * m - d < b * k
      BY <2>1, <2>2, <2>3 DEF a, b
    <2> QED BY <2>2, <2>4 DEF a, b, k
  <1>1. CASE n >= 0
    <2>1. RoundHalfUp(n, d) = (2 * n + d) \div (2 * d)
      BY <1>1 DEF RoundHalfUp
    <2>2. n \in Nat
      BY <1>1
    <2>3. /\ (2 * n + d) \div (2 * d) \in Nat
          /\ (2 * d) * ((2 * n + d) \div (2 * d)) <= 2 * n + d
          /\ 2 * n - d < (2 * d) * ((2 * n + d) \div (2 * d))
      BY <1>0, <2>2
    <2>4. PICK k \in Nat : k = (2 * n + d) \div (2 * d)
      BY <2>3
    <2>5. (2 * d) * k \in Int
      OBVIOUS
    <2> QED BY <2>1, <2>3, <2>4, <2>5
  <1>2. CASE ~(n >= 0)
    <2>1. RoundHalfUp(n, d) = -((2 * (-n) + d) \div (2 * d))
      BY <1>2 DEF RoundHalfUp
    <2>2. -n \in Nat
      BY <1>2
    <2>3. PICK k \in Nat : k = (2 * (-n) + d) \div (2 * d)
      BY <1>0, <2>2
    <2>4. (2 * d) * k <= 2 * (-n) + d /\ 2 * (-n) - d < (2 * d) * k
      BY <1>0, <2>2, <2>3
    <2>5. RoundHalfUp(n, d) = -k
      BY <2>1, <2>3
    <2>6. (2 * d) * (-k) = -((2 * d) * k) /\ (2 * d) * k \in Int
      OBVIOUS
    <2> QED BY <2>4, <2>5, <2>6
  <1> QED BY <1>1, <1>2

(* A whole quantity is stored as it is.                                    *)
LEMMA StoredWhole ==
    ASSUME NEW q \in Int PROVE Stored(q * SubUnits) = q
  <1> DEFINE s == SubUnits
             k == RoundHalfUp(q * s, s)
  <1>1. s \in Nat \ {0} /\ q * s \in Int
    BY StoreAssumption
  <1>2. k \in Int /\ 2 * (q * s) - s <= (2 * s) * k /\ (2 * s) * k <= 2 * (q * s) + s
    BY <1>1, RoundedNear
  <1>3. Stored(q * SubUnits) = k
    BY DEF Stored
  <1> HIDE DEF s, k
  <1>4. PICK e \in Int : k = q + e
    BY <1>2
  <1>5. (2 * s) * k = 2 * (q * s) + (2 * s) * e /\ (2 * s) * e \in Int /\ q * s \in Int
    BY <1>1, <1>4
  <1>6. (2 * s) * e <= s /\ -s <= (2 * s) * e
    BY <1>1, <1>2, <1>5
  <1>7. e = 0
    <2>1. CASE e >= 1
      <3>1. (2 * s) * e >= 2 * s
        BY <1>1, <2>1
      <3> QED BY <1>1, <1>6, <3>1
    <2>2. CASE e <= -1
      <3>1. (2 * s) * e <= -(2 * s)
        BY <1>1, <2>2
      <3> QED BY <1>1, <1>6, <3>1
    <2> QED BY <2>1, <2>2
  <1> QED BY <1>3, <1>4, <1>7

(* Taking b from a quantity a and then storing it, or storing both and     *)
(* then taking one from the other, are within the slack of each other.     *)
LEMMA StoredStep ==
    ASSUME NEW a \in Int, NEW b \in Int
    PROVE  /\ Stored(a - b) \in Int /\ Stored(a) \in Int /\ Stored(-b) \in Int
           /\ Stored(a - b) - Stored(a) - Stored(-b) \in -RoundingSlack .. RoundingSlack
  <1> DEFINE s == SubUnits
             x == RoundHalfUp(a - b, s)
             y == RoundHalfUp(a, s)
             z == RoundHalfUp(-b, s)
  <1>1. s \in Nat \ {0} /\ a - b \in Int /\ -b \in Int
    BY StoreAssumption
  <1>2. x \in Int /\ 2 * (a - b) - s <= (2 * s) * x /\ (2 * s) * x <= 2 * (a - b) + s
    BY <1>1, RoundedNear
  <1>3. y \in Int /\ 2 * a - s <= (2 * s) * y /\ (2 * s) * y <= 2 * a + s
    BY <1>1, RoundedNear
  <1>4. z \in Int /\ 2 * (-b) - s <= (2 * s) * z /\ (2 * s) * z <= 2 * (-b) + s
    BY <1>1, RoundedNear
  <1>5. Stored(a - b) = x /\ Stored(a) = y /\ Stored(-b) = z
    BY DEF Stored
  <1>6. s = SubUnits
    OBVIOUS
  <1>7. CASE s = 1
    <2>1. x = a - b /\ y = a /\ z = -b
      BY <1>1, <1>7 DEF RoundHalfUp
    <2>2. RoundingSlack = 0
      BY <1>7 DEF RoundingSlack
    <2> HIDE DEF x, y, z
    <2> QED BY <1>1, <1>5, <2>1, <2>2
  <1>8. CASE s # 1
    <2>0. RoundingSlack = 1
      BY <1>8 DEF RoundingSlack
    <2> HIDE DEF s, x, y, z
    <2>1. PICK e \in Int : e = x - y - z
      BY <1>2, <1>3, <1>4
    <2>2. /\ (2 * s) * e = (2 * s) * x - (2 * s) * y - (2 * s) * z
          /\ (2 * s) * e \in Int /\ (2 * s) * x \in Int /\ (2 * s) * y \in Int /\ (2 * s) * z \in Int
      BY <1>1, <1>2, <1>3, <1>4, <2>1
    <2>3. (2 * s) * e <= 3 * s /\ -(3 * s) <= (2 * s) * e
      BY <1>1, <1>2, <1>3, <1>4, <2>2
    <2>4. e <= 1
      <3> SUFFICES ASSUME e >= 2 PROVE FALSE
        OBVIOUS
      <3>1. (2 * s) * e >= 4 * s
        BY <1>1
      <3> QED BY <1>1, <2>3, <3>1
    <2>5. e >= -1
      <3> SUFFICES ASSUME e <= -2 PROVE FALSE
        OBVIOUS
      <3>1. (2 * s) * e <= -(4 * s)
        BY <1>1
      <3> QED BY <1>1, <2>3, <3>1
    <2>6. e \in -1 .. 1
      BY <2>4, <2>5
    <2> QED BY <1>2, <1>3, <1>4, <1>5, <2>0, <2>1, <2>6
  <1> QED BY <1>7, <1>8

(* The slack is a number.                                                  *)
LEMMA SlackIsNat == RoundingSlack \in Nat
  BY DEF RoundingSlack

(* No movement leaves the quantity where it is.                            *)
LEMMA EmptyChain == ASSUME NEW q PROVE Leads(q, <<>>, q)
  BY DEF Leads, ChainedWithin, Before

(* A movement whose result is its predecessor's plus its own delta, up to  *)
(* the slack, extends the ledger.                                          *)
LEMMA ChainAppend ==
    ASSUME NEW q \in Int, NEW w \in Int, NEW rows \in Seq(Movement), Leads(q, rows, w),
           NEW m \in Movement, m.result - w - m.delta \in -RoundingSlack .. RoundingSlack
    PROVE  Leads(q, Append(rows, m), m.result)
  <1> DEFINE new == Append(rows, m)
  <1>1. Len(new) = Len(rows) + 1 /\ new[Len(rows) + 1] = m /\ Len(rows) \in Nat
    OBVIOUS
  <1>2. \A i \in 1 .. Len(rows) : new[i] = rows[i]
    OBVIOUS
  <1>3. ASSUME NEW i \in 1 .. Len(new)
        PROVE  new[i].result - Before(q, new, i) - new[i].delta \in -RoundingSlack .. RoundingSlack
    <2> HIDE DEF new
    <2>1. CASE i = Len(rows) + 1
      <3>1. Before(q, new, i) = Before(q, rows, i)
        <4>1. i # 1 => i - 1 \in 1 .. Len(rows)
          BY <1>1, <2>1
        <4>2. i # 1 => new[i - 1] = rows[i - 1]
          BY <1>2, <4>1
        <4> QED BY <4>2 DEF Before
      <3>2. Before(q, rows, i) = w
        BY <2>1 DEF Leads, ChainedWithin
      <3> QED BY <1>1, <2>1, <3>1, <3>2
    <2>2. CASE i \in 1 .. Len(rows)
      <3>1. new[i] = rows[i]
        BY <1>2, <2>2
      <3>2. Before(q, new, i) = Before(q, rows, i)
        <4>1. i # 1 => i - 1 \in 1 .. Len(rows)
          BY <1>1, <2>2
        <4>2. i # 1 => new[i - 1] = rows[i - 1]
          BY <1>2, <4>1
        <4> QED BY <4>2 DEF Before
      <3>3. rows[i].result - Before(q, rows, i) - rows[i].delta \in -RoundingSlack .. RoundingSlack
        BY <2>2 DEF Leads, ChainedWithin
      <3> QED BY <3>1, <3>2, <3>3
    <2> QED BY <1>1, <2>1, <2>2
  <1> QED BY <1>1, <1>3 DEF Leads, ChainedWithin, Before

(* A transaction's pending movements follow on the committed ledger.       *)
LEMMA ChainConcat ==
    ASSUME NEW q \in Int, NEW w \in Int, NEW v \in Int,
           NEW a \in Seq(Movement), NEW b \in Seq(Movement),
           Leads(q, a, w), Leads(w, b, v)
    PROVE  Leads(q, a \o b, v)
  <1> DEFINE c == a \o b
  <1>1. Len(c) = Len(a) + Len(b) /\ Len(a) \in Nat /\ Len(b) \in Nat
    OBVIOUS
  <1>2. \A i \in 1 .. Len(a) : c[i] = a[i]
    OBVIOUS
  <1>3. \A i \in 1 .. Len(b) : c[Len(a) + i] = b[i]
    OBVIOUS
  <1>4. ASSUME NEW i \in 1 .. Len(c)
        PROVE  c[i].result - Before(q, c, i) - c[i].delta \in -RoundingSlack .. RoundingSlack
    <2>1. CASE i \in 1 .. Len(a)
      <3> HIDE DEF c
      <3>1. c[i] = a[i]
        BY <1>2, <2>1
      <3>2. Before(q, c, i) = Before(q, a, i)
        <4>1. i # 1 => i - 1 \in 1 .. Len(a)
          BY <1>1, <2>1
        <4>2. i # 1 => c[i - 1] = a[i - 1]
          BY <1>2, <4>1
        <4> QED BY <4>2 DEF Before
      <3>3. a[i].result - Before(q, a, i) - a[i].delta \in -RoundingSlack .. RoundingSlack
        BY <2>1 DEF Leads, ChainedWithin
      <3> QED BY <3>1, <3>2, <3>3
    <2>2. CASE i \notin 1 .. Len(a)
      <3> DEFINE j == i - Len(a)
      <3>1. j \in 1 .. Len(b) /\ i = Len(a) + j
        BY <1>1, <2>2
      <3> HIDE DEF j
      <3>2. c[i] = b[j]
        BY <1>3, <3>1
      <3>3. Before(q, c, i) = Before(w, b, j)
        <4>1. CASE j = 1
          BY <1>1, <1>2, <3>1, <4>1 DEF Leads, ChainedWithin, Before
        <4>2. CASE j # 1
          BY <1>1, <1>3, <3>1, <4>2 DEF Before
        <4> QED BY <4>1, <4>2
      <3>4. b[j].result - Before(w, b, j) - b[j].delta \in -RoundingSlack .. RoundingSlack
        BY <3>1 DEF Leads, ChainedWithin
      <3> QED BY <3>2, <3>3, <3>4
    <2> QED BY <2>1, <2>2
  <1>5. v = Before(q, c, Len(c) + 1)
    <2> HIDE DEF c
    <2>1. w = Before(q, a, Len(a) + 1) /\ v = Before(w, b, Len(b) + 1)
      BY DEF Leads, ChainedWithin
    <2>2. CASE Len(b) = 0
      <3>1. v = w /\ Len(c) = Len(a)
        BY <1>1, <2>1, <2>2 DEF Before
      <3>2. Before(q, c, Len(a) + 1) = Before(q, a, Len(a) + 1)
        <4>1. Len(a) # 0 => Len(a) \in 1 .. Len(a)
          BY <1>1
        <4>2. Len(a) # 0 => c[Len(a)] = a[Len(a)]
          BY <1>2, <4>1
        <4>3. Len(a) + 1 - 1 = Len(a) /\ (Len(a) + 1 = 1 <=> Len(a) = 0)
          BY <1>1
        <4> QED BY <4>2, <4>3 DEF Before
      <3> QED BY <2>1, <3>1, <3>2
    <2>3. CASE Len(b) # 0
      <3>1. Len(b) \in 1 .. Len(b) /\ Len(c) + 1 # 1
        BY <1>1, <2>3
      <3>2. c[Len(c)] = b[Len(b)]
        BY <1>1, <1>3, <3>1
      <3>3. v = b[Len(b)].result
        BY <1>1, <2>1, <2>3 DEF Before
      <3> QED BY <1>1, <3>1, <3>2, <3>3 DEF Before
    <2> QED BY <2>2, <2>3
  <1> QED BY <1>4, <1>5 DEF Leads, ChainedWithin

(* The stock invariant survives a session that ends with no movement.      *)
LEMMA StockEnds ==
    ASSUME StockInv, NEW r \in Requests, NEW code, NEW row, Finish(r, code, row),
           UNCHANGED <<qty, ledger>>
    PROVE  (Locked /\ Working /\ CartHeld /\ QtyMatchesLedger)'
  <1> USE DEF StockInv
  <1>2. /\ pc' = [pc EXCEPT ![r] = "done"] /\ tx' = [tx EXCEPT ![r] = EmptyTx]
        /\ productLock' = Free(productLock, r) /\ req' = req /\ qty' = qty /\ ledger' = ledger
    BY DEF Finish
  <1>3. tx'[r].held = {} /\ \A p \in Products : tx'[r].pend[p] = <<>>
    BY <1>2 DEF EmptyTx, TypeOK
  <1>4. \A o \in Requests \ {r} : tx'[o] = tx[o] /\ pc'[o] = pc[o]
    BY <1>2 DEF TypeOK
  <1>5. \A o \in Requests \ {r}, p \in Products : productLock[p] = o => productLock'[p] = o
    BY <1>2 DEF Free, TypeOK
  <1>6. Locked'
    BY <1>3, <1>4, <1>5 DEF Locked
  <1>7. Working'
    BY <1>2, <1>3, <1>4 DEF Working
  <1>8. CartHeld'
    BY <1>2, <1>4 DEF CartHeld, TypeOK
  <1> QED BY <1>2, <1>6, <1>7, <1>8 DEF QtyMatchesLedger

(* ... and a step that leaves the quantities, the product locks and every  *)
(* session's copies alone.                                                 *)
LEMMA StockUntouched ==
    ASSUME StockInv, NEW r \in Requests, UNCHANGED <<qty, ledger, productLock, req>>,
           \A o \in Requests : /\ tx'[o].held = tx[o].held /\ tx'[o].work = tx[o].work
                               /\ tx'[o].pend = tx[o].pend,
           \A o \in Requests \ {r} : pc'[o] = pc[o],
           req[r].kind = "SALE" => \/ ProductsOf(req[r].cart) \subseteq tx[r].held
                                   \/ pc'[r] \notin {"hold", "insert", "lines", "commit"}
    PROVE  (Locked /\ Working /\ CartHeld /\ QtyMatchesLedger)'
  <1>1. Locked' /\ Working'
    BY DEF StockInv, Locked, Working
  <1>2. CartHeld'
    BY DEF StockInv, CartHeld
  <1> QED BY <1>1, <1>2 DEF StockInv, QtyMatchesLedger

(* SELECT ... FOR UPDATE of a product loads the quantity its committed     *)
(* ledger leads to.                                                        *)
LEMMA LockProductStock ==
    ASSUME StockInv, NEW r \in Requests, LockProduct(r), ~Ends(r)
    PROVE  (Locked /\ Working /\ CartHeld /\ QtyMatchesLedger)'
  <1> USE DEF StockInv
  <1> DEFINE left == ProductsOf(req[r].cart) \ tx[r].held
             p    == CHOOSE m \in left : \A o \in left : m <= o
  <1>1. /\ productLock[p] = NoOne /\ productLock' = [productLock EXCEPT ![p] = r]
        /\ tx' = [tx EXCEPT ![r] = [tx[r] EXCEPT !.held = tx[r].held \cup {p},
                                     !.work = [tx[r].work EXCEPT ![p] = qty[p] * SubUnits]]]
        /\ Private /\ UNCHANGED <<pc, shiftLock>> /\ p \in Sellable /\ pc[r] = "lock"
    BY DEF LockProduct, Ends, Codes, At
  <1> HIDE DEF p
  <1>2. p \in Products /\ qty[p] \in Int /\ qty[p] * SubUnits \in Int
    BY <1>1, StoreAssumption DEF TypeOK
  <1>3. /\ tx[r] \in Session /\ tx[r].work \in [Products -> Int]
        /\ tx'[r] = [tx[r] EXCEPT !.held = tx[r].held \cup {p},
                                  !.work = [tx[r].work EXCEPT ![p] = qty[p] * SubUnits]]
    BY <1>1, <1>2 DEF TypeOK, Session
  <1>4. /\ tx'[r].held = tx[r].held \cup {p} /\ tx'[r].pend = tx[r].pend
        /\ tx'[r].work = [tx[r].work EXCEPT ![p] = qty[p] * SubUnits]
    BY <1>3 DEF Session
  <1>5. \A o \in Requests \ {r} : tx'[o] = tx[o]
    BY <1>1 DEF TypeOK
  <1>6. \A o \in Requests : p \notin tx[o].held
    BY <1>1, <1>2, StoreAssumption DEF Locked
  <1>7. Locked'
    BY <1>1, <1>4, <1>5, <1>6 DEF Locked, TypeOK
  <1>8. tx'[r].work[p] = qty[p] * SubUnits /\ tx[r].pend[p] = <<>>
        /\ \A x \in Products \ {p} : tx'[r].work[x] = tx[r].work[x]
    BY <1>2, <1>3, <1>4, <1>6 DEF Working
  <1>9. Working'
    <2> SUFFICES ASSUME NEW o \in Requests, NEW x \in Products
                 PROVE  IF x \in tx'[o].held THEN Leads(qty'[x], tx'[o].pend[x], Stored(tx'[o].work[x]))
                                             ELSE tx'[o].pend[x] = <<>>
      BY DEF Working
    <2>1. qty' = qty
      BY <1>1 DEF Private, tables
    <2>2. CASE o # r
      BY <1>5, <2>1, <2>2 DEF Working
    <2>3. CASE o = r /\ x # p
      <3>1. /\ tx'[r].pend[x] = tx[r].pend[x] /\ tx'[r].work[x] = tx[r].work[x]
            /\ x \in tx'[r].held <=> x \in tx[r].held
        BY <1>4, <1>8, <2>3
      <3> QED BY <2>1, <2>3, <3>1 DEF Working
    <2>4. CASE o = r /\ x = p
      <3>1. Stored(tx'[r].work[p]) = qty[p]
        BY <1>2, <1>8, StoredWhole
      <3> QED BY <1>2, <1>4, <1>8, <2>1, <2>4, <3>1, EmptyChain
    <2> QED BY <2>2, <2>3, <2>4
  <1>10. CartHeld'
    BY <1>1, <1>4, <1>5 DEF CartHeld, Private
  <1> QED BY <1>1, <1>7, <1>9, <1>10 DEF QtyMatchesLedger, Private, tables

(* record_movement on a locked product extends the session's pending       *)
(* ledger.                                                                 *)
LEMMA RecordMovementStock ==
    ASSUME StockInv, NEW r \in Requests, RecordMovement(r), ~Ends(r)
    PROVE  (Locked /\ Working /\ CartHeld /\ QtyMatchesLedger)'
  <1> USE DEF StockInv
  <1> DEFINE l   == req[r].cart[tx[r].line]
             p   == l.product
             new == tx[r].work[p] - l.qty
             row == [delta |-> Stored(-l.qty), result |-> Stored(new), sale |-> r]
             all == Append(tx[r].pend[p], row)
  <1>1. /\ tx' = [tx EXCEPT ![r] = [tx[r] EXCEPT !.work = [tx[r].work EXCEPT ![p] = new],
                                     !.pend = [tx[r].pend EXCEPT ![p] = all],
                                     !.line = tx[r].line + 1]]
        /\ Private /\ UNCHANGED <<pc, locks>> /\ tx[r].line <= Len(req[r].cart)
        /\ req[r].kind = "SALE" /\ pc[r] = "lines"
    BY DEF RecordMovement, Ends, Codes, At
  <1>2. l \in CartLine /\ p \in ProductsOf(req[r].cart)
    <2>1. req[r].cart \in Seq(CartLine) /\ tx[r].line \in Nat \ {0}
      BY SubmissionFields DEF TypeOK, Session
    <2>2. tx[r].line \in 1 .. Len(req[r].cart)
      BY <1>1, <2>1
    <2>3. l \in CartLine
      BY <2>1, <2>2
    <2>4. l \in ToSet(req[r].cart)
      BY <2>1, <2>2, SMTT(40) DEF ToSet
    <2> QED BY <2>3, <2>4 DEF ProductsOf
  <1>3. p \in tx[r].held /\ p \in Products
    BY <1>1, <1>2 DEF CartHeld, CartLine
  <1>4. /\ tx[r] \in Session /\ tx[r].work[p] \in Int /\ tx[r].pend[p] \in Seq(Movement)
        /\ qty[p] \in Int /\ l.qty \in Nat
    BY <1>2, <1>3 DEF TypeOK, Session, CartLine
  <1>5. /\ row.delta = Stored(-l.qty) /\ row.result = Stored(new) /\ row \in Movement
        /\ Stored(tx[r].work[p]) \in Int
        /\ row.result - Stored(tx[r].work[p]) - row.delta \in -RoundingSlack .. RoundingSlack
    <2>1. tx[r].work[p] \in Int /\ l.qty \in Int
      BY <1>4
    <2> HIDE DEF l, p
    <2>2. /\ Stored(new) \in Int /\ Stored(tx[r].work[p]) \in Int /\ Stored(-l.qty) \in Int
          /\ Stored(new) - Stored(tx[r].work[p]) - Stored(-l.qty) \in -RoundingSlack .. RoundingSlack
      BY <2>1, StoredStep
    <2> HIDE DEF new
    <2>3. row.delta = Stored(-l.qty) /\ row.result = Stored(new) /\ row \in Movement
      BY <2>2 DEF Movement
    <2> HIDE DEF row
    <2> QED BY <2>2, <2>3
  <1>6. Leads(qty[p], all, Stored(new))
    <2>1. Leads(qty[p], tx[r].pend[p], Stored(tx[r].work[p]))
      BY <1>3 DEF Working
    <2> HIDE DEF row
    <2> QED BY <1>4, <1>5, <2>1, ChainAppend
  <1> HIDE DEF l, p, new, row, all
  <1>7. tx'[r] = [tx[r] EXCEPT !.work = [tx[r].work EXCEPT ![p] = new],
                               !.pend = [tx[r].pend EXCEPT ![p] = all],
                               !.line = tx[r].line + 1]
    BY <1>1 DEF TypeOK
  <1>8. /\ tx'[r].held = tx[r].held
        /\ tx'[r].work = [tx[r].work EXCEPT ![p] = new]
        /\ tx'[r].pend = [tx[r].pend EXCEPT ![p] = all]
    BY <1>4, <1>7 DEF Session
  <1>9. \A o \in Requests \ {r} : tx'[o] = tx[o]
    BY <1>1 DEF TypeOK
  <1>10. /\ tx'[r].work[p] = new /\ tx'[r].pend[p] = all
         /\ \A x \in Products \ {p} : tx'[r].work[x] = tx[r].work[x] /\ tx'[r].pend[x] = tx[r].pend[x]
    BY <1>3, <1>4, <1>8 DEF Session
  <1>11. Locked'
    BY <1>1, <1>8, <1>9 DEF Locked, locks
  <1>12. Working'
    <2> SUFFICES ASSUME NEW o \in Requests, NEW x \in Products
                 PROVE  IF x \in tx'[o].held THEN Leads(qty'[x], tx'[o].pend[x], Stored(tx'[o].work[x]))
                                             ELSE tx'[o].pend[x] = <<>>
      BY DEF Working
    <2>1. qty' = qty
      BY <1>1 DEF Private, tables
    <2>2. CASE o # r
      BY <1>9, <2>1, <2>2 DEF Working
    <2>3. CASE o = r /\ x # p
      BY <1>8, <1>10, <2>1, <2>3 DEF Working
    <2>4. CASE o = r /\ x = p
      BY <1>3, <1>6, <1>8, <1>10, <2>1, <2>4
    <2> QED BY <2>2, <2>3, <2>4
  <1>13. CartHeld'
    BY <1>1, <1>8, <1>9 DEF CartHeld, Private
  <1> QED BY <1>1, <1>11, <1>12, <1>13, SMTT(40) DEF QtyMatchesLedger, Private, tables

(* The commit of a sale: the products it holds move on by its own pending  *)
(* movements, and nobody else holds them.                                  *)
LEMMA CommitSaleStock ==
    ASSUME StockInv, NEW r \in Requests, CommitSale(r)
    PROVE  (Locked /\ Working /\ CartHeld /\ QtyMatchesLedger)'
  <1> USE DEF StockInv
  <1>1. /\ pc' = [pc EXCEPT ![r] = "done"] /\ tx' = [tx EXCEPT ![r] = EmptyTx]
        /\ productLock' = Free(productLock, r) /\ req' = req
        /\ qty' = [p \in Products |-> IF p \in tx[r].held THEN Stored(tx[r].work[p]) ELSE qty[p]]
        /\ ledger' = [p \in Products |-> ledger[p] \o tx[r].pend[p]]
    BY DEF CommitSale, Finish
  <1>2. tx'[r].held = {} /\ \A p \in Products : tx'[r].pend[p] = <<>>
    BY <1>1 DEF EmptyTx, TypeOK
  <1>3. \A o \in Requests \ {r} : tx'[o] = tx[o] /\ pc'[o] = pc[o]
    BY <1>1 DEF TypeOK
  <1>4. \A o \in Requests \ {r}, p \in Products : productLock[p] = o => productLock'[p] = o
    BY <1>1 DEF Free, TypeOK
  <1>5. Locked'
    BY <1>2, <1>3, <1>4 DEF Locked
  <1>6. CartHeld'
    BY <1>1, <1>3 DEF CartHeld, TypeOK
  <1>7. ASSUME NEW p \in Products
        PROVE  /\ qty[p] \in Int /\ tx[r].work[p] \in Int
               /\ ledger[p] \in Seq(Movement) /\ tx[r].pend[p] \in Seq(Movement)
    BY DEF TypeOK, Session
  <1>8. Working'
    <2> SUFFICES ASSUME NEW o \in Requests, NEW x \in Products
                 PROVE  IF x \in tx'[o].held THEN Leads(qty'[x], tx'[o].pend[x], Stored(tx'[o].work[x]))
                                             ELSE tx'[o].pend[x] = <<>>
      BY DEF Working
    <2>1. CASE o = r
      BY <1>2, <2>1
    <2>2. CASE o # r /\ x \in tx[o].held
      <3>1. x \notin tx[r].held
        BY <2>2 DEF Locked
      <3>2. qty'[x] = qty[x]
        BY <1>1, <3>1
      <3> QED BY <1>3, <2>2, <3>2 DEF Working
    <2>3. CASE o # r /\ x \notin tx[o].held
      BY <1>3, <2>3 DEF Working
    <2> QED BY <2>1, <2>2, <2>3
  <1>9. QtyMatchesLedger'
    <2> SUFFICES ASSUME NEW p \in Products PROVE Leads(0, ledger'[p], qty'[p])
      BY DEF QtyMatchesLedger, Leads
    <2>1. Leads(0, ledger[p], qty[p]) /\ ledger'[p] = ledger[p] \o tx[r].pend[p]
      BY <1>1 DEF QtyMatchesLedger, Leads
    <2>2. CASE p \in tx[r].held
      <3>1. qty'[p] = Stored(tx[r].work[p]) /\ Stored(tx[r].work[p]) \in Int
        BY <1>1, <1>7, <2>2, StoredStep
      <3>2. Leads(qty[p], tx[r].pend[p], Stored(tx[r].work[p]))
        BY <2>2 DEF Working
      <3> QED BY <1>7, <2>1, <3>1, <3>2, ChainConcat
    <2>3. CASE p \notin tx[r].held
      <3>1. qty'[p] = qty[p] /\ tx[r].pend[p] = <<>>
        BY <1>1, <2>3 DEF Working
      <3>2. Leads(qty[p], tx[r].pend[p], qty[p])
        BY <3>1, EmptyChain
      <3> QED BY <1>7, <2>1, <3>1, <3>2, ChainConcat
    <2> QED BY <2>2, <2>3
  <1> QED BY <1>5, <1>6, <1>8, <1>9

(* Every step of every session keeps the ledger invariant.                 *)
LEMMA StockStep ==
    ASSUME StockInv, [Next]_vars
    PROVE  StockInv'
  <1> USE DEF StockInv
  <1>0. TypeOK' /\ ShiftKnown'
    BY TypeStep
  <1>1. ASSUME NEW r \in Requests, Step(r) \/ Fail(r)
        PROVE  (Locked /\ Working /\ CartHeld /\ QtyMatchesLedger)'
    <2>1. CASE Ends(r)
      BY <2>1, StockEnds DEF Ends, Return, tables
    <2>2. CASE CommitOpen(r) \/ CommitMovement(r) \/ CommitClose(r)
      BY <2>2, StockEnds DEF CommitOpen, CommitMovement, CommitClose
    <2>3. CASE CommitSale(r)
      BY <2>3, CommitSaleStock
    <2>4. CASE LockProduct(r) /\ ~Ends(r)
      BY <2>4, LockProductStock
    <2>5. CASE RecordMovement(r) /\ ~Ends(r)
      BY <2>5, RecordMovementStock
    <2>6. CASE FindShift(r) \/ HoldShift(r)
      <3>1. /\ UNCHANGED <<qty, ledger, productLock, req>> /\ req[r].kind = "SALE"
            /\ ProductsOf(req[r].cart) \subseteq tx[r].held
        BY <2>6 DEF FindShift, HoldShift, Private, tables, locks, At, AllLocked, CartHeld
      <3>2. \A o \in Requests \ {r} : pc'[o] = pc[o] /\ tx'[o] = tx[o]
        BY <2>6, StepFrame DEF Step, SaleStep
      <3>3. tx'[r].held = tx[r].held /\ tx'[r].work = tx[r].work /\ tx'[r].pend = tx[r].pend
        <4>0. tx \in [Requests -> Session]
          BY DEF TypeOK
        <4>1. CASE tx' = tx
          BY <4>1
        <4>2. CASE \E s : tx' = [tx EXCEPT ![r].shift = s]
          BY <4>0, <4>2 DEF Session
        <4> QED BY <2>6, <4>1, <4>2 DEF FindShift, HoldShift
      <3> QED BY <3>1, <3>2, <3>3, StockUntouched
    <2>7. CASE (LockShiftRow(r) \/ CheckClose(r)) /\ ~Ends(r)
      <3>1. UNCHANGED <<qty, ledger, productLock, req>> /\ req[r].kind # "SALE"
        BY <2>7 DEF LockShiftRow, CheckClose, Ends, Codes, Private, tables, locks, At, ClosedWithKey
      <3>2. \A o \in Requests \ {r} : pc'[o] = pc[o] /\ tx'[o] = tx[o]
        BY <2>7, StepFrame DEF Step, ShiftStep
      <3>3. tx'[r].held = tx[r].held /\ tx'[r].work = tx[r].work /\ tx'[r].pend = tx[r].pend
        <4>0. tx \in [Requests -> Session]
          BY DEF TypeOK
        <4>1. CASE tx' = tx
          BY <4>1
        <4>2. CASE \E s : tx' = [tx EXCEPT ![r].basis = s]
          BY <4>0, <4>2 DEF Session
        <4> QED BY <2>7, <4>1, <4>2 DEF LockShiftRow, CheckClose, Ends, Codes, ClosedWithKey
      <3> QED BY <3>1, <3>2, <3>3, StockUntouched
    <2>8. CASE Moves(r) /\ (Step(r) \/ Fail(r)) /\ ~(FindShift(r) \/ HoldShift(r) \/ LockProduct(r))
      <3>1. /\ UNCHANGED <<qty, ledger, productLock, req, tx>>
            /\ \A o \in Requests \ {r} : pc'[o] = pc[o]
        BY <2>8 DEF Moves, Private, tables, locks, Goto, TypeOK
      <3>2. ASSUME req[r].kind = "SALE"
            PROVE  \/ ProductsOf(req[r].cart) \subseteq tx[r].held
                   \/ pc'[r] \notin {"hold", "insert", "lines", "commit"}
        <4>1. CASE pc[r] \in {"hold", "insert", "lines", "commit"}
          BY <3>2, <4>1 DEF CartHeld
        <4>2. CASE pc[r] \notin {"hold", "insert", "lines", "commit"}
          <5>1. ~ShiftStep(r)
            BY <3>2 DEF ShiftStep, BeginOpen, InsertShift, RecoverOpen, CommitOpen, BeginMovement,
                 CheckMovement, InsertMovement, CommitMovement, BeginClose, CheckClose, WriteClose,
                 PostVariance, CommitClose, LockShiftRow, At
          <5>2. CASE BeginSale(r)
            BY <5>2 DEF BeginSale, Goto, Return, Finish, TypeOK
          <5>3. CASE RejectSale(r) \/ Fail(r)
            BY <5>3, SMTT(40) DEF RejectSale, Fail, Return, Finish, TypeOK
          <5>4. ~InsertSale(r) /\ ~RecordMovement(r) /\ ~PostSale(r) /\ ~CommitSale(r)
            BY <4>2 DEF InsertSale, RecordMovement, PostSale, CommitSale, At
          <5> QED BY <2>8, <5>1, <5>2, <5>3, <5>4 DEF Step, SaleStep
        <4> QED BY <4>1, <4>2
      <3> QED BY <3>1, <3>2, StockUntouched
    <2> QED BY <1>1, <2>1, <2>2, <2>3, <2>4, <2>5, <2>6, <2>7, <2>8, QuietSteps
            DEF Step, SaleStep, ShiftStep
  <1>2. ASSUME ClosePeriod \/ UNCHANGED vars
        PROVE  (Locked /\ Working /\ CartHeld /\ QtyMatchesLedger)'
    <2>1. UNCHANGED <<qty, ledger, productLock, pc, req, tx>>
      BY <1>2 DEF ClosePeriod, vars, tables, locks, session
    <2>2. Locked' /\ Working'
      BY <2>1 DEF Locked, Working
    <2>3. CartHeld' /\ QtyMatchesLedger'
      BY <2>1 DEF CartHeld, QtyMatchesLedger
    <2> QED BY <2>2, <2>3
  <1>3. (Locked /\ Working /\ CartHeld /\ QtyMatchesLedger)'
    BY <1>1, <1>2 DEF Next, AllAnswered
  <1> HIDE DEF StockInv
  <1> QED BY <1>0, <1>3 DEF StockInv

(* Before the first request every ledger is empty and every product has    *)
(* its initial quantity.                                                   *)
LEMMA InitStock == Init => StockInv
  <1> SUFFICES ASSUME Init PROVE StockInv
    OBVIOUS
  <1>1. TypeOK /\ ShiftKnown /\ CartHeld
    BY InitType DEF Init, ShiftKnown, CartHeld
  <1>2. Locked /\ Working
    BY DEF Init, Locked, Working, EmptyTx
  <1>3. ASSUME NEW p \in Products PROVE Leads(0, ledger[p], qty[p])
    <2>1. qty[p] = InitialQty[p] /\ InitialQty[p] \in Nat
      BY StoreAssumption DEF Init
    <2>2. CASE InitialQty[p] = 0
      BY <2>1, <2>2, EmptyChain DEF Init
    <2>3. CASE InitialQty[p] # 0
      <3>1. ledger[p] = <<[delta |-> InitialQty[p], result |-> InitialQty[p], sale |-> NoOne]>>
        BY <2>3 DEF Init
      <3>2. Len(ledger[p]) = 1 /\ ledger[p][1].result = qty[p] /\ ledger[p][1].delta = qty[p]
        BY <2>1, <3>1
      <3> QED BY <2>1, <3>2, SlackIsNat DEF Leads, ChainedWithin, Before
    <2> QED BY <2>2, <2>3
  <1> QED BY <1>1, <1>2, <1>3 DEF StockInv, QtyMatchesLedger, Leads

(* However many sales of the same products run at once, with however many  *)
(* digits their quantities have, and wherever any of them fails, the       *)
(* movement ledger of every product always leads to its cached quantity,   *)
(* up to the rounding of the columns, which is none when quantities come   *)
(* in the columns' own quanta.                                             *)
THEOREM StockCorrect == Spec => []QtyMatchesLedger
  <1>1. Init => StockInv
    BY InitStock
  <1>2. StockInv /\ [Next]_vars => StockInv'
    BY StockStep
  <1>3. StockInv => QtyMatchesLedger
    BY DEF StockInv
  <1> QED BY <1>1, <1>2, <1>3, PTL DEF Spec

-----------------------------------------------------------------------------
(* The till.  A session that adds to a shift, or closes it, holds the      *)
(* shift's row lock from the moment it saw the shift OPEN until its        *)
(* commit, so that the rows a close adds up are those of the shift when    *)
(* the close commits.                                                      *)

ShiftOf(r) == IF req[r].kind = "SALE" THEN tx[r].shift ELSE req[r].shift

Writing(r) == req[r].kind \in {"SALE", "MOVE", "CLOSE"} /\ pc[r] \in {"insert", "lines", "commit"}

LockedRow(r) ==
    req[r].kind \in {"MOVE", "CLOSE"} /\ pc[r] = "check" => shiftLock[req[r].shift] = r

NoShiftYet(r) == req[r].kind = "SALE" /\ pc[r] \in {"idle", "lock"} => tx[r].shift = NoOne

HoldsOpen(r) ==
    Writing(r) /\ ShiftOf(r) # NoOne =>
        shiftLock[ShiftOf(r)] = r /\ shifts[ShiftOf(r)].status = "OPEN"

CountedAll(r) ==
    Writing(r) /\ req[r].kind = "CLOSE" => tx[r].basis = AttributedTo(req[r].shift)

ShiftSession(r) == LockedRow(r) /\ NoShiftYet(r) /\ HoldsOpen(r) /\ CountedAll(r)

TillInv == TypeOK /\ ShiftKnown /\ TillExact /\ \A r \in Requests : ShiftSession(r)

(* A session that is neither ended nor committing only leaves the tables   *)
(* alone and takes locks that nobody holds.                                *)
LEMMA WorkingStep ==
    ASSUME TypeOK, NEW r \in Requests, Step(r) \/ Fail(r),
           ~(CommitSale(r) \/ CommitOpen(r) \/ CommitMovement(r) \/ CommitClose(r))
    PROVE  /\ UNCHANGED <<tables, periodClosed>>
           /\ \A s \in Requests, o \in Requests \ {r} : shiftLock[s] = o => shiftLock'[s] = o
  <1>1. CASE Ends(r) \/ Moves(r)
    BY <1>1 DEF Ends, Moves, Return, Finish, Free, Private, locks, TypeOK
  <1>2. CASE LockProduct(r) /\ ~Ends(r)
    BY <1>2 DEF LockProduct, Ends, Codes, Private, TypeOK
  <1>3. CASE FindShift(r)
    BY <1>3 DEF FindShift, Private, locks
  <1>4. CASE HoldShift(r)
    BY <1>4, StoreAssumption, SMTT(40) DEF HoldShift, Private, TypeOK
  <1>5. CASE RecordMovement(r) /\ ~Ends(r)
    BY <1>5 DEF RecordMovement, Ends, Codes, Private, locks
  <1>6. CASE LockShiftRow(r) /\ ~Ends(r)
    BY <1>6, StoreAssumption DEF LockShiftRow, Ends, Codes, Private, TypeOK
  <1>7. CASE CheckClose(r) /\ ~Ends(r)
    BY <1>7 DEF CheckClose, Ends, Codes, Private, locks, ClosedWithKey
  <1> QED BY <1>1, <1>2, <1>3, <1>4, <1>5, <1>6, <1>7, QuietSteps DEF Step, SaleStep, ShiftStep

(* No step of request r disturbs a shift whose row another session holds.  *)
LEMMA OthersUndisturbed ==
    ASSUME TillInv, NEW r \in Requests, Step(r) \/ Fail(r), NEW s \in Requests,
           NEW o \in Requests \ {r}, shiftLock[s] = o
    PROVE  /\ shiftLock'[s] = o
           /\ shifts[s].status = "OPEN" => shifts'[s].status = "OPEN"
           /\ AttributedTo(s)' = AttributedTo(s)
  <1> USE DEF TillInv
  <1>1. CASE CommitSale(r)
    <2>1. tx[r].shift # s
      BY <1>1, StoreAssumption DEF CommitSale, At, ShiftSession, HoldsOpen, Writing, ShiftOf
    <2>2. sales' = sales \cup {SaleRowOf(r)} /\ SaleRowOf(r).shift # s /\ cashMoves' = cashMoves
          /\ shifts' = shifts
      BY <1>1, <2>1 DEF CommitSale, SaleRowOf
    <2>3. AttributedTo(s)' = AttributedTo(s)
      BY <2>2 DEF AttributedTo
    <2> QED BY <1>1, <2>2, <2>3 DEF CommitSale, Finish, Free, TypeOK
  <1>2. CASE CommitMovement(r)
    <2>1. req[r].shift # s
      BY <1>2, StoreAssumption DEF CommitMovement, At, ShiftSession, HoldsOpen, Writing, ShiftOf
    <2>2. PICK row : row.shift # s /\ cashMoves' = cashMoves \cup {row}
      BY <1>2, <2>1 DEF CommitMovement
    <2>3. AttributedTo(s)' = AttributedTo(s)
      BY <1>2, <2>2 DEF CommitMovement, AttributedTo
    <2> QED BY <1>2, <2>3 DEF CommitMovement, Finish, Free, TypeOK
  <1>3. CASE CommitOpen(r)
    BY <1>3 DEF CommitOpen, Finish, Free, TypeOK, AttributedTo
  <1>4. CASE CommitClose(r)
    <2>1. req[r].shift # s
      BY <1>4, StoreAssumption DEF CommitClose, At, ShiftSession, HoldsOpen, Writing, ShiftOf
    <2> QED BY <1>4, <2>1 DEF CommitClose, Finish, Free, TypeOK, AttributedTo
  <1>5. CASE ~(CommitSale(r) \/ CommitOpen(r) \/ CommitMovement(r) \/ CommitClose(r))
    BY <1>5, WorkingStep DEF tables, AttributedTo
  <1> QED BY <1>1, <1>2, <1>3, <1>4, <1>5

(* A closed shift stays closed with what it counted, a shift being closed  *)
(* counts everything.                                                      *)
LEMMA TillStep ==
    ASSUME TillInv, NEW r \in Requests, Step(r) \/ Fail(r)
    PROVE  TillExact'
  <1> USE DEF TillInv
  <1>1. CASE CommitSale(r)
    <2>1. tx[r].shift \notin Requests \/ shifts[tx[r].shift].status = "OPEN"
      BY <1>1, StoreAssumption DEF CommitSale, At, ShiftSession, HoldsOpen, Writing, ShiftOf
    <2>2. sales' = sales \cup {SaleRowOf(r)} /\ SaleRowOf(r).shift = tx[r].shift
          /\ cashMoves' = cashMoves /\ shifts' = shifts
      BY <1>1, <2>1 DEF CommitSale, SaleRowOf
    <2> QED BY <2>1, <2>2 DEF TillExact, AttributedTo
  <1>2. CASE CommitMovement(r)
    <2>1. req[r].shift \notin Requests \/ shifts[req[r].shift].status = "OPEN"
      BY <1>2, StoreAssumption DEF CommitMovement, At, ShiftSession, HoldsOpen, Writing, ShiftOf
    <2>2. PICK row : row.shift = req[r].shift /\ cashMoves' = cashMoves \cup {row}
      BY <1>2 DEF CommitMovement
    <2> QED BY <1>2, <2>1, <2>2 DEF CommitMovement, TillExact, AttributedTo
  <1>3. CASE CommitOpen(r)
    BY <1>3 DEF CommitOpen, TypeOK, TillExact, AttributedTo
  <1>4. CASE CommitClose(r)
    <2>1. tx[r].basis = AttributedTo(req[r].shift) /\ req[r].shift \in Requests
      BY <1>4 DEF CommitClose, At, ShiftSession, CountedAll, Writing, ShiftKnown
    <2> QED BY <1>4, <2>1 DEF CommitClose, TypeOK, TillExact, AttributedTo
  <1>5. CASE ~(CommitSale(r) \/ CommitOpen(r) \/ CommitMovement(r) \/ CommitClose(r))
    BY <1>5, WorkingStep DEF tables, TillExact, AttributedTo
  <1> QED BY <1>1, <1>2, <1>3, <1>4, <1>5

(* The other sessions keep what they hold and know.                        *)
LEMMA OthersSession ==
    ASSUME TillInv, NEW r \in Requests, Step(r) \/ Fail(r), NEW o \in Requests \ {r}
    PROVE  ShiftSession(o)'
  <1> USE DEF TillInv
  <1>1. req' = req /\ pc'[o] = pc[o] /\ tx'[o] = tx[o]
    BY StepFrame
  <1>2. ShiftSession(o)
    OBVIOUS
  <1>3. (Writing(o)' <=> Writing(o)) /\ ShiftOf(o)' = ShiftOf(o)
    BY <1>1 DEF Writing, ShiftOf
  <1>4. LockedRow(o)'
    <2> SUFFICES ASSUME req[o].kind \in {"MOVE", "CLOSE"}, pc[o] = "check"
                 PROVE  shiftLock'[req[o].shift] = o
      BY <1>1 DEF LockedRow
    <2>1. req[o].shift \in Requests /\ shiftLock[req[o].shift] = o
      BY <1>2 DEF ShiftKnown, ShiftSession, LockedRow
    <2> QED BY <2>1, OthersUndisturbed
  <1>5. NoShiftYet(o)'
    BY <1>1, <1>2 DEF ShiftSession, NoShiftYet
  <1>6. HoldsOpen(o)'
    <2> SUFFICES ASSUME Writing(o), ShiftOf(o) # NoOne
                 PROVE  shiftLock'[ShiftOf(o)] = o /\ shifts'[ShiftOf(o)].status = "OPEN"
      BY <1>3 DEF HoldsOpen
    <2>1. ShiftOf(o) \in Requests
      BY SubmissionFields DEF ShiftOf, TypeOK, Session
    <2>2. shiftLock[ShiftOf(o)] = o /\ shifts[ShiftOf(o)].status = "OPEN"
      BY <1>2 DEF ShiftSession, HoldsOpen
    <2> QED BY <2>1, <2>2, OthersUndisturbed
  <1>7. CountedAll(o)'
    <2> SUFFICES ASSUME Writing(o), req[o].kind = "CLOSE"
                 PROVE  tx[o].basis = AttributedTo(req[o].shift)'
      BY <1>1, <1>3 DEF CountedAll
    <2>1. req[o].shift \in Requests
      BY DEF Writing, ShiftKnown
    <2>2. shiftLock[req[o].shift] = o /\ tx[o].basis = AttributedTo(req[o].shift)
      BY <1>2, <2>1, StoreAssumption DEF ShiftSession, HoldsOpen, CountedAll, ShiftOf
    <2>3. AttributedTo(req[o].shift)' = AttributedTo(req[o].shift)
      <3>1. PICK s \in Requests : s = req[o].shift
        BY <2>1
      <3>2. AttributedTo(s)' = AttributedTo(s)
        BY <2>2, <3>1, OthersUndisturbed
      <3> QED BY <1>1, <3>1, <3>2 DEF AttributedTo
    <2> QED BY <2>2, <2>3
  <1> QED BY <1>4, <1>5, <1>6, <1>7 DEF ShiftSession

(* A session gets into its writing part only with the row of its shift     *)
(* locked and seen OPEN.                                                   *)
LEMMA OwnSession ==
    ASSUME TillInv, NEW r \in Requests, Step(r) \/ Fail(r)
    PROVE  ShiftSession(r)'
  <1> USE DEF TillInv
  <1>0. req' = req /\ ShiftSession(r) /\ pc \in [Requests -> Labels] /\ tx \in [Requests -> Session]
    BY StepFrame DEF TypeOK
  <1>1. CASE pc'[r] = "done"
    BY <1>1 DEF ShiftSession, LockedRow, NoShiftYet, HoldsOpen, CountedAll, Writing
  <1>2. ASSUME Ends(r) \/ CommitSale(r) \/ CommitOpen(r) \/ CommitMovement(r) \/ CommitClose(r)
        PROVE  pc'[r] = "done"
    BY <1>0, <1>2 DEF Ends, Return, CommitSale, CommitOpen, CommitMovement, CommitClose, Finish
  <1>3. CASE LockProduct(r) /\ ~Ends(r)
    <2>1. /\ req[r].kind = "SALE" /\ pc[r] = "lock" /\ pc' = pc
          /\ \E p, w : tx' = [tx EXCEPT ![r] = [tx[r] EXCEPT !.held = p, !.work = w]]
      BY <1>3 DEF LockProduct, Ends, Codes, At
    <2>2. tx'[r].shift = tx[r].shift
      BY <1>0, <2>1 DEF Session
    <2> QED BY <1>0, <2>1, <2>2 DEF ShiftSession, LockedRow, NoShiftYet, HoldsOpen, CountedAll, Writing
  <1>4. CASE FindShift(r)
    <2>1. req[r].kind = "SALE" /\ pc[r] = "lock" /\ tx[r].shift = NoOne
      BY <1>0, <1>4 DEF FindShift, AllLocked, At, ShiftSession, NoShiftYet
    <2>2. \/ pc'[r] = "hold"
          \/ pc'[r] = "insert" /\ tx' = tx
      BY <1>0, <1>4 DEF FindShift, Goto
    <2> QED BY <1>0, <2>1, <2>2
            DEF ShiftSession, LockedRow, NoShiftYet, HoldsOpen, CountedAll, Writing, ShiftOf
  <1>5. CASE HoldShift(r)
    <2>1. req[r].kind = "SALE" /\ pc'[r] = "insert" /\ shifts' = shifts
      BY <1>0, <1>5 DEF HoldShift, At, Goto, Private, tables
    <2>2. ASSUME tx'[r].shift # NoOne
          PROVE  shiftLock'[tx'[r].shift] = r /\ shifts[tx'[r].shift].status = "OPEN"
      <3>1. CASE shifts[tx[r].shift].status = "OPEN"
        <4>1. tx' = tx /\ shiftLock' = [shiftLock EXCEPT ![tx[r].shift] = r]
          BY <1>5, <3>1 DEF HoldShift
        <4>2. tx[r].shift \in Requests
          BY <1>0, <2>2, <4>1 DEF Session
        <4> QED BY <3>1, <4>1, <4>2 DEF TypeOK
      <3>2. CASE shifts[tx[r].shift].status # "OPEN"
        BY <1>0, <1>5, <2>2, <3>2 DEF HoldShift, Session
      <3> QED BY <3>1, <3>2
    <2> QED BY <1>0, <2>1, <2>2
            DEF ShiftSession, LockedRow, NoShiftYet, HoldsOpen, CountedAll, Writing, ShiftOf
  <1>6. CASE RecordMovement(r) /\ ~Ends(r)
    <2>1. /\ req[r].kind = "SALE" /\ pc[r] = "lines" /\ pc' = pc
          /\ shifts' = shifts /\ shiftLock' = shiftLock
      BY <1>6 DEF RecordMovement, Ends, Codes, At, Private, tables, locks
    <2>2. tx'[r].shift = tx[r].shift
      <3>1. \E w, p, n : tx' = [tx EXCEPT ![r] = [tx[r] EXCEPT !.work = w, !.pend = p, !.line = n]]
        BY <1>6 DEF RecordMovement, Ends, Codes
      <3> QED BY <1>0, <3>1, SMTT(40) DEF Session
    <2> QED BY <1>0, <2>1, <2>2, SMTT(40)
            DEF ShiftSession, LockedRow, NoShiftYet, HoldsOpen, CountedAll, Writing, ShiftOf
  <1>7. CASE LockShiftRow(r) /\ ~Ends(r)
    <2>1. /\ req[r].kind \in {"MOVE", "CLOSE"} /\ pc'[r] = "check" /\ req[r].shift \in Requests
          /\ shiftLock' = [shiftLock EXCEPT ![req[r].shift] = r]
      BY <1>0, <1>7, SubmissionFields DEF LockShiftRow, Ends, Codes, Goto
    <2> QED BY <1>0, <2>1 DEF ShiftSession, LockedRow, NoShiftYet, HoldsOpen, CountedAll, Writing, TypeOK
  <1>8. CASE CheckClose(r) /\ ~Ends(r)
    <2>1. /\ req[r].kind = "CLOSE" /\ pc'[r] = "insert" /\ pc[r] = "check"
          /\ tx'[r].basis = AttributedTo(req[r].shift)
          /\ shifts[req[r].shift].status = "OPEN"
          /\ shifts' = shifts /\ shiftLock' = shiftLock /\ sales' = sales /\ cashMoves' = cashMoves
      BY <1>0, <1>8 DEF CheckClose, Ends, Codes, At, Goto, Private, tables, locks, ClosedWithKey, Session
    <2>2. AttributedTo(req[r].shift)' = AttributedTo(req[r].shift)
      BY <1>0, <2>1 DEF AttributedTo
    <2> QED BY <1>0, <2>1, <2>2
            DEF ShiftSession, LockedRow, NoShiftYet, HoldsOpen, CountedAll, Writing, ShiftOf
  <1>9. CASE Moves(r)
    <2>1. /\ tx' = tx /\ shifts' = shifts /\ shiftLock' = shiftLock /\ sales' = sales
          /\ cashMoves' = cashMoves
      BY <1>9 DEF Moves, Private, tables, locks
    <2>2. AttributedTo(req[r].shift)' = AttributedTo(req[r].shift)
      BY <1>0, <2>1 DEF AttributedTo
    <2>3. ASSUME Writing(r) /\ pc'[r] \in {"insert", "lines", "commit"}
          PROVE  ShiftSession(r)'
      BY <1>0, <2>1, <2>2, <2>3
         DEF ShiftSession, LockedRow, NoShiftYet, HoldsOpen, CountedAll, Writing, ShiftOf
    <2>4. CASE BeginSale(r) \/ BeginMovement(r) \/ BeginClose(r)
      <3>1. pc'[r] \in {"lock", "done"}
        BY <1>0, <2>4 DEF BeginSale, BeginMovement, BeginClose, Goto, Return, Finish
      <3>2. pc[r] = "idle"
        BY <2>4 DEF BeginSale, BeginMovement, BeginClose, At
      <3> QED BY <1>0, <2>1, <3>1, <3>2
              DEF ShiftSession, LockedRow, NoShiftYet, HoldsOpen, CountedAll, Writing
    <2>5. CASE BeginOpen(r) \/ InsertShift(r) \/ RecoverOpen(r)
      <3>1. req[r].kind = "OPEN"
        BY <2>5 DEF BeginOpen, InsertShift, RecoverOpen, At
      <3> QED BY <1>0, <3>1 DEF ShiftSession, LockedRow, NoShiftYet, HoldsOpen, CountedAll, Writing
    <2>6. CASE CheckMovement(r)
      <3>1. \/ pc'[r] = "done"
            \/ pc'[r] = "insert" /\ shifts[req[r].shift].status = "OPEN"
        BY <1>0, <2>6 DEF CheckMovement, Goto, Return, Finish
      <3>2. req[r].kind = "MOVE" /\ pc[r] = "check"
        BY <2>6 DEF CheckMovement, At
      <3> QED BY <1>0, <2>1, <3>1, <3>2
              DEF ShiftSession, LockedRow, NoShiftYet, HoldsOpen, CountedAll, Writing, ShiftOf
    <2>7. CASE InsertSale(r) \/ PostSale(r)
      <3>1. Writing(r)
        BY <2>7 DEF InsertSale, PostSale, At, Writing
      <3>2. pc'[r] \in {"lines", "commit", "done"}
        BY <1>0, <2>7 DEF InsertSale, PostSale, Goto, Return, Finish
      <3> QED BY <1>1, <2>3, <3>1, <3>2
    <2>8. CASE InsertMovement(r) \/ WriteClose(r) \/ PostVariance(r)
      <3>1. Writing(r)
        BY <2>8 DEF InsertMovement, WriteClose, PostVariance, At, Writing
      <3>2. pc'[r] \in {"lines", "commit", "done"}
        BY <1>0, <2>8 DEF InsertMovement, WriteClose, PostVariance, Goto, Return, Finish
      <3> QED BY <1>1, <2>3, <3>1, <3>2
    <2> QED BY <1>1, <1>2, <1>3, <1>4, <1>5, <1>6, <1>7, <1>8, <2>4, <2>5, <2>6, <2>7, <2>8,
               QuietSteps DEF Step, SaleStep, ShiftStep
  <1> QED BY <1>1, <1>2, <1>3, <1>4, <1>5, <1>6, <1>7, <1>8, <1>9, QuietSteps
          DEF Step, SaleStep, ShiftStep

(* Every step keeps the rows a closing session has counted equal to the    *)
(* rows its shift has.                                                     *)
LEMMA TillInvStep ==
    ASSUME TillInv, [Next]_vars PROVE TillInv'
  <1>1. TypeOK' /\ ShiftKnown'
    BY TypeStep DEF TillInv
  <1>2. CASE \E r \in Requests : Step(r) \/ Fail(r)
    <2>1. PICK r \in Requests : Step(r) \/ Fail(r)
      BY <1>2
    <2>2. TillExact'
      BY <2>1, TillStep
    <2>3. \A o \in Requests : ShiftSession(o)'
      BY <2>1, OwnSession, OthersSession
    <2> QED BY <1>1, <2>2, <2>3 DEF TillInv
  <1>3. CASE ClosePeriod \/ UNCHANGED vars
    <2>1. UNCHANGED <<sales, shifts, cashMoves, shiftLock, pc, req, tx>>
      BY <1>3 DEF ClosePeriod, vars, tables, locks, session
    <2>2. TillExact'
      BY <2>1 DEF TillInv, TillExact, AttributedTo
    <2>3. ASSUME NEW r \in Requests PROVE ShiftSession(r)'
      BY <2>1 DEF TillInv, ShiftSession, LockedRow, NoShiftYet, HoldsOpen, CountedAll, Writing,
                  ShiftOf, AttributedTo
    <2> QED BY <1>1, <2>2, <2>3 DEF TillInv
  <1> QED BY <1>2, <1>3 DEF Next, AllAnswered

(* Before the first request no shift is being closed.                      *)
LEMMA InitTill == Init => TillInv
  <1> SUFFICES ASSUME Init PROVE TillInv
    OBVIOUS
  <1>1. TypeOK /\ ShiftKnown
    BY InitType DEF Init, ShiftKnown
  <1>2. TillExact
    BY DEF Init, TillExact, NoShiftRow
  <1>3. ASSUME NEW r \in Requests PROVE ShiftSession(r)
    <2>1. pc[r] \in {"idle", "done"} /\ tx[r].shift = NoOne
      BY InitWork DEF Init, EmptyTx
    <2> QED BY <2>1 DEF ShiftSession, LockedRow, NoShiftYet, HoldsOpen, CountedAll, Writing
  <1> QED BY <1>1, <1>2, <1>3 DEF TillInv

(* However the sales, drawer movements and closes of a shift interleave,   *)
(* and whatever fails, the rows a closed shift's expected cash was         *)
(* computed from are exactly the rows that carry its id, for ever after.   *)
THEOREM TillCorrect == Spec => []TillExact
  <1>1. Init => TillInv
    BY InitTill
  <1>2. TillInv /\ [Next]_vars => TillInv'
    BY TillInvStep
  <1>3. TillInv => TillExact
    BY DEF TillInv
  <1> QED BY <1>1, <1>2, <1>3, PTL DEF Spec

-----------------------------------------------------------------------------
(* Idempotency.  A session that has flushed a row is alone with its key    *)
(* (and, opening a shift, with its cashier), and no committed row has it:  *)
(* the unique indexes made the later ones wait.                            *)

InFlight(r) == pc[r] \in Flushed

FreshKey  == \A r \in Requests : InFlight(r) => RowsOf(req[r]) = {}
KeyAlone  == \A r \in Requests : InFlight(r) => ~KeyInFlight(r)
Opening(r) == req[r].kind = "OPEN" /\ InFlight(r)
FreshOpen == \A r \in Requests : Opening(r) => OpenShiftsOf(req[r].user) = {}
OpenAlone == \A r, o \in Requests : Opening(r) /\ Opening(o) /\ req[r].user = req[o].user => r = o

(* The row an open_shift will insert is not there yet, and an open shift   *)
(* has not been closed under any key.                                      *)
RowNotYet  == \A r \in Requests : req[r].kind = "OPEN" /\ pc[r] # "done" => shifts[r] = NoShiftRow
NotClosed  == \A s \in Requests : shifts[s].status = "OPEN" => shifts[s].closeKey = NoOne

Told == \A r \in Requests : answer[r].code = "OK" => RowsOf(req[r]) = {answer[r].row}

KeysInv == /\ TillInv /\ OneRowPerKey /\ OneOpenShift /\ Told
           /\ FreshKey /\ KeyAlone /\ FreshOpen /\ OpenAlone /\ RowNotYet /\ NotClosed

Commits(r) == CommitSale(r) \/ CommitOpen(r) \/ CommitMovement(r) \/ CommitClose(r)

(* A commit adds one row, under the key and to the table of its request.   *)
LEMMA CommitRows ==
    ASSUME KeysInv, NEW r \in Requests, Commits(r)
    PROVE  \E row \in Requests :
              /\ Finish(r, "OK", row)
              /\ \A q \in Submissions :
                    RowsOf(q)' = IF q.kind = req[r].kind /\ q.key = req[r].key
                                 THEN RowsOf(q) \cup {row} ELSE RowsOf(q)
  <1> USE DEF KeysInv, TillInv
  <1>0. /\ \A q \in Submissions : q.kind \in {"SALE", "OPEN", "MOVE", "CLOSE"} /\ q.key \in Keys
        /\ req[r] \in Submissions
    BY InputAssumption DEF Submission, TypeOK
  <1>1. CASE CommitSale(r)
    <2>1. /\ SaleRowOf(r).id = r /\ SaleRowOf(r).key = req[r].key /\ req[r].kind = "SALE"
          /\ sales' = sales \cup {SaleRowOf(r)} /\ UNCHANGED <<shifts, cashMoves>>
          /\ Finish(r, "OK", r)
      BY <1>1 DEF CommitSale, SaleRowOf, At
    <2>2. ASSUME NEW k PROVE
             {s.id : s \in SalesWithKey(k)'} =
                IF k = req[r].key THEN {s.id : s \in SalesWithKey(k)} \cup {r}
                                  ELSE {s.id : s \in SalesWithKey(k)}
      BY <2>1 DEF SalesWithKey
    <2>3. ASSUME NEW k PROVE /\ ShiftsWithKey(k)' = ShiftsWithKey(k)
                             /\ MovesWithKey(k)' = MovesWithKey(k)
                             /\ ClosedWithKey(k)' = ClosedWithKey(k)
      BY <2>1 DEF ShiftsWithKey, MovesWithKey, ClosedWithKey
    <2>5. ASSUME NEW q \in Submissions
          PROVE  RowsOf(q)' = IF q.kind = req[r].kind /\ q.key = req[r].key
                              THEN RowsOf(q) \cup {r} ELSE RowsOf(q)
      <3>1. CASE q.kind = "SALE"
        BY <3>1, <2>1, <2>2 DEF RowsOf
      <3>2. CASE q.kind # "SALE"
        BY <1>0, <3>2, <2>1, <2>3 DEF RowsOf
      <3> QED BY <3>1, <3>2
    <2> QED BY <2>1, <2>5
  <1>2. CASE CommitMovement(r)
    <2>1. PICK row : row.id = r /\ row.key = req[r].key /\ cashMoves' = cashMoves \cup {row}
      BY <1>2 DEF CommitMovement
    <2>2. req[r].kind = "MOVE" /\ UNCHANGED <<shifts, sales>> /\ Finish(r, "OK", r)
      BY <1>2 DEF CommitMovement, At
    <2>3. ASSUME NEW k PROVE
             {m.id : m \in MovesWithKey(k)'} =
                IF k = req[r].key THEN {m.id : m \in MovesWithKey(k)} \cup {r}
                                  ELSE {m.id : m \in MovesWithKey(k)}
      BY <2>1 DEF MovesWithKey
    <2>4. ASSUME NEW k PROVE /\ ShiftsWithKey(k)' = ShiftsWithKey(k)
                             /\ SalesWithKey(k)' = SalesWithKey(k)
                             /\ ClosedWithKey(k)' = ClosedWithKey(k)
      BY <2>2 DEF ShiftsWithKey, SalesWithKey, ClosedWithKey
    <2>5. ASSUME NEW q \in Submissions
          PROVE  RowsOf(q)' = IF q.kind = req[r].kind /\ q.key = req[r].key
                              THEN RowsOf(q) \cup {r} ELSE RowsOf(q)
      <3>1. CASE q.kind = "MOVE"
        BY <3>1, <2>2, <2>3 DEF RowsOf
      <3>2. CASE q.kind # "MOVE"
        BY <1>0, <3>2, <2>2, <2>4 DEF RowsOf
      <3> QED BY <3>1, <3>2
    <2> QED BY <2>2, <2>5
  <1>3. CASE CommitOpen(r)
    <2>1. req[r].kind = "OPEN" /\ UNCHANGED <<cashMoves, sales>> /\ Finish(r, "OK", r)
          /\ shifts[r].key = NoOne /\ shifts[r].closeKey = NoOne
      BY <1>3 DEF CommitOpen, At, RowNotYet, NoShiftRow
    <2>2. /\ shifts'[r].key = req[r].key /\ shifts'[r].closeKey = NoOne
          /\ \A s \in Requests \ {r} : shifts'[s] = shifts[s]
      BY <1>3 DEF CommitOpen, TypeOK
    <2>3. ASSUME NEW k \in Keys PROVE
             ShiftsWithKey(k)' = IF k = req[r].key THEN ShiftsWithKey(k) \cup {r} ELSE ShiftsWithKey(k)
      BY <2>1, <2>2, StoreAssumption DEF ShiftsWithKey
    <2>4. ASSUME NEW k PROVE /\ MovesWithKey(k)' = MovesWithKey(k)
                             /\ SalesWithKey(k)' = SalesWithKey(k)
      BY <2>1 DEF MovesWithKey, SalesWithKey
    <2>5. ASSUME NEW k \in Keys PROVE ClosedWithKey(k)' = ClosedWithKey(k)
      BY <2>1, <2>2 DEF ClosedWithKey
    <2> QED BY <1>0, <2>1, <2>3, <2>4, <2>5 DEF RowsOf
  <1>4. CASE CommitClose(r)
    <2> DEFINE s == req[r].shift
    <2>1. /\ req[r].kind = "CLOSE" /\ UNCHANGED <<cashMoves, sales>> /\ Finish(r, "OK", s)
          /\ s \in Requests
      BY <1>4 DEF CommitClose, At, ShiftKnown
    <2>2. shifts[s].status = "OPEN" /\ shifts[s].closeKey = NoOne
      BY <1>4, <2>1, StoreAssumption
         DEF CommitClose, At, ShiftSession, HoldsOpen, Writing, ShiftOf, NotClosed
    <2>3. /\ shifts'[s].key = shifts[s].key /\ shifts'[s].closeKey = req[r].key
          /\ \A t \in Requests \ {s} : shifts'[t] = shifts[t]
      BY <1>4, <2>1 DEF CommitClose, TypeOK
    <2> HIDE DEF s
    <2>4. ASSUME NEW k \in Keys PROVE
             ClosedWithKey(k)' = IF k = req[r].key THEN ClosedWithKey(k) \cup {s} ELSE ClosedWithKey(k)
      BY <2>1, <2>2, <2>3, StoreAssumption DEF ClosedWithKey
    <2>5. ASSUME NEW k PROVE /\ MovesWithKey(k)' = MovesWithKey(k)
                             /\ SalesWithKey(k)' = SalesWithKey(k)
      BY <2>1 DEF MovesWithKey, SalesWithKey
    <2>6. ASSUME NEW k \in Keys PROVE ShiftsWithKey(k)' = ShiftsWithKey(k)
      BY <2>1, <2>3 DEF ShiftsWithKey
    <2> QED BY <1>0, <2>1, <2>4, <2>5, <2>6 DEF RowsOf
  <1> QED BY <1>1, <1>2, <1>3, <1>4 DEF Commits

(* A step that is not a commit leaves the rows of every key as they are.   *)
LEMMA OtherRows ==
    ASSUME TypeOK, NEW r \in Requests, Step(r) \/ Fail(r), ~Commits(r)
    PROVE  /\ UNCHANGED <<sales, shifts, cashMoves>>
           /\ \A q \in Submissions : RowsOf(q)' = RowsOf(q)
  <1>1. UNCHANGED <<sales, shifts, cashMoves>>
    BY WorkingStep DEF Commits, tables
  <1> QED BY <1>1 DEF RowsOf, SalesWithKey, ShiftsWithKey, MovesWithKey, ClosedWithKey

(* A session flushes its row after it has waited for every uncommitted one *)
(* it collides with, and found no committed one.                           *)
LEMMA Flushes ==
    ASSUME TypeOK, NEW r \in Requests, Step(r) \/ Fail(r), ~InFlight(r), InFlight(r)'
    PROVE  /\ ~KeyInFlight(r) /\ RowsOf(req[r]) = {}
           /\ req[r].kind = "OPEN" => ~CashierInFlight(r) /\ OpenShiftsOf(req[r].user) = {}
  <1>0. pc \in [Requests -> Labels] /\ pc'[r] \in Flushed /\ pc[r] \notin Flushed
    BY DEF TypeOK, InFlight
  <1>1. CASE InsertSale(r)
    <2>1. SalesWithKey(req[r].key) = {} /\ req[r].kind = "SALE" /\ ~KeyInFlight(r)
      BY <1>0, <1>1 DEF InsertSale, At, Return, Finish, Flushed
    <2> QED BY <2>1 DEF RowsOf
  <1>2. CASE InsertShift(r)
    <2>1. /\ ShiftsWithKey(req[r].key) = {} /\ OpenShiftsOf(req[r].user) = {}
          /\ req[r].kind = "OPEN" /\ ~KeyInFlight(r) /\ ~CashierInFlight(r)
      BY <1>0, <1>2 DEF InsertShift, At, Goto, Flushed
    <2> QED BY <2>1 DEF RowsOf
  <1>3. CASE InsertMovement(r)
    <2>1. MovesWithKey(req[r].key) = {} /\ req[r].kind = "MOVE" /\ ~KeyInFlight(r)
      BY <1>0, <1>3 DEF InsertMovement, At, Return, Finish, Flushed
    <2> QED BY <2>1 DEF RowsOf
  <1>4. CASE WriteClose(r)
    <2>1. ClosedWithKey(req[r].key) = {} /\ req[r].kind = "CLOSE" /\ ~KeyInFlight(r)
      BY <1>0, <1>4 DEF WriteClose, At, Return, Finish, Flushed
    <2> QED BY <2>1 DEF RowsOf
  <1>5. ~Ends(r) /\ ~Commits(r) /\ ~Fail(r)
    BY <1>0, QuietSteps DEF Commits, Ends, Return, CommitSale, CommitOpen, CommitMovement, CommitClose,
                Finish, Flushed
  <1>6. ~RecordMovement(r) /\ ~PostSale(r) /\ ~PostVariance(r)
    BY <1>0 DEF RecordMovement, PostSale, PostVariance, At, Flushed
  <1>7. ~BeginSale(r) /\ ~BeginOpen(r) /\ ~BeginMovement(r) /\ ~BeginClose(r) /\ ~CheckMovement(r)
    BY <1>0 DEF BeginSale, BeginOpen, BeginMovement, BeginClose, CheckMovement, Goto, Return, Finish,
                Flushed
  <1>8. ~FindShift(r) /\ ~HoldShift(r) /\ ~LockProduct(r)
    BY <1>0, <1>5 DEF FindShift, HoldShift, LockProduct, Goto, Flushed, Ends, Codes
  <1>9. ~LockShiftRow(r) /\ ~CheckClose(r)
    BY <1>0, <1>5 DEF LockShiftRow, CheckClose, Goto, Flushed, Ends, Codes, ClosedWithKey
  <1> QED BY <1>1, <1>2, <1>3, <1>4, <1>5, <1>6, <1>7, <1>8, <1>9, QuietSteps
          DEF Step, SaleStep, ShiftStep, Commits

(* What the client is told: a row of its key, or an error.                 *)
LEMMA Answers ==
    ASSUME TypeOK, NEW r \in Requests, Step(r) \/ Fail(r), ~Commits(r)
    PROVE  /\ \A o \in Requests \ {r} : answer'[o] = answer[o]
           /\ answer'[r].code = "OK" => \/ answer'[r] = answer[r]
                                        \/ answer'[r].row \in RowsOf(req[r])
  <1>0. answer \in [Requests -> [code : Codes, row : Requests \cup {NoOne}]]
    BY DEF TypeOK
  <1>1. CASE answer' = answer
    BY <1>1
  <1>2. ASSUME NEW code, NEW row, Return(r, code, row)
        PROVE  answer' = [answer EXCEPT ![r] = [code |-> code, row |-> row]]
    BY <1>2 DEF Return, Finish
  <1>3. ASSUME NEW row, Return(r, "OK", row), row \in RowsOf(req[r])
        PROVE  \/ answer'[r] = answer[r]
               \/ answer'[r].row \in RowsOf(req[r])
    BY <1>0, <1>2, <1>3
  <1>4. CASE \E code, row : Return(r, code, row) /\ code # "OK"
    BY <1>0, <1>2, <1>4
  <1>5. CASE \E row : Return(r, "OK", row) /\ row \in RowsOf(req[r])
    BY <1>0, <1>2, <1>5
  <1>6. CASE BeginSale(r) \/ InsertSale(r)
    <2>1. req[r].kind = "SALE"
      BY <1>6 DEF BeginSale, InsertSale, At
    <2>2. \A x \in SalesWithKey(req[r].key) : x.id \in RowsOf(req[r])
      BY <2>1 DEF RowsOf
    <2> QED BY <1>1, <1>4, <1>5, <1>6, <2>2 DEF BeginSale, InsertSale, Private
  <1>7. CASE BeginOpen(r) \/ RecoverOpen(r)
    <2>1. req[r].kind = "OPEN"
      BY <1>7 DEF BeginOpen, RecoverOpen, At
    <2>2. ShiftsWithKey(req[r].key) = RowsOf(req[r])
      BY <2>1 DEF RowsOf
    <2> QED BY <1>1, <1>4, <1>5, <1>7, <2>2 DEF BeginOpen, RecoverOpen, Private
  <1>8. CASE BeginMovement(r) \/ InsertMovement(r)
    <2>1. req[r].kind = "MOVE"
      BY <1>8 DEF BeginMovement, InsertMovement, At
    <2>2. \A x \in MovesWithKey(req[r].key) : x.id \in RowsOf(req[r])
      BY <2>1 DEF RowsOf
    <2> QED BY <1>1, <1>4, <1>5, <1>8, <2>2 DEF BeginMovement, InsertMovement, Private
  <1>9. CASE BeginClose(r) \/ CheckClose(r) \/ WriteClose(r)
    <2>1. req[r].kind = "CLOSE"
      BY <1>9 DEF BeginClose, CheckClose, WriteClose, At
    <2>2. ClosedWithKey(req[r].key) = RowsOf(req[r])
      BY <2>1 DEF RowsOf
    <2> QED BY <1>1, <1>4, <1>5, <1>9, <2>2 DEF BeginClose, CheckClose, WriteClose, Private
  <1>10. CASE LockProduct(r) \/ RejectSale(r) \/ FindShift(r) \/ HoldShift(r)
    BY <1>1, <1>4, <1>10 DEF LockProduct, RejectSale, FindShift, HoldShift, Private
  <1>11. CASE RecordMovement(r) \/ PostSale(r)
    <2>1. (\E code, row : Return(r, code, row) /\ code # "OK") \/ answer' = answer
      <3>1. CASE RecordMovement(r)
        <4>1. Return(r, "INSUFFICIENT_STOCK", NoOne) \/ Return(r, "INTEGRITY_ERROR", NoOne) \/ Private
          BY ONLY <3>1 DEF RecordMovement
        <4> QED BY <4>1, SMTT(40) DEF Private
      <3>2. CASE PostSale(r)
        BY <3>2 DEF PostSale, Private
      <3> QED BY <1>11, <3>1, <3>2
    <2> QED BY <1>1, <1>4, <2>1
  <1>12. CASE InsertShift(r) \/ CheckMovement(r) \/ PostVariance(r) \/ LockShiftRow(r) \/ Fail(r)
    BY <1>1, <1>4, <1>12 DEF InsertShift, CheckMovement, PostVariance, LockShiftRow, Fail, Private
  <1> QED BY <1>6, <1>7, <1>8, <1>9, <1>10, <1>11, <1>12 DEF Step, SaleStep, ShiftStep, Commits

(* The rows of a request are named by the rows of its key.                 *)
LEMMA RowsOfKind ==
    ASSUME NEW q
    PROVE  /\ q.kind = "SALE"  => RowsOf(q) = {s.id : s \in SalesWithKey(q.key)}
           /\ q.kind = "OPEN"  => RowsOf(q) = ShiftsWithKey(q.key)
           /\ q.kind = "MOVE"  => RowsOf(q) = {m.id : m \in MovesWithKey(q.key)}
           /\ q.kind = "CLOSE" => RowsOf(q) = ClosedWithKey(q.key)
  BY DEF RowsOf

(* With one row per key, a row of a request is its only one.               *)
LEMMA OnlyRow ==
    ASSUME TypeOK, OneRowPerKey, NEW r \in Requests, NEW row \in RowsOf(req[r])
    PROVE  RowsOf(req[r]) = {row}
  <1>1. req[r].key \in Keys /\ req[r].kind \in {"SALE", "OPEN", "MOVE", "CLOSE"}
    BY InputAssumption DEF TypeOK, Submission
  <1>2. CASE req[r].kind = "SALE"
    BY <1>2, RowsOfKind DEF OneRowPerKey, SalesWithKey
  <1>3. CASE req[r].kind = "OPEN"
    BY <1>1, <1>3, RowsOfKind DEF OneRowPerKey
  <1>4. CASE req[r].kind = "MOVE"
    BY <1>4, RowsOfKind DEF OneRowPerKey, MovesWithKey
  <1>5. CASE req[r].kind = "CLOSE"
    BY <1>1, <1>5, RowsOfKind DEF OneRowPerKey
  <1> QED BY <1>1, <1>2, <1>3, <1>4, <1>5

(* No step gives a key a second row: the unique index refuses the later    *)
(* insert.                                                                 *)
LEMMA OneRowStep ==
    ASSUME KeysInv, NEW r \in Requests, Step(r) \/ Fail(r)
    PROVE  OneRowPerKey'
  <1> USE DEF KeysInv, TillInv
  <1>0. Commits(r) => InFlight(r) /\ RowsOf(req[r]) = {} /\ req[r].key \in Keys
    BY SubmissionFields DEF Commits, CommitSale, CommitOpen, CommitMovement, CommitClose, At, InFlight,
            Flushed, FreshKey
  <1>1. CASE ~Commits(r)
    BY <1>1, OtherRows DEF OneRowPerKey, ShiftsWithKey, ClosedWithKey
  <1>2. CASE CommitSale(r)
    <2>1. SalesWithKey(req[r].key) = {}
      <3>1. req[r].kind = "SALE" /\ RowsOf(req[r]) = {}
        BY <1>0, <1>2 DEF Commits, CommitSale, At
      <3>2. \A x \in SalesWithKey(req[r].key) : x.id \in RowsOf(req[r])
        BY <3>1 DEF RowsOf
      <3> QED BY <3>1, <3>2
    <2>2. /\ SaleRowOf(r).key = req[r].key
          /\ sales' = sales \cup {SaleRowOf(r)} /\ UNCHANGED <<shifts, cashMoves>>
      BY <1>2 DEF CommitSale, SaleRowOf
    <2>3. \A x, y \in sales' : x.key = y.key => x = y
      BY <2>1, <2>2 DEF OneRowPerKey, SalesWithKey
    <2> QED BY <2>2, <2>3 DEF OneRowPerKey, ShiftsWithKey, ClosedWithKey
  <1>3. CASE CommitMovement(r)
    <2>1. MovesWithKey(req[r].key) = {}
      <3>1. req[r].kind = "MOVE" /\ RowsOf(req[r]) = {}
        BY <1>0, <1>3 DEF Commits, CommitMovement, At
      <3>2. \A x \in MovesWithKey(req[r].key) : x.id \in RowsOf(req[r])
        BY <3>1 DEF RowsOf
      <3> QED BY <3>1, <3>2
    <2>2. PICK row : row.key = req[r].key /\ cashMoves' = cashMoves \cup {row}
      BY <1>3 DEF CommitMovement
    <2>3. UNCHANGED <<shifts, sales>>
      BY <1>3 DEF CommitMovement
    <2>4. \A x, y \in cashMoves' : x.key = y.key => x = y
      BY <2>1, <2>2 DEF OneRowPerKey, MovesWithKey
    <2> QED BY <2>3, <2>4 DEF OneRowPerKey, ShiftsWithKey, ClosedWithKey
  <1>4. CASE CommitOpen(r)
    <2>1. ShiftsWithKey(req[r].key) = {} /\ shifts[r].key = NoOne /\ shifts[r].closeKey = NoOne
      BY <1>0, <1>4, RowsOfKind DEF Commits, CommitOpen, At, RowNotYet, NoShiftRow
    <2>2. /\ shifts'[r].key = req[r].key /\ shifts'[r].closeKey = NoOne
          /\ \A s \in Requests \ {r} : shifts'[s] = shifts[s]
          /\ UNCHANGED <<cashMoves, sales>>
      BY <1>4 DEF CommitOpen, TypeOK
    <2>3. ASSUME NEW k \in Keys, NEW s \in ShiftsWithKey(k)', NEW t \in ShiftsWithKey(k)' PROVE s = t
      BY <2>1, <2>2 DEF OneRowPerKey, ShiftsWithKey
    <2>4. ASSUME NEW k \in Keys PROVE ClosedWithKey(k)' = ClosedWithKey(k)
      BY <2>1, <2>2 DEF ClosedWithKey
    <2> QED BY <2>2, <2>3, <2>4 DEF OneRowPerKey
  <1>5. CASE CommitClose(r)
    <2>1. ClosedWithKey(req[r].key) = {} /\ req[r].shift \in Requests
      BY <1>0, <1>5, RowsOfKind DEF Commits, CommitClose, At, ShiftKnown
    <2>2. PICK u \in Requests : u = req[r].shift
      BY <2>1
    <2>3. /\ shifts'[u].key = shifts[u].key /\ shifts'[u].closeKey = req[r].key
          /\ \A t \in Requests \ {u} : shifts'[t] = shifts[t]
          /\ UNCHANGED <<cashMoves, sales>>
      BY <1>5, <2>2 DEF CommitClose, TypeOK
    <2>4. ASSUME NEW k \in Keys, NEW s \in ClosedWithKey(k)', NEW t \in ClosedWithKey(k)' PROVE s = t
      BY <2>1, <2>3 DEF OneRowPerKey, ClosedWithKey
    <2>5. ASSUME NEW k \in Keys PROVE ShiftsWithKey(k)' = ShiftsWithKey(k)
      BY <2>3 DEF ShiftsWithKey
    <2> QED BY <2>3, <2>4, <2>5 DEF OneRowPerKey
  <1> QED BY <1>1, <1>2, <1>3, <1>4, <1>5 DEF Commits

(* Shift rows: what an open or a close writes.                             *)
LEMMA ShiftRowsStep ==
    ASSUME KeysInv, NEW r \in Requests, Step(r) \/ Fail(r)
    PROVE  OneOpenShift' /\ FreshOpen' /\ OpenAlone' /\ RowNotYet' /\ NotClosed'
  <1> USE DEF KeysInv, TillInv
  <1>0. /\ req' = req /\ \A o \in Requests \ {r} : pc'[o] = pc[o]
        /\ pc \in [Requests -> Labels] /\ pc' \in [Requests -> Labels]
    BY StepFrame, TypeStep DEF TypeOK, Next
  <1>1. Commits(r) => pc[r] = "commit" /\ pc'[r] = "done"
    BY <1>0 DEF Commits, CommitSale, CommitOpen, CommitMovement, CommitClose, At, Finish
  <1>2. OpenAlone'
    <2> SUFFICES ASSUME NEW o \in Requests, Opening(r)', Opening(o)', req[r].user = req[o].user, o # r
                 PROVE  FALSE
      BY <1>0 DEF OpenAlone, Opening, InFlight
    <2>1. Opening(o) /\ req[r].kind = "OPEN"
      BY <1>0 DEF Opening, InFlight
    <2>2. CASE InFlight(r)
      BY <2>1, <2>2 DEF OpenAlone, Opening
    <2>3. CASE ~InFlight(r)
      BY <2>1, <2>3, Flushes DEF Opening, InFlight, CashierInFlight
    <2> QED BY <2>2, <2>3
  <1>3. CASE UNCHANGED shifts
    <2>1. \A u : OpenShiftsOf(u)' = OpenShiftsOf(u)
      BY <1>3 DEF OpenShiftsOf
    <2>2. FreshOpen'
      <3> SUFFICES ASSUME NEW o \in Requests, Opening(o)' PROVE OpenShiftsOf(req[o].user) = {}
        BY <1>0, <2>1 DEF FreshOpen
      <3>1. CASE Opening(o)
        BY <3>1 DEF FreshOpen
      <3>2. CASE ~Opening(o)
        BY <1>0, <3>2, Flushes DEF Opening, InFlight
      <3> QED BY <3>1, <3>2
    <2>3. RowNotYet'
      <3>1. pc[r] = "done" => pc'[r] = "done"
        BY <1>0 DEF Step, SaleStep, ShiftStep, Fail, BeginSale, LockProduct, RejectSale, FindShift, HoldShift,
              InsertSale, RecordMovement, PostSale, CommitSale, BeginOpen, InsertShift, RecoverOpen,
              CommitOpen, BeginMovement, CheckMovement, InsertMovement, CommitMovement, BeginClose,
              CheckClose, WriteClose, PostVariance, CommitClose, LockShiftRow, At, AllLocked
      <3> QED BY <1>0, <1>3, <3>1 DEF RowNotYet
    <2> QED BY <1>2, <1>3, <2>1, <2>2, <2>3 DEF OneOpenShift, NotClosed
  <1>4. CASE CommitOpen(r)
    <2>1. /\ shifts'[r].status = "OPEN" /\ shifts'[r].cashier = req[r].user
          /\ shifts'[r].closeKey = NoOne
          /\ \A s \in Requests \ {r} : shifts'[s] = shifts[s]
      BY <1>4 DEF CommitOpen, TypeOK
    <2>2. OpenShiftsOf(req[r].user) = {} /\ Opening(r) /\ shifts[r] = NoShiftRow
      BY <1>4 DEF CommitOpen, At, FreshOpen, Opening, InFlight, Flushed, RowNotYet
    <2>3. OneOpenShift'
      BY <2>1, <2>2 DEF OneOpenShift, OpenShiftsOf
    <2>4. FreshOpen'
      <3> SUFFICES ASSUME NEW o \in Requests, Opening(o)' PROVE OpenShiftsOf(req[o].user)' = {}
        BY <1>0 DEF FreshOpen
      <3>1. o # r
        BY <1>1, <1>4 DEF Opening, InFlight, Flushed, Commits
      <3>2. Opening(o) /\ OpenShiftsOf(req[o].user) = {}
        BY <1>0, <3>1 DEF Opening, InFlight, FreshOpen
      <3>3. req[o].user # req[r].user
        BY <2>2, <3>1, <3>2 DEF OpenAlone
      <3> QED BY <1>0, <2>1, <3>2, <3>3 DEF OpenShiftsOf
    <2>5. RowNotYet'
      BY <1>0, <1>1, <1>4, <2>1 DEF RowNotYet, Commits
    <2>6. NotClosed'
      BY <2>1 DEF NotClosed
    <2> QED BY <1>2, <2>3, <2>4, <2>5, <2>6
  <1>5. CASE CommitClose(r)
    <2>0. req[r].shift \in Requests
      BY <1>5 DEF CommitClose, At, ShiftKnown
    <2>1. PICK u \in Requests : u = req[r].shift
      BY <2>0
    <2>2. /\ shifts'[u].status = "CLOSED"
          /\ \A t \in Requests \ {u} : shifts'[t] = shifts[t]
      BY <1>5, <2>1 DEF CommitClose, TypeOK
    <2>3. shifts[u].status = "OPEN"
      BY <1>5, <2>1, StoreAssumption DEF CommitClose, At, ShiftSession, HoldsOpen, Writing, ShiftOf
    <2>4. \A x : OpenShiftsOf(x)' \subseteq OpenShiftsOf(x)
      BY <2>2 DEF OpenShiftsOf
    <2>5. FreshOpen'
      <3> SUFFICES ASSUME NEW o \in Requests, Opening(o)' PROVE OpenShiftsOf(req[o].user)' = {}
        BY <1>0 DEF FreshOpen
      <3>1. o # r
        BY <1>1, <1>5 DEF Opening, InFlight, Flushed, Commits
      <3>2. Opening(o) /\ OpenShiftsOf(req[o].user) = {}
        BY <1>0, <3>1 DEF Opening, InFlight, FreshOpen
      <3> QED BY <1>0, <2>2, <3>2 DEF OpenShiftsOf
    <2>6. RowNotYet'
      <3> SUFFICES ASSUME NEW o \in Requests, req[o].kind = "OPEN", pc'[o] # "done"
                   PROVE  shifts'[o] = NoShiftRow
        BY <1>0 DEF RowNotYet
      <3>1. o # r
        BY <1>1, <1>5 DEF Commits
      <3>2. shifts[o] = NoShiftRow
        BY <1>0, <3>1 DEF RowNotYet
      <3>3. o # u
        BY <2>3, <3>2 DEF NoShiftRow
      <3> QED BY <2>2, <3>2, <3>3
    <2> QED BY <1>2, <2>2, <2>4, <2>5, <2>6 DEF OneOpenShift, NotClosed
  <1> QED BY <1>3, <1>4, <1>5, OtherRows DEF Commits, CommitSale, CommitMovement

(* Every step keeps keys and open shifts unique, and answers true.         *)
LEMMA KeysStep ==
    ASSUME KeysInv, [Next]_vars
    PROVE  KeysInv'
  <1> USE DEF KeysInv
  <1>0. TillInv' /\ TypeOK
    BY TillInvStep DEF TillInv
  <1>1. ASSUME NEW r \in Requests, Step(r) \/ Fail(r)
        PROVE  KeysInv'
    <2>0. /\ req' = req /\ \A o \in Requests \ {r} : pc'[o] = pc[o]
          /\ req \in [Requests -> Submissions] /\ pc \in [Requests -> Labels]
          /\ answer \in [Requests -> [code : Codes, row : Requests \cup {NoOne}]]
      BY <1>0, <1>1, StepFrame DEF TypeOK
    <2>1. OneRowPerKey' /\ OneOpenShift' /\ FreshOpen' /\ OpenAlone' /\ RowNotYet' /\ NotClosed'
      BY <1>1, OneRowStep, ShiftRowsStep
    <2>2. KeyAlone'
      <3> SUFFICES ASSUME NEW x \in Requests, NEW y \in Requests, x # y,
                          req[x].kind = req[y].kind, req[x].key = req[y].key,
                          InFlight(x)', InFlight(y)', x = r \/ InFlight(x), y = r \/ InFlight(y)
                   PROVE  FALSE
        BY <2>0 DEF KeyAlone, KeyInFlight, InFlight
      <3>1. CASE InFlight(r)
        BY <3>1 DEF KeyAlone, KeyInFlight, InFlight
      <3>2. CASE ~InFlight(r)
        <4>1. (x = r \/ y = r) => ~KeyInFlight(r)
          BY <1>0, <1>1, <3>2, Flushes
        <4>2. CASE x = r
          BY <4>1, <4>2 DEF KeyInFlight, InFlight
        <4>3. CASE y = r
          BY <4>1, <4>3 DEF KeyInFlight, InFlight
        <4>4. CASE x # r /\ y # r
          BY <4>4 DEF KeyAlone, KeyInFlight, InFlight
        <4> QED BY <4>2, <4>3, <4>4
      <3> QED BY <3>1, <3>2
    <2>3. CASE Commits(r)
      <3>1. PICK row \in Requests :
               /\ Finish(r, "OK", row)
               /\ \A q \in Submissions :
                     RowsOf(q)' = IF q.kind = req[r].kind /\ q.key = req[r].key
                                  THEN RowsOf(q) \cup {row} ELSE RowsOf(q)
        BY <2>3, CommitRows
      <3>2. InFlight(r) /\ RowsOf(req[r]) = {} /\ ~KeyInFlight(r)
        BY <2>3 DEF Commits, CommitSale, CommitOpen, CommitMovement, CommitClose, At, InFlight,
                    Flushed, FreshKey, KeyAlone
      <3>3. pc'[r] = "done" /\ answer' = [answer EXCEPT ![r] = [code |-> "OK", row |-> row]]
        BY <2>0, <3>1 DEF Finish
      <3>4. ASSUME NEW o \in Requests, o # r, req[o].kind = req[r].kind, req[o].key = req[r].key
            PROVE  ~InFlight(o) /\ RowsOf(req[o]) = {}
        <4>1. ~InFlight(o)
          BY <3>2, <3>4 DEF KeyInFlight, InFlight
        <4> QED BY <3>2, <3>4, <4>1 DEF RowsOf
      <3>5. ASSUME NEW o \in Requests
            PROVE  RowsOf(req[o])' = IF req[o].kind = req[r].kind /\ req[o].key = req[r].key
                                     THEN RowsOf(req[o]) \cup {row} ELSE RowsOf(req[o])
        <4>1. PICK q \in Submissions : q = req[o] /\ q = req'[o]
          BY <2>0
        <4>2. RowsOf(req[o])' = RowsOf(q)' /\ RowsOf(q) = RowsOf(req[o])
          BY <2>0, <4>1 DEF RowsOf, SalesWithKey, ShiftsWithKey, MovesWithKey, ClosedWithKey
        <4> QED BY <3>1, <4>1, <4>2
      <3>6. FreshKey'
        BY <2>0, <3>2, <3>3, <3>4, <3>5 DEF FreshKey, InFlight, Flushed
      <3>7. Told'
        <4> SUFFICES ASSUME NEW o \in Requests, answer'[o].code = "OK"
                     PROVE  RowsOf(req[o])' = {answer'[o].row}
          BY <2>0 DEF Told
        <4>1. CASE o = r
          BY <2>0, <3>2, <3>3, <3>5, <4>1
        <4>2. CASE o # r
          <5>1. answer'[o] = answer[o] /\ RowsOf(req[o]) = {answer[o].row}
            BY <2>0, <3>3, <4>2 DEF Told
          <5> QED BY <3>4, <3>5, <4>2, <5>1
        <4> QED BY <4>1, <4>2
      <3> QED BY <1>0, <2>1, <2>2, <3>6, <3>7
    <2>4. CASE ~Commits(r)
      <3>1. \A q \in Submissions : RowsOf(q)' = RowsOf(q)
        BY <1>0, <1>1, <2>4, OtherRows
      <3>2. ASSUME NEW o \in Requests PROVE RowsOf(req[o])' = RowsOf(req[o])
        <4>1. PICK q \in Submissions : q = req[o] /\ q = req'[o]
          BY <2>0
        <4>2. RowsOf(req[o])' = RowsOf(q)' /\ RowsOf(q) = RowsOf(req[o])
          BY <2>0, <4>1 DEF RowsOf, SalesWithKey, ShiftsWithKey, MovesWithKey, ClosedWithKey
        <4> QED BY <3>1, <4>2
      <3>3. FreshKey'
        <4> SUFFICES ASSUME NEW o \in Requests, InFlight(o)' PROVE RowsOf(req[o]) = {}
          BY <3>2 DEF FreshKey
        <4>1. CASE InFlight(o)
          BY <4>1 DEF FreshKey
        <4>2. CASE ~InFlight(o)
          <5>1. o = r
            BY <2>0, <4>2 DEF InFlight
          <5> QED BY <1>0, <1>1, <4>2, <5>1, Flushes
        <4> QED BY <4>1, <4>2
      <3>4. Told'
        <4> SUFFICES ASSUME NEW o \in Requests, answer'[o].code = "OK"
                     PROVE  RowsOf(req[o]) = {answer'[o].row}
          BY <3>2 DEF Told
        <4>1. CASE answer'[o] = answer[o]
          BY <4>1 DEF Told
        <4>2. CASE o = r /\ answer'[r].row \in RowsOf(req[r])
          BY <1>0, <4>2, OnlyRow
        <4> QED BY <1>0, <1>1, <2>4, <4>1, <4>2, Answers
      <3> QED BY <1>0, <2>1, <2>2, <3>3, <3>4
    <2> QED BY <2>3, <2>4
  <1>2. CASE ClosePeriod \/ UNCHANGED vars
    <2>1. UNCHANGED <<sales, shifts, cashMoves, pc, req, answer>>
      BY <1>2 DEF ClosePeriod, vars, tables, locks, session
    <2>2. OneRowPerKey' /\ OneOpenShift' /\ FreshOpen' /\ OpenAlone' /\ RowNotYet' /\ NotClosed'
      BY <2>1 DEF OneRowPerKey, OneOpenShift, FreshOpen, OpenAlone, RowNotYet, NotClosed, OpenShiftsOf,
                  ShiftsWithKey, ClosedWithKey, Opening, InFlight
    <2>3. KeyAlone'
      BY <2>1 DEF KeyAlone, KeyInFlight, InFlight
    <2>4. ASSUME NEW o \in Requests PROVE RowsOf(req[o])' = RowsOf(req[o])
      BY <2>1 DEF RowsOf, SalesWithKey, ShiftsWithKey, MovesWithKey, ClosedWithKey
    <2>5. FreshKey' /\ Told'
      BY <2>1, <2>4 DEF FreshKey, Told, InFlight
    <2> QED BY <1>0, <2>2, <2>3, <2>5
  <1> QED BY <1>1, <1>2 DEF Next, AllAnswered

(* Before the first request there are no rows, and nobody was answered.    *)
LEMMA InitKeys == Init => KeysInv
  <1> SUFFICES ASSUME Init PROVE KeysInv
    OBVIOUS
  <1>1. TillInv
    BY InitTill
  <1>2. /\ sales = {} /\ cashMoves = {} /\ \A s \in Requests : shifts[s] = NoShiftRow
        /\ \A r \in Requests : pc[r] \in {"idle", "done"} /\ answer[r].code = "NONE"
    BY InitWork DEF Init
  <1>3. OneRowPerKey
    BY <1>2, StoreAssumption DEF OneRowPerKey, ShiftsWithKey, ClosedWithKey, NoShiftRow
  <1>4. OneOpenShift /\ RowNotYet /\ NotClosed
    BY <1>2 DEF OneOpenShift, RowNotYet, NotClosed, OpenShiftsOf, NoShiftRow
  <1>5. Told /\ FreshKey /\ KeyAlone /\ FreshOpen /\ OpenAlone
    BY <1>2 DEF Told, FreshKey, KeyAlone, FreshOpen, OpenAlone, Opening, InFlight, Flushed
  <1> QED BY <1>1, <1>3, <1>4, <1>5 DEF KeysInv

(* For any number of duplicate and concurrent submissions: each key names  *)
(* one row, a cashier has one open shift, and everyone told OK was given   *)
(* the row of its key.                                                     *)
THEOREM DuplicatesCorrect == Spec => []DuplicatesGetTheRow
  <1>1. Init => KeysInv
    BY InitKeys
  <1>2. KeysInv /\ [Next]_vars => KeysInv'
    BY KeysStep
  <1>3. KeysInv => DuplicatesGetTheRow
    BY DEF KeysInv, Told, DuplicatesGetTheRow
  <1> QED BY <1>1, <1>2, <1>3, PTL DEF Spec

-----------------------------------------------------------------------------
(* The books.  Every sale has its one journal entry and every SALE entry   *)
(* its sale; the entry of a closed shift's variance, if it has one, moves  *)
(* the cash account by that variance.                                      *)

Entered(e, x) ==
    e.source = "SALE" /\ e.id = x.id /\ e.debitCash = x.cash /\ e.creditCash = x.change

SalesBooked ==
    /\ \A x, y \in sales : x.id = y.id => x = y
    /\ \A x \in sales : pc[x.id] = "done" /\ \E e \in journal : Entered(e, x)
    /\ \A e \in journal : e.source = "SALE" => \E x \in sales : Entered(e, x)
    /\ \A e, f \in journal : e.source = "SALE" /\ f.source = "SALE" /\ e.id = f.id => e = f

Over(s) == shifts[s].counted - ExpectedCash(shifts[s].float, shifts[s].basis)

VarianceOf(s) == {e \in journal : e.source = "CASH_SHIFT_VARIANCE" /\ e.id = s}

MovesCash(e, v) == e.debitCash \in Int /\ e.creditCash \in Int /\ e.debitCash - e.creditCash = v

VarianceBooked ==
    \A s \in Requests :
        IF shifts[s].status = "CLOSED" /\ Over(s) # 0
        THEN \E e : VarianceOf(s) = {e} /\ MovesCash(e, Over(s))
        ELSE VarianceOf(s) = {}

BooksInv == KeysInv /\ IsFiniteSet(sales) /\ IsFiniteSet(cashMoves) /\ SalesBooked /\ VarianceBooked

(* The four sums expected cash is made of are integers.                    *)
LEMMA DrawerSums ==
    ASSUME NEW rows \in TillRows, IsFiniteSet(rows.sold), IsFiniteSet(rows.moved)
    PROVE  /\ SumOver(rows.sold, LAMBDA x : x.cash) \in Int
           /\ SumOver(rows.sold, LAMBDA x : x.change) \in Int
           /\ SumOver(Moved(rows, "PAID_IN"), LAMBDA m : m.amount) \in Int
           /\ SumOver(Moved(rows, "PAID_OUT"), LAMBDA m : m.amount) \in Int
  <1>1. ASSUME NEW type PROVE SumOver(Moved(rows, type), LAMBDA m : m.amount) \in Int
    <2> DEFINE S == Moved(rows, type)
               f == [m \in S |-> m.amount]
    <2>1. S \subseteq rows.moved /\ rows.moved \subseteq CashMoveRow
      BY DEF Moved, TillRows
    <2>2. \A m \in S : f[m] \in Int
      BY <2>1 DEF CashMoveRow
    <2>3. IsFiniteSet(S)
      BY ONLY <2>1, IsFiniteSet(rows.moved), FS_Subset
    <2> HIDE DEF S, f
    <2>4. SumFunctionOnSet(f, S) \in Int
      BY ONLY <2>2, <2>3, SumInt
    <2> QED BY <2>4 DEF S, f, SumOver
  <1>2. SumOver(rows.sold, LAMBDA x : x.cash) \in Int
    <2> DEFINE S == rows.sold
               f == [x \in S |-> x.cash]
    <2>1. IsFiniteSet(S) /\ \A x \in S : f[x] \in Int
      BY DEF TillRows, SaleRow
    <2> HIDE DEF S, f
    <2>2. SumFunctionOnSet(f, S) \in Int
      BY ONLY <2>1, SumInt
    <2> QED BY <2>2 DEF S, f, SumOver
  <1>3. SumOver(rows.sold, LAMBDA x : x.change) \in Int
    <2> DEFINE S == rows.sold
               f == [x \in S |-> x.change]
    <2>1. IsFiniteSet(S) /\ \A x \in S : f[x] \in Int
      BY DEF TillRows, SaleRow
    <2> HIDE DEF S, f
    <2>2. SumFunctionOnSet(f, S) \in Int
      BY ONLY <2>1, SumInt
    <2> QED BY <2>2 DEF S, f, SumOver
  <1> QED BY <1>1, <1>2, <1>3

(* The committed rows of a shift are finitely many.                        *)
LEMMA ShiftRowsFinite ==
    ASSUME TypeOK, IsFiniteSet(sales), IsFiniteSet(cashMoves), NEW s
    PROVE  AttributedTo(s) \in TillRows /\ IsFiniteSet(AttributedTo(s).sold) /\ IsFiniteSet(AttributedTo(s).moved)
  <1> DEFINE S == {x \in sales : x.shift = s}
             M == {m \in cashMoves : m.shift = s}
  <1>1. AttributedTo(s).sold = S /\ AttributedTo(s).moved = M /\ S \subseteq sales /\ M \subseteq cashMoves
    BY DEF AttributedTo
  <1>2. AttributedTo(s) \in TillRows
    BY DEF AttributedTo, TillRows, TypeOK
  <1> HIDE DEF S, M
  <1>3. IsFiniteSet(S)
    BY ONLY <1>1, IsFiniteSet(sales), FS_Subset
  <1>4. IsFiniteSet(M)
    BY ONLY <1>1, IsFiniteSet(cashMoves), FS_Subset
  <1> QED BY <1>1, <1>2, <1>3, <1>4

(* Expected cash is an integer.                                            *)
LEMMA ExpectedInt ==
    ASSUME TypeOK, IsFiniteSet(sales), IsFiniteSet(cashMoves), NEW s, NEW float \in Nat
    PROVE  ExpectedCash(float, AttributedTo(s)) \in Int
  <1> DEFINE rows == AttributedTo(s)
  <1>1. rows \in TillRows /\ IsFiniteSet(rows.sold) /\ IsFiniteSet(rows.moved)
    BY ShiftRowsFinite
  <1> HIDE DEF rows
  <1>2. PICK a \in Int, b \in Int, c \in Int, d \in Int :
          /\ a = SumOver(rows.sold, LAMBDA x : x.cash) /\ b = SumOver(rows.sold, LAMBDA x : x.change)
          /\ c = SumOver(Moved(rows, "PAID_IN"), LAMBDA m : m.amount)
          /\ d = SumOver(Moved(rows, "PAID_OUT"), LAMBDA m : m.amount)
    BY ONLY <1>1, DrawerSums
  <1>3. ExpectedCash(float, rows) = float + a - b + c - d
    BY <1>2 DEF ExpectedCash
  <1> QED BY <1>3 DEF rows

(* A sale commits with the entry that carries its tenders and its change,  *)
(* under an id no committed sale has.                                      *)
LEMMA CommitSaleBooks ==
    ASSUME BooksInv, NEW r \in Requests, CommitSale(r)
    PROVE  SalesBooked' /\ VarianceBooked' /\ IsFiniteSet(sales') /\ IsFiniteSet(cashMoves')
  <1>1. /\ SalesBooked /\ VarianceBooked /\ IsFiniteSet(sales) /\ IsFiniteSet(cashMoves)
        /\ pc \in [Requests -> Labels] /\ sales \subseteq SaleRow
    BY DEF BooksInv, KeysInv, TillInv, TypeOK
  <1>2. PICK x, e : /\ sales' = sales \cup {x} /\ journal' = journal \cup {e}
                    /\ x.id = r /\ Entered(e, x)
    <2>1. SaleRowOf(r).id = r /\ Entered(SaleEntry(r), SaleRowOf(r))
      BY DEF SaleRowOf, SaleEntry, Entered, NoLines
    <2> QED BY <2>1 DEF CommitSale
  <1>3. /\ pc[r] = "commit" /\ pc' = [pc EXCEPT ![r] = "done"] /\ UNCHANGED <<shifts, cashMoves>>
    BY DEF CommitSale, At, Finish
  <1>4. \A y \in sales : y.id \in Requests /\ y.id # r
    BY <1>1, <1>3 DEF SalesBooked, SaleRow
  <1>5. \A f \in journal : f.source = "SALE" => f.id # r
    BY <1>1, <1>4 DEF SalesBooked, Entered
  <1>6. e.source = "SALE" /\ e.id = r
    BY <1>2 DEF Entered
  <1>7. SalesBooked'
    <2>1. \A y, z \in sales' : y.id = z.id => y = z
      BY <1>1, <1>2, <1>4 DEF SalesBooked
    <2>2. \A y \in sales' : pc'[y.id] = "done" /\ \E f \in journal' : Entered(f, y)
      BY <1>1, <1>2, <1>3, <1>4 DEF SalesBooked
    <2>3. \A f \in journal' : f.source = "SALE" => \E y \in sales' : Entered(f, y)
      BY <1>1, <1>2 DEF SalesBooked
    <2>4. \A f, g \in journal' : f.source = "SALE" /\ g.source = "SALE" /\ f.id = g.id => f = g
      BY <1>1, <1>2, <1>5, <1>6 DEF SalesBooked
    <2> QED BY <2>1, <2>2, <2>3, <2>4 DEF SalesBooked, Entered
  <1>8. VarianceBooked'
    <2>1. \A s \in Requests : VarianceOf(s)' = VarianceOf(s) /\ Over(s)' = Over(s)
      BY <1>2, <1>3, <1>6 DEF VarianceOf, Over
    <2> QED BY <1>1, <1>3, <2>1 DEF VarianceBooked
  <1>9. IsFiniteSet(sales')
    BY <1>1, <1>2, FS_AddElement
  <1> QED BY <1>1, <1>3, <1>7, <1>8, <1>9

(* A close posts the variance of the shift it closes, which had no entry   *)
(* because it was open.                                                    *)
LEMMA CommitCloseBooks ==
    ASSUME BooksInv, NEW r \in Requests, CommitClose(r)
    PROVE  SalesBooked' /\ VarianceBooked' /\ IsFiniteSet(sales') /\ IsFiniteSet(cashMoves')
  <1>0. PICK s, v : s = req[r].shift /\ v = Variance(r)
    OBVIOUS
  <1>1. /\ SalesBooked /\ VarianceBooked /\ IsFiniteSet(sales) /\ IsFiniteSet(cashMoves)
        /\ pc \in [Requests -> Labels] /\ sales \subseteq SaleRow /\ TypeOK /\ TillInv
    BY DEF BooksInv, KeysInv, TillInv, TypeOK
  <1>2. /\ s \in Requests /\ shifts[s].status = "OPEN" /\ tx[r].basis = AttributedTo(s)
    <2>1. s \in Requests /\ req[r].kind = "CLOSE" /\ Writing(r)
      BY <1>0, <1>1 DEF CommitClose, At, TillInv, ShiftKnown, Writing
    <2>2. HoldsOpen(r) /\ CountedAll(r)
      BY <1>1 DEF TillInv, ShiftSession
    <2> QED BY <1>0, <2>1, <2>2, StoreAssumption DEF HoldsOpen, CountedAll, ShiftOf
  <1>3. v \in Int
    <2>1. shifts[s].float \in Nat /\ req[r].amount \in Nat
      BY <1>1, <1>2, SubmissionFields DEF TypeOK, ShiftRow
    <2>2. ExpectedCash(shifts[s].float, AttributedTo(s)) \in Int
      <3>1. PICK f \in Nat : f = shifts[s].float
        BY <2>1
      <3>2. ExpectedCash(f, AttributedTo(s)) \in Int
        BY ONLY <1>1, <3>1, ExpectedInt
      <3> QED BY <3>1, <3>2
    <2> QED BY <1>0, <1>2, <2>1, <2>2 DEF Variance
  <1>4. /\ shifts'[s].status = "CLOSED" /\ Over(s)' = v
        /\ \A t \in Requests : t # s => shifts'[t] = shifts[t]
    <2>0. PICK row : row = [status |-> "CLOSED", cashier |-> shifts[s].cashier, float |-> shifts[s].float,
                            key |-> shifts[s].key, closeKey |-> req[r].key, counted |-> req[r].amount,
                            basis |-> tx[r].basis]
      OBVIOUS
    <2>1. /\ shifts' = [shifts EXCEPT ![s] = row] /\ row.status = "CLOSED"
          /\ row.float = shifts[s].float /\ row.counted = req[r].amount /\ row.basis = tx[r].basis
      BY <1>0, <2>0 DEF CommitClose
    <2>2. shifts'[s] = row /\ \A t \in Requests : t # s => shifts'[t] = shifts[t]
      BY <1>1, <1>2, <2>1 DEF TypeOK
    <2> QED BY <1>0, <2>1, <2>2 DEF Over, Variance
  <1>5. /\ UNCHANGED <<sales, cashMoves>> /\ pc' = [pc EXCEPT ![r] = "done"]
        /\ journal' = IF v = 0 THEN journal ELSE journal \cup {VarianceEntry(r)}
    BY <1>0 DEF CommitClose, Finish
  <1>6. PICK e : /\ e = VarianceEntry(r) /\ e.source = "CASH_SHIFT_VARIANCE" /\ e.id = s
                 /\ MovesCash(e, v)
    <2>1. VarianceEntry(r) = IF v > 0
            THEN [NoLines EXCEPT !.source = "CASH_SHIFT_VARIANCE", !.id = s, !.debitCash = v, !.creditOverShort = v]
            ELSE [NoLines EXCEPT !.source = "CASH_SHIFT_VARIANCE", !.id = s, !.debitOverShort = -v, !.creditCash = -v]
      BY <1>0 DEF VarianceEntry
    <2>2. MovesCash(VarianceEntry(r), v)
      BY <1>3, <2>1 DEF NoLines, MovesCash
    <2>3. VarianceEntry(r).source = "CASH_SHIFT_VARIANCE" /\ VarianceEntry(r).id = s
      BY <2>1 DEF NoLines
    <2> QED BY <2>2, <2>3
  <1>7. SalesBooked'
    BY <1>1, <1>5, <1>6 DEF SalesBooked, SaleRow, Entered
  <1>8. VarianceBooked'
    <2>1. VarianceOf(s) = {}
      BY <1>1, <1>2 DEF VarianceBooked
    <2>2. VarianceOf(s)' = IF v = 0 THEN {} ELSE {e}
      <3>1. \A f \in journal : ~(f.source = "CASH_SHIFT_VARIANCE" /\ f.id = s)
        BY <2>1 DEF VarianceOf
      <3>2. CASE v = 0
        BY <1>5, <3>1, <3>2 DEF VarianceOf
      <3>3. CASE v # 0
        BY <1>5, <1>6, <3>1, <3>3 DEF VarianceOf
      <3> QED BY <3>2, <3>3
    <2>3. \A t \in Requests : t # s => VarianceOf(t)' = VarianceOf(t) /\ Over(t)' = Over(t)
      BY <1>4, <1>5, <1>6 DEF VarianceOf, Over
    <2>4. ASSUME NEW t \in Requests
          PROVE  IF shifts'[t].status = "CLOSED" /\ Over(t)' # 0
                 THEN \E f : VarianceOf(t)' = {f} /\ MovesCash(f, Over(t)')
                 ELSE VarianceOf(t)' = {}
      <3>1. CASE t = s /\ v = 0
        BY <1>4, <2>2, <3>1
      <3>3. CASE t = s /\ v # 0
        BY <1>4, <1>6, <2>2, <3>3
      <3>2. CASE t # s
        BY <1>1, <1>4, <2>3, <3>2 DEF VarianceBooked
      <3> QED BY <3>1, <3>2, <3>3
    <2> QED BY <2>4 DEF VarianceBooked, MovesCash
  <1> QED BY <1>1, <1>5, <1>7, <1>8

(* No other step touches the journal or closes a shift.                    *)
LEMMA BooksStep ==
    ASSUME BooksInv, [Next]_vars
    PROVE  BooksInv'
  <1>1. KeysInv' /\ TypeOK
    BY KeysStep DEF BooksInv, KeysInv, TillInv
  <1>2. /\ SalesBooked /\ VarianceBooked /\ IsFiniteSet(sales) /\ IsFiniteSet(cashMoves)
    BY DEF BooksInv
  <1>3. ASSUME UNCHANGED <<sales, journal>>, \A x \in sales : pc'[x.id] = "done"
        PROVE  SalesBooked'
    BY <1>2, <1>3 DEF SalesBooked, Entered
  <1>4. ASSUME UNCHANGED <<shifts, journal>>
        PROVE  VarianceBooked'
    BY <1>2, <1>4 DEF VarianceBooked, VarianceOf, Over, MovesCash
  <1>5. ASSUME NEW r \in Requests, Step(r) \/ Fail(r)
        PROVE  SalesBooked' /\ VarianceBooked' /\ IsFiniteSet(sales') /\ IsFiniteSet(cashMoves')
    <2>1. CASE CommitSale(r)
      BY <2>1, CommitSaleBooks
    <2>2. CASE CommitClose(r)
      BY <2>2, CommitCloseBooks
    <2>3. CASE CommitOpen(r)
      <3>1. /\ UNCHANGED <<sales, journal, cashMoves>> /\ pc' = [pc EXCEPT ![r] = "done"]
            /\ shifts[r].status = "NONE" /\ shifts'[r].status = "OPEN"
            /\ \A t \in Requests : t # r => shifts'[t] = shifts[t]
        BY <1>1, <2>3 DEF CommitOpen, Finish, At, BooksInv, KeysInv, RowNotYet, NoShiftRow, TypeOK
      <3>2. SalesBooked'
        <4>1. \A x \in sales : pc'[x.id] = "done"
          BY <1>1, <1>2, <3>1 DEF SalesBooked, TypeOK, SaleRow
        <4> QED BY <1>3, <3>1, <4>1
      <3>3. VarianceBooked'
        <4>1. \A t \in Requests : VarianceOf(t)' = VarianceOf(t) /\ (t # r => Over(t)' = Over(t))
          BY <3>1 DEF VarianceOf, Over
        <4>2. VarianceOf(r) = {}
          BY <1>2, <3>1 DEF VarianceBooked
        <4> QED BY <1>2, <3>1, <4>1, <4>2 DEF VarianceBooked, MovesCash
      <3> QED BY <1>2, <3>1, <3>2, <3>3
    <2>4. CASE CommitMovement(r)
      <3>1. /\ UNCHANGED <<sales, journal, shifts>> /\ pc' = [pc EXCEPT ![r] = "done"]
            /\ \E m : cashMoves' = cashMoves \cup {m}
        BY <2>4 DEF CommitMovement, Finish
      <3>2. SalesBooked'
        <4>1. \A x \in sales : pc'[x.id] = "done"
          BY <1>1, <1>2, <3>1 DEF SalesBooked, TypeOK, SaleRow
        <4> QED BY <1>3, <3>1, <4>1
      <3>3. IsFiniteSet(cashMoves')
        BY <1>2, <3>1, FS_AddElement
      <3> QED BY <1>2, <1>4, <3>1, <3>2, <3>3
    <2>5. CASE ~(CommitSale(r) \/ CommitOpen(r) \/ CommitMovement(r) \/ CommitClose(r))
      <3>1. UNCHANGED <<sales, journal, shifts, cashMoves>>
        BY <1>1, <1>5, <2>5, WorkingStep DEF tables
      <3>2. \A o \in Requests \ {r} : pc'[o] = pc[o]
        BY <1>1, <1>5, StepFrame, SMTT(40)
      <3>3. pc[r] # "done"
        BY <1>5 DEF Step, SaleStep, ShiftStep, Fail, BeginSale, LockProduct, RejectSale, FindShift,
                    HoldShift, InsertSale, RecordMovement, PostSale, CommitSale, BeginOpen, InsertShift,
                    RecoverOpen, CommitOpen, BeginMovement, CheckMovement, InsertMovement,
                    CommitMovement, BeginClose, CheckClose, WriteClose, PostVariance, CommitClose,
                    LockShiftRow, AllLocked, At
      <3>4. \A x \in sales : pc'[x.id] = "done"
        BY <1>1, <1>2, <3>2, <3>3 DEF SalesBooked, TypeOK, SaleRow
      <3> QED BY <1>2, <1>3, <1>4, <3>1, <3>4
    <2> QED BY <2>1, <2>2, <2>3, <2>4, <2>5
  <1>6. CASE ClosePeriod \/ UNCHANGED vars
    <2>1. UNCHANGED <<sales, journal, shifts, cashMoves, pc>>
      BY <1>6 DEF ClosePeriod, vars, tables, locks, session
    <2>2. \A x \in sales : pc'[x.id] = "done"
      BY <1>2, <2>1 DEF SalesBooked
    <2> QED BY <1>1, <1>2, <1>3, <1>4, <2>1, <2>2 DEF BooksInv
  <1>7. CASE \E r \in Requests : Step(r) \/ Fail(r)
    BY <1>1, <1>5, <1>7 DEF BooksInv
  <1> QED BY <1>6, <1>7 DEF Next, AllAnswered

(* E is made of one entry h[x] for each row x of S, and of the entries of  *)
(* V; the amount of an entry h[x] under f is that of its row under g.      *)
Apart(S, h, A, V, E) ==
    /\ IsFiniteSet(S) /\ IsFiniteSet(V) /\ \A x, y \in S : h[x] = h[y] => x = y
    /\ A = {h[x] : x \in S} /\ A \cup V = E /\ A \cap V = {}

Agree(f, g, S, h, E) == (\A e \in E : f[e] \in Int) /\ \A x \in S : g[x] = f[h[x]] /\ h[x] \in E

(* The entries of a shift's sales and its variance entry are summed apart. *)
LEMMA SumApart ==
    ASSUME NEW S, NEW h, NEW A, NEW V, NEW E, Apart(S, h, A, V, E), NEW f, NEW g, Agree(f, g, S, h, E)
    PROVE  SumFunctionOnSet(f, E) = SumFunctionOnSet(g, S) + SumFunctionOnSet(f, V)
  <1> USE DEF Apart, Agree
  <1>1. A = {h[x] : x \in S} /\ A \cup V = E /\ A \cap V = {}
    OBVIOUS
  <1>2. IsFiniteSet(A)
    BY <1>1, FiniteImage
  <1>3. IsFiniteSet(E)
    <2>1. IsFiniteSet(V)
      OBVIOUS
    <2>2. IsFiniteSet(A \cup V)
      BY ONLY <1>2, <2>1, FS_Union
    <2> QED BY <1>1, <2>2
  <1>4. SumFunctionOnSet(f, E) = SumFunctionOnSet(f, A) + SumFunctionOnSet(f, V)
    BY <1>1, <1>3, SumSplit
  <1>5. \A x \in S : g[x] = f[h[x]] /\ g[x] \in Int
    OBVIOUS
  <1>6. SumFunctionOnSet(g, S) = SumFunctionOnSet(f, {h[x] : x \in S})
    BY ONLY <1>5, IsFiniteSet(S), \A x, y \in S : h[x] = h[y] => x = y, SumReindex
  <1> QED BY <1>1, <1>4, <1>6

(* A sum over one element.                                                 *)
LEMMA SumOne ==
    ASSUME NEW e, NEW f, f[e] \in Int PROVE SumFunctionOnSet(f, {e}) = f[e]
  <1>1. IsFiniteSet({e}) /\ {e} \ {e} = {}
    BY FS_Singleton
  <1>2. SumFunctionOnSet(f, {e}) = f[e] + SumFunctionOnSet(f, {})
    BY <1>1, SumRemove
  <1> QED BY <1>2, SumEmpty

(* A closed shift's part of the cash account.                              *)
LEMMA DrawerBooked ==
    ASSUME BooksInv, NEW s \in Requests, shifts[s].status = "CLOSED", NEW rows, rows = AttributedTo(s),
           NEW E, E = {e \in journal : \/ e.source = "SALE" /\ e.id \in {x.id : x \in rows.sold}
                                       \/ e.source = "CASH_SHIFT_VARIANCE" /\ e.id = s}
    PROVE  CashOf(E) = SumOver(rows.sold, LAMBDA x : x.cash) - SumOver(rows.sold, LAMBDA x : x.change) + Over(s)
  <1>1. /\ SalesBooked /\ VarianceBooked /\ IsFiniteSet(sales) /\ IsFiniteSet(cashMoves) /\ TypeOK
    BY DEF BooksInv, KeysInv, TillInv
  <1>2. /\ rows \in TillRows /\ IsFiniteSet(rows.sold) /\ IsFiniteSet(rows.moved)
    BY ONLY <1>1, rows = AttributedTo(s), ShiftRowsFinite
  <1>3. PICK S : S = rows.sold /\ S \subseteq sales
    BY DEF AttributedTo
  <1>4. IsFiniteSet(S) /\ \A x \in S : x.cash \in Int /\ x.change \in Int
    BY <1>1, <1>2, <1>3 DEF TypeOK, SaleRow
  <1> DEFINE h == [x \in S |-> CHOOSE e \in journal : Entered(e, x)]
             A == {h[x] : x \in S}
             V == VarianceOf(s)
  <1>5. \A x \in S : h[x] \in journal /\ Entered(h[x], x)
    BY <1>1, <1>3 DEF SalesBooked
  <1>6. \A x, y \in S : h[x] = h[y] => x = y
    <2> HIDE DEF h
    <2> QED BY <1>1, <1>3, <1>5 DEF SalesBooked, Entered
  <1>7. \A e : e \in A <=> e \in journal /\ e.source = "SALE" /\ e.id \in {x.id : x \in S}
    <2> HIDE DEF h
    <2>1. ASSUME NEW e \in A PROVE e \in journal /\ e.source = "SALE" /\ e.id \in {x.id : x \in S}
      BY <1>5 DEF Entered
    <2>2. ASSUME NEW e \in journal, e.source = "SALE", e.id \in {x.id : x \in S} PROVE e \in A
      <3>1. PICK x \in S : x.id = e.id
        BY <2>2
      <3>2. h[x] \in journal /\ h[x].source = "SALE" /\ h[x].id = e.id
        BY <1>5, <3>1 DEF Entered
      <3>3. h[x] = e
        BY <1>1, <2>2, <3>2 DEF SalesBooked
      <3> QED BY <3>3
    <2> QED BY <2>1, <2>2
  <1>8. E = A \cup V /\ A \cap V = {}
    <2> HIDE DEF A, h
    <2> QED BY <1>3, <1>7 DEF VarianceOf
  <1>9. PICK o \in Int : o = Over(s)
    <2>1. shifts[s].float \in Nat /\ shifts[s].counted \in Nat
      BY <1>1 DEF TypeOK, ShiftRow
    <2>2. shifts[s].basis = rows
      BY DEF BooksInv, KeysInv, TillInv, TillExact
    <2>3. PICK f \in Nat : f = shifts[s].float
      BY <2>1
    <2>4. ExpectedCash(f, rows) \in Int
      BY ONLY <1>1, rows = AttributedTo(s), ExpectedInt
    <2> QED BY <2>1, <2>2, <2>3, <2>4 DEF Over
  <1>10. \/ V = {} /\ o = 0
         \/ \E e : V = {e} /\ MovesCash(e, o)
    BY <1>1, <1>9 DEF VarianceBooked
  <1>11. IsFiniteSet(V) /\ \A e \in V : e.debitCash \in Int /\ e.creditCash \in Int
    BY <1>10, FS_EmptySet, FS_Singleton DEF MovesCash
  <1> DEFINE fd == [e \in E |-> e.debitCash]
             fc == [e \in E |-> e.creditCash]
             gd == [x \in S |-> x.cash]
             gc == [x \in S |-> x.change]
  <1>12. ASSUME NEW e \in E PROVE fd[e] \in Int /\ fc[e] \in Int
    <2>1. CASE e \in V
      BY <1>11, <2>1
    <2>2. CASE e \in A
      <3>1. PICK x \in S : e = h[x]
        BY <2>2
      <3> HIDE DEF h
      <3> QED BY <1>4, <1>5, <3>1 DEF Entered
    <2> QED BY <1>8, <2>1, <2>2
  <1>13. \A x \in S : gd[x] = fd[h[x]] /\ gc[x] = fc[h[x]]
    <2>1. \A x \in S : h[x] \in E
      BY <1>8
    <2> HIDE DEF h
    <2> QED BY <1>5, <2>1 DEF Entered
  <1>14. /\ CashOf(E) = SumFunctionOnSet(fd, E) - SumFunctionOnSet(fc, E)
         /\ SumOver(rows.sold, LAMBDA x : x.cash) = SumFunctionOnSet(gd, S)
         /\ SumOver(rows.sold, LAMBDA x : x.change) = SumFunctionOnSet(gc, S)
    BY <1>3 DEF CashOf, SumOver
  <1>15. V \subseteq E /\ \A e \in V : fd[e] = e.debitCash /\ fc[e] = e.creditCash
    BY <1>8
  <1>16. Apart(S, h, A, V, E)
    BY <1>4, <1>6, <1>8, <1>11 DEF Apart
  <1>17. Agree(fd, gd, S, h, E) /\ Agree(fc, gc, S, h, E)
    <2>1. \A x \in S : h[x] \in E
      BY <1>8
    <2> HIDE DEF h, A, V, fd, fc, gd, gc
    <2> QED BY <1>12, <1>13, <2>1 DEF Agree
  <1> HIDE DEF h, A, V, fd, fc, gd, gc
  <1>18. /\ SumFunctionOnSet(fd, E) = SumFunctionOnSet(gd, S) + SumFunctionOnSet(fd, V)
         /\ SumFunctionOnSet(fc, E) = SumFunctionOnSet(gc, S) + SumFunctionOnSet(fc, V)
    BY ONLY <1>16, <1>17, SumApart
  <1>19. SumFunctionOnSet(fd, V) \in Int /\ SumFunctionOnSet(fc, V) \in Int
         /\ SumFunctionOnSet(fd, V) - SumFunctionOnSet(fc, V) = o
    <2>1. CASE V = {} /\ o = 0
      BY <2>1, SumEmpty
    <2>2. CASE \E e : V = {e} /\ MovesCash(e, o)
      <3>1. PICK e : V = {e} /\ MovesCash(e, o)
        BY <2>2
      <3>2. fd[e] \in Int /\ fc[e] \in Int /\ fd[e] - fc[e] = o
        BY <1>15, <3>1 DEF MovesCash
      <3>3. SumFunctionOnSet(fd, {e}) = fd[e] /\ SumFunctionOnSet(fc, {e}) = fc[e]
        BY ONLY <3>2, SumOne
      <3> QED BY <3>1, <3>2, <3>3
    <2> QED BY <1>10, <2>1, <2>2
  <1>20. SumOver(rows.sold, LAMBDA x : x.cash) \in Int /\ SumOver(rows.sold, LAMBDA x : x.change) \in Int
    BY ONLY <1>2, DrawerSums
  <1>21. SumFunctionOnSet(gd, S) \in Int /\ SumFunctionOnSet(gc, S) \in Int
    BY <1>14, <1>20
  <1>22. SumFunctionOnSet(fd, E) - SumFunctionOnSet(fc, E) = SumFunctionOnSet(gd, S) - SumFunctionOnSet(gc, S) + o
    BY ONLY <1>9, <1>18, <1>19, <1>21
  <1> QED BY <1>9, <1>14, <1>22

(* Whatever was sold, paid in and paid out, in whatever order, and however *)
(* the close raced with it: for every closed shift the general ledger's    *)
(* cash explains the cash counted, to the cent.                            *)
THEOREM DrawerCorrect == Spec => []BooksMatchDrawer
  <1>1. Init => BooksInv
    <2> SUFFICES ASSUME Init PROVE BooksInv
      OBVIOUS
    <2>1. KeysInv
      BY InitKeys
    <2>2. sales = {} /\ cashMoves = {} /\ journal = {} /\ \A s \in Requests : shifts[s].status = "NONE"
      BY DEF Init, NoShiftRow
    <2>3. SalesBooked /\ VarianceBooked
      BY <2>2 DEF SalesBooked, VarianceBooked, VarianceOf
    <2> QED BY <2>1, <2>2, <2>3, FS_EmptySet DEF BooksInv
  <1>2. BooksInv /\ [Next]_vars => BooksInv'
    BY BooksStep
  <1>3. BooksInv => BooksMatchDrawer
    <2> SUFFICES ASSUME BooksInv, NEW s \in Requests, shifts[s].status = "CLOSED"
                 PROVE  CashOf({e \in journal :
                                   \/ e.source = "SALE" /\ e.id \in {x.id : x \in AttributedTo(s).sold}
                                   \/ e.source = "CASH_SHIFT_VARIANCE" /\ e.id = s})
                          = shifts[s].counted - shifts[s].float
                              - SumOver(Moved(AttributedTo(s), "PAID_IN"), LAMBDA m : m.amount)
                              + SumOver(Moved(AttributedTo(s), "PAID_OUT"), LAMBDA m : m.amount)
      BY DEF BooksMatchDrawer
    <2>1. PICK rows, E : /\ rows = AttributedTo(s)
                         /\ E = {e \in journal : \/ e.source = "SALE" /\ e.id \in {x.id : x \in rows.sold}
                                                 \/ e.source = "CASH_SHIFT_VARIANCE" /\ e.id = s}
      OBVIOUS
    <2>2. CashOf(E) = SumOver(rows.sold, LAMBDA x : x.cash) - SumOver(rows.sold, LAMBDA x : x.change) + Over(s)
      BY ONLY <2>1, BooksInv, s \in Requests, shifts[s].status = "CLOSED", DrawerBooked
    <2>3. IsFiniteSet(sales) /\ IsFiniteSet(cashMoves) /\ TypeOK /\ shifts[s].basis = rows
      BY <2>1 DEF BooksInv, KeysInv, TillInv, TillExact
    <2>4. rows \in TillRows /\ IsFiniteSet(rows.sold) /\ IsFiniteSet(rows.moved)
      BY ONLY <2>1, <2>3, ShiftRowsFinite
    <2>5. PICK a \in Int, b \in Int, c \in Int, d \in Int :
             /\ a = SumOver(rows.sold, LAMBDA x : x.cash) /\ b = SumOver(rows.sold, LAMBDA x : x.change)
             /\ c = SumOver(Moved(rows, "PAID_IN"), LAMBDA m : m.amount)
             /\ d = SumOver(Moved(rows, "PAID_OUT"), LAMBDA m : m.amount)
      BY ONLY <2>4, DrawerSums
    <2>6. PICK n \in Nat, f \in Nat : n = shifts[s].counted /\ f = shifts[s].float
      BY <2>3 DEF TypeOK, ShiftRow
    <2>7. Over(s) = n - (f + a - b + c - d)
      BY <2>3, <2>5, <2>6 DEF Over, ExpectedCash
    <2>8. CashOf(E) = n - f - c + d
      BY <2>2, <2>5, <2>7
    <2> QED BY <2>1, <2>5, <2>6, <2>8
  <1> QED BY <1>1, <1>2, <1>3, PTL DEF Spec
=============================================================================
