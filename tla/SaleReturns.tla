----------------------------- MODULE SaleReturns -----------------------------
(***************************************************************************)
(* Returns and voids of completed sales: create_sale_return and void_sale, *)
(* beside close_shift of the cashier who pays the refunds and sales that   *)
(* move the same stock.  As in Checkout each request is a database session *)
(* of its own under READ COMMITTED; what it loads from a row it has locked *)
(* stays in its session (tx) and is written back at its commit.            *)
(*                                                                         *)
(* Bodies have passed SaleReturnCreate or VoidSaleCreate: a return has a   *)
(* line, quantities are positive and the refund method is known.           *)
(***************************************************************************)
EXTENDS MoneyMath, StockLedger, SequencesExt, FiniteSets, FiniteSetsExt

CONSTANTS
    Sales,          \* the completed sales
    SaleStore,      \* [Sales -> Stores]
    Items,          \* their sale_items
    Item,           \* [Items -> [sale, product, qty, price, discount, tax, cost]], frozen
    Products,       \* product ids, integers: rows are locked in ascending id order
    AllowNegative,  \* the products with allow_negative_stock set
    InitialQty,     \* [Products -> Int] on hand after the sales
    InitialCost,    \* [Products -> Nat] their weighted average cost then
    QtyScale,       \* quantities count 1/QtyScale units
    Requests, Keys, Users, Stores,
    UserStore,      \* [Users -> Stores \cup {NoOne}], NoOne for a cross-store user
    Approvers,      \* users holding sales.return.approve
    Threshold,      \* [Stores -> Nat \cup {NoOne}], return_approval_threshold_amount, NoOne when NULL
    OnShift,        \* users with an open shift at the start
    Submissions,    \* the bodies requests may carry
    Workloads,      \* which requests are sent together, and what each carries
    MaxOtherSales,  \* bound on sales by other cashiers
    NoOne

VARIABLES
    returned,     \* sale_items.quantity_returned
    status,       \* sales.status
    returns,      \* sale_returns with their items: a set of rows
    qty, cost,    \* products.current_qty_on_hand and current_cost
    ledger,       \* inventory_movements since the start
    journal,      \* the SALE_RETURN journal entries
    shift,        \* the cashier's shift: NONE, OPEN or CLOSED
    counted,      \* the returns a closed shift's expected cash adds up
    saleLock, productLock, shiftLock,   \* FOR UPDATE holders
    pc, req, tx, answer

tables  == <<returned, status, returns, qty, cost, ledger, journal, shift, counted>>
locks   == <<saleLock, productLock, shiftLock>>
session == <<pc, req, tx, answer>>
vars    == <<tables, locks, session>>

ReturnLine == [item : Items, qty : Nat \ {0}, restock : BOOLEAN]

(* What a request carries.  approver is NoOne without credentials and      *)
(* "BAD" with wrong ones; closedDate says that return_date lies in a       *)
(* closed accounting period.                                               *)
Submission ==
    [kind : {"RETURN", "VOID", "CLOSE"}, key : Keys, user : Users, store : Stores,
     sale : Sales \cup {NoOne}, method : {"CASH", "CARD"}, lines : Seq(ReturnLine),
     approver : Users \cup {NoOne, "BAD"}, closedDate : BOOLEAN]

ASSUME ReturnsAssumption ==
    /\ SaleStore \in [Sales -> Stores]
    /\ Item \in [Items -> [sale : Sales, product : Products, qty : Nat \ {0}, price : Nat,
                           discount : Nat, tax : Nat, cost : Nat]]
    /\ Products \subseteq Int /\ AllowNegative \subseteq Products
    /\ InitialQty \in [Products -> Int] /\ InitialCost \in [Products -> Nat]
    /\ QtyScale \in Nat \ {0}
    /\ UserStore \in [Users -> Stores \cup {NoOne}]
    /\ Approvers \subseteq Users /\ OnShift \subseteq Users
    /\ Threshold \in [Stores -> Nat \cup {NoOne}]
    /\ Submissions \subseteq Submission
    /\ Workloads \subseteq [sent : SUBSET Requests, body : [Requests -> Submissions]]
    /\ MaxOtherSales \in Nat
    /\ \A s \in Sales : \E i \in Items : Item[i].sale = s     \* finalize_sale: EMPTY_CART
    /\ IsFiniteSet(Items) /\ IsFiniteSet(Requests)
    /\ NoOne \notin Requests \cup Sales \cup Users \cup Stores

EmptyTx == [lines |-> <<>>, seen |-> [i \in Items |-> 0], approver |-> NoOne,
            held |-> {}, qty |-> [p \in Products |-> 0], cost |-> [p \in Products |-> 0],
            moved |-> {}, rows |-> [p \in Products |-> <<>>], shift |-> NoOne, basis |-> {}]

Init ==
    /\ returned = [i \in Items |-> 0]
    /\ status = [s \in Sales |-> "COMPLETED"]
    /\ returns = {} /\ journal = {}
    /\ qty = InitialQty /\ cost = InitialCost
    /\ ledger = [p \in Products |-> <<>>]
    /\ shift = [u \in Users |-> IF u \in OnShift THEN "OPEN" ELSE "NONE"]
    /\ counted = [u \in Users |-> {}]
    /\ saleLock = [s \in Sales |-> NoOne]
    /\ productLock = [p \in Products |-> NoOne]
    /\ shiftLock = [u \in Users |-> NoOne]
    /\ \E w \in Workloads :
          /\ req = w.body
          /\ pc = [r \in Requests |-> IF r \in w.sent THEN "idle" ELSE "done"]
    /\ tx = [r \in Requests |-> EmptyTx]
    /\ answer = [r \in Requests |-> [code |-> "NONE", row |-> NoOne]]

-----------------------------------------------------------------------------
(* Lines of a return, summed by item.                                      *)

ItemsIn(lines)      == {l.item : l \in ToSet(lines)}
QtyOf(lines, i)     == SumLines(lines, LAMBDA l : IF l.item = i THEN l.qty ELSE 0)
RestockOf(lines, i) == \E l \in ToSet(lines) : l.item = i /\ l.restock
ToRestock(lines)    == {i \in ItemsIn(lines) : RestockOf(lines, i)}
Restocked(lines)    == {Item[i].product : i \in ToRestock(lines)}
ItemsOf(s)          == {i \in Items : Item[i].sale = s}

(* Variant: a share computed afresh for every return.                      *)
LineRefund_fresh(i, already, q) ==
    [price    |-> RoundHalfUp(Item[i].price * q, QtyScale),
     discount |-> Entitled(Item[i].discount, q, Item[i].qty),
     tax      |-> Entitled(Item[i].tax, q, Item[i].qty)]

(* _compute_line_refund: the price of the quantity, and the telescoping    *)
(* shares of the line's discount and tax, once already has been returned.  *)
LineRefund(i, already, q) ==
    [price    |-> RoundHalfUp(Item[i].price * q, QtyScale),
     discount |-> proportional_share(Item[i].discount, Item[i].qty, already, q),
     tax      |-> proportional_share(Item[i].tax, Item[i].qty, already, q)]

LineAmount(f) == f.price - f.discount + f.tax

RefundOf(lines, seen) ==
    SumOver(ItemsIn(lines), LAMBDA i : LineAmount(LineRefund(i, seen[i], QtyOf(lines, i))))

-----------------------------------------------------------------------------
(* How a session ends.                                                     *)

Free(lock, r) == [x \in DOMAIN lock |-> IF lock[x] = r THEN NoOne ELSE lock[x]]

Finish(r, code, row) ==
    /\ pc' = [pc EXCEPT ![r] = "done"]
    /\ answer' = [answer EXCEPT ![r] = [code |-> code, row |-> row]]
    /\ tx' = [tx EXCEPT ![r] = EmptyTx]
    /\ saleLock' = Free(saleLock, r)
    /\ productLock' = Free(productLock, r)
    /\ shiftLock' = Free(shiftLock, r)
    /\ UNCHANGED req

Return(r, code, row) == Finish(r, code, row) /\ UNCHANGED tables
Goto(r, label)       == pc' = [pc EXCEPT ![r] = label]
Private              == UNCHANGED <<tables, req, answer>>
Refunds(r)           == req[r].kind \in {"RETURN", "VOID"}

MayUse(u, store) == UserStore[u] \in {NoOne, store}

(* _match_or_reject_idempotent_return: the existing row has this sale, and *)
(* method, and the same sorted list of (item, quantity, restock).          *)
ReturnsWithKey(k) == {x \in returns : x.key = k}
SamePayload(x, q, lines) ==
    /\ x.sale = q.sale /\ x.method = q.method
    /\ x.lines = ToSet(lines) /\ Len(lines) = Cardinality(x.lines)

MatchOrReject(r, lines) ==
    \E x \in ReturnsWithKey(req[r].key) :
        IF SamePayload(x, req[r], lines) THEN Return(r, "OK", x.id)
        ELSE Return(r, "IDEMPOTENCY_KEY_CONFLICT", NoOne)

(* Store scope of the endpoint, the idempotency fast path, and the scope   *)
(* check against the sale's own store.                                     *)
BeginReturn(r) ==
    /\ req[r].kind = "RETURN" /\ pc[r] = "idle"
    /\ LET q == req[r] IN
       IF ~MayUse(q.user, q.store) THEN Return(r, "STORE_ACCESS_DENIED", NoOne)
       ELSE IF ReturnsWithKey(q.key) # {} THEN MatchOrReject(r, q.lines)
       ELSE IF q.sale # NoOne /\ ~MayUse(q.user, SaleStore[q.sale])
            THEN Return(r, "STORE_ACCESS_DENIED", NoOne)
       ELSE Goto(r, "lock") /\ Private /\ UNCHANGED <<locks, tx>>

BeginVoid(r) ==
    /\ req[r].kind = "VOID" /\ pc[r] = "idle"
    /\ IF ~MayUse(req[r].user, req[r].store) THEN Return(r, "STORE_ACCESS_DENIED", NoOne)
       ELSE Goto(r, "lock") /\ Private /\ UNCHANGED <<locks, tx>>

(* Variant: the sale is read with a plain SELECT.                          *)
LockSale_no_lock(r) ==
    /\ Refunds(r) /\ pc[r] = "lock"
    /\ req[r].sale # NoOne
    /\ tx' = [tx EXCEPT ![r] = [tx[r] EXCEPT !.lines = req[r].lines, !.seen = returned]]
    /\ Goto(r, "check") /\ Private /\ UNCHANGED locks

(* SELECT ... FROM sales WHERE id = sale_id FOR UPDATE; the sale's items   *)
(* are loaded under that lock.  void_sale asks for all that remains.       *)
Remaining(s) ==
    LET left == {i \in ItemsOf(s) : Item[i].qty > returned[i]} IN
    SetToSeq({[item |-> i, qty |-> Item[i].qty - returned[i], restock |-> TRUE] : i \in left})

LockSale(r) ==
    /\ Refunds(r) /\ pc[r] = "lock"
    /\ LET q == req[r] IN
       IF q.sale = NoOne THEN Return(r, "NOT_FOUND", NoOne)
       ELSE /\ saleLock[q.sale] = NoOne
            /\ saleLock' = [saleLock EXCEPT ![q.sale] = r]
            /\ tx' = [tx EXCEPT ![r] =
                        [tx[r] EXCEPT !.lines = IF q.kind = "VOID" THEN Remaining(q.sale) ELSE q.lines,
                                      !.seen = returned]]
            /\ Goto(r, "check") /\ Private /\ UNCHANGED <<productLock, shiftLock>>

(* _resolve_return_approval: at or above the threshold another user, whose *)
(* password is right, who may approve, and for this store.                 *)
NeedsApproval(store, amount) == Threshold[store] # NoOne /\ amount >= Threshold[store]

ApprovalError(q) ==
    IF q.approver = NoOne THEN "APPROVAL_REQUIRED"
    ELSE IF q.approver = "BAD" THEN "INVALID_APPROVER_CREDENTIALS"
    ELSE IF q.approver = q.user THEN "SELF_APPROVAL_NOT_ALLOWED"
    ELSE IF q.approver \notin Approvers THEN "APPROVAL_PERMISSION_DENIED"
    ELSE IF ~MayUse(q.approver, q.store) THEN "STORE_ACCESS_DENIED"
    ELSE "OK"

(* Under the sale lock: void_sale's own checks, the second idempotency     *)
(* check, the sale's store and status, the lines and what remains of them, *)
(* and the approval gate.                                                  *)
Verdict(r) ==
    LET q     == req[r]
        lines == tx[r].lines
    IN  IF q.store # SaleStore[q.sale] THEN "STORE_MISMATCH"
        ELSE IF status[q.sale] \notin {"COMPLETED", "PARTIALLY_REFUNDED"} THEN "SALE_NOT_RETURNABLE"
        ELSE IF ~(ItemsIn(lines) \subseteq ItemsOf(q.sale)) THEN "NOT_FOUND"
        ELSE IF \E i \in ItemsIn(lines) : QtyOf(lines, i) > Item[i].qty - tx[r].seen[i]
             THEN "EXCESSIVE_RETURN_QUANTITY"
        ELSE IF NeedsApproval(q.store, RefundOf(lines, tx[r].seen)) THEN ApprovalError(q)
        ELSE "OK"

CheckReturn(r) ==
    /\ Refunds(r) /\ pc[r] = "check"
    /\ LET q == req[r] IN
       IF q.kind = "VOID" /\ ~MayUse(q.user, SaleStore[q.sale])
       THEN Return(r, "STORE_ACCESS_DENIED", NoOne)
       ELSE IF tx[r].lines = <<>> THEN Return(r, "NOTHING_TO_VOID", NoOne)
       ELSE IF ReturnsWithKey(q.key) # {} THEN MatchOrReject(r, tx[r].lines)
       ELSE IF Verdict(r) # "OK" THEN Return(r, Verdict(r), NoOne)
       ELSE /\ tx' = [tx EXCEPT ![r].approver =
                        IF NeedsApproval(q.store, RefundOf(tx[r].lines, tx[r].seen)) THEN q.approver ELSE NoOne]
            /\ Goto(r, "products") /\ Private /\ UNCHANGED locks

(* Variant: rows are locked in the order of the lines.                     *)
LockProduct_line_order(r) ==
    /\ Refunds(r) /\ pc[r] = "products"
    /\ \E i \in DOMAIN tx[r].lines :
          LET p == Item[tx[r].lines[i].item].product IN
          /\ p \in Restocked(tx[r].lines) \ tx[r].held
          /\ \A j \in 1 .. i - 1 : Item[tx[r].lines[j].item].product \in tx[r].held
          /\ productLock[p] = NoOne
          /\ productLock' = [productLock EXCEPT ![p] = r]
          /\ tx' = [tx EXCEPT ![r].held = @ \cup {p}, ![r].qty[p] = qty[p], ![r].cost[p] = cost[p]]
    /\ Private /\ UNCHANGED <<pc, saleLock, shiftLock>>

(* Variant: the product is read with a plain SELECT.                       *)
LockProduct_no_lock(r) ==
    /\ Refunds(r) /\ pc[r] = "products"
    /\ \E p \in Restocked(tx[r].lines) \ tx[r].held :
          tx' = [tx EXCEPT ![r].held = @ \cup {p}, ![r].qty[p] = qty[p], ![r].cost[p] = cost[p]]
    /\ Private /\ UNCHANGED <<pc, locks>>

(* The next product row to restock, lowest id first.                       *)
LockProduct(r) ==
    /\ Refunds(r) /\ pc[r] = "products"
    /\ LET left == Restocked(tx[r].lines) \ tx[r].held
           p    == CHOOSE m \in left : \A o \in left : m <= o
       IN  /\ left # {}
           /\ productLock[p] = NoOne
           /\ productLock' = [productLock EXCEPT ![p] = r]
           /\ tx' = [tx EXCEPT ![r] = [tx[r] EXCEPT !.held = tx[r].held \cup {p},
                                                    !.qty = [tx[r].qty EXCEPT ![p] = qty[p]],
                                                    !.cost = [tx[r].cost EXCEPT ![p] = cost[p]]]]
    /\ Private /\ UNCHANGED <<pc, saleLock, shiftLock>>

(* lock_active_shift_for_cashier of the user who processes the return: the *)
(* statement starts, and gets the row lock.                                *)
FindShift(r) ==
    /\ Refunds(r) /\ pc[r] = "products"
    /\ Restocked(tx[r].lines) \subseteq tx[r].held
    /\ IF shift[req[r].user] = "OPEN" THEN Goto(r, "hold") ELSE Goto(r, "insert")
    /\ Private /\ UNCHANGED <<locks, tx>>

(* Variant: the shift is found but its row is not locked.                  *)
HoldShift_no_lock(r) ==
    /\ Refunds(r) /\ pc[r] = "hold"
    /\ tx' = [tx EXCEPT ![r].shift = req[r].user]
    /\ Goto(r, "insert") /\ Private /\ UNCHANGED locks

HoldShift(r) ==
    /\ Refunds(r) /\ pc[r] = "hold"
    /\ LET u == req[r].user IN
       /\ shiftLock[u] = NoOne
       /\ IF shift[u] = "OPEN"
          THEN /\ shiftLock' = [shiftLock EXCEPT ![u] = r]
               /\ tx' = [tx EXCEPT ![r].shift = u]
          ELSE UNCHANGED <<shiftLock, tx>>
    /\ Goto(r, "insert") /\ Private /\ UNCHANGED <<saleLock, productLock>>

KeyInFlight(r) == \E o \in Requests \ {r} : /\ Refunds(o) /\ req[o].key = req[r].key
                                            /\ pc[o] \in {"post", "commit"}

(* INSERT INTO sale_returns.  After IntegrityError and rollback the row    *)
(* with the same key is returned, whatever it is a return of.              *)
InsertReturn(r) ==
    /\ Refunds(r) /\ pc[r] = "insert"
    /\ ~KeyInFlight(r)
    /\ IF ReturnsWithKey(req[r].key) = {}
       THEN Goto(r, "post") /\ Private /\ UNCHANGED <<locks, tx>>
       ELSE \E x \in ReturnsWithKey(req[r].key) : Return(r, "OK", x.id)

(* One restocked item: the movement, refused below zero, and the average   *)
(* with the units' cost at the time of the sale, whose flush meets the     *)
(* CHECK (current_cost >= 0) of products.                                  *)
Restock(r, i) ==
    LET t   == tx[r]
        p   == Item[i].product
        n   == QtyOf(t.lines, i)
        wac == compute_new_wac(t.qty[p], t.cost[p], n, Item[i].cost)
    IN  IF t.qty[p] + n < 0 /\ p \notin AllowNegative THEN Return(r, "INSUFFICIENT_STOCK", NoOne)
        ELSE IF wac < 0 THEN Return(r, "INTEGRITY_ERROR", NoOne)
        ELSE /\ tx' = [tx EXCEPT ![r] =
                  [t EXCEPT !.moved = t.moved \cup {i},
                            !.qty  = [t.qty EXCEPT ![p] = t.qty[p] + n],
                            !.cost = [t.cost EXCEPT ![p] = wac],
                            !.rows = [t.rows EXCEPT ![p] =
                               Append(t.rows[p], [delta |-> n, result |-> t.qty[p] + n, ret |-> r])]]]
             /\ Private /\ UNCHANGED <<pc, locks>>

(* The loop over the items, in the order they first appear.                *)
NextItem(lines, left) == lines[Min({n \in DOMAIN lines : lines[n].item \in left})].item

RestockItem(r) ==
    /\ Refunds(r) /\ pc[r] = "post"
    /\ LET left == ToRestock(tx[r].lines) \ tx[r].moved IN
       left # {} /\ Restock(r, NextItem(tx[r].lines, left))

(* post_sale_return_journal: a debit or credit is written only when it is  *)
(* positive.                                                               *)
Positive(n) == IF n > 0 THEN n ELSE 0
LinesRefunded(r) ==
    [i \in ItemsIn(tx[r].lines) |-> LineRefund(i, tx[r].seen[i], QtyOf(tx[r].lines, i))]
ReturnEntry(r) ==
    LET f == LinesRefunded(r)
        Total(Amount(_)) == SumOver(DOMAIN f, LAMBDA i : Amount(f[i]))
    IN  [id |-> r,
         debitRevenue   |-> Total(LAMBDA x : x.price),
         debitTax       |-> Total(LAMBDA x : x.tax),
         creditDiscount |-> Total(LAMBDA x : x.discount),
         creditRefund   |-> Positive(RefundOf(tx[r].lines, tx[r].seen)),
         cogs |-> SumOver({i \in DOMAIN f : RestockOf(tx[r].lines, i)},
                          LAMBDA i : RoundHalfUp(QtyOf(tx[r].lines, i) * Item[i].cost, QtyScale))]
HasLines(e) == e.debitRevenue + e.debitTax + e.creditDiscount + e.creditRefund + e.cogs > 0

(* After the loop: the audit row, whose flush meets the CHECK              *)
(* refund_amount >= 0, and the period check of _post_journal.              *)
PostReturn(r) ==
    /\ Refunds(r) /\ pc[r] = "post"
    /\ ToRestock(tx[r].lines) \subseteq tx[r].moved
    /\ IF RefundOf(tx[r].lines, tx[r].seen) < 0 THEN Return(r, "INTEGRITY_ERROR", NoOne)
       ELSE IF req[r].closedDate /\ HasLines(ReturnEntry(r)) THEN Return(r, "PERIOD_CLOSED", NoOne)
       ELSE Goto(r, "commit") /\ Private /\ UNCHANGED <<locks, tx>>

StatusAfter(s, before, after) ==
    IF \A i \in ItemsOf(s) : after[i] >= Item[i].qty THEN "REFUNDED"
    ELSE IF \E i \in ItemsOf(s) : after[i] > 0 THEN "PARTIALLY_REFUNDED"
    ELSE status[s]

ReturnRow(r) ==
    LET q == req[r] IN
    [id |-> r, key |-> q.key, sale |-> q.sale, method |-> q.method, user |-> q.user,
     lines |-> {[item |-> i, qty |-> QtyOf(tx[r].lines, i), restock |-> RestockOf(tx[r].lines, i)] :
                i \in ItemsIn(tx[r].lines)},
     refunded |-> LinesRefunded(r), amount |-> RefundOf(tx[r].lines, tx[r].seen),
     approver |-> tx[r].approver, shift |-> tx[r].shift]

(* The route handler's db.commit().                                        *)
CommitReturn(r) ==
    /\ Refunds(r) /\ pc[r] = "commit"
    /\ LET s == req[r].sale IN
       \E after \in {[i \in Items |-> tx[r].seen[i] + QtyOf(tx[r].lines, i)]} :
           /\ returned' = [i \in Items |-> IF i \in ItemsIn(tx[r].lines) THEN after[i] ELSE returned[i]]
           /\ status' = [status EXCEPT ![s] = StatusAfter(s, tx[r].seen, after)]
           /\ qty' = [p \in Products |-> IF p \in tx[r].held THEN tx[r].qty[p] ELSE qty[p]]
           /\ cost' = [p \in Products |-> IF p \in tx[r].held THEN tx[r].cost[p] ELSE cost[p]]
           /\ ledger' = [p \in Products |-> ledger[p] \o tx[r].rows[p]]
    /\ returns' = returns \cup {ReturnRow(r)}
    /\ journal' = journal \cup {e \in {ReturnEntry(r)} : HasLines(e)}
    /\ Finish(r, "OK", r)
    /\ UNCHANGED <<shift, counted>>

-----------------------------------------------------------------------------
(* Around the returns.                                                     *)

(* close_shift of the cashier's shift: the row lock, the rows its expected *)
(* cash adds up, and the commit (Checkout has the whole of it).            *)
BeginClose(r) ==
    /\ req[r].kind = "CLOSE" /\ pc[r] = "idle"
    /\ shiftLock[req[r].user] = NoOne
    /\ IF shift[req[r].user] = "NONE" THEN Return(r, "NOT_FOUND", NoOne)
       ELSE IF shift[req[r].user] # "OPEN" THEN Return(r, "SHIFT_NOT_OPEN", NoOne)
       ELSE /\ shiftLock' = [shiftLock EXCEPT ![req[r].user] = r]
            /\ tx' = [tx EXCEPT ![r].basis = {x.id : x \in {y \in returns : y.shift = req[r].user}}]
            /\ Goto(r, "commit") /\ Private /\ UNCHANGED <<saleLock, productLock>>

CommitClose(r) ==
    /\ req[r].kind = "CLOSE" /\ pc[r] = "commit"
    /\ shift' = [shift EXCEPT ![req[r].user] = "CLOSED"]
    /\ counted' = [counted EXCEPT ![req[r].user] = tx[r].basis]
    /\ Finish(r, "OK", NoOne)
    /\ UNCHANGED <<returned, status, returns, qty, cost, ledger, journal>>

(* A sale of one quantum of p commits while nobody holds its row.          *)
OtherSale(p) ==
    /\ productLock[p] = NoOne
    /\ qty[p] > 0
    /\ Cardinality({i \in DOMAIN ledger[p] : ledger[p][i].ret = NoOne}) < MaxOtherSales
    /\ qty' = [qty EXCEPT ![p] = @ - 1]
    /\ ledger' = [ledger EXCEPT ![p] = Append(@, [delta |-> -1, result |-> qty[p] - 1, ret |-> NoOne])]
    /\ UNCHANGED <<returned, status, returns, cost, journal, shift, counted, locks, session>>

(* A worker dies or loses its connection: PostgreSQL rolls back.           *)
Fail(r) == pc[r] \notin {"idle", "done"} /\ Return(r, "FAILED", NoOne)

AllAnswered == (\A r \in Requests : pc[r] = "done") /\ UNCHANGED vars

Step(r) ==
    \/ BeginReturn(r) \/ BeginVoid(r) \/ LockSale(r)  \/ CheckReturn(r) \/ LockProduct(r)
    \/ FindShift(r)   \/ HoldShift(r) \/ InsertReturn(r) \/ RestockItem(r) \/ PostReturn(r)
    \/ CommitReturn(r) \/ BeginClose(r) \/ CommitClose(r)

Next ==
    \/ \E r \in Requests : Step(r) \/ Fail(r)
    \/ \E p \in Products : OtherSale(p)
    \/ AllAnswered

Spec == Init /\ [][Next]_vars

-----------------------------------------------------------------------------
(* Correctness.                                                            *)

(* Rows and sessions have their declared shapes; a stored refund is never  *)
(* negative.                                                               *)
TypeOK ==
    /\ returned \in [Items -> Nat]
    /\ status \in [Sales -> {"COMPLETED", "PARTIALLY_REFUNDED", "REFUNDED"}]
    /\ \A x \in returns : /\ x.id \in Requests /\ x.key \in Keys /\ x.sale \in Sales
                           /\ x.lines \subseteq ReturnLine /\ x.amount \in Nat
                           /\ x.approver \in Approvers \cup {NoOne}
                           /\ x.shift \in Users \cup {NoOne}
    /\ qty \in [Products -> Int] /\ cost \in [Products -> Nat]
    /\ shift \in [Users -> {"NONE", "OPEN", "CLOSED"}]
    /\ saleLock \in [Sales -> Requests \cup {NoOne}]
    /\ productLock \in [Products -> Requests \cup {NoOne}]
    /\ shiftLock \in [Users -> Requests \cup {NoOne}]
    /\ req \in [Requests -> Submissions]

LinesOn(i) == {x \in returns : i \in DOMAIN x.refunded}
QtyIn(x, i) == (CHOOSE l \in x.lines : l.item = i).qty

(* sales.status says what has come back of the sale: nothing, something or *)
(* everything.                                                             *)
StatusFollowsItems ==
    \A s \in Sales :
        /\ status[s] = "REFUNDED" <=> \A i \in ItemsOf(s) : returned[i] = Item[i].qty
        /\ status[s] = "COMPLETED" <=> \A i \in ItemsOf(s) : returned[i] = 0

(* However many returns and voids of a sale run at once, quantity_returned *)
(* is what the committed returns add up to, never more than was sold, and  *)
(* the status of the sale follows it.                                      *)
ReturnedWithinSold ==
    /\ StatusFollowsItems
    /\ \A i \in Items : /\ returned[i] = SumOver(LinesOn(i), LAMBDA x : QtyIn(x, i))
                        /\ returned[i] <= Item[i].qty

(* The discount and tax shares of separate returns of a line add up to     *)
(* what the returned quantity is entitled to: never more than the line's   *)
(* own discount and tax, and exactly those once it is all back             *)
(* (_proportional_share).                                                  *)
SharesTelescope ==
    \A i \in Items :
        LET discounts == SumOver(LinesOn(i), LAMBDA x : x.refunded[i].discount)
            taxes     == SumOver(LinesOn(i), LAMBDA x : x.refunded[i].tax)
        IN  /\ discounts <= Item[i].discount /\ taxes <= Item[i].tax
            /\ returned[i] = Item[i].qty => discounts = Item[i].discount /\ taxes = Item[i].tax

(* A client_transaction_id names at most one committed return or void.     *)
OneReturnPerKey == \A x, y \in returns : x.key = y.key => x = y

(* A return at or above the store's threshold was approved, by somebody    *)
(* other than the user who processed it, who may approve for the store     *)
(* (docs/M14_DESIGN.md, "Boundary semantics").                             *)
ApprovalRespected ==
    \A x \in returns :
        LET limit == Threshold[SaleStore[x.sale]] IN
        limit # NoOne /\ x.amount >= limit =>
            /\ x.approver \in Approvers \ {x.user}
            /\ MayUse(x.approver, SaleStore[x.sale])

(* What the restocked lines of a return give back of p, and what the       *)
(* movements in rows that refer to it add up to.                           *)
Restores(x, p)   == SumOver({l \in x.lines : l.restock /\ Item[l.item].product = p}, LAMBDA l : l.qty)
MovedBy(rows, x) == SumLines(rows, LAMBDA m : IF m.ret = x THEN m.delta ELSE 0)

(* A return is committed once and whole: no row is out of its columns, the *)
(* approval is there, the restocked items, and only they, are in the       *)
(* movement ledger, which leads to the cached quantity; the journal entry  *)
(* balances and pays the refund; nothing is posted without a return.       *)
ReturnIsWhole ==
    /\ TypeOK /\ OneReturnPerKey /\ ApprovalRespected
    /\ \A p \in Products :
          /\ Chained(InitialQty[p], ledger[p], qty[p])
          /\ \A x \in returns : Restores(x, p) = MovedBy(ledger[p], x.id)
    /\ \A x \in returns : x.amount > 0 => \E e \in journal : e.id = x.id /\ e.creditRefund = x.amount
    /\ \A e \in journal : /\ e.debitRevenue + e.debitTax = e.creditDiscount + e.creditRefund
                           /\ e.id \in {x.id : x \in returns}

(* A closed shift's expected cash counts every return ever attributed to   *)
(* the shift.                                                              *)
RefundsCounted ==
    \A u \in Users : shift[u] = "CLOSED" =>
        counted[u] = {x.id : x \in {y \in returns : y.shift = u}}

(* Who holds the row or the key that r waits for.                          *)
WaitsFor(r) ==
    LET left == Restocked(tx[r].lines) \ tx[r].held IN
    CASE Refunds(r) /\ pc[r] = "lock" /\ req[r].sale # NoOne -> {saleLock[req[r].sale]}
      [] Refunds(r) /\ pc[r] = "products" /\ left # {} -> {productLock[Min(left)]}
      [] Refunds(r) /\ pc[r] = "hold" -> {shiftLock[req[r].user]}
      [] Refunds(r) /\ pc[r] = "insert" -> {o \in Requests \ {r} : Refunds(o) /\ req[o].key = req[r].key /\ pc[o] \in {"post", "commit"}}
      [] req[r].kind = "CLOSE" /\ pc[r] = "idle" -> {shiftLock[req[r].user]}
      [] OTHER -> {}

(* "ascending id order (deadlock-safe)", after the sale, before the shift: *)
(* returns, voids and closes never wait for each other in a circle,        *)
(* whatever sales, products, shifts and keys they share.                   *)
NoCircularWait == \A S \in (SUBSET Requests) \ {{}} : \E r \in S : WaitsFor(r) \cap S = {}
=============================================================================
