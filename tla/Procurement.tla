----------------------------- MODULE Procurement -----------------------------
(***************************************************************************)
(* Purchase orders, goods receipts and purchase returns: create, submit    *)
(* and cancel of an order, receive_goods and create_purchase_return, with  *)
(* the stock, the weighted average cost and the journal entries they move. *)
(*                                                                         *)
(* Every request has a database session of its own under READ COMMITTED.   *)
(* A step is what lies between two points at which another session can     *)
(* interfere: a wait for a row lock, a read of rows others commit, the     *)
(* commit.  The row locks are those of SELECT ... FOR UPDATE, and the ones *)
(* an UPDATE or a foreign key waits for: a receipt's lines refer to order  *)
(* items, a return refers to its order.                                    *)
(***************************************************************************)
EXTENDS MoneyMath, StockLedger, SequencesExt, FiniteSets, FiniteSetsExt

CONSTANTS
    Requests,
    Orders,            \* the purchase orders that may be created
    Items,             \* purchase_order_items, integers
    ItemOrder, ItemProduct, Ordered,    \* functions of Items
    Products,          \* product ids, integers
    Foreign,           \* the products of another store
    InitialQty, InitialCost,            \* functions of Products
    InitialStatus,     \* [Orders -> status], "NONE" for an order nobody created yet
    QtyScale,          \* a quantity counts 1/QtyScale units
    Keys,              \* client_transaction_ids
    Submissions,       \* [Requests -> SUBSET Submission], the bodies a request may carry
    MaxSold,           \* bound on the quanta of a product that are sold meanwhile
    NoOne

VARIABLES
    order,         \* purchase_orders
    received,      \* purchase_order_items.quantity_received
    receipts,      \* goods_receipts with their lines
    returns,       \* purchase_returns with their lines
    qty, cost,     \* products.current_qty_on_hand, current_cost
    ledger,        \* inventory_movements since the start
    entries,       \* the journal entries of receipts and returns
    supplierActive, periodOpen,
    value, weight, \* history: what the stock really cost; the quantities averages were taken over
    orderLock, orderShare, itemLock, productLock,
    pc, req, tx, answer

stock   == <<qty, cost, ledger, value, weight>>
tables  == <<order, received, receipts, returns, stock, entries, supplierActive, periodOpen>>
locks   == <<orderLock, orderShare, itemLock, productLock>>
session == <<pc, req, tx, answer>>
vars    == <<tables, locks, session>>

-----------------------------------------------------------------------------
(* Rows and bodies.                                                        *)

Statuses == {"NONE", "DRAFT", "ORDERED", "PARTIALLY_RECEIVED", "RECEIVED", "CANCELLED"}

PurchaseOrder == [status : Statuses, key : Keys \cup {NoOne}]

(* [item, qty, cost], GoodsReceiptLineInput and GoodsReceiptItem.          *)
ReceiptLine == [item : Items, qty : Nat, cost : Nat]
GoodsReceipt == [key : Keys, order : Orders, lines : Seq(ReceiptLine)]

(* [product, qty], with the unit cost once it is a row.                    *)
ReturnLine == [product : Products, qty : Nat]
PurchaseReturn == [key : Keys, order : Orders, lines : Seq(ReturnLine), costs : Seq(Nat)]

(* access: the caller's account covers the store; sameStore: the store of  *)
(* a return's body is the order's.                                         *)
Submission ==
    [kind : {"CREATE"}, order : Orders, key : Keys, access : BOOLEAN]
      \cup [kind : {"SUBMIT", "CANCEL"}, order : Orders, access : BOOLEAN]
      \cup [kind : {"RECEIVE"}, order : Orders, key : Keys, lines : Seq(ReceiptLine), access : BOOLEAN]
      \cup [kind : {"RETURN"}, order : Orders, key : Keys, lines : Seq(ReturnLine), access : BOOLEAN,
            sameStore : BOOLEAN]

ASSUME ProcurementAssumption ==
    /\ Items \subseteq Int /\ Products \subseteq Int /\ Foreign \subseteq Products
    /\ ItemOrder \in [Items -> Orders] /\ ItemProduct \in [Items -> Products]
    /\ Ordered \in [Items -> Nat \ {0}]
    /\ InitialQty \in [Products -> Nat] /\ InitialCost \in [Products -> Nat]
    /\ InitialStatus \in [Orders -> {"NONE", "DRAFT", "ORDERED"}]
    /\ QtyScale \in Nat \ {0}
    /\ \A r \in Requests : Submissions[r] \subseteq Submission
    /\ MaxSold \in Nat
    /\ NoOne \notin Requests \cup Keys

(* What a session has loaded: received of the items, qty and cost of the   *)
(* products it holds.                                                      *)
Nothing == [p \in Products |-> 0]
EmptyTx == [held |-> {}, received |-> [i \in Items |-> 0], qty |-> Nothing, cost |-> Nothing]

Init ==
    /\ order = [o \in Orders |-> [status |-> InitialStatus[o], key |-> NoOne]]
    /\ received = [i \in Items |-> 0]
    /\ receipts = {} /\ returns = {} /\ entries = {}
    /\ qty = InitialQty /\ cost = InitialCost
    /\ ledger = [p \in Products |-> <<>>]
    /\ value = [p \in Products |-> InitialQty[p] * InitialCost[p]]
    /\ weight = [p \in Products |-> 0]
    /\ supplierActive = TRUE /\ periodOpen = TRUE
    /\ orderLock = [o \in Orders |-> NoOne]
    /\ orderShare = [o \in Orders |-> {}]
    /\ itemLock = [i \in Items |-> NoOne]
    /\ productLock = [p \in Products |-> NoOne]
    /\ pc = [r \in Requests |-> "new"]
    /\ req = [r \in Requests |-> NoOne]
    /\ tx = [r \in Requests |-> EmptyTx]
    /\ answer = [r \in Requests |-> NoOne]

-----------------------------------------------------------------------------
(* How a request starts and ends.                                          *)

Free(lock, r) == [x \in DOMAIN lock |-> IF lock[x] = r THEN NoOne ELSE lock[x]]

Finish(r, code) ==
    /\ pc' = [pc EXCEPT ![r] = "done"]
    /\ answer' = [answer EXCEPT ![r] = code]
    /\ tx' = [tx EXCEPT ![r] = EmptyTx]
    /\ orderLock' = Free(orderLock, r)
    /\ orderShare' = [o \in Orders |-> orderShare[o] \ {r}]
    /\ itemLock' = Free(itemLock, r)
    /\ productLock' = Free(productLock, r)
    /\ UNCHANGED req

Return(r, code) == Finish(r, code) /\ UNCHANGED tables
Goto(r, label)  == pc' = [pc EXCEPT ![r] = label] /\ UNCHANGED <<req, answer>>
Is(r, kinds, label) == pc[r] = label /\ req[r].kind \in kinds

(* An order is created by one request: every other would create another.   *)
Submit(r) ==
    /\ pc[r] = "new"
    /\ \E q \in Submissions[r] :
          /\ q.kind = "CREATE" =>
                /\ order[q.order].status = "NONE"
                /\ q.order \notin {req[o].order : o \in {x \in Requests : pc[x] # "new" /\ req[x].kind = "CREATE"}}
          /\ req' = [req EXCEPT ![r] = q]
    /\ pc' = [pc EXCEPT ![r] = "begin"]
    /\ UNCHANGED <<tx, answer, tables, locks>>

ProductsOf(q) ==
    CASE q.kind = "CREATE"  -> {ItemProduct[i] : i \in {j \in Items : ItemOrder[j] = q.order}}
      [] q.kind = "RECEIVE" -> {ItemProduct[l.item] : l \in ToSet(q.lines)}
      [] q.kind = "RETURN"  -> {l.product : l \in ToSet(q.lines)}

-----------------------------------------------------------------------------
(* create_purchase_order, submit_purchase_order, cancel_purchase_order.    *)

OrdersWithKey(k) == {o \in Orders : order[o].key = k}

BeginCreate(r) ==
    /\ Is(r, {"CREATE"}, "begin")
    /\ IF ~req[r].access THEN Return(r, "STORE_ACCESS_DENIED")
       ELSE IF OrdersWithKey(req[r].key) # {} THEN Return(r, "OK")
       ELSE IF ~supplierActive THEN Return(r, "INVALID_SUPPLIER")
       ELSE IF ProductsOf(req[r]) = {} THEN Return(r, "EMPTY_PURCHASE_ORDER")
       ELSE IF ProductsOf(req[r]) \cap Foreign # {} THEN Return(r, "STORE_MISMATCH")
       ELSE Goto(r, "insert") /\ UNCHANGED <<tx, tables, locks>>

(* The header meets the unique index; the items, which refer to products,  *)
(* wait for rows locked by others.  Nothing is waited for after that.      *)
InsertOrder(r) ==
    /\ Is(r, {"CREATE"}, "insert")
    /\ IF OrdersWithKey(req[r].key) # {} THEN Return(r, "OK")
       ELSE /\ \A p \in ProductsOf(req[r]) : productLock[p] = NoOne
            /\ order' = [order EXCEPT ![req[r].order] = [status |-> "DRAFT", key |-> req[r].key]]
            /\ Finish(r, "OK")
            /\ UNCHANGED <<received, receipts, returns, stock, entries, supplierActive, periodOpen>>

(* The order is loaded without a lock and its status checked ...           *)
BeginMove(r) ==
    /\ Is(r, {"SUBMIT", "CANCEL"}, "begin")
    /\ LET s == order[req[r].order].status IN
       IF s = "NONE" THEN Return(r, "NOT_FOUND")
       ELSE IF ~req[r].access THEN Return(r, "STORE_ACCESS_DENIED")
       ELSE IF s \notin (IF req[r].kind = "SUBMIT" THEN {"DRAFT"}
                         ELSE {"DRAFT", "ORDERED", "PARTIALLY_RECEIVED"})
       THEN Return(r, "INVALID_PO_STATE")
       ELSE Goto(r, "write") /\ UNCHANGED <<tx, tables, locks>>

(* ... and the UPDATE at the commit waits for the row and overwrites it.   *)
WriteMove(r) ==
    /\ Is(r, {"SUBMIT", "CANCEL"}, "write")
    /\ orderLock[req[r].order] = NoOne
    /\ LET o == req[r].order
           new == IF req[r].kind = "CANCEL" THEN "CANCELLED" ELSE "ORDERED"
       IN  order' = [order EXCEPT ![o] = [order[o] EXCEPT !.status = new]]
    /\ Finish(r, "OK")
    /\ UNCHANGED <<received, receipts, returns, stock, entries, supplierActive, periodOpen>>

-----------------------------------------------------------------------------
(* What a receipt or a return does to products, line by line.  A state is  *)
(* a record of qty, cost, ledger, value and weight.                        *)

Stock == [qty |-> qty, cost |-> cost, ledger |-> ledger, value |-> value, weight |-> weight]
(* The products as the session loaded them under their locks.              *)
Loaded(r) ==
    [Stock EXCEPT !.qty  = [p \in Products |-> IF p \in tx[r].held THEN tx[r].qty[p] ELSE qty[p]],
                  !.cost = [p \in Products |-> IF p \in tx[r].held THEN tx[r].cost[p] ELSE cost[p]]]
SetStock(s) ==
    /\ qty' = s.qty /\ cost' = s.cost /\ ledger' = s.ledger
    /\ value' = s.value /\ weight' = s.weight

Move(s, p, delta, ref) ==
    [s EXCEPT !.qty = [s.qty EXCEPT ![p] = @ + delta],
              !.ledger = [s.ledger EXCEPT ![p] = Append(@, [delta |-> delta, result |-> s.qty[p] + delta, ref |-> ref])]]

(* Variant: the average is taken over the quantity after the movement.     *)
ReceiveLine_after(s, l, ref) ==
    LET p == ItemProduct[l.item]
        m == Move(s, p, l.qty, ref)
    IN  [m EXCEPT !.cost = [s.cost EXCEPT ![p] = compute_new_wac(m.qty[p], s.cost[p], l.qty, l.cost)],
                  !.value = [s.value EXCEPT ![p] = @ + l.qty * l.cost],
                  !.weight = [s.weight EXCEPT ![p] = @ + m.qty[p]]]

(* compute_new_wac and record_movement with new_product_cost.              *)
ReceiveLine(s, l, ref) ==
    LET p == ItemProduct[l.item]
        m == Move(s, p, l.qty, ref)
    IN  [m EXCEPT !.cost = [s.cost EXCEPT ![p] = compute_new_wac(s.qty[p], s.cost[p], l.qty, l.cost)],
                  !.value = [s.value EXCEPT ![p] = @ + l.qty * l.cost],
                  !.weight = [s.weight EXCEPT ![p] = @ + m.qty[p]]]

(* A removal leaves the average alone and goes out at it.                  *)
RemoveLine(s, p, n, ref) ==
    [Move(s, p, -n, ref) EXCEPT !.value = [s.value EXCEPT ![p] = @ - n * s.cost[p]]]

(* The ledger keeps the six decimals of a cost: _quantize of quantity times *)
(* unit cost.                                                              *)
LineAmount(n, c) == RoundHalfUp(n * c, QtyScale)
ReceiptAmount(lines) == FoldSeq(LAMBDA l, sum : sum + LineAmount(l.qty, l.cost), 0, lines)
ReturnAmount(lines, costs) ==
    FoldFunction(+, 0, [i \in DOMAIN lines |-> LineAmount(lines[i].qty, costs[i])])

(* post_goods_receipt_journal and post_purchase_return_journal post        *)
(* nothing for a total of zero.                                            *)
Entry(source, key, amount) ==
    IF amount <= 0 THEN {} ELSE {[source |-> source, key |-> key, amount |-> amount]}

TotalOf(lines, i) == FoldSeq(LAMBDA l, sum : IF l.item = i THEN sum + l.qty ELSE sum, 0, lines)
RequestedOf(lines, p) == FoldSeq(LAMBDA l, sum : IF l.product = p THEN sum + l.qty ELSE sum, 0, lines)

-----------------------------------------------------------------------------
(* receive_goods.                                                          *)

BeginReceive(r) ==
    /\ Is(r, {"RECEIVE"}, "begin")
    /\ LET q == req[r] IN
       IF order[q.order].status # "NONE" /\ ~q.access THEN Return(r, "STORE_ACCESS_DENIED")
       ELSE IF \E g \in receipts : g.key = q.key THEN Return(r, "OK")
       ELSE IF q.lines = <<>> THEN Return(r, "EMPTY_RECEIPT")
       ELSE IF \E l \in ToSet(q.lines) : l.qty = 0 THEN Return(r, "INVALID_QUANTITY")
       ELSE Goto(r, "order") /\ UNCHANGED <<tx, tables, locks>>

(* Variant: the order is read without FOR UPDATE.                          *)
LockOrder_no_lock(r) ==
    /\ Is(r, {"RECEIVE"}, "order")
    /\ LET q == req[r] IN
       IF order[q.order].status \notin {"ORDERED", "PARTIALLY_RECEIVED"} THEN Return(r, "INVALID_PO_STATE")
       ELSE IF \E l \in ToSet(q.lines) : ItemOrder[l.item] # q.order THEN Return(r, "NOT_FOUND")
       ELSE /\ tx' = [tx EXCEPT ![r] = [tx[r] EXCEPT !.received = received]]
            /\ Goto(r, "products") /\ UNCHANGED <<tables, locks>>

(* SELECT ... FOR UPDATE of the order, its status, and the order's items,  *)
(* loaded under that lock.                                                 *)
LockOrder(r) ==
    /\ Is(r, {"RECEIVE"}, "order")
    /\ LET q == req[r] IN
       /\ orderLock[q.order] = NoOne /\ orderShare[q.order] \subseteq {r}
       /\ IF order[q.order].status = "NONE" THEN Return(r, "NOT_FOUND")
          ELSE IF order[q.order].status \notin {"ORDERED", "PARTIALLY_RECEIVED"} THEN Return(r, "INVALID_PO_STATE")
          ELSE IF \E l \in ToSet(q.lines) : ItemOrder[l.item] # q.order THEN Return(r, "NOT_FOUND")
          ELSE /\ orderLock' = [orderLock EXCEPT ![q.order] = r]
               /\ tx' = [tx EXCEPT ![r] = [tx[r] EXCEPT !.received = received]]
               /\ Goto(r, "products") /\ UNCHANGED <<tables, orderShare, itemLock, productLock>>

Smallest(S) == CHOOSE m \in S : \A o \in S : m <= o

Load(t, p) ==
    [t EXCEPT !.held = t.held \cup {p}, !.qty = [t.qty EXCEPT ![p] = qty[p]], !.cost = [t.cost EXCEPT ![p] = cost[p]]]

(* The next product row in ascending order, of a receipt or a return.      *)
LockProduct(r) ==
    /\ Is(r, {"RECEIVE", "RETURN"}, "products")
    /\ LET left == ProductsOf(req[r]) \ tx[r].held
           p    == Smallest(left)
       IN  /\ productLock[p] = NoOne
           /\ IF req[r].kind = "RETURN" /\ p \in Foreign THEN Return(r, "STORE_MISMATCH")
              ELSE /\ productLock' = [productLock EXCEPT ![p] = r]
                   /\ tx' = [tx EXCEPT ![r] = Load(tx[r], p)]
                   /\ Goto(r, IF left = {p} THEN "insert" ELSE "products")
                   /\ UNCHANGED <<tables, orderLock, orderShare, itemLock>>

ReceiptInFlight(r, k) ==
    \E o \in Requests \ {r} : Is(o, {"RECEIVE"}, "commit") /\ req[o].key = k

(* The header's insert waits for one with its key that is not committed;   *)
(* a duplicate rolls back and returns the row that won.                    *)
InsertReceipt(r) ==
    /\ Is(r, {"RECEIVE"}, "insert")
    /\ ~ReceiptInFlight(r, req[r].key)
    /\ IF \E g \in receipts : g.key = req[r].key THEN Return(r, "OK")
       ELSE Goto(r, "commit") /\ UNCHANGED <<tx, tables, locks>>

(* _advance_purchase_order_status.                                         *)
Advanced(o, got) ==
    LET own == {i \in Items : ItemOrder[i] = o} IN
    IF \A i \in own : got[i] >= Ordered[i] THEN "RECEIVED"
    ELSE IF \E i \in own : got[i] > 0 THEN "PARTIALLY_RECEIVED"
    ELSE order[o].status

(* Movements, averages, received quantities, status and entry.  The lines' *)
(* inserts and the items' UPDATE wait for a return that holds the items.   *)
CommitReceipt(r) ==
    /\ Is(r, {"RECEIVE"}, "commit")
    /\ LET q   == req[r]
           o   == q.order
           got == [i \in Items |-> tx[r].received[i] + TotalOf(q.lines, i)]
           new == Entry("PURCHASE_RECEIPT", q.key, ReceiptAmount(q.lines))
       IN  /\ \A l \in ToSet(q.lines) : itemLock[l.item] = NoOne
           /\ IF new # {} /\ ~periodOpen THEN Return(r, "PERIOD_CLOSED")
              ELSE /\ SetStock(FoldLeft(LAMBDA s, l : ReceiveLine(s, l, q.key), Loaded(r), q.lines))
                   /\ received' = [i \in Items |-> IF TotalOf(q.lines, i) > 0 THEN got[i] ELSE received[i]]
                   /\ order' = [order EXCEPT ![o] = [order[o] EXCEPT !.status = Advanced(o, got)]]
                   /\ receipts' = receipts \cup {[key |-> q.key, order |-> o, lines |-> q.lines]}
                   /\ entries' = entries \cup new
                   /\ Finish(r, "OK") /\ UNCHANGED <<returns, supplierActive, periodOpen>>

-----------------------------------------------------------------------------
(* create_purchase_return.                                                 *)

BeginReturn(r) ==
    /\ Is(r, {"RETURN"}, "begin")
    /\ LET q == req[r] IN
       IF ~q.access THEN Return(r, "STORE_ACCESS_DENIED")
       ELSE IF \E b \in returns : b.key = q.key THEN Return(r, "OK")
       ELSE IF q.lines = <<>> THEN Return(r, "EMPTY_RETURN")
       ELSE IF \E l \in ToSet(q.lines) : l.qty = 0 THEN Return(r, "INVALID_QUANTITY")
       ELSE IF order[q.order].status = "NONE" THEN Return(r, "NOT_FOUND")
       ELSE IF ~q.sameStore THEN Return(r, "STORE_MISMATCH")
       ELSE Goto(r, "items") /\ UNCHANGED <<tx, tables, locks>>

ItemsOf(q) == {i \in Items : ItemOrder[i] = q.order /\ ItemProduct[i] \in ProductsOf(q)}

ReceivedOf(o, p) ==
    MapThenSumSet(LAMBDA i : received[i], {i \in Items : ItemOrder[i] = o /\ ItemProduct[i] = p})
ReturnedOf(o, p) ==
    MapThenSumSet(LAMBDA b : RequestedOf(b.lines, p), {b \in returns : b.order = o})

(* Variant: the items are read without FOR UPDATE.                         *)
LockItems_no_lock(r) ==
    /\ Is(r, {"RETURN"}, "items")
    /\ LET q == req[r] IN
       IF \E p \in ProductsOf(q) : ReturnedOf(q.order, p) + RequestedOf(q.lines, p) > ReceivedOf(q.order, p)
       THEN Return(r, "RETURN_EXCEEDS_RECEIVED_QUANTITY")
       ELSE Goto(r, "products") /\ UNCHANGED <<tx, tables, locks>>

(* One SELECT locks the order's items of the products that go back; what   *)
(* was received and what went back before are read under those locks.      *)
LockItems(r) ==
    /\ Is(r, {"RETURN"}, "items")
    /\ LET q == req[r] IN
       /\ \A i \in ItemsOf(q) : itemLock[i] = NoOne
       /\ IF \E p \in ProductsOf(q) : ReturnedOf(q.order, p) + RequestedOf(q.lines, p) > ReceivedOf(q.order, p)
          THEN Return(r, "RETURN_EXCEEDS_RECEIVED_QUANTITY")
          ELSE /\ itemLock' = [i \in Items |-> IF i \in ItemsOf(q) THEN r ELSE itemLock[i]]
               /\ Goto(r, "products") /\ UNCHANGED <<tx, tables, orderLock, orderShare, productLock>>

(* The return's row refers to the order: its insert takes FOR KEY SHARE.   *)
InsertReturn(r) ==
    /\ Is(r, {"RETURN"}, "insert")
    /\ LET q == req[r] IN
       IF \E p \in ProductsOf(q) : RequestedOf(q.lines, p) > tx[r].qty[p] THEN Return(r, "INSUFFICIENT_STOCK")
       ELSE IF \E b \in returns : b.key = q.key THEN Return(r, "OK")
       ELSE /\ orderLock[q.order] = NoOne
            /\ orderShare' = [orderShare EXCEPT ![q.order] = @ \cup {r}]
            /\ Goto(r, "commit") /\ UNCHANGED <<tx, tables, orderLock, itemLock, productLock>>

CommitReturn(r) ==
    /\ Is(r, {"RETURN"}, "commit")
    /\ LET q     == req[r]
           costs == [i \in DOMAIN q.lines |-> tx[r].cost[q.lines[i].product]]
           new   == Entry("PURCHASE_RETURN", q.key, ReturnAmount(q.lines, costs))
       IN  IF new # {} /\ ~periodOpen THEN Return(r, "PERIOD_CLOSED")
           ELSE /\ SetStock(FoldLeft(LAMBDA s, l : RemoveLine(s, l.product, l.qty, q.key), Loaded(r), q.lines))
                /\ returns' = returns \cup {[key |-> q.key, order |-> q.order, lines |-> q.lines, costs |-> costs]}
                /\ entries' = entries \cup new
                /\ Finish(r, "OK") /\ UNCHANGED <<order, received, receipts, supplierActive, periodOpen>>

-----------------------------------------------------------------------------
(* Around them.                                                            *)

(* A sale of one quantum commits while nobody holds the product's row.     *)
Sell(p) ==
    /\ productLock[p] = NoOne /\ qty[p] > 0
    /\ Cardinality({i \in DOMAIN ledger[p] : ledger[p][i].ref = NoOne}) < MaxSold
    /\ SetStock(RemoveLine(Stock, p, 1, NoOne))
    /\ UNCHANGED <<order, received, receipts, returns, entries, supplierActive, periodOpen, locks, session>>

(* set_supplier_active.                                                    *)
SetSupplierActive ==
    /\ supplierActive' = ~supplierActive
    /\ UNCHANGED <<order, received, receipts, returns, stock, entries, periodOpen, locks, session>>

ClosePeriod ==
    /\ periodOpen
    /\ periodOpen' = FALSE
    /\ UNCHANGED <<order, received, receipts, returns, stock, entries, supplierActive, locks, session>>

(* A worker dies or the deadlock detector ends its transaction.            *)
Fail(r) == pc[r] \notin {"new", "done"} /\ Return(r, "FAILED")

Step(r) ==
    \/ BeginCreate(r)  \/ InsertOrder(r)
    \/ BeginMove(r)    \/ WriteMove(r)
    \/ BeginReceive(r) \/ LockOrder(r)   \/ LockProduct(r)  \/ InsertReceipt(r) \/ CommitReceipt(r)
    \/ BeginReturn(r)  \/ LockItems(r)   \/ InsertReturn(r) \/ CommitReturn(r)

Next ==
    \/ \E r \in Requests : Submit(r) \/ Step(r) \/ Fail(r)
    \/ \E p \in Products : Sell(p)
    \/ SetSupplierActive
    \/ ClosePeriod

Spec == Init /\ [][Next]_vars

-----------------------------------------------------------------------------
(* Correctness.                                                            *)

(* The columns and CHECKs of the purchasing tables; stock is never taken   *)
(* below zero by a purchase return.                                        *)
TypeOK ==
    /\ order \in [Orders -> PurchaseOrder]
    /\ received \in [Items -> Nat]
    /\ receipts \subseteq GoodsReceipt /\ returns \subseteq PurchaseReturn
    /\ qty \in [Products -> Nat] /\ cost \in [Products -> Nat]
    /\ orderLock \in [Orders -> Requests \cup {NoOne}]
    /\ orderShare \in [Orders -> SUBSET Requests]
    /\ itemLock \in [Items -> Requests \cup {NoOne}]
    /\ productLock \in [Products -> Requests \cup {NoOne}]

(* products.current_qty_on_hand is what the movements of receipts, returns *)
(* and sales lead to, row by row (record_movement).                        *)
QtyMatchesLedger == \A p \in Products : Chained(InitialQty[p], ledger[p], qty[p])

(* A key names one order, one receipt, one return, however often it is     *)
(* sent.                                                                   *)
OneRowPerKey ==
    /\ \A a, b \in Orders : order[a].key # NoOne /\ order[a].key = order[b].key => a = b
    /\ \A a, b \in receipts : a.key = b.key => a = b
    /\ \A a, b \in returns : a.key = b.key => a = b

(* "prevents the lost-update race": quantity_received is the sum over all  *)
(* receipts of the item, however many ran at once and whatever was sent    *)
(* twice (receive_goods), and the stock follows its ledger with them.      *)
NoReceiptIsLost ==
    /\ TypeOK /\ OneRowPerKey /\ QtyMatchesLedger
    /\ \A i \in Items : received[i] = MapThenSumSet(LAMBDA g : TotalOf(g.lines, i), receipts)

(* "a return can only ever give back stock this PO actually delivered"     *)
(* (create_purchase_return), over any number of returns at once.           *)
ReturnedWithinReceived ==
    \A o \in Orders, p \in Products : ReturnedOf(o, p) <= ReceivedOf(o, p)

(* Goods are booked only on an order that is open at the commit, whoever   *)
(* cancelled or submitted it while the receipt was under way, and leave it *)
(* the status they earn (_advance_purchase_order_status).  Nothing else    *)
(* sets a status that says something has arrived.  (That a status says too *)
(* little, because a stale cancellation or submission overwrote it, is     *)
(* possible.)                                                              *)
StatusIsEarned ==
    [][\A o \in Orders :
         LET own == {i \in Items : ItemOrder[i] = o} IN
         IF \E i \in own : received'[i] # received[i]
         THEN /\ order[o].status \in {"ORDERED", "PARTIALLY_RECEIVED"}
              /\ order'[o].status = IF \A i \in own : received'[i] >= Ordered[i] THEN "RECEIVED" ELSE "PARTIALLY_RECEIVED"
         ELSE order'[o].status \in {order[o].status, "DRAFT", "ORDERED", "CANCELLED"}]_vars

(* "This bounds any rounding drift to at most ~5e-7 per recompute"         *)
(* (compute_new_wac): the stock at its average differs from what it really *)
(* cost by at most half a unit of the column per unit averaged over.       *)
DriftBounded ==
    \A p \in Products :
        LET drift == qty[p] * cost[p] - value[p] IN 2 * drift <= weight[p] /\ -2 * drift <= weight[p]
=============================================================================
