---------------------------- MODULE Replenishment ----------------------------
(***************************************************************************)
(* Replenishment: the inventory position of a product, the plans generated *)
(* for a shortage (sibling plans, one source each), their approval,        *)
(* cancellation and execution into a DRAFT purchase order or transfer, and *)
(* the supplier price list they are ranked by.                             *)
(*                                                                         *)
(* A request is a database session under READ COMMITTED; a step ends where *)
(* another session can interfere.  held[r] is the set of rows (and         *)
(* advisory locks) the session holds.  The documents that execution        *)
(* creates are submitted, shipped, received in parts and cancelled here,   *)
(* each in one step, as far as the position reads them; Procurement and    *)
(* Transfers have the same requests step by step, with cost and books.     *)
(***************************************************************************)
EXTENDS MoneyMath, FiniteSets

CONSTANTS
    Requests,
    Products,          \* product ids, integers
    Store, Sku,        \* functions of Products; stores are integers
    Reorder,           \* [Products -> reorder_point, or NoOne]
    TargetStock,       \* [Products -> target_stock_quantity, 0 when unset]
    Preferred,         \* [Products -> default_supplier_id, or NoOne]
    InitialQty,
    AllowNegative,     \* the products with allow_negative_stock set
    Suppliers,         \* supplier ids, integers
    Today,             \* the date, a number
    Keys,
    Workloads,         \* [prices, sent, after]: the price list, the bodies of each request, and whom it waits for
    NoOne

VARIABLES
    qty,           \* products.current_qty_on_hand
    prices,        \* supplier_products
    active,        \* the suppliers with is_active set
    plans,         \* replenishment_plans, by generating request, product and number
    docs,          \* the order or transfer each executing request created
    load, held, pc, req, tx

tables  == <<qty, prices, active, plans, docs, load>>
session == <<held, pc, req, tx>>
vars    == <<tables, session>>

-----------------------------------------------------------------------------
(* Rows and bodies.                                                        *)

Stores == {Store[p] : p \in Products}
PlanIds == Requests \X Products \X (Nat \ {0})
PlanStatuses == {"RECOMMENDED", "APPROVED", "EXECUTED", "STALE", "CANCELLED"}

Price == [supplier : Suppliers, product : Products, pack : Nat \ {0}, cost : Nat, moq : Nat, lead : Nat, day : Nat]
(* Exactly one of supplier and from is set; executed is 0 until EXECUTED.  *)
Plan == [product : Products, needed : Nat, suggested : Nat, supplier : Suppliers \cup {NoOne},
         from : Stores \cup {NoOne}, status : PlanStatuses, key : Keys \cup {NoOne}, executed : Nat]
(* An order has no source product.  qty is what was ordered or requested;  *)
(* lost is damaged_quantity + declared_short_quantity of a transfer line.  *)
OpenOrderStatuses == {"DRAFT", "ORDERED", "PARTIALLY_RECEIVED"}
DocStatuses == OpenOrderStatuses \cup {"RECEIVED", "SHIPPED", "CANCELLED"}
Doc == [plan : PlanIds, product : Products, from : Products \cup {NoOne}, qty : Nat,
        shipped : Nat, received : Nat, lost : Nat, status : DocStatuses]

Submission ==
    [kind : {"GENERATE"}, products : SUBSET Products, access : BOOLEAN]
      \cup [kind : {"APPROVE", "CANCEL"}, plan : PlanIds, access : BOOLEAN]
      \cup [kind : {"EXECUTE"}, plan : PlanIds, key : Keys, access : BOOLEAN]
      \cup [kind : {"PRICE"}, price : Price]
      \cup [kind : {"SUPPLIER"}, supplier : Suppliers, active : BOOLEAN]
      \cup [kind : {"STOCK"}, product : Products, delta : Int]
      \cup [kind : {"ORDER", "DROP"}, doc : Requests]
      \cup [kind : {"SHIP", "GOODS"}, doc : Requests, units : Nat \ {0}]
      \cup [kind : {"ARRIVE"}, doc : Requests, good : Nat, lost : Nat]

ASSUME ReplenishmentAssumption ==
    /\ Products \subseteq Int /\ Suppliers \subseteq Int /\ Today \in Nat
    /\ IsFiniteSet(Requests) /\ IsFiniteSet(Products)
    /\ Store \in [Products -> Int] /\ DOMAIN Sku = Products
    /\ \A p, o \in Products : Store[p] = Store[o] /\ Sku[p] = Sku[o] => p = o
    /\ Reorder \in [Products -> Nat \cup {NoOne}] /\ TargetStock \in [Products -> Nat]
    /\ Preferred \in [Products -> Suppliers \cup {NoOne}] /\ InitialQty \in [Products -> Int]
    /\ \A p \in Products : InitialQty[p] >= 0 \/ p \in AllowNegative
    /\ \A w \in Workloads : /\ w.prices \subseteq Price
                            /\ \A r \in Requests : w.sent[r] \subseteq Submission /\ w.after[r] \subseteq Requests
    /\ NoOne \notin Keys \cup Products \cup Suppliers \cup Stores \cup Nat

Least(a, b) == IF a <= b THEN a ELSE b
With(f, x, v) == [y \in DOMAIN f \cup {x} |-> IF y = x THEN v ELSE f[y]]

(* What a session has read: the quantities of its products, the inbound    *)
(* and ordered units, the shortages left, the plans it is about to write,  *)
(* and what an execution worked out.                                       *)
Nothing == [p \in Products |-> 0]
EmptyTx == [qty |-> Nothing, inbound |-> Nothing, left |-> {}, new |-> <<>>, quantity |-> 0]

Init ==
    /\ load \in Workloads
    /\ qty = InitialQty /\ prices = load.prices /\ active = Suppliers
    /\ plans = <<>> /\ docs = <<>>
    /\ held = [r \in Requests |-> {}]
    /\ pc = [r \in Requests |-> "new"]
    /\ req = [r \in Requests |-> NoOne]
    /\ tx = [r \in Requests |-> EmptyTx]

-----------------------------------------------------------------------------
(* Sessions.                                                               *)

Free(row, r) == \A o \in Requests \ {r} : row \notin held[o]
Take(row, r) == held' = [held EXCEPT ![r] = @ \cup {row}]

Finish(r) ==
    /\ pc' = [pc EXCEPT ![r] = "done"]
    /\ req' = [req EXCEPT ![r] = NoOne]
    /\ tx' = [tx EXCEPT ![r] = EmptyTx]
    /\ held' = [held EXCEPT ![r] = {}]
(* An answer that changes nothing: an early return or an error.            *)
Return(r, code) == Finish(r) /\ UNCHANGED tables
Goto(r, label) == pc' = [pc EXCEPT ![r] = label] /\ UNCHANGED <<req, tables>>
Is(r, kinds, label) == pc[r] = label /\ req[r].kind \in kinds

Submit(r) ==
    /\ pc[r] = "new"
    /\ \A o \in load.after[r] : pc[o] = "done"
    /\ \E q \in load.sent[r] : req' = [req EXCEPT ![r] = q]
    /\ pc' = [pc EXCEPT ![r] = "begin"]
    /\ UNCHANGED <<held, tx, tables>>

-----------------------------------------------------------------------------
(* The position, prices and ranking.                                       *)

(* remaining, counted while it is positive.                                *)
Rest(n, done) == IF n > done THEN n - done ELSE 0
(* _inbound_transfer_quantities: what was lost on the way still counts.    *)
Arriving(p) == {d \in DOMAIN docs : docs[d].product = p /\ docs[d].status = "SHIPPED"}
Inbound(p) == SumOver(Arriving(p), LAMBDA d : Rest(docs[d].shipped, docs[d].received))
(* _open_purchase_order_quantities: a DRAFT order counts, an over-receipt  *)
(* does not.                                                               *)
OpenOrders(p) == {d \in DOMAIN docs : docs[d].product = p /\ docs[d].from = NoOne /\ docs[d].status \in OpenOrderStatuses}
OnOrder(p) == SumOver(OpenOrders(p), LAMBDA d : Rest(docs[d].qty, docs[d].received))
(* _committed_outbound_transfer_quantity.                                  *)
(* Variant: drafts that have not shipped yet are forgotten.                *)
Committed_none(s) == 0
Committed(s) == SumOver({d \in DOMAIN docs : docs[d].from = s /\ docs[d].status = "DRAFT"}, LAMBDA d : docs[d].qty)

ReorderOf(p) == IF Reorder[p] = NoOne THEN 0 ELSE Reorder[p]
TargetOf(p) == IF TargetStock[p] # 0 THEN TargetStock[p] ELSE ReorderOf(p)

(* get_current_supplier_product: the latest row that is in force.          *)
CurrentPrices(s, p) ==
    LET due == {c \in prices : c.supplier = s /\ c.product = p /\ c.day <= Today}
    IN  {c \in due : \A o \in due : o.day <= c.day}

(* apply_moq_and_pack_rounding: max with the MOQ, then up to whole packs.  *)
Rounded(need, c) ==
    LET n == IF need < c.moq THEN c.moq ELSE need
    IN  IF n % c.pack = 0 THEN n ELSE n + (c.pack - (n % c.pack))

(* rank_suppliers: preferred, cheapest, least waste, quickest, lowest id.  *)
RankKey(p, n, c) ==
    <<IF Preferred[p] = c.supplier THEN 0 ELSE 1, c.cost, Rounded(n, c) - n, c.lead, c.supplier>>
Before(a, b) == \E i \in DOMAIN a : a[i] < b[i] /\ \A j \in 1 .. i - 1 : a[j] = b[j]
BestPrices(p, n) ==
    LET offers == UNION {CurrentPrices(s, p) : s \in active}
    IN  {c \in offers : \A o \in offers \ {c} : Before(RankKey(p, n, c), RankKey(p, n, o))}

(* rank_source_stores: the sisters with surplus, largest first.  A sister  *)
(* the session has loaded already is not read again.                       *)
Sisters(p) == {s \in Products : Sku[s] = Sku[p] /\ Store[s] # Store[p]}
Surplus(r, s) == (IF s \in req[r].products /\ Reorder[s] # NoOne THEN tx[r].qty[s] ELSE qty[s]) - ReorderOf(s)
Outranks(r, a, b) == \/ Surplus(r, a) > Surplus(r, b)
                     \/ Surplus(r, a) = Surplus(r, b) /\ Store[a] < Store[b]
Rankings(r, p) ==
    LET candidates == {s \in Sisters(p) : Surplus(r, s) > 0}
    IN  {q \in [1 .. Cardinality(candidates) -> candidates] : \A m, n \in DOMAIN q : m < n => Outranks(r, q[m], q[n])}

-----------------------------------------------------------------------------
(* generate_replenishment_plans.                                           *)

(* Three statements: the products, the inbound units, the open orders.     *)
ReadProducts(r) ==
    /\ Is(r, {"GENERATE"}, "begin")
    /\ IF ~req[r].access THEN Return(r, "STORE_ACCESS_DENIED")
       ELSE /\ tx' = [tx EXCEPT ![r] = [tx[r] EXCEPT !.qty = qty]]
            /\ Goto(r, "inbound") /\ UNCHANGED held

ReadInbound(r) ==
    /\ Is(r, {"GENERATE"}, "inbound")
    /\ tx' = [tx EXCEPT ![r] = [tx[r] EXCEPT !.inbound = [p \in Products |-> Inbound(p)]]]
    /\ Goto(r, "orders") /\ UNCHANGED held

PositionRead(r, p) == tx[r].qty[p] + tx[r].inbound[p]
ReadOrders(r) ==
    /\ Is(r, {"GENERATE"}, "orders")
    /\ LET position == [p \in Products |-> PositionRead(r, p) + OnOrder(p)]
           missing  == {p \in req[r].products : Reorder[p] # NoOne /\ position[p] <= Reorder[p] /\ position[p] < TargetOf(p)}
       IN  /\ tx' = [tx EXCEPT ![r] = [tx[r] EXCEPT !.inbound = [p \in Products |-> TargetOf(p) - position[p]], !.left = missing]]
           /\ Goto(r, "shortage") /\ UNCHANGED held

ActivePlans(p) == {i \in DOMAIN plans : plans[i].product = p /\ plans[i].status \in {"RECOMMENDED", "APPROVED"}}

(* min(remaining, available).                                              *)
Share(need, given, available) == Least(need - given, available)

(* What the first n of the ranked stores give towards the shortage.        *)
Given(r, need, ranked) ==
    LET given[n \in {0} \cup DOMAIN ranked] ==
          IF n = 0 THEN 0 ELSE given[n - 1] + Share(need, given[n - 1], Surplus(r, ranked[n]))
    IN  given

(* The splitting of a shortage over sister stores, then one supplier: the  *)
(* rows to write, by number.                                               *)
Split(r, p) ==
    LET need == tx[r].inbound[p]
        row(n, s, f) == [product |-> p, needed |-> need, suggested |-> n, supplier |-> s, from |-> f,
                         status |-> "RECOMMENDED", key |-> NoOne, executed |-> 0]
        parts(ranked) ==
            LET given  == Given(r, need, ranked)
                last   == Cardinality(DOMAIN ranked)
                rest   == need - given[last]
                stores == [n \in {k \in DOMAIN ranked : given[k] > given[k - 1]} |->
                              row(given[n] - given[n - 1], NoOne, Store[ranked[n]])]
            IN  IF rest <= 0 \/ BestPrices(p, rest) = {} THEN {stores}
                ELSE {With(stores, last + 1, row(Rounded(rest, c), c.supplier, NoOne)) : c \in BestPrices(p, rest)}
    IN  UNION {parts(ranked) : ranked \in Rankings(r, p)}

(* Variant: no advisory lock is taken.                                     *)
LockShortage_no_lock(r) ==
    /\ Is(r, {"GENERATE"}, "shortage") /\ tx[r].left # {}
    /\ \E p \in tx[r].left : tx' = [tx EXCEPT ![r] = [tx[r] EXCEPT !.quantity = p]]
    /\ Goto(r, "plan") /\ UNCHANGED held

(* pg_advisory_xact_lock(store, product), in whatever order the query      *)
(* returned the products; it is held to the end of the transaction.        *)
LockShortage(r) ==
    /\ Is(r, {"GENERATE"}, "shortage") /\ tx[r].left # {}
    /\ \E p \in tx[r].left :
          /\ Free(<<"shortage", p>>, r)
          /\ Take(<<"shortage", p>>, r)
          /\ tx' = [tx EXCEPT ![r] = [tx[r] EXCEPT !.quantity = p]]
    /\ Goto(r, "plan")

PlanShortage(r) ==
    /\ Is(r, {"GENERATE"}, "plan")
    /\ LET p == tx[r].quantity IN
       \E rows \in (IF ActivePlans(p) # {} THEN {<<>>} ELSE Split(r, p)) :
          LET ids == {<<r, p, n>> : n \in DOMAIN rows}
              all == [i \in DOMAIN tx[r].new \cup ids |-> IF i \in ids THEN rows[i[3]] ELSE tx[r].new[i]]
          IN  tx' = [tx EXCEPT ![r] = [tx[r] EXCEPT !.left = @ \ {p}, !.new = all]]
    /\ Goto(r, "shortage") /\ UNCHANGED held

CommitPlans(r) ==
    /\ Is(r, {"GENERATE"}, "shortage") /\ tx[r].left = {}
    /\ plans' = [i \in DOMAIN plans \cup DOMAIN tx[r].new |-> IF i \in DOMAIN plans THEN plans[i] ELSE tx[r].new[i]]
    /\ Finish(r) /\ UNCHANGED <<qty, prices, active, docs, load>>

-----------------------------------------------------------------------------
(* approve_plan and cancel_plan.                                           *)

SetPlan(i, status) == plans' = [plans EXCEPT ![i] = [plans[i] EXCEPT !.status = status]]

MovePlan(r) ==
    /\ Is(r, {"APPROVE", "CANCEL"}, "begin")
    /\ LET i == req[r].plan IN
       /\ Free(<<"plan", i>>, r)
       /\ IF i \notin DOMAIN plans THEN Return(r, "NOT_FOUND")
          ELSE IF ~req[r].access THEN Return(r, "STORE_ACCESS_DENIED")
          ELSE IF plans[i].status \notin (IF req[r].kind = "APPROVE" THEN {"RECOMMENDED"} ELSE {"RECOMMENDED", "APPROVED", "STALE"})
          THEN Return(r, "INVALID_PLAN_STATE")
          ELSE /\ SetPlan(i, IF req[r].kind = "APPROVE" THEN "APPROVED" ELSE "CANCELLED")
               /\ Finish(r) /\ UNCHANGED <<qty, prices, active, docs, load>>

-----------------------------------------------------------------------------
(* execute_plan.                                                           *)

BeginExecute(r) ==
    /\ Is(r, {"EXECUTE"}, "begin")
    /\ IF \E i \in DOMAIN plans : plans[i].key = req[r].key THEN Return(r, "OK")
       ELSE Goto(r, "header") /\ UNCHANGED <<held, tx>>

(* Variant: the plan is read without FOR UPDATE.                           *)
LockPlan_no_lock(r) ==
    /\ Is(r, {"EXECUTE"}, "header")
    /\ LET i == req[r].plan IN
       IF i \notin DOMAIN plans THEN Return(r, "NOT_FOUND")
       ELSE IF plans[i].status # "APPROVED" THEN Return(r, "INVALID_PLAN_STATE")
       ELSE Goto(r, "products") /\ UNCHANGED <<held, tx>>

LockPlan(r) ==
    /\ Is(r, {"EXECUTE"}, "header")
    /\ LET i == req[r].plan IN
       /\ Free(<<"plan", i>>, r)
       /\ IF i \notin DOMAIN plans THEN Return(r, "NOT_FOUND")
          ELSE IF ~req[r].access THEN Return(r, "STORE_ACCESS_DENIED")
          ELSE IF plans[i].status = "EXECUTED" THEN Return(r, "OK")
          ELSE IF plans[i].status # "APPROVED" THEN Return(r, "INVALID_PLAN_STATE")
          ELSE Take(<<"plan", i>>, r) /\ Goto(r, "products") /\ UNCHANGED tx

SourceOf(i) == IF plans[i].from = NoOne THEN NoOne
               ELSE CHOOSE s \in Sisters(plans[i].product) : Store[s] = plans[i].from
ProductsOf(i) == {plans[i].product} \cup ({SourceOf(i)} \ {NoOne})
Left(r) == {p \in ProductsOf(req[r].plan) : <<"product", p>> \notin held[r]}

(* sorted(ids_to_lock).                                                    *)
NextProduct(i, left) == CHOOSE p \in left : \A o \in left : p <= o

LockProduct(r) ==
    /\ Is(r, {"EXECUTE"}, "products")
    /\ LET p == NextProduct(req[r].plan, Left(r)) IN
       /\ Free(<<"product", p>>, r)
       /\ Take(<<"product", p>>, r)
       /\ Goto(r, IF Left(r) = {p} THEN "revalidate" ELSE "products") /\ UNCHANGED tx

Position(p) == qty[p] + Inbound(p) + OnOrder(p)
MarkStale(r) == SetPlan(req[r].plan, "STALE") /\ Finish(r) /\ UNCHANGED <<qty, prices, active, docs, load>>

(* Variant: what was approved is ordered as it stands.                     *)
Executable_approved(i) == plans[i].suggested
(* min(suggested_quantity, current_shortfall).                             *)
Executable(i) == Least(plans[i].suggested, TargetOf(plans[i].product) - Position(plans[i].product))

(* The position, the price and the source's surplus are read afresh.       *)
Revalidate(r) ==
    /\ Is(r, {"EXECUTE"}, "revalidate")
    /\ LET i == req[r].plan
           p == plans[i].product
           s == plans[i].supplier
           n == Executable(i)
           offers == IF s \in active THEN CurrentPrices(s, p) ELSE {}
           spare == IF s # NoOne THEN 0 ELSE qty[SourceOf(i)] - ReorderOf(SourceOf(i)) - Committed(SourceOf(i))
       IN  IF TargetOf(p) <= Position(p) THEN MarkStale(r)
           ELSE IF s # NoOne /\ offers = {} THEN MarkStale(r)
           ELSE IF s = NoOne /\ spare <= 0 THEN MarkStale(r)
           ELSE /\ \E c \in IF s = NoOne THEN {NoOne} ELSE offers :
                       tx' = [tx EXCEPT ![r] = [tx[r] EXCEPT !.quantity = IF s = NoOne THEN Least(n, spare) ELSE Rounded(n, c)]]
                /\ Goto(r, "execute") /\ UNCHANGED held

(* The document, the link, EXECUTED, and one commit.  A key that another   *)
(* plan took meanwhile makes the flush fail.  A second order of one plan   *)
(* would carry the same key and find the first.                            *)
ExecutePlan(r) ==
    /\ Is(r, {"EXECUTE"}, "execute")
    /\ LET i == req[r].plan
           ordered == \E d \in DOMAIN docs : docs[d].plan = i /\ plans[i].supplier # NoOne
       IN  IF \E j \in DOMAIN plans : plans[j].key = req[r].key THEN Return(r, "FAILED")
           ELSE /\ docs' = IF ordered THEN docs
                           ELSE With(docs, r, [plan |-> i, product |-> plans[i].product, from |-> SourceOf(i), qty |-> tx[r].quantity,
                                               shipped |-> 0, received |-> 0, lost |-> 0, status |-> "DRAFT"])
                /\ plans' = [plans EXCEPT ![i] = [plans[i] EXCEPT !.status = "EXECUTED", !.executed = tx[r].quantity, !.key = req[r].key]]
                /\ Finish(r) /\ UNCHANGED <<qty, prices, active, load>>

-----------------------------------------------------------------------------
(* create_supplier_product, set_supplier_active.                           *)

AddPrice(r) ==
    /\ Is(r, {"PRICE"}, "begin")
    /\ LET c == req[r].price IN
       IF \E o \in prices : o.supplier = c.supplier /\ o.product = c.product /\ o.day = c.day THEN Return(r, "DUPLICATE_SUPPLIER_PRODUCT")
       ELSE /\ prices' = prices \cup {c}
            /\ Finish(r) /\ UNCHANGED <<qty, active, plans, docs, load>>

SetSupplierActive(r) ==
    /\ Is(r, {"SUPPLIER"}, "begin")
    /\ active' = IF req[r].active THEN active \cup {req[r].supplier} ELSE active \ {req[r].supplier}
    /\ Finish(r) /\ UNCHANGED <<qty, prices, plans, docs, load>>

-----------------------------------------------------------------------------
(* The rest of the shop: stock moves, and documents live on.               *)

(* lock_product_for_update, record_movement and the commit.                *)
Movement(r, p, delta, after) ==
    /\ Free(<<"product", p>>, r)
    /\ IF qty[p] + delta < 0 /\ p \notin AllowNegative THEN Return(r, "INSUFFICIENT_STOCK")
       ELSE /\ qty' = [qty EXCEPT ![p] = @ + delta] /\ docs' = after
            /\ Finish(r) /\ UNCHANGED <<prices, active, plans, load>>

(* A sale, a return, a count or an adjustment.                             *)
MoveStock(r) ==
    /\ Is(r, {"STOCK"}, "begin")
    /\ Movement(r, req[r].product, req[r].delta, docs)

OrderIds == {d \in DOMAIN docs : docs[d].from = NoOne}
TransferIds == DOMAIN docs \ OrderIds

(* ship_transfer: once, and no more than was requested.                    *)
ShipTransfer(r) ==
    /\ Is(r, {"SHIP"}, "begin")
    /\ LET d == req[r].doc
           n == req[r].units
       IN  IF d \notin TransferIds THEN Return(r, "NOT_FOUND")
           ELSE IF docs[d].status # "DRAFT" THEN Return(r, "INVALID_TRANSFER_STATE")
           ELSE IF n > docs[d].qty THEN Return(r, "OVER_SHIPMENT")
           ELSE Movement(r, docs[d].from, -n, With(docs, d, [docs[d] EXCEPT !.status = "SHIPPED", !.shipped = n]))

(* receive_transfer: several times, good units only reach the shelf.       *)
ReceiveTransfer(r) ==
    /\ Is(r, {"ARRIVE"}, "begin")
    /\ LET d == req[r].doc
           good == req[r].good
           lost == req[r].lost
       IN  IF good + lost = 0 THEN Return(r, "INVALID_QUANTITY")
           ELSE IF d \notin TransferIds THEN Return(r, "NOT_FOUND")
           ELSE IF docs[d].status # "SHIPPED" THEN Return(r, "INVALID_TRANSFER_STATE")
           ELSE IF good + lost > docs[d].shipped - docs[d].received - docs[d].lost THEN Return(r, "OVER_RECEIPT")
           ELSE Movement(r, docs[d].product, good, With(docs, d, [docs[d] EXCEPT !.received = @ + good, !.lost = @ + lost]))

(* receive_goods: several times, and more than was ordered is accepted.    *)
ReceiveGoods(r) ==
    /\ Is(r, {"GOODS"}, "begin")
    /\ LET d == req[r].doc
           total == docs[d].received + req[r].units
           status == IF total >= docs[d].qty THEN "RECEIVED" ELSE "PARTIALLY_RECEIVED"
       IN  IF d \notin OrderIds THEN Return(r, "NOT_FOUND")
           ELSE IF docs[d].status \notin {"ORDERED", "PARTIALLY_RECEIVED"} THEN Return(r, "INVALID_PO_STATE")
           ELSE Movement(r, docs[d].product, req[r].units, With(docs, d, [docs[d] EXCEPT !.received = total, !.status = status]))

SetDoc(r, d, status) ==
    /\ docs' = With(docs, d, [docs[d] EXCEPT !.status = status])
    /\ Finish(r) /\ UNCHANGED <<qty, prices, active, plans, load>>

SubmitOrder(r) ==
    /\ Is(r, {"ORDER"}, "begin")
    /\ LET d == req[r].doc IN
       IF d \notin OrderIds THEN Return(r, "NOT_FOUND")
       ELSE IF docs[d].status # "DRAFT" THEN Return(r, "INVALID_PO_STATE")
       ELSE SetDoc(r, d, "ORDERED")

(* cancel_purchase_order and cancel_transfer lock no product.              *)
CancelDoc(r) ==
    /\ Is(r, {"DROP"}, "begin")
    /\ LET d == req[r].doc
           open == IF d \in OrderIds THEN OpenOrderStatuses ELSE {"DRAFT"}
       IN  IF d \notin DOMAIN docs THEN Return(r, "NOT_FOUND")
           ELSE IF d \in TransferIds /\ docs[d].status = "CANCELLED" THEN Return(r, "OK")
           ELSE IF docs[d].status \notin open THEN Return(r, "INVALID_STATE")
           ELSE SetDoc(r, d, "CANCELLED")

-----------------------------------------------------------------------------

(* A worker dies and its transaction is rolled back.                       *)
Fail(r) == pc[r] \notin {"new", "done"} /\ Return(r, "FAILED")

Step(r) ==
    \/ ReadProducts(r) \/ ReadInbound(r)  \/ ReadOrders(r)
    \/ LockShortage(r) \/ PlanShortage(r) \/ CommitPlans(r)
    \/ MovePlan(r)
    \/ BeginExecute(r) \/ LockPlan(r)     \/ LockProduct(r) \/ Revalidate(r) \/ ExecutePlan(r)
    \/ AddPrice(r)     \/ SetSupplierActive(r) \/ MoveStock(r)
    \/ ShipTransfer(r) \/ ReceiveTransfer(r)   \/ ReceiveGoods(r) \/ SubmitOrder(r) \/ CancelDoc(r)

Next == \E r \in Requests : Submit(r) \/ Step(r) \/ Fail(r)

Spec == Init /\ [][Next]_vars

-----------------------------------------------------------------------------
(* Correctness.                                                            *)

(* The CHECK constraints of replenishment_plans and of transfer lines, and *)
(* stock below zero only where the product allows it.                      *)
Accounted(x) ==
    x.from # NoOne => /\ x.received + x.lost <= x.shipped /\ x.shipped <= x.qty
                      /\ x.status # "SHIPPED" => x.shipped = 0
TypeOK ==
    /\ \A i \in DOMAIN plans :
          /\ i \in PlanIds /\ plans[i] \in Plan
          /\ plans[i].needed > 0 /\ plans[i].suggested > 0
          /\ (plans[i].supplier = NoOne) # (plans[i].from = NoOne)
    /\ \A d \in DOMAIN docs : docs[d] \in Doc /\ docs[d].qty > 0 /\ Accounted(docs[d])
    /\ qty \in [Products -> Int] /\ \A p \in Products : qty[p] >= 0 \/ p \in AllowNegative

(* The plans of a generation never take more from the sister stores than   *)
(* the shortage, nor more than the shortage and one rounding in all.       *)
BatchFitsShortage ==
    \A i \in DOMAIN plans :
        LET mine == {j \in DOMAIN plans : j[1] = i[1] /\ j[2] = i[2]}
            fromStores == {j \in mine : plans[j].from # NoOne}
            given == SumOver(fromStores, LAMBDA j : plans[j].suggested)
        IN  /\ given <= plans[i].needed
            /\ Cardinality(mine \ fromStores) <= 1
            /\ mine # fromStores => given < plans[i].needed
            /\ \A j, k \in fromStores : plans[j].from = plans[k].from => j = k

(* "re-running generation repeatedly never piles up redundant              *)
(* recommendations for the same shortage" (generate_replenishment_plans):  *)
(* the active plans of a product come from one generation, which fits the  *)
(* shortage it saw.                                                        *)
OneActiveBatch ==
    /\ TypeOK /\ BatchFitsShortage
    /\ \A p \in Products : \A i, j \in ActivePlans(p) : i[1] = j[1]

(* "Three independent layers" against duplicate replenishment: a plan is   *)
(* EXECUTED exactly when one document, for the quantity it says, exists.   *)
ExecutedOnce ==
    /\ \A i \in DOMAIN plans :
          LET mine == {d \in DOMAIN docs : docs[d].plan = i}
          IN  IF plans[i].status = "EXECUTED"
              THEN Cardinality(mine) = 1 /\ (\A d \in mine : docs[d].qty = plans[i].executed)
              ELSE mine = {}
    /\ \A i, j \in DOMAIN plans : plans[i].key = plans[j].key /\ plans[i].key # NoOne => i = j

(* "No over-ordering": an order is created only into a shortage that is    *)
(* still there, whatever was ordered, received or sold while the plan      *)
(* waited: shelf and open orders end within the target and one rounding.   *)
(* Only what changes under the product's lock counts: ship_transfer and    *)
(* create_purchase_order take no lock on the destination product.  (Nor    *)
(* does submit_purchase_order, which can bring a cancelled order back: see *)
(* Procurement.  Here it is one step.)                                     *)
NoOverbuying ==
    [][\A d \in DOMAIN docs' \ DOMAIN docs :
         LET p == docs'[d].product IN
         docs'[d].from = NoOne =>
            \E n \in 1 .. TargetOf(p) - qty[p] - OnOrder(p) : \E c \in prices :
                c.product = p /\ c.supplier = plans[docs'[d].plan].supplier /\ docs'[d].qty = Rounded(n, c)]_vars

(* Design Decision 6: the drafts drawing on a source store together never  *)
(* eat into its own reorder point at the moment one is created.            *)
SourceIsProtected ==
    [][\A d \in DOMAIN docs' \ DOMAIN docs :
         LET s == docs'[d].from
             drafts == {e \in DOMAIN docs' : docs'[e].from = s /\ docs'[e].status = "DRAFT"}
         IN  s # NoOne => SumOver(drafts, LAMBDA e : docs'[e].qty) <= qty[s] - ReorderOf(s)]_vars
=============================================================================
