------------------------------ MODULE Checkout ------------------------------
(***************************************************************************)
(* The point of sale of one store: finalize_sale, and the cashier-shift    *)
(* operations open_shift, record_cash_movement and close_shift that run    *)
(* beside it, each HTTP request in a database session of its own.          *)
(*                                                                         *)
(* A request is a short program over the database: statements that read    *)
(* committed rows, SELECT ... FOR UPDATE statements that wait for a row    *)
(* lock, INSERTs that wait for an uncommitted duplicate key, and one       *)
(* COMMIT.  What a request writes is private (tx) until it commits;        *)
(* PostgreSQL runs READ COMMITTED, so every statement sees the rows that   *)
(* are committed when it runs.  Two statements of a request are one step   *)
(* only when no row another request can change lies between them.          *)
(***************************************************************************)
EXTENDS MoneyMath, StockLedger, Sequences, SequencesExt, FiniteSets, FiniteSetsExt

CONSTANTS
    Products,       \* product ids, integers: rows are locked in ascending id order
    Sellable,       \* the products that are active and belong to this store
    AllowNegative,  \* the products with allow_negative_stock set
    InitialQty,     \* [Products -> Nat] on hand when the day starts
    Price, Cost,    \* [Products -> Nat] current_price and current_cost
    TaxPercent,     \* [Products -> Nat] rate of the product's effective tax rate
    TaxInvalid,     \* the products whose tax rate is not effective today
    QtyScale,       \* quantity columns count 1/QtyScale units
    SubUnits,       \* input quanta per column quantum: 1 when clients send no finer digits
    Requests,       \* HTTP requests; a row is named after the request that inserts it
    Keys,           \* client_transaction_id values
    Users,          \* authenticated users (a cashier is a user with a shift)
    StoreUsers,     \* those assigned to this store, or to none
    Overriders,     \* those holding shift.override
    Submissions,    \* the bodies requests may carry, see the constructors below
    Workloads,      \* which requests are sent together, and what each carries
    FiscalEnabled,  \* the store's FiscalConfig.is_enabled
    NoOne           \* no request, no shift, no key

VARIABLES
    qty,          \* products.current_qty_on_hand
    ledger,       \* inventory_movements of each product, oldest first
    sales,        \* sales with their items and payments: a set of rows
    shifts,       \* cashier_shifts, by the request that opened the shift
    cashMoves,    \* cash_movements: a set of rows
    journal,      \* journal_entries with their lines: a set of rows
    outbox,       \* the sales with a PENDING fiscal_submissions row
    periodClosed, \* an accounting_periods row covers today
    productLock,  \* FOR UPDATE holder of each product row
    shiftLock,    \* FOR UPDATE holder of each shift row
    pc,           \* where each request stands
    req,          \* what each request asks for
    tx,           \* what each request's session holds, uncommitted
    answer        \* the response each request got

tables  == <<qty, ledger, sales, shifts, cashMoves, journal, outbox>>
locks   == <<productLock, shiftLock>>
session == <<pc, req, tx, answer>>
vars    == <<tables, periodClosed, locks, session>>

-----------------------------------------------------------------------------
(* What a request carries: SaleCreate, ShiftOpenCreate, CashMovementCreate *)
(* or ShiftCloseCreate, with the authenticated user.  A cart line is       *)
(* [product, qty, discount]; payments are summed by cash and non-cash.     *)

Blank == [kind |-> "NONE", key |-> NoOne, user |-> NoOne, cart |-> <<>>,
          cash |-> 0, card |-> 0, shift |-> NoOne, type |-> "NONE", amount |-> 0]

SaleCreate(key, user, cart, cash, card) ==
    [Blank EXCEPT !.kind = "SALE", !.key = key, !.user = user, !.cart = cart,
                  !.cash = cash, !.card = card]

ShiftOpenCreate(key, user, float) ==
    [Blank EXCEPT !.kind = "OPEN", !.key = key, !.user = user, !.amount = float]

CashMovementCreate(key, user, shift, type, amount) ==
    [Blank EXCEPT !.kind = "MOVE", !.key = key, !.user = user, !.shift = shift,
                  !.type = type, !.amount = amount]

ShiftCloseCreate(key, user, shift, counted) ==
    [Blank EXCEPT !.kind = "CLOSE", !.key = key, !.user = user, !.shift = shift,
                  !.amount = counted]

CartLine == [product : Products, qty : Nat \ {0}, discount : Nat]

Submission == [kind : {"SALE", "OPEN", "MOVE", "CLOSE"}, key : Keys, user : Users,
               cart : Seq(CartLine), cash : Nat, card : Nat,
               shift : Requests \cup {NoOne}, type : {"NONE", "PAID_IN", "PAID_OUT"},
               amount : Nat]

-----------------------------------------------------------------------------
(* Pricing of a cart from the catalogue row of each product: money in      *)
(* cents, cost in millionths of the currency unit.                         *)

LineSubtotal(l) == RoundHalfUp(l.qty * Price[l.product], QtyScale * SubUnits)
LineTax(l)      == RoundHalfUp((LineSubtotal(l) - l.discount) * TaxPercent[l.product], 100)
LineCost(l)     == RoundHalfUp(l.qty * Cost[l.product], QtyScale * SubUnits)

Subtotal(cart)      == SumLines(cart, LineSubtotal)
DiscountTotal(cart) == SumLines(cart, LAMBDA l : l.discount)
TaxTotal(cart)      == SumLines(cart, LineTax)
CogsTotal(cart)     == SumLines(cart, LineCost)
GrandTotal(cart)    == Subtotal(cart) - DiscountTotal(cart) + TaxTotal(cart)

RequestedQty(cart, p) == SumLines(cart, LAMBDA l : IF l.product = p THEN l.qty ELSE 0)

ProductsOf(cart) == {l.product : l \in ToSet(cart)}

ASSUME StoreAssumption ==
    /\ Products \subseteq Int
    /\ Sellable \subseteq Products
    /\ AllowNegative \subseteq Products
    /\ InitialQty \in [Products -> Nat]
    /\ Price \in [Products -> Nat]
    /\ Cost \in [Products -> Nat]
    /\ TaxPercent \in [Products -> Nat]
    /\ TaxInvalid \subseteq Products
    /\ QtyScale \in Nat \ {0}
    /\ SubUnits \in Nat \ {0}
    /\ FiscalEnabled \in BOOLEAN
    /\ NoOne \notin Requests \cup Keys

ASSUME InputAssumption ==
    /\ StoreUsers \subseteq Users
    /\ Overriders \subseteq Users
    /\ Submissions \subseteq Submission
    /\ Workloads \subseteq [sent : SUBSET Requests, body : [Requests -> Submissions]]

-----------------------------------------------------------------------------
(* Rows and session state.                                                 *)

Movement == [delta : Int, result : Int, sale : Requests \cup {NoOne}]

SaleRow == [id : Requests, key : Keys, cart : Seq(CartLine), cash : Nat, card : Nat,
            total : Int, change : Int, shift : Requests \cup {NoOne}]

CashMoveRow == [id : Requests, key : Keys, shift : Requests \cup {NoOne},
                type : {"NONE", "PAID_IN", "PAID_OUT"}, amount : Nat]

(* The rows an expected_cash_amount adds up.                               *)
TillRows == [sold : SUBSET SaleRow, moved : SUBSET CashMoveRow]
NoRows   == [sold |-> {}, moved |-> {}]

(* expected_cash_amount and variance_amount are represented by the rows    *)
(* they were computed from; ExpectedCash gives the amount.                 *)
ShiftRow == [status : {"NONE", "OPEN", "CLOSED"}, cashier : Users \cup {NoOne},
             float : Nat, key : Keys \cup {NoOne}, closeKey : Keys \cup {NoOne},
             counted : Nat, basis : TillRows]

NoShiftRow == [status |-> "NONE", cashier |-> NoOne, float |-> 0, key |-> NoOne,
               closeKey |-> NoOne, counted |-> 0, basis |-> NoRows]

(* A journal entry: the amount of each of its debit and credit lines, a    *)
(* missing line being 0.                                                   *)
NoLines == [source |-> "SALE", id |-> NoOne,
            debitCash |-> 0, debitCard |-> 0, debitDiscounts |-> 0, debitCogs |-> 0,
            debitOverShort |-> 0, creditCash |-> 0, creditRevenue |-> 0, creditTax |-> 0,
            creditInventory |-> 0, creditOverShort |-> 0]

(* An open session: the product rows it has locked (held) and its own copy *)
(* of their current_qty_on_hand (work), the movements it has flushed       *)
(* (pend), the next cart line to record, the shift row a sale found, and   *)
(* the rows its expected cash adds up.                                     *)
Session == [held : SUBSET Products, work : [Products -> Int], pend : [Products -> Seq(Movement)],
            line : Nat \ {0}, shift : Requests \cup {NoOne}, basis : TillRows]

EmptyTx == [held |-> {}, work |-> [p \in Products |-> 0],
            pend |-> [p \in Products |-> <<>>], line |-> 1,
            shift |-> NoOne, basis |-> NoRows]

Init ==
    /\ qty = InitialQty
    /\ ledger = [p \in Products |->
                    IF InitialQty[p] = 0 THEN <<>>
                    ELSE <<[delta |-> InitialQty[p], result |-> InitialQty[p], sale |-> NoOne]>>]
    /\ sales = {}
    /\ shifts = [s \in Requests |-> NoShiftRow]
    /\ cashMoves = {}
    /\ journal = {}
    /\ outbox = {}
    /\ periodClosed = FALSE
    /\ productLock = [p \in Products |-> NoOne]
    /\ shiftLock = [s \in Requests |-> NoOne]
    /\ \E w \in Workloads :
          /\ req = w.body
          /\ pc = [r \in Requests |-> IF r \in w.sent THEN "idle" ELSE "done"]
    /\ tx = [r \in Requests |-> EmptyTx]
    /\ answer = [r \in Requests |-> [code |-> "NONE", row |-> NoOne]]

-----------------------------------------------------------------------------
(* How a session ends.                                                     *)

Free(lock, r) == [x \in DOMAIN lock |-> IF lock[x] = r THEN NoOne ELSE lock[x]]

(* The transaction is over (COMMIT or ROLLBACK): its locks are released    *)
(* and the client gets its response.                                       *)
Finish(r, code, row) ==
    /\ pc' = [pc EXCEPT ![r] = "done"]
    /\ answer' = [answer EXCEPT ![r] = [code |-> code, row |-> row]]
    /\ tx' = [tx EXCEPT ![r] = EmptyTx]
    /\ productLock' = Free(productLock, r)
    /\ shiftLock' = Free(shiftLock, r)
    /\ UNCHANGED req

(* An error, or a duplicate answered with the original row: nothing of     *)
(* this session is committed.                                              *)
Return(r, code, row) == Finish(r, code, row) /\ UNCHANGED <<tables, periodClosed>>

Goto(r, label) == pc' = [pc EXCEPT ![r] = label]

(* A step that only moves the session on.                                  *)
Private == UNCHANGED <<tables, periodClosed, req, answer>>

At(r, kind, label) == req[r].kind = kind /\ pc[r] = label

(* Some other session has flushed, and not yet committed, a row of this    *)
(* kind with this request's client_transaction_id.                         *)
Flushed == {"lines", "commit"}
KeyInFlight(r) ==
    \E o \in Requests \ {r} : /\ req[o].kind = req[r].kind
                              /\ req[o].key = req[r].key
                              /\ pc[o] \in Flushed

-----------------------------------------------------------------------------
(* finalize_sale                                                           *)

SalesWithKey(k) == {s \in sales : s.key = k}

(* Store scope, the idempotency fast path, and the empty-cart and          *)
(* no-payment errors.                                                      *)
BeginSale(r) ==
    /\ At(r, "SALE", "idle")
    /\ LET q == req[r] IN
       IF q.user \notin StoreUsers THEN Return(r, "STORE_ACCESS_DENIED", NoOne)
       ELSE IF SalesWithKey(q.key) # {}
            THEN \E s \in SalesWithKey(q.key) : Return(r, "OK", s.id)
       ELSE IF q.cart = <<>> THEN Return(r, "EMPTY_CART", NoOne)
       ELSE IF q.cash + q.card = 0 THEN Return(r, "NO_PAYMENT", NoOne)
       ELSE Goto(r, "lock") /\ Private /\ UNCHANGED <<locks, tx>>

(* Variant: the product is read with a plain SELECT.                       *)
LockProduct_no_lock(r) ==
    /\ At(r, "SALE", "lock")
    /\ \E p \in (ProductsOf(req[r].cart) \ tx[r].held) \cap Sellable :
          tx' = [tx EXCEPT ![r].held = @ \cup {p}, ![r].work[p] = qty[p] * SubUnits]
    /\ Private /\ UNCHANGED <<pc, locks>>

(* Variant: rows are locked in cart order.                                 *)
LockProduct_cart_order(r) ==
    /\ At(r, "SALE", "lock")
    /\ \E i \in DOMAIN req[r].cart :
          LET p == req[r].cart[i].product IN
          /\ p \notin tx[r].held
          /\ \A j \in 1 .. i - 1 : req[r].cart[j].product \in tx[r].held
          /\ productLock[p] = NoOne
          /\ productLock' = [productLock EXCEPT ![p] = r]
          /\ tx' = [tx EXCEPT ![r].held = @ \cup {p}, ![r].work[p] = qty[p] * SubUnits]
    /\ Private /\ UNCHANGED <<pc, shiftLock>>

(* The next product row of the cart, lowest id first, once nobody holds    *)
(* it: the ORM object carries the quantity committed at that moment.       *)
LockProduct(r) ==
    /\ At(r, "SALE", "lock")
    /\ LET left == ProductsOf(req[r].cart) \ tx[r].held
           p    == CHOOSE m \in left : \A o \in left : m <= o
       IN  /\ left # {}
           /\ productLock[p] = NoOne
           /\ IF p \in Sellable
              THEN /\ productLock' = [productLock EXCEPT ![p] = r]
                   /\ tx' = [tx EXCEPT ![r] =
                               [tx[r] EXCEPT !.held = tx[r].held \cup {p},
                                             !.work = [tx[r].work EXCEPT ![p] = qty[p] * SubUnits]]]
                   /\ Private /\ UNCHANGED <<pc, shiftLock>>
              ELSE Return(r, "PRODUCT_UNAVAILABLE", NoOne)

AllLocked(r) == At(r, "SALE", "lock") /\ ProductsOf(req[r].cart) \subseteq tx[r].held

(* The pricing loop stops at the first line it cannot price.               *)
LineError(cart, i) ==
    IF cart[i].discount > LineSubtotal(cart[i]) THEN "INVALID_DISCOUNT"
    ELSE IF cart[i].product \in TaxInvalid THEN "PRODUCT_TAX_CONFIGURATION_INVALID"
    ELSE "OK"

FirstBadLine(cart) ==
    CHOOSE i \in DOMAIN cart : /\ LineError(cart, i) # "OK"
                               /\ \A j \in 1 .. i - 1 : LineError(cart, j) = "OK"

(* What finalize_sale finds once every product of the cart is locked, in   *)
(* the order it looks.                                                     *)
Verdict(r) ==
    LET q == req[r] IN
    IF \E p \in ProductsOf(q.cart) \ AllowNegative :
           tx[r].work[p] - RequestedQty(q.cart, p) < 0          THEN "INSUFFICIENT_STOCK"
    ELSE IF \E i \in DOMAIN q.cart : LineError(q.cart, i) # "OK"
         THEN LineError(q.cart, FirstBadLine(q.cart))
    ELSE IF q.card > GrandTotal(q.cart)                         THEN "OVERPAYMENT_NOT_ALLOWED"
    ELSE IF q.cash + q.card < GrandTotal(q.cart)                THEN "INSUFFICIENT_PAYMENT"
    ELSE "OK"

RejectSale(r) ==
    /\ AllLocked(r)
    /\ Verdict(r) # "OK"
    /\ Return(r, Verdict(r), NoOne)

OpenShiftsOf(u) == {s \in Requests : shifts[s].status = "OPEN" /\ shifts[s].cashier = u}

(* lock_active_shift_for_cashier, as its statement starts: the snapshot    *)
(* holds the cashier's open shift, or none.                                *)
FindShift(r) ==
    /\ AllLocked(r)
    /\ Verdict(r) = "OK"
    /\ IF OpenShiftsOf(req[r].user) = {}
       THEN Goto(r, "insert") /\ UNCHANGED tx
       ELSE /\ Goto(r, "hold")
            /\ \E s \in OpenShiftsOf(req[r].user) : tx' = [tx EXCEPT ![r].shift = s]
    /\ Private /\ UNCHANGED locks

(* Variant: the status is not looked at again under the lock.              *)
HoldShift_stale(r) ==
    /\ At(r, "SALE", "hold")
    /\ shiftLock[tx[r].shift] = NoOne
    /\ shiftLock' = [shiftLock EXCEPT ![tx[r].shift] = r]
    /\ Goto(r, "insert") /\ Private /\ UNCHANGED <<productLock, tx>>

(* ... and as it gets the row lock: status = 'OPEN' is evaluated again on  *)
(* the row as it is now.                                                   *)
HoldShift(r) ==
    /\ At(r, "SALE", "hold")
    /\ shiftLock[tx[r].shift] = NoOne
    /\ IF shifts[tx[r].shift].status = "OPEN"
       THEN /\ shiftLock' = [shiftLock EXCEPT ![tx[r].shift] = r]
            /\ UNCHANGED tx
       ELSE /\ tx' = [tx EXCEPT ![r].shift = NoOne]
            /\ UNCHANGED shiftLock
    /\ Goto(r, "insert") /\ Private /\ UNCHANGED productLock

(* Variant: the rolled-back object is returned in place of the winner.     *)
InsertSale_own_row(r) ==
    /\ At(r, "SALE", "insert")
    /\ ~KeyInFlight(r)
    /\ IF SalesWithKey(req[r].key) = {}
       THEN Goto(r, "lines") /\ Private /\ UNCHANGED <<locks, tx>>
       ELSE Return(r, "OK", r)

(* INSERT INTO sales waits for an uncommitted duplicate key to settle.     *)
(* A committed duplicate raises IntegrityError: roll back, return the      *)
(* winner.                                                                 *)
InsertSale(r) ==
    /\ At(r, "SALE", "insert")
    /\ ~KeyInFlight(r)
    /\ IF SalesWithKey(req[r].key) = {}
       THEN Goto(r, "lines") /\ Private /\ UNCHANGED <<locks, tx>>
       ELSE \E s \in SalesWithKey(req[r].key) : Return(r, "OK", s.id)

(* Variant: a product scanned twice gets one movement.                     *)
RecordMovement_once(r) ==
    /\ At(r, "SALE", "lines")
    /\ tx[r].line <= Len(req[r].cart)
    /\ LET l   == req[r].cart[tx[r].line]
           new == tx[r].work[l.product] - l.qty
           row == [delta |-> -l.qty, result |-> new, sale |-> r]
       IN  tx' = [tx EXCEPT ![r].work[l.product] = new,
                            ![r].pend[l.product] = <<row>>, ![r].line = @ + 1]
    /\ Private /\ UNCHANGED <<pc, locks>>

(* A NUMERIC(14, 3) column keeps the nearest of its own quanta.            *)
Stored(q) == RoundHalfUp(q, SubUnits)

(* The CHECKs of sale_items and inventory_movements see the row as it is   *)
(* stored: the quantity positive, the delta negative, and line_total what  *)
(* the stored quantity comes to.                                           *)
LineIsStorable(l) ==
    /\ Stored(l.qty) > 0
    /\ RoundHalfUp(Stored(l.qty) * Price[l.product] + (LineTax(l) - l.discount) * QtyScale, QtyScale)
         = LineSubtotal(l) - l.discount + LineTax(l)

(* The item and record_movement for the next cart line: a ledger row, and  *)
(* the new absolute quantity on the locked product, whose session copy     *)
(* keeps every digit; the flush runs the CHECKs.                           *)
RecordMovement(r) ==
    /\ At(r, "SALE", "lines")
    /\ tx[r].line <= Len(req[r].cart)
    /\ LET l   == req[r].cart[tx[r].line]
           p   == l.product
           new == tx[r].work[p] - l.qty
           row == [delta |-> Stored(-l.qty), result |-> Stored(new), sale |-> r]
       IN  IF new < 0 /\ p \notin AllowNegative
           THEN Return(r, "INSUFFICIENT_STOCK", NoOne)
           ELSE IF ~LineIsStorable(l) THEN Return(r, "INTEGRITY_ERROR", NoOne)
           ELSE /\ tx' = [tx EXCEPT ![r] =
                            [tx[r] EXCEPT !.work = [tx[r].work EXCEPT ![p] = new],
                                          !.pend = [tx[r].pend EXCEPT ![p] = Append(tx[r].pend[p], row)],
                                          !.line = tx[r].line + 1]]
                /\ Private /\ UNCHANGED <<pc, locks>>

(* _post_journal refuses a date inside a closed period; the read takes no  *)
(* lock.                                                                   *)
PostSale(r) ==
    /\ At(r, "SALE", "lines")
    /\ tx[r].line > Len(req[r].cart)
    /\ IF periodClosed
       THEN Return(r, "PERIOD_CLOSED", NoOne)
       ELSE Goto(r, "commit") /\ Private /\ UNCHANGED <<locks, tx>>

(* post_sale_journal: debits for the tenders, discounts and cost of goods, *)
(* credits for change, gross revenue, tax and inventory.                   *)
SaleEntry(r) ==
    LET q == req[r] IN
    [NoLines EXCEPT !.source = "SALE", !.id = r,
                    !.debitCash = q.cash, !.debitCard = q.card,
                    !.debitDiscounts = DiscountTotal(q.cart), !.debitCogs = CogsTotal(q.cart),
                    !.creditCash = q.cash + q.card - GrandTotal(q.cart),
                    !.creditRevenue = Subtotal(q.cart), !.creditTax = TaxTotal(q.cart),
                    !.creditInventory = CogsTotal(q.cart)]

SaleRowOf(r) ==
    LET q == req[r] IN
    [id |-> r, key |-> q.key, cart |-> q.cart, cash |-> q.cash, card |-> q.card,
     total |-> GrandTotal(q.cart), change |-> q.cash + q.card - GrandTotal(q.cart),
     shift |-> tx[r].shift]

(* The route handler's db.commit().                                        *)
CommitSale(r) ==
    /\ At(r, "SALE", "commit")
    /\ qty' = [p \in Products |-> IF p \in tx[r].held THEN Stored(tx[r].work[p]) ELSE qty[p]]
    /\ ledger' = [p \in Products |-> ledger[p] \o tx[r].pend[p]]
    /\ sales' = sales \cup {SaleRowOf(r)}
    /\ journal' = journal \cup {SaleEntry(r)}
    /\ outbox' = IF FiscalEnabled THEN outbox \cup {r} ELSE outbox
    /\ Finish(r, "OK", r)
    /\ UNCHANGED <<shifts, cashMoves, periodClosed>>

-----------------------------------------------------------------------------
(* open_shift                                                              *)

ShiftsWithKey(k) == {s \in Requests : shifts[s].key = k}

(* The idempotency fast path, store scope, and the friendly pre-check for  *)
(* an open shift.                                                          *)
BeginOpen(r) ==
    /\ At(r, "OPEN", "idle")
    /\ LET q == req[r] IN
       IF ShiftsWithKey(q.key) # {} THEN \E s \in ShiftsWithKey(q.key) : Return(r, "OK", s)
       ELSE IF q.user \notin StoreUsers THEN Return(r, "STORE_ACCESS_DENIED", NoOne)
       ELSE IF OpenShiftsOf(q.user) # {} THEN Return(r, "SHIFT_ALREADY_OPEN", NoOne)
       ELSE Goto(r, "insert") /\ Private /\ UNCHANGED <<locks, tx>>

(* Another session has flushed a row that the partial unique index "one    *)
(* OPEN shift per cashier" must wait for: a second open, or the close of   *)
(* the shift that is open now.                                             *)
CashierInFlight(r) ==
    \E o \in Requests \ {r} :
        /\ pc[o] \in Flushed
        /\ \/ req[o].kind = "OPEN" /\ req[o].user = req[r].user
           \/ req[o].kind = "CLOSE" /\ shifts[req[o].shift].cashier = req[r].user

(* INSERT INTO cashier_shifts; either unique index may reject it.          *)
InsertShift(r) ==
    /\ At(r, "OPEN", "insert")
    /\ ~KeyInFlight(r) /\ ~CashierInFlight(r)
    /\ IF ShiftsWithKey(req[r].key) = {} /\ OpenShiftsOf(req[r].user) = {}
       THEN Goto(r, "commit") ELSE Goto(r, "recover")
    /\ Private /\ UNCHANGED <<locks, tx>>

(* After IntegrityError and rollback: the row with this key, or the open   *)
(* shift that won, is read again; with neither the error is re-raised.     *)
RecoverOpen(r) ==
    /\ At(r, "OPEN", "recover")
    /\ IF ShiftsWithKey(req[r].key) # {}
       THEN \E s \in ShiftsWithKey(req[r].key) : Return(r, "OK", s)
       ELSE IF OpenShiftsOf(req[r].user) # {} THEN Return(r, "SHIFT_ALREADY_OPEN", NoOne)
       ELSE Return(r, "INTEGRITY_ERROR", NoOne)

CommitOpen(r) ==
    /\ At(r, "OPEN", "commit")
    /\ shifts' = [shifts EXCEPT ![r] =
                    [status |-> "OPEN", cashier |-> req[r].user, float |-> req[r].amount,
                     key |-> req[r].key, closeKey |-> NoOne, counted |-> 0, basis |-> NoRows]]
    /\ Finish(r, "OK", r)
    /\ UNCHANGED <<qty, ledger, sales, cashMoves, journal, outbox, periodClosed>>

-----------------------------------------------------------------------------
(* record_cash_movement and close_shift share the lock on the shift row    *)
(* and the self-or-override rule.                                          *)

(* SELECT ... WHERE id = shift_id FOR UPDATE.                              *)
LockShiftRow(r) ==
    /\ req[r].kind \in {"MOVE", "CLOSE"}
    /\ pc[r] = "lock"
    /\ LET s == req[r].shift IN
       IF s = NoOne \/ shifts[s].status = "NONE"
       THEN Return(r, "NOT_FOUND", NoOne)
       ELSE /\ shiftLock[s] = NoOne
            /\ shiftLock' = [shiftLock EXCEPT ![s] = r]
            /\ Goto(r, "check") /\ Private /\ UNCHANGED <<productLock, tx>>

MayManage(r) ==
    req[r].user = shifts[req[r].shift].cashier \/ req[r].user \in Overriders

MovesWithKey(k) == {m \in cashMoves : m.key = k}

BeginMovement(r) ==
    /\ At(r, "MOVE", "idle")
    /\ IF MovesWithKey(req[r].key) # {}
       THEN \E m \in MovesWithKey(req[r].key) : Return(r, "OK", m.id)
       ELSE IF req[r].amount = 0 THEN Return(r, "INVALID_AMOUNT", NoOne)
       ELSE Goto(r, "lock") /\ Private /\ UNCHANGED <<locks, tx>>

CheckMovement(r) ==
    /\ At(r, "MOVE", "check")
    /\ IF req[r].user \notin StoreUsers THEN Return(r, "STORE_ACCESS_DENIED", NoOne)
       ELSE IF ~MayManage(r) THEN Return(r, "SHIFT_OVERRIDE_REQUIRED", NoOne)
       ELSE IF shifts[req[r].shift].status # "OPEN" THEN Return(r, "SHIFT_NOT_OPEN", NoOne)
       ELSE Goto(r, "insert") /\ Private /\ UNCHANGED <<locks, tx>>

InsertMovement(r) ==
    /\ At(r, "MOVE", "insert")
    /\ ~KeyInFlight(r)
    /\ IF MovesWithKey(req[r].key) = {}
       THEN Goto(r, "commit") /\ Private /\ UNCHANGED <<locks, tx>>
       ELSE \E m \in MovesWithKey(req[r].key) : Return(r, "OK", m.id)

CommitMovement(r) ==
    /\ At(r, "MOVE", "commit")
    /\ cashMoves' = cashMoves \cup {[id |-> r, key |-> req[r].key, shift |-> req[r].shift,
                                      type |-> req[r].type, amount |-> req[r].amount]}
    /\ Finish(r, "OK", r)
    /\ UNCHANGED <<qty, ledger, sales, shifts, journal, outbox, periodClosed>>

-----------------------------------------------------------------------------
(* close_shift                                                             *)

ClosedWithKey(k) == {s \in Requests : shifts[s].closeKey = k}

BeginClose(r) ==
    /\ At(r, "CLOSE", "idle")
    /\ IF ClosedWithKey(req[r].key) # {}
       THEN \E s \in ClosedWithKey(req[r].key) : Return(r, "OK", s)
       ELSE Goto(r, "lock") /\ Private /\ UNCHANGED <<locks, tx>>

(* The committed rows attributed to shift s.                               *)
AttributedTo(s) == [sold  |-> {x \in sales : x.shift = s},
                    moved |-> {m \in cashMoves : m.shift = s}]

(* _compute_expected_cash: what the drawer should hold.  No cash refund    *)
(* takes part: returns are SaleReturns's business.                         *)
Moved(rows, type) == {m \in rows.moved : m.type = type}

ExpectedCash(float, rows) ==
    float + SumOver(rows.sold, LAMBDA x : x.cash) - SumOver(rows.sold, LAMBDA x : x.change)
          + SumOver(Moved(rows, "PAID_IN"), LAMBDA m : m.amount)
          - SumOver(Moved(rows, "PAID_OUT"), LAMBDA m : m.amount)

(* Under the row lock: the second idempotency check, authorization,        *)
(* status, and the expected cash.                                          *)
CheckClose(r) ==
    /\ At(r, "CLOSE", "check")
    /\ IF req[r].user \notin StoreUsers THEN Return(r, "STORE_ACCESS_DENIED", NoOne)
       ELSE IF ClosedWithKey(req[r].key) # {}
            THEN \E s \in ClosedWithKey(req[r].key) : Return(r, "OK", s)
       ELSE IF ~MayManage(r) THEN Return(r, "SHIFT_OVERRIDE_REQUIRED", NoOne)
       ELSE IF shifts[req[r].shift].status # "OPEN" THEN Return(r, "SHIFT_NOT_OPEN", NoOne)
       ELSE /\ tx' = [tx EXCEPT ![r].basis = AttributedTo(req[r].shift)]
            /\ Goto(r, "insert") /\ Private /\ UNCHANGED locks

(* UPDATE cashier_shifts with the closing fields; close_client_transaction_id *)
(* is unique.                                                              *)
WriteClose(r) ==
    /\ At(r, "CLOSE", "insert")
    /\ ~KeyInFlight(r)
    /\ IF ClosedWithKey(req[r].key) = {}
       THEN Goto(r, "lines") /\ Private /\ UNCHANGED <<locks, tx>>
       ELSE \E s \in ClosedWithKey(req[r].key) : Return(r, "OK", s)

Variance(r) == req[r].amount - ExpectedCash(shifts[req[r].shift].float, tx[r].basis)

(* post_cash_shift_variance_journal: nothing to post when the count        *)
(* agrees.                                                                 *)
PostVariance(r) ==
    /\ At(r, "CLOSE", "lines")
    /\ IF Variance(r) # 0 /\ periodClosed
       THEN Return(r, "PERIOD_CLOSED", NoOne)
       ELSE Goto(r, "commit") /\ Private /\ UNCHANGED <<locks, tx>>

(* Variant: an overage is posted as a shortage.                            *)
VarianceEntry_swapped(r) ==
    [NoLines EXCEPT !.source = "CASH_SHIFT_VARIANCE", !.id = req[r].shift,
                    !.debitOverShort = Variance(r), !.creditCash = Variance(r)]

VarianceEntry(r) ==
    IF Variance(r) > 0
    THEN [NoLines EXCEPT !.source = "CASH_SHIFT_VARIANCE", !.id = req[r].shift,
                         !.debitCash = Variance(r), !.creditOverShort = Variance(r)]
    ELSE [NoLines EXCEPT !.source = "CASH_SHIFT_VARIANCE", !.id = req[r].shift,
                         !.debitOverShort = -Variance(r), !.creditCash = -Variance(r)]

CommitClose(r) ==
    /\ At(r, "CLOSE", "commit")
    /\ LET old == shifts[req[r].shift] IN
       shifts' = [shifts EXCEPT ![req[r].shift] =
                    [status |-> "CLOSED", cashier |-> old.cashier, float |-> old.float,
                     key |-> old.key, closeKey |-> req[r].key, counted |-> req[r].amount,
                     basis |-> tx[r].basis]]
    /\ journal' = IF Variance(r) = 0 THEN journal ELSE journal \cup {VarianceEntry(r)}
    /\ Finish(r, "OK", req[r].shift)
    /\ UNCHANGED <<qty, ledger, sales, cashMoves, outbox, periodClosed>>

-----------------------------------------------------------------------------
(* Around the requests.                                                    *)

(* close_accounting_period for a range that contains today; there is no    *)
(* reopen.                                                                 *)
ClosePeriod ==
    /\ ~periodClosed
    /\ periodClosed' = TRUE
    /\ UNCHANGED <<tables, locks, session>>

(* A worker dies, or loses its connection, in the middle of a transaction: *)
(* PostgreSQL rolls it back.                                               *)
Fail(r) ==
    /\ pc[r] \notin {"idle", "done"}
    /\ Return(r, "FAILED", NoOne)

AllAnswered == (\A r \in Requests : pc[r] = "done") /\ UNCHANGED vars

SaleStep(r) ==
    \/ BeginSale(r)      \/ LockProduct(r) \/ RejectSale(r) \/ FindShift(r)
    \/ HoldShift(r)      \/ InsertSale(r)  \/ RecordMovement(r)
    \/ PostSale(r)       \/ CommitSale(r)

ShiftStep(r) ==
    \/ BeginOpen(r)      \/ InsertShift(r)    \/ RecoverOpen(r)    \/ CommitOpen(r)
    \/ BeginMovement(r)  \/ CheckMovement(r)  \/ InsertMovement(r) \/ CommitMovement(r)
    \/ BeginClose(r)     \/ CheckClose(r)     \/ WriteClose(r)
    \/ PostVariance(r)   \/ CommitClose(r)    \/ LockShiftRow(r)

Step(r) == SaleStep(r) \/ ShiftStep(r)

Next ==
    \/ \E r \in Requests : Step(r) \/ Fail(r)
    \/ ClosePeriod
    \/ AllAnswered

Spec == Init /\ [][Next]_vars

(* A worker that has started a request keeps executing it: PostgreSQL      *)
(* grants a free lock, and every statement returns.                        *)
FairSpec == Spec /\ \A r \in Requests : WF_vars(pc[r] # "idle" /\ Step(r))

-----------------------------------------------------------------------------
(* Correctness.                                                            *)

(* NONE until answered; OK; the ErrorCodes the services raise; FAILED when *)
(* the session was lost, INTEGRITY_ERROR when a CHECK fails at a flush or  *)
(* open_shift re-raises.                                                   *)
Codes == {"NONE", "OK", "FAILED", "INTEGRITY_ERROR", "NOT_FOUND", "STORE_ACCESS_DENIED",
          "EMPTY_CART", "NO_PAYMENT", "PRODUCT_UNAVAILABLE", "INSUFFICIENT_STOCK",
          "INVALID_DISCOUNT", "PRODUCT_TAX_CONFIGURATION_INVALID", "OVERPAYMENT_NOT_ALLOWED",
          "INSUFFICIENT_PAYMENT", "PERIOD_CLOSED", "SHIFT_ALREADY_OPEN", "INVALID_AMOUNT",
          "SHIFT_OVERRIDE_REQUIRED", "SHIFT_NOT_OPEN"}

Labels == {"idle", "lock", "hold", "check", "insert", "recover", "lines", "commit", "done"}

(* Every variable holds rows and session states of the declared shapes.    *)
TypeOK ==
    /\ qty \in [Products -> Int]
    /\ ledger \in [Products -> Seq(Movement)]
    /\ sales \subseteq SaleRow
    /\ shifts \in [Requests -> ShiftRow]
    /\ cashMoves \subseteq CashMoveRow
    /\ \A e \in journal : e.source \in {"SALE", "CASH_SHIFT_VARIANCE"} /\ e.id \in Requests
    /\ outbox \subseteq Requests
    /\ periodClosed \in BOOLEAN
    /\ productLock \in [Products -> Requests \cup {NoOne}]
    /\ shiftLock \in [Requests -> Requests \cup {NoOne}]
    /\ pc \in [Requests -> Labels]
    /\ req \in [Requests -> Submissions]
    /\ tx \in [Requests -> Session]
    /\ answer \in [Requests -> [code : Codes, row : Requests \cup {NoOne}]]

(* What the two NUMERIC(14, 3) columns of a movement, rounded separately,  *)
(* may be apart: nothing when quantities come in whole quanta.             *)
RoundingSlack == IF SubUnits = 1 THEN 0 ELSE 1

(* The movement ledger of a product leads from nothing to its cached       *)
(* current_qty_on_hand, each row from where the last one ended and by its  *)
(* own delta up to the rounding of the columns: no sale ever overwrites    *)
(* another sale's decrement (get_quantity_on_hand_from_ledger).            *)
QtyMatchesLedger == \A p \in Products : ChainedWithin(RoundingSlack, 0, ledger[p], qty[p])

(* A client_transaction_id names at most one committed sale, shift, cash   *)
(* movement and shift closure, however often and however simultaneously    *)
(* it is submitted.                                                        *)
OneRowPerKey ==
    /\ \A x, y \in sales : x.key = y.key => x = y
    /\ \A x, y \in cashMoves : x.key = y.key => x = y
    /\ \A k \in Keys : /\ \A s, t \in ShiftsWithKey(k) : s = t
                       /\ \A s, t \in ClosedWithKey(k) : s = t

RowsOf(q) ==
    CASE q.kind = "SALE"  -> {s.id : s \in SalesWithKey(q.key)}
      [] q.kind = "OPEN"  -> ShiftsWithKey(q.key)
      [] q.kind = "MOVE"  -> {m.id : m \in MovesWithKey(q.key)}
      [] q.kind = "CLOSE" -> ClosedWithKey(q.key)

(* A cashier never has two open shifts (the partial unique index and       *)
(* open_shift's recovery).                                                 *)
OneOpenShift == \A u \in Users : \A s, t \in OpenShiftsOf(u) : s = t

(* Every request told it succeeded was given the one committed row of its  *)
(* key, whichever of several duplicates did the work; keys and cashiers    *)
(* stay unique in their indexes meanwhile.                                 *)
DuplicatesGetTheRow ==
    /\ OneRowPerKey /\ OneOpenShift
    /\ \A r \in Requests : answer[r].code = "OK" => RowsOf(req[r]) = {answer[r].row}

MovementsOf(id, p) == SelectSeq(ledger[p], LAMBDA m : m.sale = id)
LinesOf(cart, p)   == SelectSeq(cart, LAMBDA l : l.product = p)
Balanced(e) ==
    /\ e.debitCash + e.debitCard + e.debitDiscounts + e.debitOverShort
         = e.creditCash + e.creditRevenue + e.creditTax + e.creditOverShort
    /\ e.debitCogs = e.creditInventory

(* Concurrent sales together never take more of a product than there was,  *)
(* unless it allows negative stock.                                        *)
NoOversell ==
    \A p \in Products \ AllowNegative :
        SumOver(sales, LAMBDA s : RequestedQty(s.cart, p)) <= InitialQty[p] * SubUnits

(* A request that was refused or rolled back left no row behind, in any    *)
(* table, although record_cash_movement and close_shift commit the audit   *)
(* row of a denial.                                                        *)
RefusedLeavesNothing ==
    \A r \in Requests : answer[r].code \notin {"NONE", "OK"} =>
        /\ r \notin {s.id : s \in sales} \cup {m.id : m \in cashMoves} \cup outbox
        /\ shifts[r] = NoShiftRow
        /\ \A p \in Products : r \notin {m.sale : m \in ToSet(ledger[p])}
        /\ \A e \in journal : e.source = "SALE" => e.id # r

(* A sale is committed whole or not at all, out of stock that is there:    *)
(* one ledger row per cart line, one balanced journal entry for its total, *)
(* its fiscal outbox row when the store is enabled, and none of these      *)
(* without the sale, above all not when the request was refused.           *)
SaleIsWhole ==
    LET ids == {s.id : s \in sales} IN
    /\ TypeOK /\ NoOversell /\ RefusedLeavesNothing
    /\ \A s \in sales : /\ \A p \in Products :
                              [i \in DOMAIN LinesOf(s.cart, p) |-> Stored(-LinesOf(s.cart, p)[i].qty)]
                                = [i \in DOMAIN MovementsOf(s.id, p) |-> MovementsOf(s.id, p)[i].delta]
                        /\ \E e \in journal :
                              /\ e.source = "SALE" /\ e.id = s.id
                              /\ Balanced(e)
                              /\ e.debitCash + e.debitCard - e.creditCash = s.total
    /\ \A p \in Products : {m.sale : m \in ToSet(ledger[p])} \subseteq ids \cup {NoOne}
    /\ {e.id : e \in {x \in journal : x.source = "SALE"}} \subseteq ids
    /\ outbox = IF FiscalEnabled THEN ids ELSE {}

(* A closed shift's frozen expected_cash_amount counts every sale and cash *)
(* movement that is, then or ever after, attributed to the shift, and      *)
(* nothing else.                                                           *)
TillExact ==
    \A s \in Requests : shifts[s].status = "CLOSED" => shifts[s].basis = AttributedTo(s)

CashOf(E) == SumOver(E, LAMBDA e : e.debitCash) - SumOver(E, LAMBDA e : e.creditCash)

(* For a closed shift the general ledger's cash, over the entries of its   *)
(* sales and of its variance, is the cash counted less the float and the   *)
(* net of the drawer movements, which post nothing.                        *)
BooksMatchDrawer ==
    \A s \in Requests : shifts[s].status = "CLOSED" =>
        LET rows == AttributedTo(s)
            sold == {x.id : x \in rows.sold}
        IN  CashOf({e \in journal : \/ e.source = "SALE" /\ e.id \in sold
                                    \/ e.source = "CASH_SHIFT_VARIANCE" /\ e.id = s})
              = shifts[s].counted - shifts[s].float
                  - SumOver(Moved(rows, "PAID_IN"), LAMBDA m : m.amount)
                  + SumOver(Moved(rows, "PAID_OUT"), LAMBDA m : m.amount)

(* A request that has started is answered: no set of requests waits for    *)
(* each other's product rows, shift rows and keys for ever.                *)
StartedRequestsAreAnswered ==
    \A r \in Requests : (pc[r] # "idle") ~> (pc[r] = "done")
=============================================================================
