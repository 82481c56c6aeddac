------------------------------ MODULE Payables ------------------------------
(***************************************************************************)
(* Accounts payable: purchase invoices matched against receipts, supplier  *)
(* payments and credit notes allocated to several invoices, their          *)
(* reversals, and the journal entries behind them.                         *)
(*                                                                         *)
(* As in Procurement every request is a database session under READ        *)
(* COMMITTED, one-shot, and a step ends where another session can          *)
(* interfere.  Quantities count 1/QtyScale units, prices and ledger        *)
(* amounts 1/CentScale of a cent, amounts on invoices whole cents.         *)
(***************************************************************************)
EXTENDS MoneyMath, SequencesExt, FiniteSets, FiniteSetsExt

CONSTANTS
    Requests,
    Invoices,          \* purchase_invoices ids, integers
    InitialInvoices,   \* [Invoices -> drafts \cup {NoOne}]
    Alien,             \* invoices of another store or supplier
    Orders, Items,     \* purchase orders (integers) and their items
    ItemOrder,         \* [Items -> Orders]
    AlienItems,        \* items of another store or supplier
    Deliveries,        \* [Items -> Seq([qty, cost])], goods_receipt_items in the order they will arrive
    InitialArrived,    \* [Items -> how many of them have]
    Overdue,           \* [Invoices -> days past due_date when the reports run]
    ReturnValue,       \* purchase_returns a credit note may refer to, with their value
    Keys, Numbers,     \* client_transaction_ids; the supplier's own document numbers
    Workloads,         \* [posted, sent]: the drafts posted before the start, the bodies each request may carry
    QtyScale, CentScale,
    NoOne

VARIABLES
    invoice,       \* purchase_invoices with their lines
    matches,       \* purchase_invoice_receipt_matches of each invoice
    arrived,       \* how many lots of each item were received
    invoiced,      \* purchase_order_items.quantity_invoiced
    notes,         \* supplier_payments and supplier_credit_notes with their allocations
    reversed,      \* supplier_payment_reversals, supplier_credit_note_reversals
    entries,       \* journal entries
    load,          \* the workload of this behaviour
    invoiceLock, orderLock, noteLock,
    pc, req, tx, answer

tables  == <<invoice, matches, arrived, invoiced, notes, reversed, entries, load>>
locks   == <<invoiceLock, orderLock, noteLock>>
session == <<pc, req, tx, answer>>
vars    == <<tables, locks, session>>

-----------------------------------------------------------------------------
(* Rows and bodies.                                                        *)

Statuses == {"DRAFT", "POSTED", "PARTIALLY_PAID", "PAID", "VOIDED"}
Standing == {"POSTED", "PARTIALLY_PAID", "PAID"}
Methods  == {"CASH", "BANK_TRANSFER"}
Reasons  == {"GOODS_RETURN", "COMMERCIAL_DISCOUNT"}
Accounts == {"PURCHASE_CLEARING", "PRICE_VARIANCE", "PURCHASE_TAX", "PURCHASE_DISCOUNTS", "ACCOUNTS_PAYABLE",
             "CASH_ON_HAND", "BANK_ACCOUNT", "INVENTORY"}

InvoiceLine == [item : Items, qty : Nat, price : Nat, discount : Nat, tax : Nat]
PurchaseInvoice ==
    [status : Statuses, key : Keys \cup {NoOne}, number : Numbers, lines : Seq(InvoiceLine),
     total : Int, paid : Int, credited : Int]

Allocation == [invoice : Invoices, amount : Int]
(* Payments and credit notes, [id, kind, key, number, lines, amount,       *)
(* account, alloc]: id is the request that created one, alloc its          *)
(* allocations as a function of the invoices.                              *)
IsNote(n) ==
    /\ n.id \in Requests /\ n.kind \in {"PAY", "CREDIT"} /\ n.key \in Keys /\ n.number \in Numbers \cup {NoOne}
    /\ n.lines \in Seq(Nat) /\ n.amount \in Nat /\ n.account \in Accounts
    /\ DOMAIN n.alloc \subseteq Invoices /\ n.alloc \in [DOMAIN n.alloc -> Nat]

(* What a request finds when it looks, once: the caller covers the store,  *)
(* the supplier is active, the period it posts in is open.                 *)
Circumstances == [access : BOOLEAN, supplierActive : BOOLEAN, periodOpen : BOOLEAN]

Submission ==
    [kind : {"CREATE"}, invoice : Invoices, key : Keys, number : Numbers, lines : Seq(InvoiceLine),
     more : Circumstances]
      \cup [kind : {"POST", "VOID"}, invoice : Invoices, more : Circumstances]
      \cup [kind : {"PAY"}, key : Keys, method : Methods \cup {NoOne}, amount : Nat, alloc : Seq(Allocation),
            more : Circumstances]
      \cup [kind : {"CREDIT"}, key : Keys, number : Numbers, reason : Reasons,
            return : DOMAIN ReturnValue \cup {NoOne}, lines : Seq(Nat), alloc : Seq(Allocation),
            more : Circumstances]
      \cup [kind : {"REVERSE"}, id : Requests, reasoned : BOOLEAN, more : Circumstances]

(* A row as create_purchase_invoice inserts it, and the units of an item   *)
(* that its lines bill.                                                    *)
IsDraft(row) ==
    row.status = "DRAFT" /\ row.lines # <<>> /\ row.total \in Nat /\ row.paid = 0 /\ row.credited = 0
RequestedOf(lines, i) == SumLines(lines, LAMBDA l : IF l.item = i THEN l.qty ELSE 0)

ASSUME PayablesAssumption ==
    /\ IsFiniteSet(Requests) /\ IsFiniteSet(Invoices) /\ IsFiniteSet(Items)
    /\ Invoices \subseteq Int /\ Alien \subseteq Invoices
    /\ InitialInvoices \in [Invoices -> PurchaseInvoice \cup {NoOne}]
    /\ \A i \in Invoices : InitialInvoices[i] # NoOne => IsDraft(InitialInvoices[i])
    /\ \A i, j \in Invoices :
          i # j /\ InitialInvoices[i] # NoOne /\ InitialInvoices[j] # NoOne =>
              /\ InitialInvoices[i].key # NoOne => InitialInvoices[i].key # InitialInvoices[j].key
              /\ i \notin Alien /\ j \notin Alien => InitialInvoices[i].number # InitialInvoices[j].number
    /\ Deliveries \in [Items -> Seq([qty : Nat, cost : Nat])]
    /\ InitialArrived \in [Items -> Nat] /\ \A t \in Items : InitialArrived[t] <= Len(Deliveries[t])
    /\ \A w \in Workloads :
          /\ w.posted \subseteq {i \in Invoices : InitialInvoices[i] # NoOne}
          /\ \A i, j \in w.posted :
                i # j => {l.item : l \in ToSet(InitialInvoices[i].lines)} \cap {l.item : l \in ToSet(InitialInvoices[j].lines)} = {}
          /\ \A t \in Items : SumOver(w.posted, LAMBDA i : RequestedOf(InitialInvoices[i].lines, t))
                                <= SumOver(1 .. InitialArrived[t], LAMBDA n : Deliveries[t][n].qty)
    /\ Orders \subseteq Int /\ ItemOrder \in [Items -> Orders] /\ AlienItems \subseteq Items
    /\ \A w \in Workloads : \A r \in Requests : w.sent[r] \subseteq Submission
    /\ QtyScale \in Nat \ {0} /\ CentScale \in Nat \ {0}
    /\ NoOne \notin Requests \cup Keys \cup Numbers \cup Methods \cup PurchaseInvoice

Received(i) == SumOver(1 .. arrived[i], LAMBDA n : Deliveries[i][n].qty)

-----------------------------------------------------------------------------
(* Journal entries: lines as a function of the accounts, debit positive.   *)

Blank == [a \in Accounts |-> 0]
Pair(debit, credit, n) == [a \in Accounts |-> IF a = debit THEN n ELSE IF a = credit THEN -n ELSE 0]
Opposite(lines) == [a \in Accounts |-> -lines[a]]

Entry(source, id, lines) == [source |-> source, id |-> id, lines |-> lines]

(* post_goods_receipt_journal of one lot; nothing for a value of zero.     *)
LotValue(lot) == RoundHalfUp(lot.qty * lot.cost, QtyScale)
ReceiptEntry(i, n) ==
    IF LotValue(Deliveries[i][n]) = 0 THEN {}
    ELSE {Entry("PURCHASE_RECEIPT", <<i, n>>, Pair("INVENTORY", "PURCHASE_CLEARING", LotValue(Deliveries[i][n])))}

(* The deferred trigger: a committed entry balances and is not zero.       *)
Balanced(lines) ==
    lines # Blank /\ SumOver(Accounts, LAMBDA a : lines[a]) = 0

-----------------------------------------------------------------------------
(* How a request starts and ends.                                          *)

(* What a session has loaded: the rows of the invoices it holds, and       *)
(* quantity_invoiced of the items.                                         *)
EmptyTx == [held |-> {}, inv |-> [i \in Invoices |-> NoOne], invoiced |-> [i \in Items |-> 0]]

Free(lock, r) == [x \in DOMAIN lock |-> IF lock[x] = r THEN NoOne ELSE lock[x]]

Finish(r, code) ==
    /\ pc' = [pc EXCEPT ![r] = "done"]
    /\ answer' = [answer EXCEPT ![r] = code]
    /\ tx' = [tx EXCEPT ![r] = EmptyTx]
    /\ invoiceLock' = Free(invoiceLock, r)
    /\ orderLock' = Free(orderLock, r)
    /\ noteLock' = Free(noteLock, r)
    /\ UNCHANGED req

Return(r, code) == Finish(r, code) /\ UNCHANGED tables
Goto(r, label)  == pc' = [pc EXCEPT ![r] = label] /\ UNCHANGED <<req, answer>>
Stay(r, label)  == Goto(r, label) /\ UNCHANGED <<tx, tables, locks>>
Is(r, kinds, label) == pc[r] = label /\ req[r].kind \in kinds

Submit(r) ==
    /\ pc[r] = "new"
    /\ \E q \in load.sent[r] :
          /\ q.kind = "CREATE" =>
                /\ invoice[q.invoice] = NoOne
                /\ q.invoice \notin {req[o].invoice : o \in {x \in Requests : pc[x] # "new" /\ req[x].kind = "CREATE"}}
          /\ req' = [req EXCEPT ![r] = q]
    /\ pc' = [pc EXCEPT ![r] = "begin"]
    /\ UNCHANGED <<tx, answer, tables, locks>>

Smallest(S) == CHOOSE m \in S : \A o \in S : m <= o

-----------------------------------------------------------------------------
(* create_purchase_invoice.                                                *)

OrdersOf(lines) == {ItemOrder[l.item] : l \in ToSet(lines)}
Subtotal(lines) == SumLines(lines, LAMBDA l : RoundHalfUp(l.qty * l.price, QtyScale * CentScale))
Discounts(lines) == SumLines(lines, LAMBDA l : l.discount)
Taxes(lines)     == SumLines(lines, LAMBDA l : l.tax)

Rows == {i \in Invoices : invoice[i] # NoOne}
InvoicesWithKey(k) == {i \in Rows : invoice[i].key = k}

(* sorted(lines) on both sides: the same lines in any order.               *)
Times(x, s) == Cardinality({i \in DOMAIN s : s[i] = x})
SameLines(s, t) == \A x \in ToSet(s) \cup ToSet(t) : Times(x, s) = Times(x, t)
SameInvoice(i, q) == invoice[i].number = q.number /\ SameLines(invoice[i].lines, q.lines)

BeginCreate(r) ==
    /\ Is(r, {"CREATE"}, "begin")
    /\ LET q == req[r]
           old == InvoicesWithKey(q.key)
       IN IF old # {} THEN Return(r, IF \A i \in old : SameInvoice(i, q) THEN "OK" ELSE "IDEMPOTENCY_KEY_CONFLICT")
          ELSE IF ~q.more.access THEN Return(r, "STORE_ACCESS_DENIED")
          ELSE IF ~q.more.supplierActive THEN Return(r, "INVALID_SUPPLIER")
          ELSE IF q.lines = <<>> THEN Return(r, "EMPTY_INVOICE")
          ELSE IF \E l \in ToSet(q.lines) : l.qty = 0 THEN Return(r, "INVALID_QUANTITY")
          ELSE IF \E l \in ToSet(q.lines) : l.item \in AlienItems THEN Return(r, "PO_ITEM_STORE_SUPPLIER_MISMATCH")
          ELSE Stay(r, "insert")

(* The header refers to its order when there is one only, and waits for    *)
(* it; a duplicate gets the winner of its key before it hears of a number. *)
InsertInvoice(r) ==
    /\ Is(r, {"CREATE"}, "insert")
    /\ LET q == req[r]
           total == Subtotal(q.lines) - Discounts(q.lines) + Taxes(q.lines)
       IN  /\ Cardinality(OrdersOf(q.lines)) = 1 => \A o \in OrdersOf(q.lines) : orderLock[o] = NoOne
           /\ IF InvoicesWithKey(q.key) # {} THEN Return(r, "OK")
              ELSE IF \E i \in Rows \ Alien : invoice[i].number = q.number
              THEN Return(r, "DUPLICATE_SUPPLIER_INVOICE_NUMBER")
              ELSE IF total < 0 THEN Return(r, "FAILED")
              ELSE /\ invoice' = [invoice EXCEPT ![q.invoice] =
                                    [status |-> "DRAFT", key |-> q.key, number |-> q.number,
                                     lines |-> q.lines, total |-> total, paid |-> 0, credited |-> 0]]
                   /\ Finish(r, "OK")
                   /\ UNCHANGED <<matches, arrived, invoiced, notes, reversed, entries, load>>

-----------------------------------------------------------------------------
(* Matching: _fifo_match_slices and the lines of an invoice's entry.       *)

(* The lots of item i, oldest first, after the units invoiced before.      *)
Slices(i, already, more) ==
    FoldLeft(LAMBDA s, n :
        LET lot  == Deliveries[i][n]
            take == Min({lot.qty - s.skip, s.left})
        IN  IF s.left = 0 THEN s
            ELSE IF s.skip >= lot.qty THEN [s EXCEPT !.skip = s.skip - lot.qty]
            ELSE [skip |-> 0, left |-> s.left - take, taken |-> Append(s.taken, [item |-> i, lot |-> n, qty |-> take])],
        [skip |-> already, left |-> more, taken |-> <<>>], [n \in 1 .. arrived[i] |-> n])

(* Line by line, each after what the lines before it consumed.             *)
MatchLines(lines, before) ==
    FoldLeft(LAMBDA ms, n :
        LET l == lines[n]
            already == before[l.item] + RequestedOf(SubSeq(lines, 1, n - 1), l.item)
            slices  == Slices(l.item, already, l.qty).taken
        IN  ms \o [k \in DOMAIN slices |-> [line |-> n, price |-> l.price, cost |-> Deliveries[l.item][slices[k].lot].cost,
                                            item |-> l.item, lot |-> slices[k].lot, qty |-> slices[k].qty]],
        <<>>, [n \in DOMAIN lines |-> n])

(* post_purchase_invoice's totals and _clearing_and_variance_from_matches. *)
Clearing(ms) == RoundHalfUp(SumLines(ms, LAMBDA m : m.qty * m.cost), QtyScale)
Variance(ms) == RoundHalfUp(SumLines(ms, LAMBDA m : m.qty * (m.price - m.cost)), QtyScale)

(* _purchase_invoice_journal_lines; zero amounts have no line.             *)
InvoiceLines(row, ms) ==
    [a \in Accounts |->
        CASE a = "PURCHASE_CLEARING"  -> Clearing(ms)
          [] a = "PRICE_VARIANCE"     -> Variance(ms)
          [] a = "PURCHASE_TAX"       -> CentScale * Taxes(row.lines)
          [] a = "PURCHASE_DISCOUNTS" -> -CentScale * Discounts(row.lines)
          [] a = "ACCOUNTS_PAYABLE"   -> -CentScale * row.total
          [] OTHER -> 0]

-----------------------------------------------------------------------------
(* The state at the start: drafts, some of them posted, what has arrived.  *)

Init ==
    /\ arrived = InitialArrived
    /\ load \in Workloads
    /\ LET P == load.posted IN
         /\ invoice = [i \in Invoices |-> IF i \in P THEN [InitialInvoices[i] EXCEPT !.status = "POSTED"] ELSE InitialInvoices[i]]
         /\ matches = [i \in Invoices |-> IF i \in P THEN MatchLines(InitialInvoices[i].lines, [t \in Items |-> 0]) ELSE <<>>]
         /\ invoiced = [t \in Items |-> SumOver(P, LAMBDA i : RequestedOf(InitialInvoices[i].lines, t))]
         /\ entries = {Entry("PURCHASE_INVOICE", i, InvoiceLines(InitialInvoices[i], matches[i])) : i \in P}
                        \cup UNION {UNION {ReceiptEntry(i, n) : n \in 1 .. InitialArrived[i]} : i \in Items}
    /\ notes = {} /\ reversed = {}
    /\ invoiceLock = [i \in Invoices |-> NoOne]
    /\ orderLock = [o \in Orders |-> NoOne]
    /\ noteLock = [r \in Requests |-> NoOne]
    /\ pc = [r \in Requests |-> "new"]
    /\ req = [r \in Requests |-> NoOne]
    /\ tx = [r \in Requests |-> EmptyTx]
    /\ answer = [r \in Requests |-> NoOne]

-----------------------------------------------------------------------------
(* post_purchase_invoice and void_purchase_invoice.                        *)

Set(i, row) == invoice' = [invoice EXCEPT ![i] = row]

BeginPost(r) ==
    /\ Is(r, {"POST"}, "begin")
    /\ LET row == invoice[req[r].invoice] IN
       IF row = NoOne THEN Return(r, "NOT_FOUND")
       ELSE IF ~req[r].more.access THEN Return(r, "STORE_ACCESS_DENIED")
       ELSE IF row.status = "VOIDED" THEN Return(r, "INVALID_INVOICE_STATE")
       ELSE IF row.status # "DRAFT" THEN Return(r, "OK")
       ELSE Stay(r, "orders")

(* Variant: the orders are not locked.                                     *)
LockOrder_no_lock(r) ==
    /\ Is(r, {"POST", "VOID"}, "orders")
    /\ tx' = [tx EXCEPT ![r] = [tx[r] EXCEPT !.invoiced = invoiced]]
    /\ Goto(r, "write") /\ UNCHANGED <<tables, locks>>

(* The next order of the lines, ascending.  With the last one posting      *)
(* refreshes the invoice and both read quantity_invoiced.                  *)
LockOrder(r) ==
    /\ Is(r, {"POST", "VOID"}, "orders")
    /\ LET row  == invoice[req[r].invoice]
           left == OrdersOf(row.lines) \ tx[r].held
           o    == Smallest(left)
       IN  /\ orderLock[o] = NoOne
           /\ IF left = {o} /\ req[r].kind = "POST" /\ row.status # "DRAFT"
              THEN Return(r, IF row.status = "VOIDED" THEN "INVALID_INVOICE_STATE" ELSE "OK")
              ELSE /\ orderLock' = [orderLock EXCEPT ![o] = r]
                   /\ tx' = [tx EXCEPT ![r] = [tx[r] EXCEPT !.held = tx[r].held \cup {o}, !.invoiced = invoiced]]
                   /\ Goto(r, IF left = {o} THEN "write" ELSE "orders") /\ UNCHANGED <<tables, invoiceLock, noteLock>>

ItemsOf(lines) == {l.item : l \in ToSet(lines)}

(* OVER_INVOICING, matches, quantity_invoiced, status and entry.  The      *)
(* UPDATE waits for whoever holds the invoice and does not look again.     *)
PostInvoice(r) ==
    /\ Is(r, {"POST"}, "write")
    /\ LET i   == req[r].invoice
           row == invoice[i]
           old == tx[r].invoiced
           ms  == MatchLines(row.lines, old)
           new == InvoiceLines(row, ms)
       IN IF \E t \in ItemsOf(row.lines) : old[t] + RequestedOf(row.lines, t) > Received(t)
          THEN Return(r, "OVER_INVOICING")
          ELSE IF new # Blank /\ ~req[r].more.periodOpen THEN Return(r, "PERIOD_CLOSED")
          ELSE /\ invoiceLock[i] = NoOne
               /\ IF new # Blank /\ ~Balanced(new) THEN Return(r, "FAILED")
                  ELSE /\ Set(i, [row EXCEPT !.status = "POSTED"])
                       /\ matches' = [matches EXCEPT ![i] = ms]
                       /\ invoiced' = [t \in Items |-> IF t \in ItemsOf(row.lines) THEN old[t] + RequestedOf(row.lines, t)
                                                       ELSE invoiced[t]]
                       /\ entries' = entries \cup (IF new = Blank THEN {} ELSE {Entry("PURCHASE_INVOICE", i, new)})
                       /\ Finish(r, "OK") /\ UNCHANGED <<arrived, notes, reversed, load>>

(* Variant: an invoice with payments may be voided.                        *)
BeginVoid_settled(r) ==
    /\ Is(r, {"VOID"}, "begin")
    /\ LET i   == req[r].invoice
           row == invoice[i]
       IN  /\ row # NoOne
           /\ invoiceLock[i] = NoOne
           /\ IF row.status = "VOIDED" THEN Return(r, "OK")
              ELSE IF row.status = "DRAFT"
              THEN /\ Set(i, [row EXCEPT !.status = "VOIDED"])
                   /\ Finish(r, "OK")
                   /\ UNCHANGED <<matches, arrived, invoiced, notes, reversed, entries, load>>
              ELSE /\ invoiceLock' = [invoiceLock EXCEPT ![i] = r]
                   /\ Goto(r, "orders") /\ UNCHANGED <<tx, tables, orderLock, noteLock>>

(* SELECT ... FOR UPDATE of the invoice.  A draft is voided and committed  *)
(* at once.                                                                *)
BeginVoid(r) ==
    /\ Is(r, {"VOID"}, "begin")
    /\ LET i   == req[r].invoice
           row == invoice[i]
       IN  /\ invoiceLock[i] = NoOne
           /\ IF row = NoOne THEN Return(r, "NOT_FOUND")
              ELSE IF ~req[r].more.access THEN Return(r, "STORE_ACCESS_DENIED")
              ELSE IF row.status = "VOIDED" THEN Return(r, "OK")
              ELSE IF row.status \in {"PARTIALLY_PAID", "PAID"} THEN Return(r, "INVOICE_HAS_PAYMENTS")
              ELSE IF row.status = "DRAFT"
              THEN /\ Set(i, [row EXCEPT !.status = "VOIDED"])
                   /\ Finish(r, "OK")
                   /\ UNCHANGED <<matches, arrived, invoiced, notes, reversed, entries, load>>
              ELSE /\ invoiceLock' = [invoiceLock EXCEPT ![i] = r]
                   /\ Goto(r, "orders") /\ UNCHANGED <<tx, tables, orderLock, noteLock>>

(* Variant: the matches are computed again instead of read back.           *)
VoidMatches_again(i, old) == MatchLines(invoice[i].lines, [t \in Items |-> old[t] - RequestedOf(invoice[i].lines, t)])

(* The rows post_purchase_invoice persisted, never a second walk.          *)
VoidMatches(i, old) == matches[i]

VoidInvoice(r) ==
    /\ Is(r, {"VOID"}, "write")
    /\ LET i   == req[r].invoice
           row == invoice[i]
           old == tx[r].invoiced
           ms  == VoidMatches(i, old)
           new == Opposite(InvoiceLines(row, ms))
       IN IF new # Blank /\ ~req[r].more.periodOpen THEN Return(r, "PERIOD_CLOSED")
          ELSE /\ Set(i, [row EXCEPT !.status = "VOIDED"])
               /\ invoiced' = [t \in Items |-> IF t \in ItemsOf(row.lines) THEN old[t] - RequestedOf(row.lines, t)
                                               ELSE invoiced[t]]
               /\ entries' = entries \cup (IF new = Blank THEN {} ELSE {Entry("PURCHASE_INVOICE_VOID", i, new)})
               /\ Finish(r, "OK") /\ UNCHANGED <<matches, arrived, notes, reversed, load>>

-----------------------------------------------------------------------------
(* record_supplier_payment and create_supplier_credit_note.                *)

Targets(alloc) == {a.invoice : a \in ToSet(alloc)}
AllocTotal(alloc) == SumLines(alloc, LAMBDA a : a.amount)
(* The allocation rows of a body: a function of the invoices it names.     *)
Allocated(alloc) == [i \in Targets(alloc) |-> SumLines(alloc, LAMBDA a : IF a.invoice = i THEN a.amount ELSE 0)]

NoteLines(q) == IF q.kind = "PAY" THEN <<>> ELSE q.lines
AmountOf(q) == IF q.kind = "PAY" THEN q.amount ELSE SumLines(q.lines, LAMBDA n : n)
AccountOf(q) ==
    IF q.kind = "PAY" THEN IF q.method = "CASH" THEN "CASH_ON_HAND" ELSE "BANK_ACCOUNT"
    ELSE IF q.reason = "GOODS_RETURN" THEN "INVENTORY" ELSE "PURCHASE_DISCOUNTS"

NotesWithKey(q) == {n \in notes : n.kind = q.kind /\ n.key = q.key}
SameNote(n, q) ==
    /\ n.amount = AmountOf(q) /\ n.account = AccountOf(q)
    /\ n.number = IF q.kind = "PAY" THEN NoOne ELSE q.number
    /\ SameLines(n.lines, NoteLines(q)) /\ n.alloc = Allocated(q.alloc)

(* Nothing to return when no row has the key.                              *)
ReturnMatched(r, q) ==
    Return(r, IF \A n \in NotesWithKey(q) : SameNote(n, q) THEN "OK" ELSE "IDEMPOTENCY_KEY_CONFLICT")

BadAllocations(alloc) ==
    alloc = <<>> \/ Cardinality(Targets(alloc)) # Len(alloc) \/ \E a \in ToSet(alloc) : a.amount <= 0

BeginPay(r) ==
    /\ Is(r, {"PAY"}, "begin")
    /\ LET q == req[r] IN
       IF q.method \notin Methods THEN Return(r, "INVALID_PAYMENT_METHOD")
       ELSE IF q.amount = 0 \/ BadAllocations(q.alloc) THEN Return(r, "INVALID_ALLOCATIONS")
       ELSE IF AllocTotal(q.alloc) # q.amount THEN Return(r, "ALLOCATION_MUST_EQUAL_PAYMENT_AMOUNT")
       ELSE IF NotesWithKey(q) # {} THEN ReturnMatched(r, q)
       ELSE IF ~q.more.access THEN Return(r, "STORE_ACCESS_DENIED")
       ELSE Stay(r, "invoices")

BeginCredit(r) ==
    /\ Is(r, {"CREDIT"}, "begin")
    /\ LET q == req[r] IN
       IF (q.reason = "GOODS_RETURN") = (q.return = NoOne) THEN Return(r, "PURCHASE_RETURN_REFERENCE")
       ELSE IF q.lines = <<>> \/ 0 \in ToSet(q.lines) THEN Return(r, "EMPTY_CREDIT_NOTE")
       ELSE IF BadAllocations(q.alloc) THEN Return(r, "INVALID_ALLOCATIONS")
       ELSE IF NotesWithKey(q) # {} THEN ReturnMatched(r, q)
       ELSE IF ~q.more.access THEN Return(r, "STORE_ACCESS_DENIED")
       ELSE IF ~q.more.supplierActive THEN Return(r, "INVALID_SUPPLIER")
       ELSE IF AllocTotal(q.alloc) # AmountOf(q) THEN Return(r, "ALLOCATION_MUST_EQUAL_CREDIT_AMOUNT")
       ELSE IF q.return # NoOne /\ CentScale * AmountOf(q) > ReturnValue[q.return]
       THEN Return(r, "CREDIT_EXCEEDS_RETURN_VALUE")
       ELSE Stay(r, "invoices")

NoteOf(id) == CHOOSE n \in notes : n.id = id

TargetsOf(q) == IF q.kind = "REVERSE" THEN DOMAIN NoteOf(q.id).alloc ELSE Targets(q.alloc)

(* Variant: the invoices are locked in the order the body names them.      *)
NextInvoice_named(q, left) ==
    IF q.kind = "REVERSE" THEN Smallest(left)
    ELSE LET n == CHOOSE n \in DOMAIN q.alloc : q.alloc[n].invoice \in left /\ \A m \in 1 .. n - 1 : q.alloc[m].invoice \notin left
         IN  q.alloc[n].invoice
(* ORDER BY id.                                                            *)
NextInvoice(q, left) == Smallest(left)

(* Variant: the invoices are only read.                                    *)
LockInvoice_no_lock(r) ==
    /\ Is(r, {"PAY", "CREDIT", "REVERSE"}, "invoices")
    /\ tx' = [tx EXCEPT ![r] = [tx[r] EXCEPT !.held = TargetsOf(req[r]), !.inv = invoice]]
    /\ Goto(r, "write") /\ UNCHANGED <<tables, locks>>

(* ORDER BY id ... FOR UPDATE waits for one row after another; an id that  *)
(* has no row locks nothing.                                               *)
LockInvoice(r) ==
    /\ Is(r, {"PAY", "CREDIT", "REVERSE"}, "invoices")
    /\ LET left == TargetsOf(req[r]) \ tx[r].held
           i    == NextInvoice(req[r], left)
       IN  /\ invoiceLock[i] = NoOne
           /\ invoiceLock' = IF invoice[i] = NoOne THEN invoiceLock ELSE [invoiceLock EXCEPT ![i] = r]
           /\ tx' = [tx EXCEPT ![r] = [tx[r] EXCEPT !.held = tx[r].held \cup {i},
                                                    !.inv = [tx[r].inv EXCEPT ![i] = invoice[i]]]]
           /\ Goto(r, IF left = {i} THEN "write" ELSE "invoices") /\ UNCHANGED <<tables, orderLock, noteLock>>

Outstanding(row) == row.total - row.paid - row.credited

(* _recompute_invoice_status.                                              *)
Recomputed(row) ==
    LET settled == row.paid + row.credited IN
    [row EXCEPT !.status = IF settled >= row.total THEN "PAID" ELSE IF settled > 0 THEN "PARTIALLY_PAID" ELSE "POSTED"]

Apply(row, kind, n) ==
    Recomputed(IF kind = "PAY" THEN [row EXCEPT !.paid = @ + n] ELSE [row EXCEPT !.credited = @ + n])

(* Every invoice as the session loaded it, with the amount added.          *)
ApplyAll(t, kind, alloc, sign) ==
    [i \in Invoices |-> IF i \in DOMAIN alloc THEN Apply(t.inv[i], kind, sign * alloc[i]) ELSE invoice[i]]

(* Recheck of the key, the invoices' state and balance, the insert with    *)
(* its unique indexes, the settlement and one entry for the whole amount.  *)
WriteNote(r) ==
    /\ Is(r, {"PAY", "CREDIT"}, "write")
    /\ LET q    == req[r]
           rows == [i \in Targets(q.alloc) |-> tx[r].inv[i]]
           note == [id |-> r, kind |-> q.kind, key |-> q.key, number |-> IF q.kind = "PAY" THEN NoOne ELSE q.number,
                    lines |-> NoteLines(q), amount |-> AmountOf(q), account |-> AccountOf(q), alloc |-> Allocated(q.alloc)]
       IN IF NotesWithKey(q) # {} THEN ReturnMatched(r, q)
          ELSE IF \E i \in DOMAIN rows : rows[i] = NoOne THEN Return(r, "NOT_FOUND")
          ELSE IF DOMAIN rows \cap Alien # {} THEN Return(r, "STORE_MISMATCH")
          ELSE IF \E i \in DOMAIN rows : rows[i].status \notin {"POSTED", "PARTIALLY_PAID"}
          THEN Return(r, "INVALID_INVOICE_STATE")
          ELSE IF \E i \in DOMAIN rows : note.alloc[i] > Outstanding(rows[i]) THEN Return(r, "OVERPAYMENT")
          ELSE IF q.kind = "CREDIT" /\ \E n \in notes : n.number = q.number
          THEN Return(r, "DUPLICATE_SUPPLIER_CREDIT_NUMBER")
          ELSE IF ~q.more.periodOpen THEN Return(r, "PERIOD_CLOSED")
          ELSE /\ notes' = notes \cup {note}
               /\ invoice' = ApplyAll(tx[r], q.kind, note.alloc, 1)
               /\ entries' = entries \cup {Entry(q.kind, r, Pair("ACCOUNTS_PAYABLE", note.account, CentScale * note.amount))}
               /\ Finish(r, "OK") /\ UNCHANGED <<matches, arrived, invoiced, reversed, load>>

-----------------------------------------------------------------------------
(* reverse_supplier_payment and reverse_supplier_credit_note.              *)

(* SELECT ... FOR UPDATE of the payment or credit note.                    *)
BeginReverse(r) ==
    /\ Is(r, {"REVERSE"}, "begin")
    /\ LET id == req[r].id IN
       IF ~req[r].reasoned THEN Return(r, "REVERSAL_REASON_REQUIRED")
       ELSE /\ noteLock[id] = NoOne
            /\ IF \A n \in notes : n.id # id THEN Return(r, "NOT_FOUND")
               ELSE IF ~req[r].more.access THEN Return(r, "STORE_ACCESS_DENIED")
               ELSE IF id \in reversed THEN Return(r, "OK")
               ELSE /\ noteLock' = [noteLock EXCEPT ![id] = r]
                    /\ Goto(r, "invoices") /\ UNCHANGED <<tx, tables, invoiceLock, orderLock>>

WriteReversal(r) ==
    /\ Is(r, {"REVERSE"}, "write")
    /\ LET n == NoteOf(req[r].id) IN
       IF ~req[r].more.periodOpen THEN Return(r, "PERIOD_CLOSED")
       ELSE IF n.id \in reversed THEN Return(r, "ALREADY_REVERSED")
       ELSE /\ invoice' = ApplyAll(tx[r], n.kind, n.alloc, -1)
            /\ reversed' = reversed \cup {n.id}
            /\ entries' = entries \cup {Entry("REVERSAL", n.id, Pair(n.account, "ACCOUNTS_PAYABLE", CentScale * n.amount))}
            /\ Finish(r, "OK") /\ UNCHANGED <<matches, arrived, invoiced, notes, load>>

-----------------------------------------------------------------------------
(* Around them.                                                            *)

(* receive_goods books the next lot while it holds the order.              *)
Receive(i) ==
    /\ arrived[i] < Len(Deliveries[i])
    /\ orderLock[ItemOrder[i]] = NoOne
    /\ arrived' = [arrived EXCEPT ![i] = @ + 1]
    /\ entries' = entries \cup ReceiptEntry(i, arrived[i] + 1)
    /\ UNCHANGED <<invoice, matches, invoiced, notes, reversed, load, locks, session>>

(* A worker dies and its transaction is rolled back.                       *)
Fail(r) == pc[r] \notin {"new", "done"} /\ Return(r, "FAILED")

Step(r) ==
    \/ BeginCreate(r) \/ InsertInvoice(r)
    \/ BeginPost(r)   \/ LockOrder(r)   \/ PostInvoice(r)
    \/ BeginVoid(r)   \/ VoidInvoice(r)
    \/ BeginPay(r)    \/ BeginCredit(r) \/ LockInvoice(r) \/ WriteNote(r)
    \/ BeginReverse(r) \/ WriteReversal(r)

Next ==
    \/ \E r \in Requests : Submit(r) \/ Step(r) \/ Fail(r)
    \/ \E i \in Items : Receive(i)

Spec == Init /\ [][Next]_vars

-----------------------------------------------------------------------------
(* The reports: trial_balance, get_supplier_ap_summary, the statement, the *)
(* aging and the two reconciliations.                                      *)

Balance(a) == SumOver(entries, LAMBDA e : e.lines[a])

Billed == {i \in Rows : invoice[i].status \in Standing}
Open == {i \in Rows : invoice[i].status \in {"POSTED", "PARTIALLY_PAID"}}
TotalOwed == SumOver(Open, LAMBDA i : Outstanding(invoice[i]))

(* Invoices less payments and credit notes, plus the reversed ones again.  *)
StatementClosing ==
    SumOver(Billed, LAMBDA i : invoice[i].total) - SumOver(notes, LAMBDA n : n.amount)
      + SumOver({n \in notes : n.id \in reversed}, LAMBDA n : n.amount)

Bucket(days) ==
    CASE days <= 0 -> "current" [] days \in 1 .. 30 -> "1_30" [] days \in 31 .. 60 -> "31_60"
      [] days \in 61 .. 90 -> "61_90" [] OTHER -> "90+"
Aging(b) ==
    SumOver({i \in Open : Outstanding(invoice[i]) > 0 /\ Bucket(Overdue[i]) = b}, LAMBDA i : Outstanding(invoice[i]))

(* The received units that are not invoiced, at the cost of their lots.    *)
UninvoicedValue(i) ==
    RoundHalfUp(SumLines(Slices(i, invoiced[i], Received(i) - invoiced[i]).taken,
                         LAMBDA s : s.qty * Deliveries[i][s.lot].cost), QtyScale)
OutstandingClearing == SumOver(Items, UninvoicedValue)

-----------------------------------------------------------------------------
(* Correctness.                                                            *)

(* The columns and CHECKs of the payables tables: whatever settles and     *)
(* unsettles an invoice at once, its settlements are between nothing and   *)
(* the whole of it.                                                        *)
TypeOK ==
    /\ invoice \in [Invoices -> PurchaseInvoice \cup {NoOne}]
    /\ \A i \in Rows : invoice[i].paid >= 0 /\ invoice[i].credited >= 0 /\ Outstanding(invoice[i]) >= 0
    /\ invoiced \in [Items -> Nat]
    /\ (\A n \in notes : IsNote(n)) /\ reversed \subseteq Requests
    /\ invoiceLock \in [Invoices -> Requests \cup {NoOne}]
    /\ orderLock \in [Orders -> Requests \cup {NoOne}]
    /\ noteLock \in [Requests -> Requests \cup {NoOne}]

(* Three-way matching over racing postings and voids: quantity_invoiced is *)
(* what the standing invoices bill, and never more than was received.      *)
InvoicedWithinReceived ==
    \A t \in Items :
        /\ invoiced[t] <= Received(t)
        /\ invoiced[t] = SumOver(Billed, LAMBDA i : RequestedOf(invoice[i].lines, t))

(* A key names one payment, one credit note, one invoice; the supplier's   *)
(* number names one invoice and one credit note.                           *)
OneDocument ==
    /\ \A a, b \in notes : a.kind = b.kind /\ a.key = b.key => a = b
    /\ \A a, b \in notes : a.kind = "CREDIT" /\ a.number = b.number => a = b
    /\ \A i, j \in Rows \ Alien : i # j => invoice[i].number # invoice[j].number
    /\ \A i, j \in Rows : i # j /\ invoice[i].key # NoOne => invoice[i].key # invoice[j].key

Applied(i, kind) ==
    SumOver({n \in notes : n.kind = kind /\ n.id \notin reversed /\ i \in DOMAIN n.alloc}, LAMBDA n : n.alloc[i])

(* amount_paid and amount_credited are the allocations that still stand,   *)
(* and the status says how much of the invoice they cover, whichever       *)
(* payments, credits and reversals ran in which order.                     *)
CachesFollowRows ==
    \A i \in Rows :
        LET row == invoice[i]
            settled == row.paid + row.credited
        IN  /\ row.paid = Applied(i, "PAY") /\ row.credited = Applied(i, "CREDIT")
            /\ row.status = "PAID" => settled = row.total
            /\ row.status = "PARTIALLY_PAID" => settled \in 1 .. row.total - 1
            /\ row.status \in {"DRAFT", "POSTED", "VOIDED"} => settled = 0

(* "Expected to match exactly" (ap_reconciliation); the statement's        *)
(* closing balance "equals total_owed exactly" (get_supplier_statement);   *)
(* the aging buckets split that same amount; and the amounts cached on     *)
(* the invoices are the allocations of the documents that stand.           *)
BooksAgree ==
    /\ TypeOK /\ OneDocument /\ CachesFollowRows
    /\ -Balance("ACCOUNTS_PAYABLE") = CentScale * TotalOwed
    /\ StatementClosing = TotalOwed
    /\ SumOver({"current", "1_30", "31_60", "61_90", "90+"}, Aging) = TotalOwed

(* "the same function underpins both the posting AND the reconciliation,   *)
(* so the two can never silently disagree" (docs/M6_AP_VENDOR_ACCOUNTING,  *)
(* purchase_clearing_reconciliation): until an invoice is voided, what is  *)
(* left on Purchase Clearing is the reconciliation's price of the units    *)
(* not yet invoiced, across lots of different cost and racing receipts.    *)
ClearingReconciles ==
    (\A i \in Rows : invoice[i].status # "VOIDED") => -Balance("PURCHASE_CLEARING") = OutstandingClearing

(* What Purchase Clearing still holds is the value of the lots less the    *)
(* matches of the standing invoices: a void takes back exactly what its    *)
(* posting cleared (_clearing_and_variance_from_matches).                  *)
ClearingFollowsMatches ==
    /\ ClearingReconciles
    /\ -Balance("PURCHASE_CLEARING") =
           SumOver(Items, LAMBDA i : SumOver(1 .. arrived[i], LAMBDA n : LotValue(Deliveries[i][n])))
             - SumOver(Billed, LAMBDA i : Clearing(matches[i]))

(* The abstract specification of what is owed, over the rows of this one.  *)
Promise == INSTANCE Settlement WITH
    Bills <- Invoices,
    Ids   <- Requests,
    open  <- Billed,
    owed  <- [i \in Invoices |-> IF i \in Billed THEN Outstanding(invoice[i]) ELSE 0],
    live  <- {[id |-> n.id, amounts |-> n.alloc] :
                n \in {m \in notes : m.id \notin reversed}},
    used  <- {n.id : n \in notes}

(* Payables implements Settlement: whatever sessions interleave, each      *)
(* commit is one atomic billing, void, settlement or its undoing.          *)
SettlementIsAtomic == Promise!Spec

(* Who holds the row that the next step of r must lock.                    *)
Holder(r) ==
    LET q == req[r] IN
    CASE pc[r] = "orders" /\ OrdersOf(invoice[q.invoice].lines) \ tx[r].held # {}
            -> orderLock[Smallest(OrdersOf(invoice[q.invoice].lines) \ tx[r].held)]
      [] pc[r] = "write" /\ q.kind = "POST" -> invoiceLock[q.invoice]
      [] pc[r] = "begin" /\ q.kind = "VOID" -> invoiceLock[q.invoice]
      [] pc[r] = "begin" /\ q.kind = "REVERSE" -> noteLock[q.id]
      [] pc[r] = "invoices" -> invoiceLock[NextInvoice(q, TargetsOf(q) \ tx[r].held)]
      [] OTHER -> NoOne

(* A payment or credit note, to be refused once it has all its rows, that  *)
(* has locked an invoice nobody may settle yet, and still waits.           *)
HoldsUnbilled(r) ==
    /\ Is(r, {"PAY", "CREDIT"}, "invoices")
    /\ \E i \in tx[r].held : tx[r].inv[i] # NoOne /\ i \notin Billed

(* "two transactions racing over overlapping PO sets can never deadlock"   *)
(* (post_purchase_invoice), nor over overlapping invoices: among any       *)
(* sessions there is one that waits for none of them, unless one of them   *)
(* has locked an invoice that is not posted in order to settle it.         *)
NoCircularWait ==
    \A S \in SUBSET {r \in Requests : ~HoldsUnbilled(r)} : S # {} => \E r \in S : Holder(r) \notin S
=============================================================================
