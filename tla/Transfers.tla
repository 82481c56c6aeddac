------------------------------ MODULE Transfers ------------------------------
(***************************************************************************)
(* Inter-store transfers, the discrepancies their receipts record, and the *)
(* approval-gated write-offs of what never arrived.                        *)
(*                                                                         *)
(* Every request is a database session under READ COMMITTED, one-shot; a   *)
(* step ends where another session can interfere.  held[r] is the set of   *)
(* rows that request r has locked, each row tagged with its table.         *)
(* Quantities count 1/QtyScale units, costs and amounts ledger quanta.     *)
(***************************************************************************)
EXTENDS MoneyMath, StockLedger, SequencesExt, FiniteSets, FiniteSetsExt

CONSTANTS
    Requests,
    Transfers,         \* inter_store_transfers ids
    Lines,             \* inter_store_transfer_lines ids
    LineTransfer, Source, Destination, Wanted,    \* functions of Lines: transfer, products, requested_quantity
    FromStore,         \* [Transfers -> stores]
    Products,          \* product ids, integers
    InitialQty, InitialCost,
    AllowNegative,     \* the products with allow_negative_stock set
    QtyScale,
    Keys,              \* client_transaction_ids
    RoleOf,            \* [users -> role names]
    Workloads,         \* [drafted, rules, sent, after]: transfers that exist, policy rules, the bodies each
                       \* request may send and the requests whose answers its client waits for
    NoOne

VARIABLES
    transfer,      \* inter_store_transfers: status and ship_client_transaction_id
    line,          \* inter_store_transfer_lines
    receipts,      \* inter_store_transfer_receipts with their items
    disc,          \* receiving_discrepancies, by receipt and item
    writeOff,      \* transfer_write_offs, by the request that created them
    decisions,     \* write_off_approvals
    rules,         \* approval_policy_rules
    qty, cost, ledger,
    entries,       \* journal entries
    load,          \* the workload of this behaviour
    held, pc, req, tx, answer

tables  == <<transfer, line, receipts, disc, writeOff, decisions, rules, qty, cost, ledger, entries, load>>
session == <<held, pc, req, tx, answer>>
vars    == <<tables, session>>

-----------------------------------------------------------------------------
(* Rows and bodies.                                                        *)

TransferStatuses == {"NONE", "DRAFT", "SHIPPED", "CANCELLED"}
Findings == {"VENDOR_CAUSED", "SOURCE_STORE_CAUSED", "UNKNOWN"}
WriteOffStatuses == {"PENDING_APPROVAL", "POSTED", "DENIED", "REVERSED"}
Users == DOMAIN RoleOf
Roles == {RoleOf[u] : u \in Users} \cup {"ADMIN"}

Row == [shipped : Nat, received : Nat, damaged : Nat, short : Nat, writtenOff : Int, cost : Nat]
Item == [line : Lines, good : Nat, damaged : Nat, short : Nat]
Discrepancy == [line : Lines, lost : Nat, cost : Nat, status : {"RECORDED", "INVESTIGATING", "RESOLVED"},
                finding : Findings \cup {NoOne}]
WriteOff == [disc : Requests \X Nat, qty : Nat, amount : Nat, role : Roles, by : Users, key : Keys,
             status : WriteOffStatuses]
(* scope NoOne is every store, max NoOne is no upper bound.                *)
Rule == [scope : {FromStore[t] : t \in Transfers} \cup {NoOne}, min : Nat, max : Nat \cup {NoOne}, role : Roles]

Shipment == [line : Lines, qty : Nat]

(* access: the caller's account covers the store (or one of the two);      *)
(* stocked: the destination has the SKU; open: the period is.              *)
Submission ==
    [kind : {"CREATE"}, transfer : Transfers, access : BOOLEAN, stocked : BOOLEAN]
      \cup [kind : {"SHIP"}, transfer : Transfers, key : Keys, lines : Seq(Shipment), access : BOOLEAN, open : BOOLEAN]
      \cup [kind : {"RECEIVE"}, transfer : Transfers, key : Keys, lines : Seq(Item), access : BOOLEAN, open : BOOLEAN]
      \cup [kind : {"CANCEL"}, transfer : Transfers, access : BOOLEAN]
      \cup [kind : {"INVESTIGATE"}, disc : Requests \X Nat, access : BOOLEAN]
      \cup [kind : {"RESOLVE"}, disc : Requests \X Nat, finding : Findings, access : BOOLEAN]
      \cup [kind : {"WRITEOFF"}, disc : Requests \X Nat, qty : Nat, key : Keys, by : Users, access : BOOLEAN]
      \cup [kind : {"APPROVE", "DENY", "REVERSE"}, id : Requests, by : Users, open : BOOLEAN]
      \cup [kind : {"RULE"}, rule : Rule]

ASSUME TransfersAssumption ==
    /\ Lines \subseteq Int /\ Products \subseteq Int /\ AllowNegative \subseteq Products
    /\ LineTransfer \in [Lines -> Transfers] /\ Wanted \in [Lines -> Nat \ {0}]
    /\ Source \in [Lines -> Products] /\ Destination \in [Lines -> Products]
    /\ InitialQty \in [Products -> Int] /\ \A p \in Products \ AllowNegative : InitialQty[p] >= 0
    /\ InitialCost \in [Products -> Nat]
    /\ QtyScale \in Nat \ {0}
    /\ \A w \in Workloads : /\ w.drafted \subseteq Transfers /\ w.rules \subseteq Rule
                            /\ \A r \in Requests : w.sent[r] \subseteq Submission /\ w.after[r] \subseteq Requests
    /\ NoOne \notin Requests \cup Keys \cup Users \cup Transfers /\ IsFiniteSet(Requests)

LinesOf(t) == {l \in Lines : LineTransfer[l] = t}

(* What a session has loaded: lines, products, and the role and remaining  *)
(* quantity a write-off request worked out.                                *)
Nothing == [p \in Products |-> 0]
EmptyTx == [lines |-> NoOne, qty |-> Nothing, cost |-> Nothing, role |-> NoOne]

Init ==
    /\ load \in Workloads
    /\ transfer = [t \in Transfers |-> [status |-> IF t \in load.drafted THEN "DRAFT" ELSE "NONE", key |-> NoOne]]
    /\ line = [l \in Lines |-> [shipped |-> 0, received |-> 0, damaged |-> 0, short |-> 0, writtenOff |-> 0, cost |-> 0]]
    /\ receipts = {} /\ disc = <<>> /\ writeOff = <<>> /\ decisions = {} /\ entries = {}
    /\ rules = load.rules
    /\ qty = InitialQty /\ cost = InitialCost
    /\ ledger = [p \in Products |-> <<>>]
    /\ held = [r \in Requests |-> {}]
    /\ pc = [r \in Requests |-> "new"]
    /\ req = [r \in Requests |-> NoOne]
    /\ tx = [r \in Requests |-> EmptyTx]
    /\ answer = [r \in Requests |-> NoOne]

-----------------------------------------------------------------------------
(* How a request starts and ends, and how it waits for a row.              *)

Free(row, r)  == \A o \in Requests \ {r} : row \notin held[o]
Take(row, r)  == held' = [held EXCEPT ![r] = @ \cup {row}]

Finish(r, code) ==
    /\ pc' = [pc EXCEPT ![r] = "done"]
    /\ answer' = [answer EXCEPT ![r] = code]
    /\ tx' = [tx EXCEPT ![r] = EmptyTx]
    /\ held' = [held EXCEPT ![r] = {}]
    /\ req' = [req EXCEPT ![r] = NoOne]

Return(r, code) == Finish(r, code) /\ UNCHANGED tables
Goto(r, label)  == pc' = [pc EXCEPT ![r] = label] /\ UNCHANGED <<req, answer, tables>>
Is(r, kinds, label) == pc[r] = label /\ req[r].kind \in kinds

Submit(r) ==
    /\ pc[r] = "new"
    /\ \A o \in load.after[r] : pc[o] = "done"
    /\ \E q \in load.sent[r] : req' = [req EXCEPT ![r] = q]
    /\ pc' = [pc EXCEPT ![r] = "begin"]
    /\ UNCHANGED <<held, tx, answer, tables>>

Sum(f(_), S) == MapThenSumSet(f, S)
SumSeq(f(_), s) == FoldLeft(LAMBDA sum, x : sum + f(x), 0, s)
Smallest(S) == CHOOSE m \in S : \A o \in S : m <= o
(* f with the value v at x, which may be new.                              *)
With(f, x, v) == [y \in DOMAIN f \cup {x} |-> IF y = x THEN v ELSE f[y]]

(* One debit and one credit; the store whose books they are in.            *)
Entry(source, id, store, debit, credit, amount) ==
    IF amount <= 0 THEN {}
    ELSE {[source |-> source, id |-> id, store |-> store, debit |-> debit, credit |-> credit, amount |-> amount]}

Value(n, c) == RoundHalfUp(n * c, QtyScale)

-----------------------------------------------------------------------------
(* create_transfer and cancel_transfer.                                    *)

(* The checks and the header; its id is the sequence's, no one else's.     *)
CreateTransfer(r) ==
    /\ Is(r, {"CREATE"}, "begin")
    /\ LET t == req[r].transfer IN
       IF ~req[r].access THEN Return(r, "STORE_ACCESS_DENIED")
       ELSE IF LinesOf(t) = {} THEN Return(r, "EMPTY_TRANSFER")
       ELSE IF ~req[r].stocked THEN Return(r, "DESTINATION_PRODUCT_NOT_FOUND")
       ELSE /\ transfer[t].status = "NONE"
            /\ \A o \in Requests \ {r} : pc[o] = "keys" => req[o].transfer # t
            /\ Goto(r, "keys") /\ UNCHANGED <<held, tx>>

(* The INSERT of the lines, in the order of the body: each row refers to   *)
(* its source and its destination product, and its foreign keys take       *)
(* FOR KEY SHARE on the one and then the other, until the commit.          *)
Unshared(r) == {l \in LinesOf(req[r].transfer) : ~({<<"share", Source[l]>>, <<"share", Destination[l]>>} \subseteq held[r])}
NextKey(r) ==
    LET l == Smallest(Unshared(r)) IN IF <<"share", Source[l]>> \notin held[r] THEN Source[l] ELSE Destination[l]

ShareProduct(r) ==
    /\ Is(r, {"CREATE"}, "keys") /\ Unshared(r) # {}
    /\ Free(<<"product", NextKey(r)>>, r)
    /\ Take(<<"share", NextKey(r)>>, r)
    /\ Goto(r, "keys") /\ UNCHANGED tx

CommitTransfer(r) ==
    /\ Is(r, {"CREATE"}, "keys") /\ Unshared(r) = {}
    /\ transfer' = [transfer EXCEPT ![req[r].transfer] = [status |-> "DRAFT", key |-> NoOne]]
    /\ Finish(r, "OK")
    /\ UNCHANGED <<line, receipts, disc, writeOff, decisions, rules, qty, cost, ledger, entries, load>>

CancelTransfer(r) ==
    /\ Is(r, {"CANCEL"}, "begin")
    /\ LET t == req[r].transfer
           s == transfer[t].status
       IN  /\ Free(<<"transfer", t>>, r)
           /\ IF s = "NONE" THEN Return(r, "NOT_FOUND")
              ELSE IF ~req[r].access THEN Return(r, "STORE_ACCESS_DENIED")
              ELSE IF s = "CANCELLED" THEN Return(r, "OK")
              ELSE IF s # "DRAFT" THEN Return(r, "INVALID_TRANSFER_STATE")
              ELSE /\ transfer' = [transfer EXCEPT ![t] = [transfer[t] EXCEPT !.status = "CANCELLED"]]
                   /\ Finish(r, "OK")
                   /\ UNCHANGED <<line, receipts, disc, writeOff, decisions, rules, qty, cost, ledger, entries, load>>

-----------------------------------------------------------------------------
(* ship_transfer and receive_transfer.                                     *)

Shipped(k)  == \E t \in Transfers : transfer[t].key = k
Received(k) == \E g \in receipts : g.key = k

BeginShip(r) ==
    /\ Is(r, {"SHIP"}, "begin")
    /\ IF Shipped(req[r].key) THEN Return(r, "OK")
       ELSE IF req[r].lines = <<>> THEN Return(r, "EMPTY_SHIPMENT")
       ELSE IF \E l \in ToSet(req[r].lines) : l.qty = 0 THEN Return(r, "INVALID_QUANTITY")
       ELSE Goto(r, "header") /\ UNCHANGED <<held, tx>>

BeginReceive(r) ==
    /\ Is(r, {"RECEIVE"}, "begin")
    /\ IF Received(req[r].key) THEN Return(r, "OK")
       ELSE IF req[r].lines = <<>> THEN Return(r, "EMPTY_RECEIPT")
       ELSE IF \E i \in ToSet(req[r].lines) : i.good + i.damaged + i.short = 0 THEN Return(r, "INVALID_QUANTITY")
       ELSE Goto(r, "header") /\ UNCHANGED <<held, tx>>

(* Every input line for itself.                                            *)
OverShipped(q) == \E s \in ToSet(q.lines) : s.qty > Wanted[s.line]

(* by_line: the input lines of one transfer line together.                 *)
Of(q, l, f(_)) == SumSeq(LAMBDA i : IF i.line = l THEN f(i) ELSE 0, q.lines)
Good(i) == i.good
Damaged(i) == i.damaged
Short(i) == i.short
All(i) == i.good + i.damaged + i.short
Accounted(row) == row.received + row.damaged + row.short

OverReceived(q) ==
    \E l \in {i.line : i \in ToSet(q.lines)} : Of(q, l, All) > line[l].shipped - Accounted(line[l])

Foreign(q) == \E i \in ToSet(q.lines) : LineTransfer[i.line] # q.transfer

(* Variant: the header is read without FOR UPDATE.                         *)
LockTransfer_no_lock(r) ==
    /\ Is(r, {"SHIP", "RECEIVE"}, "header")
    /\ LET q == req[r] IN
       IF transfer[q.transfer].status # (IF q.kind = "SHIP" THEN "DRAFT" ELSE "SHIPPED") THEN Return(r, "INVALID_TRANSFER_STATE")
       ELSE IF Foreign(q) THEN Return(r, "NOT_FOUND")
       ELSE IF q.kind = "RECEIVE" /\ OverReceived(q) THEN Return(r, "OVER_RECEIPT")
       ELSE /\ tx' = [tx EXCEPT ![r] = [tx[r] EXCEPT !.lines = line]]
            /\ Goto(r, "products") /\ UNCHANGED held

(* SELECT ... FOR UPDATE of the header, and what is checked under it.      *)
LockTransfer(r) ==
    /\ Is(r, {"SHIP", "RECEIVE"}, "header")
    /\ LET q == req[r]
           t == q.transfer
       IN  /\ Free(<<"transfer", t>>, r)
           /\ IF transfer[t].status = "NONE" THEN Return(r, "NOT_FOUND")
              ELSE IF ~q.access THEN Return(r, "STORE_ACCESS_DENIED")
              ELSE IF q.kind = "SHIP" /\ transfer[t].key = q.key THEN Return(r, "OK")
              ELSE IF q.kind = "RECEIVE" /\ Received(q.key) THEN Return(r, "OK")
              ELSE IF transfer[t].status # (IF q.kind = "SHIP" THEN "DRAFT" ELSE "SHIPPED")
              THEN Return(r, "INVALID_TRANSFER_STATE")
              ELSE IF Foreign(q) THEN Return(r, "NOT_FOUND")
              ELSE IF q.kind = "SHIP" /\ OverShipped(q) THEN Return(r, "OVER_SHIPMENT")
              ELSE IF q.kind = "RECEIVE" /\ OverReceived(q) THEN Return(r, "OVER_RECEIPT")
              ELSE /\ Take(<<"transfer", t>>, r)
                   /\ tx' = [tx EXCEPT ![r] = [tx[r] EXCEPT !.lines = line]]
                   /\ Goto(r, "products")

ProductsOf(q) == {IF q.kind = "SHIP" THEN Source[i.line] ELSE Destination[i.line] : i \in ToSet(q.lines)}

(* Variant: the products are locked in the order of the body.              *)
NextProduct_named(q, left) ==
    LET of(i) == IF q.kind = "SHIP" THEN Source[i.line] ELSE Destination[i.line]
        n == CHOOSE n \in DOMAIN q.lines : of(q.lines[n]) \in left /\ \A m \in 1 .. n - 1 : of(q.lines[m]) \notin left
    IN  of(q.lines[n])
(* sorted(distinct product ids).                                           *)
NextProduct(q, left) == Smallest(left)
Left(r) == {p \in ProductsOf(req[r]) : <<"product", p>> \notin held[r]}

LockProduct(r) ==
    /\ Is(r, {"SHIP", "RECEIVE"}, "products")
    /\ LET p == NextProduct(req[r], Left(r)) IN
       /\ Free(<<"product", p>>, r) /\ Free(<<"share", p>>, r)
       /\ Take(<<"product", p>>, r)
       /\ tx' = [tx EXCEPT ![r] = [tx[r] EXCEPT !.qty = [@ EXCEPT ![p] = qty[p]], !.cost = [@ EXCEPT ![p] = cost[p]]]]
       /\ Goto(r, IF Left(r) = {p} THEN "write" ELSE "products")

(* record_movement on the products as the session loaded them; its flush   *)
(* meets CHECK (current_cost >= 0) of products.                            *)
Move(s, p, delta, newCost) ==
    [qty |-> [s.qty EXCEPT ![p] = @ + delta], cost |-> [s.cost EXCEPT ![p] = newCost],
     refused |-> s.refused \/ newCost < 0,
     ledger |-> [s.ledger EXCEPT ![p] = Append(@, [delta |-> delta, result |-> s.qty[p] + delta])]]
Loaded(r) ==
    LET own == ProductsOf(req[r]) IN
    [qty    |-> [p \in Products |-> IF p \in own THEN tx[r].qty[p] ELSE qty[p]],
     cost   |-> [p \in Products |-> IF p \in own THEN tx[r].cost[p] ELSE cost[p]],
     refused |-> FALSE, ledger |-> ledger]
SetStock(s) == qty' = s.qty /\ cost' = s.cost /\ ledger' = s.ledger

(* Each input line moves its quantity and overwrites shipped_quantity.     *)
ShipLines(r) ==
    FoldLeft(LAMBDA s, i : Move(s, Source[i.line], -i.qty, s.cost[Source[i.line]]), Loaded(r), req[r].lines)
ShippedOf(q, l) == LET n == CHOOSE n \in DOMAIN q.lines : q.lines[n].line = l /\ \A m \in n + 1 .. Len(q.lines) : q.lines[m].line # l
                   IN  q.lines[n].qty

Insufficient(q, stock) == \E p \in ProductsOf(q) \ AllowNegative : stock.qty[p] < 0

WriteShip(r) ==
    /\ Is(r, {"SHIP"}, "write")
    /\ LET q     == req[r]
           stock == ShipLines(r)
           named == {i.line : i \in ToSet(q.lines)}
           value == SumSeq(LAMBDA i : Value(i.qty, tx[r].cost[Source[i.line]]), q.lines)
       IN IF Shipped(q.key) THEN Return(r, "OK")
          ELSE IF Insufficient(q, stock) THEN Return(r, "INSUFFICIENT_STOCK")
          ELSE IF value > 0 /\ ~q.open THEN Return(r, "PERIOD_CLOSED")
          ELSE /\ transfer' = [transfer EXCEPT ![q.transfer] = [status |-> "SHIPPED", key |-> q.key]]
               /\ line' = [l \in Lines |-> IF l \notin named THEN line[l]
                               ELSE [tx[r].lines[l] EXCEPT !.shipped = ShippedOf(q, l), !.cost = tx[r].cost[Source[l]]]]
               /\ SetStock(stock)
               /\ entries' = entries \cup Entry("SHIP", q.transfer, FromStore[q.transfer], "IN_TRANSIT", "INVENTORY", value)
               /\ Finish(r, "OK") /\ UNCHANGED <<receipts, disc, writeOff, decisions, rules, load>>

(* compute_new_wac with the cost frozen at shipment; only good units move. *)
ReceiveLines(r) ==
    FoldLeft(LAMBDA s, i :
        LET p == Destination[i.line] IN
        IF i.good = 0 THEN s
        ELSE Move(s, p, i.good, compute_new_wac(s.qty[p], s.cost[p], i.good, tx[r].lines[i.line].cost)),
        Loaded(r), req[r].lines)

(* create_discrepancy_for_receipt_item of every item with a loss.          *)
NewDiscrepancies(r) ==
    [d \in {<<r, n>> : n \in {k \in DOMAIN req[r].lines : req[r].lines[k].damaged + req[r].lines[k].short > 0}} |->
        LET i == req[r].lines[d[2]] IN
        [line |-> i.line, lost |-> i.damaged + i.short, cost |-> tx[r].lines[i.line].cost, status |-> "RECORDED",
         finding |-> NoOne]]

(* The UPDATE of the lines waits for a write-off that holds one.           *)
WriteReceipt(r) ==
    /\ Is(r, {"RECEIVE"}, "write")
    /\ LET q     == req[r]
           named == {i.line : i \in ToSet(q.lines)}
           value == SumSeq(LAMBDA i : Value(i.good, tx[r].lines[i.line].cost), q.lines)
           stock == ReceiveLines(r)
           new   == NewDiscrepancies(r)
       IN IF Received(q.key) THEN Return(r, "OK")
          ELSE IF stock.refused THEN Return(r, "FAILED")
          ELSE IF value > 0 /\ ~q.open THEN Return(r, "PERIOD_CLOSED")
          ELSE /\ \A l \in named : Free(<<"line", l>>, r)
               /\ receipts' = receipts \cup {[id |-> r, key |-> q.key, transfer |-> q.transfer, items |-> q.lines]}
               /\ disc' = [d \in DOMAIN disc \cup DOMAIN new |-> IF d \in DOMAIN new THEN new[d] ELSE disc[d]]
               /\ line' = [l \in Lines |-> IF l \notin named THEN line[l]
                              ELSE [line[l] EXCEPT !.received = tx[r].lines[l].received + Of(q, l, Good),
                                                   !.damaged = tx[r].lines[l].damaged + Of(q, l, Damaged),
                                                   !.short = tx[r].lines[l].short + Of(q, l, Short)]]
               /\ SetStock(stock)
               /\ entries' = entries \cup Entry("RECEIVE", r, NoOne, "INVENTORY", "IN_TRANSIT", value)
               /\ Finish(r, "OK") /\ UNCHANGED <<transfer, writeOff, decisions, rules, load>>

-----------------------------------------------------------------------------
(* investigate_discrepancy and resolve_discrepancy: lock, check, commit.   *)

SetDisc(d, status, finding) == disc' = [disc EXCEPT ![d] = [disc[d] EXCEPT !.status = status, !.finding = finding]]

MoveDiscrepancy(r) ==
    /\ Is(r, {"INVESTIGATE", "RESOLVE"}, "begin")
    /\ LET q == req[r] IN
       /\ Free(<<"disc", q.disc>>, r)
       /\ IF q.disc \notin DOMAIN disc THEN Return(r, "NOT_FOUND")
          ELSE IF ~q.access THEN Return(r, "STORE_ACCESS_DENIED")
          ELSE IF disc[q.disc].status # (IF q.kind = "INVESTIGATE" THEN "RECORDED" ELSE "INVESTIGATING")
          THEN Return(r, "INVALID_DISCREPANCY_STATE")
          ELSE /\ IF q.kind = "INVESTIGATE" THEN SetDisc(q.disc, "INVESTIGATING", NoOne)
                  ELSE SetDisc(q.disc, "RESOLVED", q.finding)
               /\ Finish(r, "OK")
               /\ UNCHANGED <<transfer, line, receipts, writeOff, decisions, rules, qty, cost, ledger, entries, load>>

-----------------------------------------------------------------------------
(* create_write_off and the policy that says who decides.                  *)

Covers(rule, store, amount) ==
    rule.min <= amount /\ (rule.max = NoOne \/ rule.max > amount) /\ rule.scope \in {NoOne, store}

(* _resolve_required_role: the store's own rule first, then the highest    *)
(* minimum; the administrator where no rule covers the amount.             *)
RequiredRole(store, amount) ==
    LET fit == {u \in rules : Covers(u, store, amount)}
        own == IF \E u \in fit : u.scope = store THEN {u \in fit : u.scope = store} ELSE fit
    IN  IF fit = {} THEN {"ADMIN"}
        ELSE {u.role : u \in {v \in own : \A w \in own : w.min <= v.min}}

WriteOffsOf(d, statuses) == {w \in DOMAIN writeOff : writeOff[w].disc = d /\ writeOff[w].status \in statuses}
Remaining(d) == disc[d].lost - Sum(LAMBDA w : writeOff[w].qty, WriteOffsOf(d, {"POSTED"}))
Requested(k) == \E w \in DOMAIN writeOff : writeOff[w].key = k

BeginWriteOff(r) ==
    /\ Is(r, {"WRITEOFF"}, "begin")
    /\ IF Requested(req[r].key) THEN Return(r, "OK")
       ELSE IF req[r].qty = 0 THEN Return(r, "INVALID_QUANTITY")
       ELSE Goto(r, "discrepancy") /\ UNCHANGED <<held, tx>>

(* SELECT ... FOR UPDATE of the discrepancy and what is checked under it.  *)
RequestWriteOff(r) ==
    /\ Is(r, {"WRITEOFF"}, "discrepancy")
    /\ LET q == req[r]
           d == q.disc
       IN  /\ Free(<<"disc", d>>, r)
           /\ IF d \notin DOMAIN disc THEN Return(r, "NOT_FOUND")
              ELSE IF ~q.access THEN Return(r, "STORE_ACCESS_DENIED")
              ELSE IF Requested(q.key) THEN Return(r, "OK")
              ELSE IF disc[d].status # "RESOLVED" THEN Return(r, "DISCREPANCY_NOT_RESOLVED")
              ELSE IF disc[d].finding = "VENDOR_CAUSED" THEN Return(r, "VENDOR_CAUSED_NOT_ELIGIBLE")
              ELSE IF WriteOffsOf(d, {"PENDING_APPROVAL"}) # {} THEN Return(r, "DUPLICATE_PENDING_WRITE_OFF")
              ELSE IF q.qty > Remaining(d) THEN Return(r, "QUANTITY_EXCEEDS_REMAINING_DISCREPANCY")
              ELSE \E role \in RequiredRole(FromStore[LineTransfer[disc[d].line]], Value(q.qty, disc[d].cost)) :
                    /\ Take(<<"disc", d>>, r)
                    /\ tx' = [tx EXCEPT ![r] = [tx[r] EXCEPT !.role = role]]
                    /\ Goto(r, "insert")

(* The row refers to the transfer and the line and waits for both.         *)
InsertWriteOff(r) ==
    /\ Is(r, {"WRITEOFF"}, "insert")
    /\ LET q == req[r]
           d == disc[q.disc]
       IN IF Requested(q.key) THEN Return(r, "OK")
          ELSE /\ Free(<<"transfer", LineTransfer[d.line]>>, r) /\ Free(<<"line", d.line>>, r)
               /\ writeOff' = With(writeOff, r,
                     [disc |-> q.disc, qty |-> q.qty, amount |-> Value(q.qty, d.cost), role |-> tx[r].role, by |-> q.by,
                      key |-> q.key, status |-> "PENDING_APPROVAL"])
               /\ Finish(r, "OK")
               /\ UNCHANGED <<transfer, line, receipts, disc, decisions, rules, qty, cost, ledger, entries, load>>

(* create_approval_policy_rule.                                            *)
AddRule(r) ==
    /\ Is(r, {"RULE"}, "begin")
    /\ rules' = rules \cup {req[r].rule}
    /\ Finish(r, "OK")
    /\ UNCHANGED <<transfer, line, receipts, disc, writeOff, decisions, qty, cost, ledger, entries, load>>

-----------------------------------------------------------------------------
(* approve_write_off, deny_write_off and reverse_write_off.                *)

Decided(w) == \E d \in decisions : d.writeOff = w

BeginDecide(r) ==
    /\ Is(r, {"APPROVE", "DENY", "REVERSE"}, "begin")
    /\ IF req[r].kind # "REVERSE" /\ Decided(req[r].id) THEN Return(r, "OK")
       ELSE IF req[r].kind = "REVERSE" /\ RoleOf[req[r].by] # "ADMIN" THEN Return(r, "REVERSAL_REQUIRES_ADMIN")
       ELSE Goto(r, "writeoff") /\ UNCHANGED <<held, tx>>

(* _check_approval_authority.                                              *)
MayDecide(u, w) == u # writeOff[w].by /\ RoleOf[u] \in {"ADMIN", writeOff[w].role}

(* Variant: no FOR UPDATE, and the decision is not looked up again.        *)
LockWriteOff_no_lock(r) ==
    /\ Is(r, {"APPROVE", "DENY", "REVERSE"}, "writeoff")
    /\ LET q == req[r] IN
       IF q.id \notin DOMAIN writeOff THEN Return(r, "NOT_FOUND")
       ELSE IF writeOff[q.id].status # (IF q.kind = "REVERSE" THEN "POSTED" ELSE "PENDING_APPROVAL")
       THEN Return(r, "INVALID_WRITE_OFF_STATE")
       ELSE Goto(r, IF q.kind = "REVERSE" THEN "line" ELSE "discrepancy") /\ UNCHANGED <<held, tx>>

LockWriteOff(r) ==
    /\ Is(r, {"APPROVE", "DENY", "REVERSE"}, "writeoff")
    /\ LET q == req[r]
           w == q.id
       IN  /\ Free(<<"writeoff", w>>, r)
           /\ IF w \notin DOMAIN writeOff THEN Return(r, "NOT_FOUND")
              ELSE IF q.kind # "REVERSE" /\ Decided(w) THEN Return(r, "OK")
              ELSE IF q.kind = "REVERSE" /\ writeOff[w].status = "REVERSED" THEN Return(r, "OK")
              ELSE IF writeOff[w].status # (IF q.kind = "REVERSE" THEN "POSTED" ELSE "PENDING_APPROVAL")
              THEN Return(r, "INVALID_WRITE_OFF_STATE")
              ELSE IF q.kind = "APPROVE" /\ ~MayDecide(q.by, w) THEN Return(r, "NO_APPROVAL_AUTHORITY")
              ELSE IF q.kind = "DENY" /\ ~MayDecide(q.by, w) THEN Return(r, "NO_APPROVAL_AUTHORITY")
              ELSE /\ Take(<<"writeoff", w>>, r)
                   /\ Goto(r, IF q.kind = "REVERSE" THEN "line" ELSE "discrepancy") /\ UNCHANGED tx

Decide(w, status) == writeOff' = [writeOff EXCEPT ![w] = [writeOff[w] EXCEPT !.status = status]]
Decision(r, what) == [writeOff |-> req[r].id, by |-> req[r].by, decision |-> what]

LockDiscrepancy(r) ==
    /\ Is(r, {"APPROVE"}, "discrepancy")
    /\ LET w == writeOff[req[r].id] IN
       /\ Free(<<"disc", w.disc>>, r)
       /\ IF w.qty > Remaining(w.disc) THEN Return(r, "QUANTITY_EXCEEDS_REMAINING_DISCREPANCY")
          ELSE Take(<<"disc", w.disc>>, r) /\ Goto(r, "line") /\ UNCHANGED tx

(* reopen_discrepancy_after_write_off_denial, in the denial's transaction. *)
DenyWriteOff(r) ==
    /\ Is(r, {"DENY"}, "discrepancy")
    /\ LET d == writeOff[req[r].id].disc IN
       /\ Free(<<"disc", d>>, r)
       /\ IF disc[d].status # "RESOLVED" THEN Return(r, "INVALID_DISCREPANCY_STATE")
          ELSE /\ Decide(req[r].id, "DENIED")
               /\ decisions' = decisions \cup {Decision(r, "DENIED")}
               /\ SetDisc(d, "INVESTIGATING", NoOne)
               /\ Finish(r, "OK")
               /\ UNCHANGED <<transfer, line, receipts, rules, qty, cost, ledger, entries, load>>

AddWrittenOff(l, n) == line' = [line EXCEPT ![l] = [line[l] EXCEPT !.writtenOff = @ + n]]

(* An amount that is not positive fails: a journal line has exactly one    *)
(* positive side.                                                          *)
ApproveWriteOff(r) ==
    /\ Is(r, {"APPROVE"}, "line")
    /\ LET w == writeOff[req[r].id]
           l == disc[w.disc].line
       IN  /\ Free(<<"line", l>>, r)
           /\ IF ~req[r].open THEN Return(r, "PERIOD_CLOSED")
              ELSE IF w.amount <= 0 THEN Return(r, "FAILED")
              ELSE /\ Decide(req[r].id, "POSTED")
                   /\ decisions' = decisions \cup {Decision(r, "APPROVED")}
                   /\ AddWrittenOff(l, w.qty)
                   /\ entries' = entries \cup Entry("WRITE_OFF", req[r].id, FromStore[LineTransfer[l]], "SHRINKAGE", "IN_TRANSIT", w.amount)
                   /\ Finish(r, "OK") /\ UNCHANGED <<transfer, receipts, disc, rules, qty, cost, ledger, load>>

(* Variant: written_off_quantity is left as it is.                         *)
ReverseWriteOff_kept(r) ==
    /\ Is(r, {"REVERSE"}, "line")
    /\ LET w == writeOff[req[r].id]
           l == disc[w.disc].line
       IN  /\ Free(<<"line", l>>, r)
           /\ Decide(req[r].id, "REVERSED")
           /\ entries' = entries \cup Entry("WRITE_OFF_REVERSAL", req[r].id, FromStore[LineTransfer[l]], "IN_TRANSIT", "SHRINKAGE", w.amount)
           /\ Finish(r, "OK") /\ UNCHANGED <<transfer, line, receipts, disc, decisions, rules, qty, cost, ledger, load>>

ReverseWriteOff(r) ==
    /\ Is(r, {"REVERSE"}, "line")
    /\ LET w == writeOff[req[r].id]
           l == disc[w.disc].line
       IN  /\ Free(<<"line", l>>, r)
           /\ IF ~req[r].open THEN Return(r, "PERIOD_CLOSED")
              ELSE /\ Decide(req[r].id, "REVERSED")
                   /\ AddWrittenOff(l, -w.qty)
                   /\ entries' = entries \cup Entry("WRITE_OFF_REVERSAL", req[r].id, FromStore[LineTransfer[l]], "IN_TRANSIT", "SHRINKAGE", w.amount)
                   /\ Finish(r, "OK") /\ UNCHANGED <<transfer, receipts, disc, decisions, rules, qty, cost, ledger, load>>

-----------------------------------------------------------------------------

(* A worker dies and its transaction is rolled back.                       *)
Fail(r) == pc[r] \notin {"new", "done"} /\ Return(r, "FAILED")

Step(r) ==
    \/ CreateTransfer(r) \/ ShareProduct(r)    \/ CommitTransfer(r)  \/ CancelTransfer(r)
    \/ BeginShip(r)      \/ BeginReceive(r)    \/ LockTransfer(r)    \/ LockProduct(r)
    \/ WriteShip(r)      \/ WriteReceipt(r)
    \/ MoveDiscrepancy(r)
    \/ BeginWriteOff(r)  \/ RequestWriteOff(r) \/ InsertWriteOff(r)  \/ AddRule(r)
    \/ BeginDecide(r)    \/ LockWriteOff(r)    \/ LockDiscrepancy(r)
    \/ DenyWriteOff(r)   \/ ApproveWriteOff(r) \/ ReverseWriteOff(r)

Next == \E r \in Requests : Submit(r) \/ Step(r) \/ Fail(r)

Spec == Init /\ [][Next]_vars

-----------------------------------------------------------------------------
(* Correctness.                                                            *)

(* The columns and CHECKs of the transfer tables; no shipment takes a      *)
(* product below zero unless the product allows it.                        *)
TypeOK ==
    /\ \A t \in Transfers : transfer[t].status \in TransferStatuses /\ transfer[t].key \in Keys \cup {NoOne}
    /\ line \in [Lines -> Row]
    /\ \A d \in DOMAIN disc : disc[d] \in Discrepancy
    /\ \A w \in DOMAIN writeOff : writeOff[w] \in WriteOff
    /\ qty \in [Products -> Int] /\ cost \in [Products -> Nat]
    /\ \A p \in Products \ AllowNegative : qty[p] >= 0

(* current_qty_on_hand is, in both stores, what the movements of shipments *)
(* and receipts lead to, row by row (record_movement).                     *)
QtyMatchesLedger == \A p \in Products : Chained(InitialQty[p], ledger[p], qty[p])

(* inventory_in_transit_reconciliation's two sides.                        *)
InTransit ==
    Sum(LAMBDA e : e.amount, {e \in entries : e.debit = "IN_TRANSIT"})
      - Sum(LAMBDA e : e.amount, {e \in entries : e.credit = "IN_TRANSIT"})
OutstandingOf(row) == row.shipped - row.received - row.writtenOff
OutstandingInTransit == Sum(LAMBDA l : Value(OutstandingOf(line[l]), line[l].cost), Lines)

(* "every unit shipped is eventually good, damaged, declared short, or     *)
(* still outstanding" (InterStoreTransferLine): whatever receipts raced,   *)
(* what the stores hold and what is under way is what there was.           *)
NothingLostInTransit ==
    Sum(LAMBDA p : qty[p], Products) + Sum(LAMBDA l : line[l].shipped - line[l].received, Lines)
        = Sum(LAMBDA p : InitialQty[p], Products)

(* A line's counters are its receipts' items together, no more than was    *)
(* shipped, which is no more than was requested.                           *)
ReceiptsAddUp ==
    \A l \in Lines :
        LET items(f(_)) == Sum(LAMBDA g : Of([lines |-> g.items], l, f), receipts)
        IN  /\ line[l].received = items(Good) /\ line[l].damaged = items(Damaged) /\ line[l].short = items(Short)
            /\ Accounted(line[l]) <= line[l].shipped /\ line[l].shipped <= Wanted[l]

(* The counters of a line add up: the received ones to its receipts,       *)
(* written_off_quantity to the posted write-offs, and those of one         *)
(* discrepancy never exceed what it says was lost.                         *)
WriteOffsAddUp ==
    /\ TypeOK /\ QtyMatchesLedger /\ ReceiptsAddUp
    /\ \A l \in Lines :
          line[l].writtenOff = Sum(LAMBDA w : writeOff[w].qty,
                                   {w \in DOMAIN writeOff : writeOff[w].status = "POSTED" /\ disc[writeOff[w].disc].line = l})
    /\ \A d \in DOMAIN disc : Remaining(d) >= 0

Roundings ==
    Cardinality(DOMAIN writeOff) + Sum(LAMBDA g : Len(g.items), receipts) + 2 * Cardinality({l \in Lines : line[l].shipped > 0})

(* The Inventory In Transit account explains itself: it differs from the   *)
(* value of the units under way by the roundings only, half a quantum for  *)
(* each amount rounded.                                                    *)
InTransitExplained ==
    LET drift == InTransit - OutstandingInTransit IN 2 * drift <= Roundings /\ -2 * drift <= Roundings

(* What waits for approval rests on a finished investigation: a denial     *)
(* never reopens a discrepancy under another pending request.              *)
PendingStaysResolved ==
    \A d \in DOMAIN disc :
        /\ Cardinality(WriteOffsOf(d, {"PENDING_APPROVAL"})) <= 1
        /\ WriteOffsOf(d, {"PENDING_APPROVAL"}) # {} => disc[d].status = "RESOLVED" /\ disc[d].finding # "VENDOR_CAUSED"

(* At most one decision per write-off, ever, by someone other than its     *)
(* initiator; the status and the books say what was decided, and what is   *)
(* not decided rests on a finished investigation.                          *)
DecidedOnce ==
    /\ PendingStaysResolved
    /\ \A a, b \in decisions : a.writeOff = b.writeOff => a = b
    /\ \A w \in DOMAIN writeOff :
          LET mine == {d \in decisions : d.writeOff = w}
              posted(source) == \E e \in entries : e.source = source /\ e.id = w
          IN  /\ \A d \in mine : d.by # writeOff[w].by
              /\ (writeOff[w].status = "PENDING_APPROVAL") = (mine = {})
              /\ posted("WRITE_OFF") = (writeOff[w].status \in {"POSTED", "REVERSED"})
              /\ posted("WRITE_OFF_REVERSAL") = (writeOff[w].status = "REVERSED")

(* Who a pending request is waiting for.                                   *)
Holders(row) == {o \in Requests : row \in held[o]}
WaitsFor(r) ==
    LET q == req[r] IN
    CASE pc[r] = "header" -> Holders(<<"transfer", q.transfer>>) \ {r}
      [] pc[r] = "keys" /\ Unshared(r) # {} -> Holders(<<"product", NextKey(r)>>) \ {r}
      [] pc[r] = "products" -> (Holders(<<"product", NextProduct(q, Left(r))>>) \cup Holders(<<"share", NextProduct(q, Left(r))>>)) \ {r}
      [] pc[r] = "write" /\ q.kind = "RECEIVE" -> UNION {Holders(<<"line", i.line>>) : i \in ToSet(q.lines)} \ {r}
      [] pc[r] = "discrepancy" -> Holders(<<"disc", IF q.kind = "WRITEOFF" THEN q.disc ELSE writeOff[q.id].disc>>) \ {r}
      [] pc[r] = "insert" -> (Holders(<<"line", disc[q.disc].line>>) \cup Holders(<<"transfer", LineTransfer[disc[q.disc].line]>>)) \ {r}
      [] pc[r] = "writeoff" -> Holders(<<"writeoff", q.id>>) \ {r}
      [] pc[r] = "line" -> Holders(<<"line", disc[writeOff[q.id].disc].line>>) \ {r}
      [] OTHER -> {}

(* The "deadlock-safe pattern" of ship_transfer, over shipments, receipts  *)
(* and write-offs together: of the sessions that lock in it, some session  *)
(* of any set waits for none of it.  create_transfer does not: its foreign *)
(* keys take products in the order of the body, and can close a circle.    *)
Creating == {r \in Requests : pc[r] = "keys"}
NoCircularWait == \A S \in (SUBSET (Requests \ Creating)) \ {{}} : \E r \in S : WaitsFor(r) \cap S = {}
=============================================================================
