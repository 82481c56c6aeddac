------------------------------ MODULE StockRoom ------------------------------
(***************************************************************************)
(* Manual stock adjustments (create_stock_adjustment and its endpoint) and *)
(* the life of physical stock counts (create_stock_count to                *)
(* post_stock_count and cancel_stock_count), beside the sales, receipts    *)
(* and returns that move the same products.                                *)
(*                                                                         *)
(* A worker serves one request after another, each in a database session   *)
(* of its own under READ COMMITTED.  The statements of a request that only *)
(* touches the count's header row, which it locks first, are one step; a   *)
(* request that goes on to lock products takes a step per row.  An         *)
(* inserted row that names a product takes FOR KEY SHARE on the product's  *)
(* row, which a FOR UPDATE of another session must wait for.               *)
(***************************************************************************)
EXTENDS MoneyMath, StockLedger, SequencesExt, FiniteSets, FiniteSetsExt

CONSTANTS
    Workers,
    Counts,            \* the stock counts that may be created
    Products,          \* product ids, integers: rows are locked in ascending id order
    AllowNegative,     \* the products with allow_negative_stock set
    InitialQty,        \* [Products -> Int]
    Cost,              \* [Products -> Nat], current_cost
    QtyScale,          \* quantities count 1/QtyScale units
    Keys,              \* client_transaction_ids of adjustments
    Workloads,         \* [sent, scope, counts, others, adjustments], see Workload
    NoOne              \* SQL NULL, or nobody

VARIABLES
    qty,           \* products.current_qty_on_hand
    ledger,        \* inventory_movements since the start
    adjustments,   \* stock_adjustments
    entries,       \* the STOCK_ADJUSTMENT journal entries
    count,         \* stock_counts with their lines
    touched,       \* history: the ledger's length when a line's snapshot was taken
    periodOpen,    \* the accounting period of today's date is open
    load,          \* the workload, chosen at the start
    headerLock, productLock,   \* FOR UPDATE holders
    keyShare,      \* FOR KEY SHARE holders of a product's row
    pc, req, tx, answer

stock   == <<qty, ledger, adjustments, entries>>
tables  == <<stock, count, touched, periodOpen, load>>
locks   == <<headerLock, productLock, keyShare>>
session == <<pc, req, tx, answer>>
vars    == <<tables, locks, session>>

Statuses == {"NONE", "DRAFT", "OPEN", "COUNTED", "REVIEWED", "POSTED", "CANCELLED"}

(* A header with the expected_quantity and counted_quantity of its lines.  *)
(* expected_unit_cost, which nothing reads, is left out.                   *)
StockCount ==
    [status : Statuses, expected : [Products -> Nat \cup {NoOne}], counted : [Products -> Nat \cup {NoOne}]]

HeaderKinds == {"OPEN", "ENTER", "MARK", "REVIEW", "REOPEN", "POST", "CANCEL"}

(* inStore says whether the caller's account covers the store.             *)
Submission ==
    [kind : {"ADJUST"}, product : Products, delta : Int \ {0}, key : Keys \cup {NoOne}, inStore : BOOLEAN]
      \cup [kind : {"CREATE"} \cup (HeaderKinds \ {"ENTER"}), count : Counts, inStore : BOOLEAN]
      \cup [kind : {"ENTER"}, count : Counts, product : Products, qty : Nat, inStore : BOOLEAN]

(* What happens: the requests workers may receive, each count's products   *)
(* (resolved from category and product list) and state at the start, and   *)
(* bounds on a product's movements by sales, receipts and returns and on   *)
(* committed adjustments.                                                  *)
Workload == [sent : SUBSET Submission, scope : [Counts -> SUBSET Products], counts : [Counts -> StockCount],
             others : Nat, adjustments : Nat]

ASSUME StockRoomAssumption ==
    /\ Products \subseteq Int /\ AllowNegative \subseteq Products
    /\ InitialQty \in [Products -> Int] /\ Cost \in [Products -> Nat]
    /\ QtyScale \in Nat \ {0}
    /\ IsFiniteSet(Workers) /\ IsFiniteSet(Products)
    /\ \A w \in Workloads : w \in Workload
    /\ \A w \in Workloads, c \in Counts :     \* a count under way has been opened, and none is posted yet
          /\ w.counts[c].status # "POSTED"
          /\ w.counts[c].status \in {"OPEN", "COUNTED", "REVIEWED"} =>
                \A p \in w.scope[c] : w.counts[c].expected[p] = InitialQty[p]
    /\ NoOne \notin Workers \cup Keys \cup Int \cup Counts \cup {"STOCK_COUNT_DRIFT_DETECTED"}

EmptyTx == [held |-> {}, qty |-> [p \in Products |-> 0]]

Init ==
    /\ load \in Workloads
    /\ qty = InitialQty
    /\ ledger = [p \in Products |-> <<>>]
    /\ adjustments = {} /\ entries = {}
    /\ count = load.counts
    /\ touched = [c \in Counts |-> [p \in Products |-> 0]]
    /\ periodOpen = TRUE
    /\ headerLock = [c \in Counts |-> NoOne]
    /\ productLock = [p \in Products |-> NoOne]
    /\ keyShare = [p \in Products |-> {}]
    /\ pc = [w \in Workers |-> "idle"]
    /\ req = [w \in Workers |-> NoOne]
    /\ tx = [w \in Workers |-> EmptyTx]
    /\ answer = [w \in Workers |-> NoOne]

-----------------------------------------------------------------------------
(* How a request starts and ends.                                          *)

Free(lock, w) == [x \in DOMAIN lock |-> IF lock[x] = w THEN NoOne ELSE lock[x]]

Finish(w, code) ==
    /\ pc' = [pc EXCEPT ![w] = "idle"]
    /\ req' = [req EXCEPT ![w] = NoOne]
    /\ answer' = [answer EXCEPT ![w] = code]
    /\ tx' = [tx EXCEPT ![w] = EmptyTx]
    /\ headerLock' = Free(headerLock, w)
    /\ productLock' = Free(productLock, w)
    /\ keyShare' = [p \in Products |-> keyShare[p] \ {w}]

Return(w, code) == Finish(w, code) /\ UNCHANGED tables
Goto(w, label)  == pc' = [pc EXCEPT ![w] = label] /\ UNCHANGED <<req, answer>>

(* A count is created by one request: every other would create another one. *)
MayArrive(q) ==
    q.kind = "CREATE" => /\ count[q.count].status = "NONE"
                         /\ \A o \in Workers : pc[o] = "begin" => req[o] # q

Submit(w) ==
    /\ pc[w] = "idle"
    /\ \E q \in load.sent : MayArrive(q) /\ req' = [req EXCEPT ![w] = q]
    /\ pc' = [pc EXCEPT ![w] = "begin"]
    /\ answer' = [answer EXCEPT ![w] = NoOne]
    /\ UNCHANGED <<tx, tables, locks>>

Is(w, kinds, label) == pc[w] = label /\ req[w].kind \in kinds

(* SELECT ... FOR UPDATE of a product's row gets the lock.                 *)
MayLock(w, p) == productLock[p] = NoOne /\ keyShare[p] \subseteq {w}

-----------------------------------------------------------------------------
(* create_stock_adjustment.                                                *)

(* Rows recorded so far, so that ids are never reused.                     *)
NewId == Cardinality(adjustments) + 1

AdjustmentsWithKey(k) == {a \in adjustments : a.key # NoOne /\ a.key = k}

(* The endpoint loads the Product into the session (get_stock_level) to    *)
(* learn its store; then the idempotency fast path.                        *)
BeginAdjust(w) ==
    /\ Is(w, {"ADJUST"}, "begin")
    /\ LET q == req[w] IN
       IF ~q.inStore THEN Return(w, "STORE_ACCESS_DENIED")
       ELSE IF AdjustmentsWithKey(q.key) # {} THEN Return(w, "OK")
       ELSE /\ tx' = [tx EXCEPT ![w] = [tx[w] EXCEPT !.qty = [tx[w].qty EXCEPT ![q.product] = qty[q.product]]]]
            /\ Goto(w, "insert") /\ UNCHANGED <<tables, locks>>

(* The unique index on stock_adjustments.client_transaction_id.            *)
KeyTaken(w) == AdjustmentsWithKey(req[w].key) # {}
KeyInFlight(w) ==
    \E o \in Workers \ {w} : /\ req[w].key # NoOne
                             /\ Is(o, {"ADJUST"}, "lock") \/ Is(o, {"ADJUST"}, "commit")
                             /\ req[o].key = req[w].key

(* INSERT INTO stock_adjustments: waits for a row with the same key, then  *)
(* for the KEY SHARE of its product.  After IntegrityError and rollback    *)
(* the row that holds the key is returned.                                 *)
InsertAdjustment(w) ==
    /\ Is(w, {"ADJUST"}, "insert")
    /\ ~KeyInFlight(w)
    /\ IF KeyTaken(w) THEN Return(w, "OK")
       ELSE /\ productLock[req[w].product] = NoOne
            /\ keyShare' = [keyShare EXCEPT ![req[w].product] = @ \cup {w}]
            /\ Goto(w, "lock") /\ UNCHANGED <<tx, tables, headerLock, productLock>>

(* lock_product_for_update.  The Product is in the session already, so the *)
(* row that comes back does not overwrite its loaded attributes.           *)
LockAdjusted(w) ==
    /\ Is(w, {"ADJUST"}, "lock")
    /\ MayLock(w, req[w].product)
    /\ productLock' = [productLock EXCEPT ![req[w].product] = w]
    /\ Goto(w, "commit") /\ UNCHANGED <<tx, tables, headerLock, keyShare>>

(* post_stock_adjustment_journal posts nothing for a zero amount.          *)
Magnitude(n) == IF n >= 0 THEN n ELSE -n
Amount(p, delta) == RoundHalfUp(Magnitude(delta) * Cost[p], QtyScale)
EntryOf(a) == [adjustment |-> a.id, amount |-> Amount(a.product, a.delta),
               debit |-> IF a.delta > 0 THEN "INVENTORY" ELSE "SHRINKAGE"]

(* Variant: in a closed period the entry is skipped.                       *)
Post_open_only(new) == {EntryOf(a) : a \in {b \in new : periodOpen /\ Amount(b.product, b.delta) > 0}}

(* The journal entries of new adjustments.                                 *)
Post(new) == {EntryOf(a) : a \in {b \in new : Amount(b.product, b.delta) > 0}}

(* new rows, one product each, are recorded on top of on_hand.             *)
Record(new, on_hand) ==
    LET ofProduct(p) == {a \in new : a.product = p}
        After(p)     == on_hand[p] + (CHOOSE a \in ofProduct(p) : TRUE).delta
    IN  /\ adjustments' = adjustments \cup new
        /\ entries' = entries \cup Post(new)
        /\ qty' = [p \in Products |-> IF ofProduct(p) = {} THEN qty[p] ELSE After(p)]
        /\ ledger' = [p \in Products |->
                        ledger[p] \o SetToSeq({[delta |-> a.delta, result |-> After(p), ref |-> a.id] :
                                               a \in ofProduct(p)})]

Blocked(new) == ~periodOpen /\ Post(new) # {}

(* record_movement, the journal entry and the endpoint's commit.           *)
CommitAdjustment(w) ==
    /\ Is(w, {"ADJUST"}, "commit")
    /\ LET q   == req[w]
           new == {[id |-> NewId, product |-> q.product, delta |-> q.delta, key |-> q.key, count |-> NoOne]}
       IN  IF tx[w].qty[q.product] + q.delta < 0 /\ q.product \notin AllowNegative
           THEN Return(w, "INSUFFICIENT_STOCK")
           ELSE IF Blocked(new) THEN Return(w, "PERIOD_CLOSED")
           ELSE /\ Cardinality(adjustments) < load.adjustments
                /\ Record(new, tx[w].qty)
                /\ Finish(w, "OK") /\ UNCHANGED <<count, touched, periodOpen, load>>

-----------------------------------------------------------------------------
(* Stock counts.                                                           *)

SetStatus(c, s) == count' = [count EXCEPT ![c] = [count[c] EXCEPT !.status = s]]
OnlyCounts == UNCHANGED <<stock, periodOpen, load>>

(* The lines are inserted with the header: their products' rows must not   *)
(* be locked by another session.                                           *)
CreateCount(w) ==
    /\ Is(w, {"CREATE"}, "begin")
    /\ LET c == req[w].count IN
       IF ~req[w].inStore THEN Return(w, "STORE_ACCESS_DENIED")
       ELSE IF load.scope[c] = {} THEN Return(w, "EMPTY_STOCK_COUNT_SCOPE")
       ELSE /\ \A p \in load.scope[c] : productLock[p] = NoOne
            /\ SetStatus(c, "DRAFT")
            /\ Finish(w, "OK") /\ OnlyCounts /\ UNCHANGED touched

(* The statuses in which each request is accepted ...                      *)
Cancellable == {"DRAFT", "OPEN", "COUNTED", "REVIEWED"}

Accepted ==
    [OPEN |-> {"DRAFT"}, ENTER |-> {"OPEN", "COUNTED"}, MARK |-> {"OPEN"}, REVIEW |-> {"COUNTED"},
     REOPEN |-> {"REVIEWED"}, POST |-> {"REVIEWED"}, CANCEL |-> Cancellable]

(* ... and those in which it is answered as done already.                  *)
AlreadyDone ==
    [OPEN |-> {"OPEN"}, ENTER |-> {}, MARK |-> {"COUNTED"}, REVIEW |-> {"REVIEWED"},
     REOPEN |-> {}, POST |-> {"POSTED"}, CANCEL |-> {"CANCELLED"}]

CountedLines(c) == {p \in load.scope[c] : count[c].counted[p] # NoOne}

(* The products a request locks once it holds the header.                  *)
ToLock(q) ==
    CASE q.kind = "OPEN"  -> load.scope[q.count]
      [] q.kind = "POST"  -> CountedLines(q.count)
      [] q.kind = "ENTER" -> {q.product} \cap CountedLines(q.count)
      [] OTHER            -> {}

(* The header's FOR UPDATE and the checks under it.                        *)
LockHeader(w) ==
    /\ Is(w, HeaderKinds, "begin")
    /\ LET q == req[w]
           s == count[q.count].status
       IN  /\ headerLock[q.count] = NoOne
           /\ IF s = "NONE" THEN Return(w, "NOT_FOUND")
              ELSE IF ~q.inStore THEN Return(w, "STORE_ACCESS_DENIED")
              ELSE IF s \in AlreadyDone[q.kind] THEN Return(w, "OK")
              ELSE IF s \notin Accepted[q.kind] THEN Return(w, "INVALID_STOCK_COUNT_STATE")
              ELSE IF q.kind = "ENTER" /\ q.product \notin load.scope[q.count] THEN Return(w, "NOT_FOUND")
              ELSE IF q.kind = "POST" /\ CountedLines(q.count) = {} THEN Return(w, "EMPTY_STOCK_COUNT_POSTING")
              ELSE /\ headerLock' = [headerLock EXCEPT ![q.count] = w]
                   /\ Goto(w, "products") /\ UNCHANGED <<tx, tables, productLock, keyShare>>

(* Variant: the product is read with a plain SELECT.                       *)
LockProduct_no_lock(w) ==
    /\ Is(w, HeaderKinds, "products")
    /\ \E p \in ToLock(req[w]) \ tx[w].held :
          tx' = [tx EXCEPT ![w] = [held |-> tx[w].held \cup {p}, qty |-> [tx[w].qty EXCEPT ![p] = qty[p]]]]
    /\ UNCHANGED <<pc, req, answer, tables, locks>>

(* Variant: the rows are locked in no particular order.                    *)
LockProduct_any_order(w) ==
    /\ Is(w, HeaderKinds, "products")
    /\ \E p \in ToLock(req[w]) \ tx[w].held :
          /\ MayLock(w, p)
          /\ productLock' = [productLock EXCEPT ![p] = w]
          /\ tx' = [tx EXCEPT ![w] = [held |-> tx[w].held \cup {p}, qty |-> [tx[w].qty EXCEPT ![p] = qty[p]]]]
    /\ UNCHANGED <<pc, req, answer, tables, headerLock, keyShare>>

(* The next product row, lowest id first; it is loaded under its lock.     *)
LockProduct(w) ==
    /\ Is(w, HeaderKinds, "products")
    /\ LET left == ToLock(req[w]) \ tx[w].held
           p    == CHOOSE m \in left : \A o \in left : m <= o
       IN  /\ left # {}
           /\ MayLock(w, p)
           /\ productLock' = [productLock EXCEPT ![p] = w]
           /\ tx' = [tx EXCEPT ![w] = [held |-> tx[w].held \cup {p}, qty |-> [tx[w].qty EXCEPT ![p] = qty[p]]]]
    /\ UNCHANGED <<pc, req, answer, tables, headerLock, keyShare>>

AllLocked(w) == Is(w, HeaderKinds, "products") /\ ToLock(req[w]) = tx[w].held

(* expected_quantity := current_qty_on_hand for the locked products, which *)
(* CHECK (expected_quantity >= 0) may refuse.                              *)
Snapshot(w, c) ==
    /\ \A p \in tx[w].held : tx[w].qty[p] >= 0
    /\ touched' = [touched EXCEPT ![c] = [p \in Products |->
                      IF p \in tx[w].held THEN Len(ledger[p]) ELSE touched[c][p]]]
Expected(w, c) == [p \in Products |-> IF p \in tx[w].held THEN tx[w].qty[p] ELSE count[c].expected[p]]

RefuseNegative(w) ==
    /\ AllLocked(w) /\ req[w].kind \in {"OPEN", "ENTER"}
    /\ \E p \in tx[w].held : tx[w].qty[p] < 0
    /\ Return(w, "INTEGRITY_ERROR")

OpenCount(w) ==
    /\ AllLocked(w) /\ req[w].kind = "OPEN"
    /\ LET c == req[w].count IN
       /\ Snapshot(w, c)
       /\ count' = [count EXCEPT ![c] = [count[c] EXCEPT !.status = "OPEN", !.expected = Expected(w, c)]]
    /\ Finish(w, "OK") /\ OnlyCounts

(* Variant: a recount keeps the expected quantity of the first count.      *)
EnterCount_stale(w) ==
    /\ AllLocked(w) /\ req[w].kind = "ENTER"
    /\ LET c == req[w].count IN
       /\ Snapshot(w, c)
       /\ count' = [count EXCEPT ![c] =
                      [count[c] EXCEPT !.counted = [count[c].counted EXCEPT ![req[w].product] = req[w].qty]]]
    /\ Finish(w, "OK") /\ OnlyCounts

(* record_count_entry: a first entry locks no product and keeps the        *)
(* snapshot of open_stock_count; a recount takes a new one.                *)
EnterCount(w) ==
    /\ AllLocked(w) /\ req[w].kind = "ENTER"
    /\ LET c == req[w].count IN
       /\ Snapshot(w, c)
       /\ count' = [count EXCEPT ![c] =
                      [count[c] EXCEPT !.expected = Expected(w, c),
                                       !.counted = [count[c].counted EXCEPT ![req[w].product] = req[w].qty]]]
    /\ Finish(w, "OK") /\ OnlyCounts

StatusAfter(kind) ==
    CASE kind = "MARK"   -> "COUNTED"
      [] kind = "REVIEW" -> "REVIEWED"
      [] kind = "REOPEN" -> "COUNTED"
      [] kind = "CANCEL" -> "CANCELLED"

(* mark_stock_count_counted, review_stock_count,                           *)
(* reopen_stock_count_for_recount and cancel_stock_count.                  *)
MoveCount(w) ==
    /\ AllLocked(w) /\ req[w].kind \in {"MARK", "REVIEW", "REOPEN", "CANCEL"}
    /\ SetStatus(req[w].count, StatusAfter(req[w].kind))
    /\ Finish(w, "OK") /\ OnlyCounts /\ UNCHANGED touched

Variance(w, c, p) == count[c].counted[p] - tx[w].qty[p]

(* One adjustment per line whose variance is not zero.                     *)
Corrections(w, c) ==
    LET moved == SetToSeq({p \in CountedLines(c) : Variance(w, c, p) # 0}) IN
    {[id |-> NewId + i - 1, product |-> moved[i], delta |-> Variance(w, c, moved[i]), key |-> NoOne, count |-> c] :
     i \in DOMAIN moved}

(* Variant: no comparison with the snapshot.                               *)
Drifted_never(w, c) == FALSE

Drifted(w, c) == \E p \in CountedLines(c) : tx[w].qty[p] # count[c].expected[p]

(* post_stock_count: all or nothing.                                       *)
PostCount(w) ==
    /\ AllLocked(w) /\ req[w].kind = "POST"
    /\ LET c == req[w].count IN
       \E new \in {Corrections(w, c)} :
         IF Drifted(w, c) THEN Return(w, "STOCK_COUNT_DRIFT_DETECTED")
         ELSE IF Blocked(new) THEN Return(w, "PERIOD_CLOSED")
         ELSE /\ Cardinality(adjustments \cup new) <= load.adjustments
              /\ Record(new, tx[w].qty)
              /\ SetStatus(c, "POSTED")
              /\ Finish(w, "OK") /\ UNCHANGED <<touched, periodOpen, load>>

-----------------------------------------------------------------------------
(* Around them.                                                            *)

(* A sale, receipt or return of one quantum of p commits while nobody      *)
(* holds its row.                                                          *)
OtherMovement(p, delta) ==
    /\ productLock[p] = NoOne /\ keyShare[p] = {}
    /\ qty[p] + delta >= 0
    /\ Cardinality({i \in DOMAIN ledger[p] : ledger[p][i].ref = NoOne}) < load.others
    /\ qty' = [qty EXCEPT ![p] = @ + delta]
    /\ ledger' = [ledger EXCEPT ![p] = Append(@, [delta |-> delta, result |-> qty[p] + delta, ref |-> NoOne])]
    /\ UNCHANGED <<adjustments, entries, count, touched, periodOpen, load, locks, session>>

ClosePeriod ==
    /\ periodOpen
    /\ periodOpen' = FALSE
    /\ UNCHANGED <<stock, count, touched, load, locks, session>>

(* A worker dies, loses its connection or is chosen by the deadlock        *)
(* detector: PostgreSQL rolls its transaction back.                        *)
Fail(w) == pc[w] # "idle" /\ Return(w, "FAILED")

Step(w) ==
    \/ BeginAdjust(w) \/ InsertAdjustment(w) \/ LockAdjusted(w) \/ CommitAdjustment(w)
    \/ CreateCount(w) \/ LockHeader(w) \/ LockProduct(w) \/ RefuseNegative(w)
    \/ OpenCount(w)   \/ EnterCount(w) \/ MoveCount(w)   \/ PostCount(w)

Next ==
    \/ \E w \in Workers : Submit(w) \/ Step(w) \/ Fail(w)
    \/ \E p \in Products, delta \in {-1, 1} : OtherMovement(p, delta)
    \/ ClosePeriod

Spec == Init /\ [][Next]_vars

-----------------------------------------------------------------------------
(* Correctness.                                                            *)

(* The columns and CHECKs of the stock-room tables: no adjustment of       *)
(* nothing and no entry of nothing is ever committed.                      *)
TypeOK ==
    /\ qty \in [Products -> Int]
    /\ \A a \in adjustments : /\ a.id \in 1 .. load.adjustments /\ a.product \in Products
                              /\ a.delta \in Int \ {0} /\ a.key \in Keys \cup {NoOne}
                              /\ a.count \in Counts \cup {NoOne}
    /\ \A e \in entries : e.amount \in Nat \ {0}
    /\ count \in [Counts -> StockCount]
    /\ headerLock \in [Counts -> Workers \cup {NoOne}]
    /\ productLock \in [Products -> Workers \cup {NoOne}]
    /\ keyShare \in [Products -> SUBSET Workers]
    /\ \A w \in Workers : req[w] \in load.sent \cup {NoOne}

(* "products.current_qty_on_hand is a cache of this value maintained       *)
(* transactionally alongside each movement": the ledger leads, row by row, *)
(* to the cached quantity.                                                 *)
QtyMatchesLedger == \A p \in Products : Chained(InitialQty[p], ledger[p], qty[p])

Moves(a) == {i \in DOMAIN ledger[a.product] : ledger[a.product][i].ref = a.id}

(* A client_transaction_id names at most one adjustment.                   *)
OneAdjustmentPerKey == \A a, b \in adjustments : a.key # NoOne /\ a.key = b.key => a = b

(* An adjustment is one row for its key, one movement of its quantity and, *)
(* when it has a value, one journal entry; nothing is moved or posted      *)
(* without one.                                                            *)
AdjustmentIsWhole ==
    /\ TypeOK /\ OneAdjustmentPerKey
    /\ \A a \in adjustments :
          /\ Cardinality(Moves(a)) = 1
          /\ \A i \in Moves(a) : ledger[a.product][i].delta = a.delta
          /\ {e \in entries : e.adjustment = a.id} = {e \in {EntryOf(a)} : e.amount > 0}
    /\ \A e \in entries : \E a \in adjustments : a.id = e.adjustment
    /\ \A p \in Products : \A i \in DOMAIN ledger[p] :
          ledger[p][i].ref # NoOne => \E a \in adjustments : a.id = ledger[p][i].ref /\ a.product = p

(* What a posted count corrected is exactly what its lines say, counted    *)
(* minus expected, for every counted line at once; a count that is not     *)
(* posted has corrected nothing.                                           *)
PostingIsWhole ==
    \A c \in Counts :
        LET done == {a \in adjustments : a.count = c}
            due  == {p \in CountedLines(c) : count[c].counted[p] # count[c].expected[p]}
        IN  IF count[c].status # "POSTED" THEN done = {}
            ELSE /\ {a.product : a \in done} = due
                 /\ \A a \in done : a.delta = count[c].counted[a.product] - count[c].expected[a.product]
                 /\ \A a, b \in done : a.product = b.product => a = b

(* A recount moves the basis forward with reality: a count whose products  *)
(* have not moved since their last snapshot is not refused for drift.      *)
DriftIsReal ==
    [][\A c \in Counts, w \in Workers :
          /\ pc[w] = "products" /\ req[w].kind = "POST" /\ req[w].count = c
          /\ answer'[w] = "STOCK_COUNT_DRIFT_DETECTED"
          => \E p \in CountedLines(c) : Len(ledger[p]) > touched[c][p]]_vars

(* The stock counts and the movements beside them keep the cache: only a   *)
(* manual adjustment, which reads the quantity before it locks, breaks it. *)
CountsKeepTheLedger == (\A a \in adjustments : a.count # NoOne) => QtyMatchesLedger

(* The sessions that hold what w waits for.                                *)
HoldersOf(w, p) == ({productLock[p]} \cup keyShare[p]) \ {w, NoOne}
WaitsFor(w) ==
    CASE Is(w, HeaderKinds, "begin") -> {headerLock[req[w].count]} \ {NoOne}
      [] Is(w, HeaderKinds, "products") /\ ToLock(req[w]) # tx[w].held -> HoldersOf(w, Min(ToLock(req[w]) \ tx[w].held))
      [] Is(w, {"CREATE"}, "begin") -> {productLock[p] : p \in load.scope[req[w].count]} \ {NoOne}
      [] OTHER -> {}

(* "ascending product_id order (the deadlock-safe pattern used everywhere  *)
(* else in this codebase)": requests on counts of the same products never  *)
(* wait for each other in a circle.                                        *)
CountsNeverDeadlock == \A S \in (SUBSET Workers) \ {{}} : \E w \in S : WaitsFor(w) \cap S = {}
=============================================================================
