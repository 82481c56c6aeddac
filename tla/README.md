# A TLA+ model of the grocery-store ERP

The repository is the back end of a multi-store grocery ERP: FastAPI routes over
SQLAlchemy services over PostgreSQL, with a React client. This directory holds
TLA+ modules for the parts whose correctness depends on *concurrent requests
against one database*, TLC configurations that check them on small instances,
and TLAPS proofs of the properties that matter most.

## 1. The system

Every HTTP request runs in a worker with a database session of its own
(`app/db/session.py`, autoflush off, READ COMMITTED). A service function reads
and writes rows; it, or the route handler, commits once at the end. What makes
the system hard is what happens when two requests are inside these functions at
the same time, when a client repeats a request because the answer was lost, and
when a worker dies half-way.

| Component | State | Operations | Interacts with | Correct when |
|---|---|---|---|---|
| Point of sale (`sales`) | `sales`, `sale_items`, `payments` | `finalize_sale` | stock ledger, shifts, journal, fiscal outbox | a sale is whole, once per key, never out of stock that is not there |
| Returns and voids (`sales`) | `sale_returns`, `quantity_returned`, `sales.status` | `create_sale_return`, `void_sale` | stock ledger, WAC, shifts, journal, approvals | nothing comes back twice, shares add up, approvals are respected |
| Cashier shifts (`shifts`) | `cashier_shifts`, `cash_movements` | `open_shift`, `record_cash_movement`, `close_shift` | sales and returns of a shift, variance entry | drawer, expected cash and books agree at the close |
| Stock ledger (`inventory`) | `inventory_movements`, `current_qty_on_hand`, `current_cost` | `record_movement`, `lock_product_for_update`, `compute_new_wac` | everything that moves goods | the cached quantity is what the ledger leads to |
| Adjustments and counts (`inventory`) | `stock_adjustments`, `stock_counts` and lines | adjust; create, open, enter, mark, review, reopen, post, cancel a count | stock ledger, journal | a correction is what the lines say, drift is found |
| Purchasing (`purchasing`) | `purchase_orders`, `goods_receipts`, `purchase_returns` | create, submit, cancel, `receive_goods`, `create_purchase_return` | stock ledger, WAC, journal, AP | no receipt is lost, no more goes back than came |
| Accounts payable (`ap`) | invoices, receipt matches, payments, credit notes, reversals | create, post, void; pay, credit, reverse; statements | journal, purchasing | an invoice is settled once, ledger and statement agree |
| Transfers, discrepancies, write-offs | `inter_store_transfers`, receipts, `receiving_discrepancies`, `transfer_write_offs` | create, ship, receive, cancel; investigate, resolve; request, approve, deny, reverse | stock ledger of two stores, journal | no unit is lost between stores, a loss is written off once |
| Replenishment | `replenishment_plans`, `supplier_products` | generate, approve, cancel, execute; price list | transfers, purchasing, stock | a shortage is covered once, a source store keeps its own |
| Human resources (`hr`) | status, assignment and pay histories, `attendance_records` | hire, change, clock in and out, correct | payroll | histories without gaps, no time recorded twice |
| Payroll | `payroll_periods`, results | create, open, calculate, approve, cancel, post, reverse | attendance, journal | what is posted is what was calculated and approved |
| Accounting (`accounting`) | `journal_entries`, `journal_lines`, `accounting_periods` | one posting function per source, `close_accounting_period` | called by all of the above before their commit | every entry balances and belongs to an operation |
| Fiscal outbox (`fiscal`) | `fiscal_submissions`, `fiscal_configs` | row written by a sale; submission, background task, retry | sales | a sale is submitted once |
| Auth | `users`, `refresh_tokens` | login, refresh rotation, deactivation | every request | a refresh token is used once |
| Reports, catalogue, audit, client, deployment | — | read-only or single-row edits | — | — |

The behaviours that are hard to test, and where each bites, are listed in
`PROJECT.json` under `hazards`: overlapping row locks, idempotency keys raced by
duplicates, values read before a lock and used after it, a shift, a period or a
plan settled in the middle of somebody's transaction, multi-row writes of which
one fails, and roundings that accumulate.

## 2. Modules

| Module | Models |
|---|---|
| `MoneyMath` | `_round_money`, `compute_new_wac`, `_proportional_share` as operators over integers |
| `StockLedger` | what it means for a movement ledger to lead from one quantity to another |
| `Checkout` | `finalize_sale`, `open_shift`, `record_cash_movement`, `close_shift`, period close |
| `CheckoutProofs` | theorems about `Checkout`: stock, shifts, duplicates, the books of the drawer |
| `SaleReturns` | `create_sale_return`, `void_sale`, approval gate, the shift close that races them |
| `StockRoom` | `create_stock_adjustment` with its endpoint, and the life of stock counts |
| `Procurement` | purchase orders, `receive_goods` with the average cost, `create_purchase_return` |
| `Payables` | invoices with FIFO matching, payments, credit notes, their reversals, the statement, the aging and both reconciliations |
| `Settlement` | abstract specification of what accounts payable promises; `Payables` implements it |
| `Transfers` | transfers between stores, the discrepancies of their receipts, write-offs and their decisions |
| `Replenishment` | positions, generation of sibling plans, approval and execution, price list |
| `Workforce` | employee histories and attendance |
| `Payroll` | extends `Workforce` with payroll periods, the calculation engine, posting and reversal |
| `ReturnsProofs`, `StockRoomProofs`, `PayablesProofs`, `TransfersProofs`, `ReplenishmentProofs`, `PayrollProofs` | theorems about `SaleReturns`, `StockRoom`, `Payables` (with the refinement of `Settlement`), `Transfers`, `Replenishment`, `Workforce` with `Payroll` |
| `Sums` | lemmas about sums over finite sets |
| `MC*` | the small instances TLC runs |

### How a request is modelled

A request is a program counter `pc[r]`, a body `req[r]` and a session `tx[r]`.
One step is one stretch of code between two points where another session can
interfere: a statement that reads rows others commit, a `SELECT ... FOR UPDATE`
that waits for a row lock, an `INSERT` that waits for an uncommitted duplicate
key, the commit. Rows written by a session stay in `tx[r]` until the committing
step moves all of them at once into the tables; `Return` ends a session without
committing; `Fail` is a worker that dies in any position. Where a function holds
one lock from its first read to its commit, and writes nothing that another
session can see before, it is one step. `FOR UPDATE` of a row with a `WHERE`
that another session changes is two steps (`FindShift`, `HoldShift`): PostgreSQL
evaluates the condition again on the row it finally locks. In `StockRoom`,
`Procurement` and `Transfers` an insert that refers to a row takes `FOR KEY SHARE` of it as its
foreign key does, and in `StockRoom` a Product the endpoint has already loaded
keeps its old attributes when the locking `SELECT` returns, because the session
has no `populate_existing`.

A body carries only what the code branches on. Money is integer cents, or
fractions of a cent where the ledger keeps them (`CentScale`); cost and
quantities are integer multiples of a small quantum (`QtyScale` to a unit).
`SubUnits` says how many input quanta make a quantum of the NUMERIC(14, 3)
column: with 1 clients send no more digits than the column keeps. A session's
own copy of a quantity keeps all of them, the columns and the CHECKs on them
see the rounded value (`Stored`, `LineIsStorable`). In `Workforce`
dates and times are integers, `DayTicks` to a day, and a store's `Boundary` is
its day-boundary hour and time zone in one.

`Workloads` gives the combinations of requests that are in flight together, as a
record each: which bodies a request may carry (`sent`), after which others it
arrives (`after`), and the rows that are there at the start. A request with no
body is over before it starts.

Components that interact meet in one module where their rows do: returns and the
shift close, counts and sales, transfers with discrepancies and write-offs,
attendance with payroll. Elsewhere the neighbour appears as what it commits:
`Payables` sees deliveries arrive at any moment; in `Replenishment` stock moves
and the documents of an execution are submitted, shipped, received in parts (with
losses, or beyond what was ordered) and cancelled, each in one step, as far as
the position reads them.

Correspondence of names: actions have the names of the statements or functions
they stand for (`LockProduct`, `InsertSale`, `PostInvoice`, ...), records the
names of the Pydantic schemas or tables, error codes are the service's
`error_code`s. The `map` of `PROJECT.json` gives file and lines of each
definition. A definition with a suffix (`LockProduct_no_lock`) is a variant used
only as a mutant.

## 3. Runs

| Run | Checks | Instance and why it is enough |
|---|---|---|
| `checkout` | `QtyMatchesLedger`, `DuplicatesGetTheRow`, `SaleIsWhole`, `TillExact`, `BooksMatchDrawer` | Three sales out of 13 bodies, or four requests at one till, or four of two cashiers, or three that are mostly refused. Carts overlap, repeat a product and list products in opposite orders; stock is short for two carts together; keys are shared. Races in this code are between two requests; the third and fourth are a duplicate or a closer. |
| `checkout_waiting` | `StartedRequestsAreAnswered`, `QtyMatchesLedger` | Three requests that hold product rows, shift rows and keys in every combination. Quantities come in half quanta (`SubUnits = 2`), and one body is refused by the CHECK of `line_total` |
| `returns` | `ReturnedWithinSold`, `SharesTelescope`, `ReturnIsWhole`, `RefundsCounted`, `NoCircularWait` | Three returns or voids of the same goods with one sale of the same product in between; three beside a shift close, listing products from both ends; two out of 20 bodies in a store with an approval threshold. Quantities are fifths, and prices, discounts and taxes divide unevenly so that every rounding matters. |
| `room` | `CountsKeepTheLedger`, `PostingIsWhole`, `AdjustmentIsWhole`, `CountsNeverDeadlock`, `DriftIsReal` | Two workers that serve any number of requests, one after the other: one count of two products with its nine requests in any order while somebody else moves each product once; two reviewed counts of the same products; adjustments under a shared key, too large ones, a closed period and a product whose book quantity is negative |
| `procurement` | `NoReceiptIsLost`, `ReturnedWithinReceived`, `StatusIsEarned`, `DriftBounded` | Three requests: a delivery, in part or of everything, or a new order; another delivery, a cancellation, a submission or a return; a return or one of 13 refused bodies. One order has two lines of one product; products repeat over orders; costs make averages round. |
| `payables` | `InvoicedWithinReceived`, `BooksAgree`, `ClearingFollowsMatches`, `NoCircularWait`, `SettlementIsAtomic` | Four requests. Two payments that name two invoices in opposite orders with credit notes, duplicates, reversals and a void; postings and voids of invoices of two orders that share received units, delivered in lots of different cost while they run; refused bodies |
| `transfers` | `NothingLostInTransit`, `WriteOffsAddUp`, `InTransitExplained`, `DecidedOnce`, `NoCircularWait` | Two transfers of the same products in opposite orders shipped and received at once; one loss, investigated, with two write-off requests, their decisions, another receipt, a resolution and a reversal overlapping; the life of a loss with the bodies refused at each step; a transfer drafted while its products are shipped and received |
| `replenishment` | `OneActiveBatch`, `ExecutedOnce`, `NoOverbuying`, `SourceIsProtected` | Four stores with one article, two short and two with a surplus both would draw on, two suppliers with pack sizes and minima; generations that overlap, siblings executed, cancelled and retried while prices, suppliers and stock change; orders and transfers shipped short, received in two parts, over-received and dropped before the next generation or execution; products that may and may not go below zero; a generation that read the position before an order was placed, planned the old shortage again, and had that plan executed too; plans in both directions between two stores |
| `payroll` | `HistoriesUnbroken`, `ShiftsDisjoint`, `BooksMatchResults`, `ProratedByDay`, `ApprovedIsFrozen` | Three employees (by the hour, on a salary that changed, not hired yet), two periods of three days; a period calculated twice, approved, cancelled, posted and reversed with retries while its attendance is corrected, also between the statements that read one employee; clock-ins, corrections and history changes that overlap; a key shared by two periods; a store without staff |
| `room_stale_adjustment` | `QtyMatchesLedger` (violated) | Adjustments of one product and one other movement |
| `transfers_repeated_line` | `NothingLostInTransit` (violated) | A shipment that names a line twice |
| `payroll_moved_record` | `ApprovedIsCurrent` (violated) | One period, one correction, one request after the other |

Several of these are conjunctions of named parts that belong to one question,
each with its own comment:

| Property | Named parts |
|---|---|
| `DuplicatesGetTheRow` (`Checkout`) | `OneRowPerKey`, `OneOpenShift`, and what a duplicate is answered |
| `SaleIsWhole` (`Checkout`) | `TypeOK`, `NoOversell`, `RefusedLeavesNothing`, and the rows of a sale |
| `ReturnedWithinSold` (`SaleReturns`) | `StatusFollowsItems`, and the quantities |
| `ReturnIsWhole` (`SaleReturns`) | `TypeOK`, `OneReturnPerKey`, `ApprovalRespected`, and the rows of a return |
| `AdjustmentIsWhole` (`StockRoom`) | `TypeOK`, `OneAdjustmentPerKey`, and the rows of an adjustment |
| `NoReceiptIsLost` (`Procurement`) | `TypeOK`, `OneRowPerKey`, `QtyMatchesLedger`, and the sums of the receipts |
| `BooksAgree` (`Payables`) | `TypeOK`, `OneDocument`, `CachesFollowRows`, and ledger, statement and aging |
| `ClearingFollowsMatches` (`Payables`) | `ClearingReconciles`, and the clearing account |
| `WriteOffsAddUp` (`Transfers`) | `TypeOK`, `QtyMatchesLedger`, `ReceiptsAddUp`, and the write-offs of a loss |
| `DecidedOnce` (`Transfers`) | `PendingStaysResolved`, and the decisions |
| `OneActiveBatch` (`Replenishment`) | `TypeOK`, `BatchFitsShortage`, and the batches |
| `ShiftsDisjoint` (`Workforce`) | `CorrectedOnce`, and the times |
| `BooksMatchResults` (`Payroll`) | `TypeOK`, and results against entries |

Requests, and workers, are interchangeable in `checkout`, `returns` and `room`,
and those runs use that symmetry; the other instances give each request its own
bodies. TLC's deadlock checking is off in `payables`, `transfers`,
`replenishment` and `payroll`, where the requests of a workload are finite and
the behaviour ends once all are answered. It would say little about row locks
anyway, because a session that waits can always be ended (`Fail`); that no
circle of waiting sessions forms is stated outright, as an invariant for
returns, payables and transfers (`NoCircularWait`) and counts
(`CountsNeverDeadlock`), and for the checkout as liveness. For payables it is
stated of sessions that do not hold a draft, for transfers of sessions that are
not inserting the lines of a new transfer (section 4). Receipts and returns
of an order, and two adjustments of a product, do not have that property
(section 4); generations lock in the order of their query.

**Fairness.** `checkout_waiting` assumes weak fairness of each started request's
steps: a worker that has begun a request executes its statements, and a free
lock is granted. No request is assumed to arrive and none to fail.

**Refinement.** `Settlement` knows bills, what is owed on each, and settlements
that stand; billing, settling several bills, undoing a settlement and voiding
are one atomic step each, never beyond what is owed. `SettlementIsAtomic` maps
the rows of `Payables` to it: standing invoices, their outstanding amounts, and
the payments and credit notes not reversed. TLC checks that every commit is such
a step and everything before it a stutter, and `PayablesImplementSettlement`
proves it for every workload.

Every property of a passing run has a mutant in `PROJECT.json`: a plausible
mistake in one mapped definition (a missing `FOR UPDATE`, a lock order taken
from the body, a share computed afresh, a reversal that keeps the quantity it
should give back, ...) under which TLC finds the run's properties
violated.

## 4. Where code and text disagree

Checked by a `violation` run:

- **An adjustment may overwrite a movement.** The endpoint loads the product
  before the service locks it, so `record_movement` adds to a stale quantity
  (`api/v1/endpoints/inventory.py:132`).
- **A shipment that names a line twice loses units.** Stock and value move for
  both input lines, the transfer line keeps the second quantity only
  (`transfers/service.py:384`).
- **A stale period can be approved.** The test for newer attendance looks at
  `updated_at`, which an inserted row does not have, so a record corrected *into*
  a calculated period goes unnoticed (`payroll/service.py:254`). A correction
  that commits between the reading of an employee's attendance and
  `calculated_at` passes the test as well.

Seen while modelling, part of the modelled behaviour, claimed by no run:

*Sales, returns, stock room*

- `_enforce_period_open` reads the period without a lock and the entry is
  committed later, so a period closed in between receives it
  (`accounting/service.py:141`; the message at 147 says that none may be posted).
- The second of two simultaneous submissions of a sale is judged on the stock
  its own original left, and may get `INSUFFICIENT_STOCK` in place of the sale
  (`sales/service.py:258`).
- After the unique index rejects a return, the row that holds the key is
  returned without the payload comparison made everywhere else
  (`sales/service.py:1005`).
- A body that names an item on two lines is not recognised when repeated
  (`SamePayload` compares merged rows with unmerged lines).
- A repeated void is refused as `NOTHING_TO_VOID` before its key is looked up.
- A fractional return of a heavily discounted line can compute a negative
  refund, which the CHECK refuses as an unhandled `IntegrityError`.
- Two adjustments of one product can deadlock: each inserts (key share) and then
  asks for `FOR UPDATE`. PostgreSQL aborts one (`Fail`).
- Two movements that cancel out during a count are not seen as drift.
- The cached quantity may leave the sum of the ledger, where the comment on the
  column (`products/models.py:103`) has them equal. A quantity with more digits than
  NUMERIC(14, 3) is rounded once in the movement and once, after the subtraction,
  in the cached quantity (`inventory/service.py:161`): selling 0.0015 of 2.000
  stores -0.002 and 1.999. How far the two can be apart is `QtyMatchesLedger`:
  one quantum for each row.
- A line whose stored quantity comes to another amount than the quantity sent is
  refused by the CHECK on `line_total`, as an unhandled `IntegrityError`.

*Purchasing and payables*

- A fully received order can end CANCELLED. Cancelling reads the status without a
  lock and writes later; a receipt that completes the order in between is
  overwritten (`purchasing/service.py:434`), where
  `docs/M3_PURCHASING_RECEIVING_WAC.md:114` allows CANCELLED "not from `RECEIVED`".
  Submitting has the same window: a second submission that read DRAFT sets an
  order back to ORDERED (`:402`). `StatusIsEarned` is about what a receipt does.
- Creating an order takes `FOR KEY SHARE` of its products one by one, in the order
  of the body, through the foreign keys of its items, so it too can be a party to
  a deadlock. In `Procurement`, which claims no absence of deadlocks, it waits
  for all of them in one step.
- A return locks items, then products; a receipt products, then items: the two
  can deadlock, and PostgreSQL aborts one.
- Posting refreshes a DRAFT invoice without locking it and can overwrite a void
  of that draft (`ap/service.py:710`).
- Three requests can wait in a circle. A payment that names a draft and a posted
  invoice locks both before it looks at their status (`ap/service.py:1146`); with
  the draft held it waits for the posted one, a void of which holds it and waits
  for an order (`:931`), a posting of the draft holds that order and waits for
  the draft when it writes (`:707`). PostgreSQL aborts one. `NoCircularWait` of
  `Payables` therefore leaves out a settlement that holds an unbilled invoice.
- After a void, `purchase_clearing_reconciliation` prices the units not invoiced
  from the oldest lot, while the void gave back the lots it had matched: the two
  differ until the units are invoiced again. `ClearingReconciles` is therefore
  stated up to the first void; `ClearingFollowsMatches` has no such limit.
- An invoice whose clearing and variance round to other cents than its subtotal
  does not balance and is refused by the ledger's trigger.
- Several GOODS_RETURN credit notes may refer to one purchase return.

*Transfers and replenishment*

- A write-off of goods that cost nothing cannot be approved: it has no entry to
  post. A receipt that would bring the average cost below zero, because the
  stock on hand is negative, is refused by the CHECK of the column. A
  discrepancy may be resolved again as VENDOR_CAUSED after part of it was
  written off.
- Drafting a transfer can deadlock with shipping one. The foreign keys of the
  lines take `FOR KEY SHARE` of their products one after the other, in the order
  of the body, and keep them until the commit (`transfers/service.py:184`); a
  shipment locks the same products in ascending order. PostgreSQL aborts one.
- A shortage that was ordered can be recommended again, although the docstring
  says that generation "never piles up redundant recommendations for the same
  shortage". A generation computes the shortfall before it takes the advisory
  lock; a plan of another one that is executed meanwhile is no longer active, and
  the old shortfall is planned once more (`replenishment/service.py:540`).
  Executed, the second plan orders no more than what is still missing
  (`NoOverbuying`) or ends STALE.
- An execution may order more than was approved when the supplier's minimum or
  pack size has grown, as the design foresees for the rounding.
- DRAFT transfers into a store do not count in its position, and an order or a
  transfer made by hand between the revalidation and the commit of an execution
  is not seen. `NoOverbuying` counts only what changes under the product's lock.
  Nor are the reads and writes of `submit_purchase_order` apart in
  `Replenishment`: a submission that read DRAFT before a cancellation brings the
  order back (`Procurement` has that window), and an execution in between has not
  counted it.
- A transfer line that was received with losses keeps counting what was lost as
  inbound (`replenishment/service.py:85` subtracts received units only).
- The advisory locks of a generation are taken in the order of its query, not
  sorted.

*Payroll*

- Open attendance records are left out of the hours without a word, where the
  design (`docs/M10_DESIGN.md:460`) has `OPEN_ATTENDANCE_RECORD`.
- The overtime threshold applies to each pay segment by itself.
- A CANCELLED period still blocks its date range; a period whose pay is zero
  cannot be posted; deductions above the gross end in an uncaught CHECK error.
- Two concurrent calculations under one key both compute.
- `clock_in` reads the status without a lock, so a termination may commit first.
- An overlap in a history is refused by the exclusion constraint of its table
  (`Refused`), with or without the lock of the employee. A gap is not, and that
  is what `HistoriesUnbroken` is for.

## 5. Proofs

The theorems hold for every number of concurrent requests, every catalogue and
every workload; they rest on the named `ASSUME`s of the modules, which TLC
evaluates in every run. No safety property below is inductive by itself, because
each says something about committed rows only, while what a commit writes was
computed earlier from rows read earlier. The strengthenings say what a session
in the middle of its work may rely on, and why nobody else can have changed it:
which locks it holds, and that the rows under them are still what it read.

| Theorem | States | Inductive invariant, and what it adds |
|---|---|---|
| `TypeCorrect` (`CheckoutProofs`) | `Spec => []TypeOK` | with `ShiftKnown`: a request past the lock of a shift row names a shift row |
| `StockCorrect` | `Spec => []QtyMatchesLedger` | `StockInv`: `Locked` (a product a session holds is locked by it, so nobody has changed it since), `Working` (its pending rows lead from the committed quantity to what its copy will be stored as, by `StoredStep`: three roundings are together less than two quanta off, and exact when `SubUnits` is 1), `CartHeld` (past the locking phase the whole cart is held) |
| `TillCorrect` | `Spec => []TillExact` | `TillInv`: a sale or movement that has found its shift holds the open shift row until it commits; a close holds it while it adds up |
| `DuplicatesCorrect` | `Spec => []DuplicatesGetTheRow` | `KeysInv`: of the sessions past the insert under one key, or past the insert of a shift of one cashier, there is one, and no row has that key yet; `Told`: what an answer named exists |
| `DrawerCorrect` | `Spec => []BooksMatchDrawer` | `BooksInv`: `KeysInv`, every sale has its one entry and every sale entry its sale, a variance entry moves cash by counted less expected; by `TillInv` the basis frozen at the close is that of the attributed rows |
| `ReturnedCorrect`, `SharesCorrect` (`ReturnsProofs`) | `Spec => []ReturnedWithinSold`, `Spec => []SharesTelescope` | `SaleInv` (a return that was admitted holds the sale and its lines still fit) and `RowsInv` (each counter is the sum of the committed return lines; so are the discount and tax given back, as differences of `_proportional_share`) |
| `RefundsCorrect` | `Spec => []RefundsCounted` | `ShiftInv`: a refund that named a shift holds the row; a close's sum is still that of the table |
| `ReturnsDeadlockFree` | `Spec => []NoCircularWait` | `LockInv`: sale row before product rows before shift row, products in ascending order: the session that has come farthest waits for nobody |
| `ReturnsAreWhole` | `Spec => []ReturnIsWhole` | `PaperInv`: with `RowsInv`, `Stocked` (the copies of a product a refund holds are where its own rows lead to from the table, and those rows add up to the items its loop has passed), `Books` (every movement belongs to a sale or a return of the table, and those of a return add up to its restocked lines), `KeyFree` (of the refunds past their INSERT one has the key, and no row has it yet), `Approved` and `Payable` (what the checks found is still so at the commit) |
| `CountsDeadlockFree` (`StockRoomProofs`) | `Spec => []CountsNeverDeadlock` | `LockInv`: the header row before product rows, products in ascending order; a product row is locked by one session, which then nobody shares; one session inserts a count |
| `LedgerCorrect`, `AdjustmentsCorrect` | `Spec => []CountsKeepTheLedger`, `Spec => []AdjustmentIsWhole` | `StockInv`: `Working` (products a count holds are still the quantities it loaded), `Numbered` (ids have no gap, so a new row's id is free), `Booked` (each adjustment has its movement and its entry and there is nothing else), `KeyFresh` (one session at a time is past the insert under a key, and no row has it yet) |
| `PostingsCorrect` | `Spec => []PostingIsWhole` | `CountInv`: `StockInv`, and a count that is not posted has corrected nothing while its sheet still changes |
| `DriftCorrect` | `Spec => DriftIsReal` | `CountInv`, by `Snapped`: unless its ledger has grown since the last snapshot of a line, the product still has the quantity the line expects |
| `NoDeadlock` (`PayablesProofs`) | `Spec => []NoCircularWait` | `SessionInv`: orders before invoices, each in ascending order; what a session holds is locked by it alone; a posted invoice that is locked is still what its session read; the cached amounts of an invoice are those of its rows |
| `ThreeWayMatching` | `Spec => []InvoicedWithinReceived` | `SessionInv`, and what a posting found receivable is still there, because every posting of the item passes the lock of its order |
| `PayablesImplementSettlement` | `Spec => SettlementIsAtomic` | `SessionInv`: one lemma per commit, each a step of `Settlement` under the mapping; every other step leaves the mapped rows alone |
| `ReportsAgree` | `Spec => []BooksAgree` | `LedgerInv`: every entry of the control account stands for one document and the reverse, the balance of the account is the debt of the open invoices, and so is the closing line of the statement |
| `HistoriesCorrect` (`PayrollProofs`) | `Spec => []HistoriesUnbroken` | `HistoryInv`: three histories of an employee begin together, have no gap and one open end |
| `ShiftsCorrect` | `Spec => []ShiftsDisjoint` | `ShiftInv`: records in force are apart, a replaced record is named by exactly one other, and records are named by requests that are over |
| `ApprovedStaysFrozen` | `Spec => ApprovedIsFrozen` | `PeriodInv`: a calculation in progress holds its period, which is not approved |
| `PayrollBooksCorrect` | `Spec => []BooksMatchResults` | `ResultsInv`: `TimeInv` (records have whole minutes and end after they begin), `Drafts` (every row a calculation has drafted has net = gross - deductions and no negative amount, and what it has read so far of the next employee are pay rows and hours that will give such a row), `Kept` (so have the stored results, and the totals of a period are their sums), `Booked` (every entry is of a POSTED period and for its totals; such a period has one posting and at most one reversal); with `HistoryInv`, `ShiftInv` and `PeriodInv` |
| `SalariesProrated` | `Spec => []ProratedByDay` | `HistoryInv` alone: segments of a history in ascending order share no day, so the days paid add up to the days employed, and each rounding is within half a cent |
| `TransfersDeadlockFree` (`TransfersProofs`) | `Spec => []NoCircularWait` | `LockInv`: locks are exclusive but for the shares of drafts, come in the order of the tables, and in ascending order within one |
| `DecisionsCorrect` | `Spec => []DecidedOnce` | `DecisionInv`: the rows (one decision, one pending request a discrepancy, what is settled is booked), and what the sessions at the insert, the decision and the reversal have seen under their locks |
| `ExecutedCorrect`, `BatchesCorrect` (`ReplenishmentProofs`) | `Spec => []ExecutedOnce`, `Spec => []OneActiveBatch` | `PlanInv`: an execution holds its approved plan and both products; a generation holds the advisory lock of every product it drafted plans for, which has no active plan; the draft of a split fits its shortage; a line accounts for no more than was shipped |
| `OrdersCorrect`, `SourcesCorrect` | `Spec => NoOverbuying`, `Spec => SourceIsProtected` | the same: what was decided at the revalidation (`InShortage`, `Spared`) is still true at the commit: deliveries and movements of the product need the lock the execution holds, and an order that is submitted or dropped, or a draft that is dropped, never counts for more than before |

`Sums` holds what several of them need and the library does not have: that
`SumFunctionOnSet` of a finite set is a number, does not depend on the order of
summation, changes by one term when one element is added or removed, is bounded
when its terms are, and can be split, re-indexed and grouped. The installed
provers cannot use the library's induction theorems, so these lemmas, and the
one about the splitting of a shortage over ranked stores (`GivenSum`), argue by
a smallest counterexample, which exists because subsets of a finite set are
well-founded (`SmallestSubset`).

What the assumptions say beyond types: requests are finitely many (in
`SaleReturns`, `StockRoom`, `Payables`, `Workforce`, `Transfers` and
`Replenishment`), and so are the items of a sale, the invoices and order items
of payables, the products of a stock room and those a generation ranks; a count
under way at the start has a snapshot of the stock there is, and none is posted;
a sale has at least one item (`finalize_sale` refuses an empty cart); the
histories and records a workload starts with are themselves sound, a closed
record ending after it begins as the table's CHECK demands (`StartAssumption`);
only the last bracket of a table is open, as the docstring of `_apply_bracketed`
has it; a SKU is unique in a store; invoices that wait to be
posted are drafts with numbers and keys of their own, and what a workload starts with as invoiced had arrived.
`LedgerCorrect` is about histories without a manual adjustment: one
that reads the quantity before it locks the row breaks the equality, as
`MCStockRoomStale` shows, and the other theorems about the stock room hold with
manual adjustments too.

Only model-checked:

- what a sale writes as a whole (`SaleIsWhole`): its lines come out of `SelectSeq`
  and of folds over the cart, about which nothing can be proved without induction
  over data. It is checked for quantities in whole quanta: `NoOversell`, a part
  of it, is not true of finer ones, because a cached quantity may be rounded up;
- the units and amounts of transfers (`NothingLostInTransit`, `WriteOffsAddUp`,
  `InTransitExplained`) and `ClearingFollowsMatches`: they sum over what a fold
  over the lines of a body, or over the lots in FIFO order, has written;
- all of `Procurement`, for no reason of principle;
- liveness (`StartedRequestsAreAnswered`): fairness and `ENABLED` are out of the
  prover's reach.

## 6. Not modelled

- Reports, the statements of the ledger (trial balance, profit and loss,
  inventory reconciliation) and list queries: read-only.
- `reverse_journal_entry`: every source type the application posts is refused by
  it and nothing posts a MANUAL entry, so it has no reachable step.
- The catalogue and tax tables (constants here), suppliers' names and terms,
  departments and positions: single-row edits nothing branches on.
- The audit log: append-only, read by nobody inside an operation.
- HTTP plumbing, configuration, migrations (their constraints are in the
  models), the web client (its requests are) and deployment scripts.
- Authentication is reduced to a user with a store and permissions (`access` and
  `allowed` in the bodies).
- In `Replenishment` a document has the one line an execution gives it, and a
  body names that line once (`Transfers` has bodies that repeat a line);
  `allow_negative_stock`, like the rest of the catalogue, is a constant.

## 7. Plan

1. Done: checkout and shifts, returns, stock room, procurement, payables with
   the abstract settlement, transfers with discrepancies and write-offs,
   replenishment, workforce and payroll; the theorems of section 5.
2. Theorems next: `ReturnedWithinReceived` and `StatusIsEarned` for
   `Procurement`; the sums of `Transfers` and `ClearingFollowsMatches`, with the
   folds written as recursive functions.
3. Modules left: `FiscalOutbox` (background submission against manual retry) and
   `Sessions` (refresh-token rotation against reuse and deactivation). Their
   hazards are listed and name the module that will hold their properties.
4. Abstract specifications still worth stating: a drawer as a running balance
   that the shift operations implement; stock as a multiset of movements.
