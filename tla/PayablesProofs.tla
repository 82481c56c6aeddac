--------------------------- MODULE PayablesProofs ---------------------------
(***************************************************************************)
(* Theorems about Payables, for every set of invoices, orders, documents   *)
(* and concurrent requests.                                                *)
(***************************************************************************)
EXTENDS Payables, Sums, TLAPS

-----------------------------------------------------------------------------
(* The inductive invariant.                                                *)

Labels == {"new", "begin", "insert", "orders", "invoices", "write", "done"}
Txs    == [held : SUBSET Int, inv : [Invoices -> PurchaseInvoice \cup {NoOne}], invoiced : [Items -> Int]]

(* The shapes of the variables; a row has lines and a total.               *)
Shape ==
    /\ load \in Workloads
    /\ invoice \in [Invoices -> PurchaseInvoice \cup {NoOne}]
    /\ \A i \in Rows : invoice[i].lines # <<>> /\ invoice[i].total \in Nat
    /\ arrived \in [Items -> Nat] /\ \A t \in Items : arrived[t] <= Len(Deliveries[t])
    /\ invoiced \in [Items -> Int]
    /\ invoiceLock \in [Invoices -> Requests \cup {NoOne}]
    /\ orderLock \in [Orders -> Requests \cup {NoOne}]
    /\ noteLock \in [Requests -> Requests \cup {NoOne}]
    /\ pc \in [Requests -> Labels]
    /\ req = [r \in Requests |-> req[r]]
    /\ tx \in [Requests -> Txs]

OnOrders(r)   == pc[r] \in {"orders", "write"} /\ req[r].kind \in {"POST", "VOID"}
OnInvoices(r) == pc[r] \in {"invoices", "write"} /\ req[r].kind \in {"PAY", "CREDIT", "REVERSE"}

(* The rows a session has locked are those its statements have reached.    *)
HoldsInvoice(r, i) ==
    \/ OnInvoices(r) /\ i \in tx[r].held /\ tx[r].inv[i] # NoOne
    \/ OnOrders(r) /\ req[r].kind = "VOID" /\ req[r].invoice = i
HoldsOrder(r, o) == OnOrders(r) /\ o \in tx[r].held
HoldsNote(r, id) == OnInvoices(r) /\ req[r].kind = "REVERSE" /\ req[r].id = id

LocksHeld ==
    /\ \A i \in Invoices : \A r \in Requests : invoiceLock[i] = r <=> HoldsInvoice(r, i)
    /\ \A o \in Orders : \A r \in Requests : orderLock[o] = r <=> HoldsOrder(r, o)
    /\ \A id \in Requests : \A r \in Requests : noteLock[id] = r <=> HoldsNote(r, id)

(* Rows are locked in ascending order; got is what a session has of them.  *)
Ascending(got, all) == got \subseteq all /\ \A g \in got : \A l \in all \ got : g < l
NoteIds == {n.id : n \in notes}

(* Where a session is: before its locks, among the orders with what it     *)
(* has read of them still true, among the invoices likewise.               *)
Starting(r) ==
    /\ pc[r] # "new" => req[r] \in Submission
    /\ pc[r] \in {"new", "begin", "insert", "done"} => tx[r] = EmptyTx
    /\ pc[r] \in {"begin", "insert"} /\ req[r].kind = "CREATE" => invoice[req[r].invoice] = NoOne
    /\ pc[r] = "insert" => req[r].kind = "CREATE" /\ req[r].lines # <<>>
    /\ pc[r] = "orders" => OnOrders(r)
    /\ pc[r] = "invoices" => OnInvoices(r)
    /\ pc[r] = "write" => OnOrders(r) \/ OnInvoices(r)

AmongOrders(r) ==
    OnOrders(r) =>
        LET row == invoice[req[r].invoice] IN
        /\ row # NoOne
        /\ Ascending(tx[r].held, OrdersOf(row.lines))
        /\ pc[r] = "write" <=> tx[r].held = OrdersOf(row.lines)
        /\ req[r].kind = "VOID" => row.status = "POSTED"
        /\ req[r].kind = "POST" /\ pc[r] = "write" => row.status \in {"DRAFT", "VOIDED"}
        /\ \A t \in Items : ItemOrder[t] \in tx[r].held => tx[r].invoiced[t] = invoiced[t]

AmongInvoices(r) ==
    OnInvoices(r) =>
        /\ Ascending(tx[r].held, TargetsOf(req[r]))
        /\ pc[r] = "write" <=> tx[r].held = TargetsOf(req[r])
        /\ req[r].kind # "REVERSE" => ~BadAllocations(req[r].alloc) /\ AllocTotal(req[r].alloc) = AmountOf(req[r])
        /\ req[r].kind = "REVERSE" =>
              req[r].id \in NoteIds /\ req[r].id \notin reversed /\ \A i \in tx[r].held : tx[r].inv[i] # NoOne
        /\ \A i \in tx[r].held : tx[r].inv[i] # NoOne => tx[r].inv[i] = invoice[i]

Sessions == \A r \in Requests : Starting(r) /\ AmongOrders(r) /\ AmongInvoices(r)

(* Two requests never create the same invoice.                             *)
Creates(r) == pc[r] # "new" /\ req[r].kind = "CREATE"
OwnInvoice == \A r, o \in Requests : Creates(r) /\ Creates(o) /\ r # o => req[r].invoice # req[o].invoice

(* A note is a document of its own request, settles something on invoices  *)
(* that exist, and its amount is what its allocations add up to.           *)
NotesWhole ==
    /\ IsFiniteSet(notes) /\ reversed \subseteq NoteIds
    /\ \A n \in notes :
          /\ IsNote(n) /\ pc[n.id] = "done"
          /\ n.kind = "CREDIT" => n.number \in Numbers
          /\ n.account # "ACCOUNTS_PAYABLE"
          /\ DOMAIN n.alloc \subseteq Rows /\ DOMAIN n.alloc # {}
          /\ \A i \in DOMAIN n.alloc : n.alloc[i] > 0
          /\ n.amount = SumFunctionOnSet(n.alloc, DOMAIN n.alloc)
    /\ \A m, n \in notes : m.id = n.id => m = n

SessionInv == Shape /\ LocksHeld /\ Sessions /\ OwnInvoice /\ NotesWhole /\ CachesFollowRows

-----------------------------------------------------------------------------
(* What the proofs use of bodies, rows and sessions.                       *)

(* The fields of a body.                                                   *)
LEMMA BodyFields ==
    ASSUME NEW q \in Submission
    PROVE  /\ q.kind \in {"CREATE", "POST", "VOID", "PAY", "CREDIT", "REVERSE"}
           /\ q.kind \in {"CREATE", "POST", "VOID"} => q.invoice \in Invoices
           /\ q.kind = "CREATE" => q.key \in Keys /\ q.number \in Numbers /\ q.lines \in Seq(InvoiceLine)
           /\ q.kind = "PAY" => q.key \in Keys /\ q.amount \in Nat /\ q.alloc \in Seq(Allocation)
           /\ q.kind = "CREDIT" =>
                 q.key \in Keys /\ q.number \in Numbers /\ q.lines \in Seq(Nat) /\ q.alloc \in Seq(Allocation)
           /\ q.kind = "REVERSE" => q.id \in Requests
  BY DEF Submission

(* The fields of a row; the absence of one is no row.                      *)
LEMMA RowFields ==
    ASSUME NEW row \in PurchaseInvoice
    PROVE  /\ row.status \in Statuses /\ row.key \in Keys \cup {NoOne} /\ row.number \in Numbers
           /\ row.lines \in Seq(InvoiceLine) /\ row.total \in Int /\ row.paid \in Int /\ row.credited \in Int
           /\ row # NoOne
  <1>1. row # NoOne
    BY PayablesAssumption
  <1> QED BY <1>1 DEF PurchaseInvoice

(* A row with another status is a row, otherwise the same.                 *)
LEMMA StatusSet ==
    ASSUME NEW row \in PurchaseInvoice, NEW s \in Statuses, NEW new, new = [row EXCEPT !.status = s]
    PROVE  /\ new \in PurchaseInvoice /\ new.status = s /\ new.key = row.key /\ new.number = row.number
           /\ new.lines = row.lines /\ new.total = row.total /\ new.paid = row.paid /\ new.credited = row.credited
           /\ Outstanding(new) = Outstanding(row)
  BY DEF PurchaseInvoice, Outstanding

(* What _recompute_invoice_status leaves of a row whose settlements        *)
(* changed by n.                                                           *)
IsApplied(new, row, kind, n) ==
    /\ new \in PurchaseInvoice /\ new.key = row.key /\ new.number = row.number
    /\ new.lines = row.lines /\ new.total = row.total
    /\ new.paid = IF kind = "PAY" THEN row.paid + n ELSE row.paid
    /\ new.credited = IF kind = "PAY" THEN row.credited ELSE row.credited + n
    /\ new.status = IF new.paid + new.credited >= row.total THEN "PAID"
                    ELSE IF new.paid + new.credited > 0 THEN "PARTIALLY_PAID" ELSE "POSTED"
    /\ Outstanding(new) = Outstanding(row) - n

(* An allocation changes the paid or credited amount of a row, and its     *)
(* status.                                                                 *)
LEMMA ApplyFields ==
    ASSUME NEW row \in PurchaseInvoice, NEW kind \in {"PAY", "CREDIT"}, NEW n \in Int,
           NEW new, new = Apply(row, kind, n)
    PROVE  IsApplied(new, row, kind, n)
  <1> DEFINE mid == IF kind = "PAY" THEN [row EXCEPT !.paid = @ + n] ELSE [row EXCEPT !.credited = @ + n]
  <1>1. /\ mid \in PurchaseInvoice /\ mid.key = row.key /\ mid.number = row.number
        /\ mid.lines = row.lines /\ mid.total = row.total
        /\ mid.paid = IF kind = "PAY" THEN row.paid + n ELSE row.paid
        /\ mid.credited = IF kind = "PAY" THEN row.credited ELSE row.credited + n
    <2>1. CASE kind = "PAY"
      BY <2>1, RowFields DEF PurchaseInvoice
    <2>2. CASE kind # "PAY"
      BY <2>2, RowFields DEF PurchaseInvoice
    <2> QED BY <2>1, <2>2
  <1>2. new = Recomputed(mid)
    BY DEF Apply
  <1> HIDE DEF mid
  <1> DEFINE s == IF mid.paid + mid.credited >= mid.total THEN "PAID"
                  ELSE IF mid.paid + mid.credited > 0 THEN "PARTIALLY_PAID" ELSE "POSTED"
  <1>3. new = [mid EXCEPT !.status = s] /\ s \in Statuses
    BY <1>2 DEF Recomputed, Statuses
  <1> HIDE DEF s
  <1>4. /\ new \in PurchaseInvoice /\ new.status = s /\ new.key = mid.key /\ new.number = mid.number
        /\ new.lines = mid.lines /\ new.total = mid.total /\ new.paid = mid.paid /\ new.credited = mid.credited
    BY <1>1, <1>3, StatusSet
  <1>5. row.total \in Int /\ row.paid \in Int /\ row.credited \in Int
    BY RowFields
  <1>6. Outstanding(new) = Outstanding(row) - n
    BY <1>1, <1>4, <1>5 DEF Outstanding
  <1>7. new.status = IF new.paid + new.credited >= row.total THEN "PAID"
                     ELSE IF new.paid + new.credited > 0 THEN "PARTIALLY_PAID" ELSE "POSTED"
    BY <1>1, <1>4 DEF s
  <1> QED BY <1>1, <1>4, <1>6, <1>7 DEF IsApplied

(* A session that has loaded a row, or read quantity_invoiced.             *)
LEMMA TxLoads ==
    ASSUME NEW t \in Txs, NEW h \in SUBSET Int, NEW v \in [Invoices -> PurchaseInvoice \cup {NoOne}],
           NEW new, new = [t EXCEPT !.held = h, !.inv = v]
    PROVE  new \in Txs /\ new.held = h /\ new.inv = v /\ new.invoiced = t.invoiced
  BY DEF Txs

(* A session that reads the counters of an order changes nothing else.     *)
LEMMA TxReads ==
    ASSUME NEW t \in Txs, NEW h \in SUBSET Int, NEW v \in [Items -> Int],
           NEW new, new = [t EXCEPT !.held = h, !.invoiced = v]
    PROVE  new \in Txs /\ new.held = h /\ new.inv = t.inv /\ new.invoiced = v
  BY DEF Txs

(* A session that has nothing yet.                                         *)
LEMMA TxEmpty == EmptyTx \in Txs /\ EmptyTx.held = {}
  BY DEF EmptyTx, Txs

(* The smallest of some integers.                                          *)
LEMMA SmallestIs ==
    ASSUME NEW S, S \subseteq Int, IsFiniteSet(S), S # {}
    PROVE  Smallest(S) \in S /\ \A x \in S : Smallest(S) <= x
  <1>1. \E m \in S : \A o \in S : m <= o
    BY FiniteMin
  <1> QED BY <1>1 DEF Smallest

(* The members of a sequence, and of what is read off them.                *)
LEMMA SeqImage ==
    ASSUME NEW S, NEW s \in Seq(S), NEW f, NEW T,
           \A x \in ToSet(s) : f[x] \in T, \A y \in T : \E x \in ToSet(s) : y = f[x]
    PROVE  /\ IsFiniteSet(DOMAIN s) /\ IsFiniteSet(T)
           /\ ToSet(s) \subseteq S
           /\ s # <<>> => T # {}
  <1>1. DOMAIN s = 1 .. Len(s) /\ IsFiniteSet(DOMAIN s)
    BY FS_Interval
  <1>2. ToSet(s) \subseteq S
    BY DEF ToSet
  <1> DEFINE k == [n \in DOMAIN s |-> f[s[n]]]
  <1>3. k \in Surjection(DOMAIN s, T)
    BY DEF Surjection, ToSet
  <1>4. IsFiniteSet(T)
    <2> HIDE DEF k
    <2> QED BY <1>1, <1>3, FS_Surjection
  <1>5. ASSUME s # <<>> PROVE T # {}
    <2>1. 1 \in DOMAIN s
      BY <1>5, <1>1
    <2> QED BY <2>1 DEF ToSet
  <1> QED BY <1>1, <1>2, <1>4, <1>5

(* The orders of some lines, and the invoices of an allocation.            *)
LEMMA LineOrders ==
    ASSUME NEW lines \in Seq(InvoiceLine)
    PROVE  /\ OrdersOf(lines) \subseteq Orders /\ OrdersOf(lines) \subseteq Int /\ IsFiniteSet(OrdersOf(lines))
           /\ lines # <<>> => OrdersOf(lines) # {}
           /\ ItemsOf(lines) \subseteq Items /\ \A t \in ItemsOf(lines) : ItemOrder[t] \in OrdersOf(lines)
  <1> DEFINE f == [l \in InvoiceLine |-> ItemOrder[l.item]]
  <1>1. ToSet(lines) \subseteq InvoiceLine
    BY DEF ToSet
  <1>2. /\ \A x \in ToSet(lines) : f[x] \in OrdersOf(lines)
        /\ \A y \in OrdersOf(lines) : \E x \in ToSet(lines) : y = f[x]
    BY <1>1 DEF OrdersOf
  <1>6. IsFiniteSet(OrdersOf(lines)) /\ (lines # <<>> => OrdersOf(lines) # {})
    <2> HIDE DEF f
    <2> QED BY <1>2, SeqImage
  <1>3. \A l \in InvoiceLine : l.item \in Items
    BY DEF InvoiceLine
  <1>4. OrdersOf(lines) \subseteq Orders /\ Orders \subseteq Int
    BY <1>1, <1>3, PayablesAssumption DEF OrdersOf
  <1>5. ItemsOf(lines) \subseteq Items /\ \A t \in ItemsOf(lines) : ItemOrder[t] \in OrdersOf(lines)
    BY <1>1, <1>3 DEF ItemsOf, OrdersOf
  <1> QED BY <1>4, <1>5, <1>6

(* What an allocation names are invoices, and there are some.              *)
LEMMA AllocTargets ==
    ASSUME NEW alloc \in Seq(Allocation)
    PROVE  Targets(alloc) \subseteq Invoices /\ (alloc # <<>> => Targets(alloc) # {})
  <1>1. ToSet(alloc) \subseteq Allocation
    BY DEF ToSet
  <1>2. \A a \in Allocation : a.invoice \in Invoices
    BY DEF Allocation
  <1>3. ASSUME alloc # <<>> PROVE Targets(alloc) # {}
    <2>1. 1 \in DOMAIN alloc
      BY <1>3
    <2> QED BY <2>1 DEF Targets, ToSet
  <1> QED BY <1>1, <1>2, <1>3 DEF Targets

(* The note of an id.                                                      *)
LEMMA NoteOfId ==
    ASSUME NotesWhole, NEW n \in notes
    PROVE  NoteOf(n.id) = n
  <1>1. \A m \in notes : m.id = n.id => m = n
    BY DEF NotesWhole
  <1> QED BY <1>1 DEF NoteOf

(* A note's request, and the invoices its settlement names.                *)
LEMMA NoteNamed ==
    ASSUME NotesWhole, NEW id \in NoteIds
    PROVE  NoteOf(id) \in notes /\ NoteOf(id).id = id
  <1>1. PICK n \in notes : n.id = id
    BY DEF NoteIds
  <1> QED BY <1>1, NoteOfId

(* A settlement past its first checks names invoices, and at least one.    *)
LEMMA SettledInvoices ==
    ASSUME SessionInv, NEW r \in Requests, OnInvoices(r)
    PROVE  TargetsOf(req[r]) \subseteq Invoices /\ TargetsOf(req[r]) # {}
  <1>1. req[r] \in Submission /\ AmongInvoices(r)
    BY DEF SessionInv, Sessions, Starting, OnInvoices
  <1>2. CASE req[r].kind = "REVERSE"
    <2>1. NotesWhole /\ req[r].id \in NoteIds
      BY <1>1, <1>2 DEF SessionInv, AmongInvoices
    <2>2. NoteOf(req[r].id) \in notes
      BY <2>1, NoteNamed
    <2> QED BY <1>2, <2>1, <2>2 DEF NotesWhole, IsNote, TargetsOf
  <1>3. CASE req[r].kind # "REVERSE"
    <2>1. req[r].kind \in {"PAY", "CREDIT"} /\ ~BadAllocations(req[r].alloc)
      BY <1>1, <1>3 DEF OnInvoices, AmongInvoices
    <2>2. req[r].alloc \in Seq(Allocation) /\ req[r].alloc # <<>>
      BY <1>1, <2>1, BodyFields DEF BadAllocations
    <2> QED BY <1>3, <2>2, AllocTargets DEF TargetsOf
  <1> QED BY <1>2, <1>3

-----------------------------------------------------------------------------
(* Sessions do not disturb each other.                                     *)

(* What a commit of r may do to the tables: rows keep their lines, and one *)
(* that another session has locked, or waits to post, is left alone.       *)
Benign(r) ==
    /\ \A i \in Invoices : invoice'[i] # invoice[i] =>
          /\ invoice[i] = NoOne => Creates(r) /\ req[r].invoice = i
          /\ invoice[i] # NoOne =>
                /\ invoice'[i] # NoOne /\ invoice'[i].lines = invoice[i].lines
                /\ invoiceLock[i] \in {NoOne, r}
                /\ \A o \in Requests : o # r /\ Is(o, {"POST"}, "write") /\ req[o].invoice = i =>
                      invoice'[i].status \in {"DRAFT", "VOIDED"}
    /\ \A t \in Items : invoiced'[t] # invoiced[t] => orderLock[ItemOrder[t]] = r
    /\ notes \subseteq notes' /\ \A m, n \in notes' : m.id = n.id => m = n
    /\ \A id \in reversed' : id \notin reversed => noteLock[id] = r

(* The tables may stay as they are.                                        *)
LEMMA QuietBenign == ASSUME SessionInv, UNCHANGED tables, NEW r PROVE Benign(r)
  BY DEF SessionInv, NotesWhole, Benign, tables

(* What another session has reached and read stays true.                   *)
LEMMA OthersKeep ==
    ASSUME SessionInv, NEW r \in Requests, Benign(r), NEW o \in Requests, o # r,
           pc'[o] = pc[o], req'[o] = req[o], tx'[o] = tx[o]
    PROVE  Starting(o)' /\ AmongOrders(o)' /\ AmongInvoices(o)'
  <1>0. Starting(o) /\ AmongOrders(o) /\ AmongInvoices(o)
    BY DEF SessionInv, Sessions
  <1>1. OnOrders(o)' = OnOrders(o) /\ OnInvoices(o)' = OnInvoices(o)
    BY DEF OnOrders, OnInvoices
  <1>2. Starting(o)'
    <2>1. ASSUME pc[o] \in {"begin", "insert"}, req[o].kind = "CREATE" PROVE invoice'[req[o].invoice] = NoOne
      <3>1. invoice[req[o].invoice] = NoOne /\ req[o] \in Submission
        BY <1>0, <2>1 DEF Starting
      <3>2. req[o].invoice \in Invoices
        BY <2>1, <3>1, BodyFields
      <3>3. Creates(o) /\ (Creates(r) => req[r].invoice # req[o].invoice)
        BY <2>1 DEF SessionInv, OwnInvoice, Creates
      <3> QED BY <3>1, <3>2, <3>3 DEF Benign
    <2> QED BY <1>0, <1>1, <2>1 DEF Starting
  <1>3. AmongOrders(o)'
    <2>1. SUFFICES ASSUME OnOrders(o) PROVE AmongOrders(o)'
      BY <1>1 DEF AmongOrders
    <2> DEFINE i == req[o].invoice
    <2>2. i \in Invoices /\ invoice[i] # NoOne
      <3>1. req[o] \in Submission
        BY <1>0, <2>1 DEF Starting, OnOrders
      <3> QED BY <1>0, <2>1, <3>1, BodyFields DEF OnOrders, AmongOrders
    <2>3. invoice'[i] # NoOne /\ invoice'[i].lines = invoice[i].lines
      BY <2>2 DEF Benign
    <2>4. ASSUME req[o].kind = "VOID" PROVE invoice'[i] = invoice[i]
      <3>1. HoldsInvoice(o, i)
        BY <2>1, <2>4 DEF HoldsInvoice
      <3>2. invoiceLock[i] = o
        BY <2>2, <3>1 DEF SessionInv, LocksHeld
      <3>3. o # NoOne
        BY PayablesAssumption
      <3> QED BY <2>2, <3>2, <3>3 DEF Benign
    <2>5. ASSUME req[o].kind = "POST", pc[o] = "write" PROVE invoice'[i].status \in {"DRAFT", "VOIDED"}
      <3>1. invoice[i].status \in {"DRAFT", "VOIDED"}
        BY <1>0, <2>1, <2>5 DEF AmongOrders
      <3>2. Is(o, {"POST"}, "write")
        BY <2>5 DEF Is
      <3> QED BY <2>2, <3>1, <3>2 DEF Benign
    <2>6. ASSUME NEW t \in Items, ItemOrder[t] \in tx[o].held PROVE tx[o].invoiced[t] = invoiced'[t]
      <3>1. tx[o].invoiced[t] = invoiced[t]
        BY <1>0, <2>1, <2>6 DEF AmongOrders
      <3>2. ItemOrder[t] \in Orders
        BY PayablesAssumption
      <3>3. orderLock[ItemOrder[t]] = o
        BY <2>1, <2>6, <3>2 DEF SessionInv, LocksHeld, HoldsOrder
      <3> QED BY <3>1, <3>3 DEF Benign
    <2>7. /\ Ascending(tx[o].held, OrdersOf(invoice[i].lines))
          /\ pc[o] = "write" <=> tx[o].held = OrdersOf(invoice[i].lines)
          /\ req[o].kind = "VOID" => invoice[i].status = "POSTED"
      BY <1>0, <2>1 DEF AmongOrders
    <2> QED BY <1>1, <2>3, <2>4, <2>5, <2>6, <2>7 DEF AmongOrders, Ascending, OrdersOf
  <1>4. AmongInvoices(o)'
    <2>1. SUFFICES ASSUME OnInvoices(o) PROVE AmongInvoices(o)'
      BY <1>1 DEF AmongInvoices
    <2>2. /\ Ascending(tx[o].held, TargetsOf(req[o])) /\ (pc[o] = "write" <=> tx[o].held = TargetsOf(req[o]))
          /\ req[o].kind # "REVERSE" => ~BadAllocations(req[o].alloc) /\ AllocTotal(req[o].alloc) = AmountOf(req[o])
          /\ req[o].kind = "REVERSE" =>
                req[o].id \in NoteIds /\ req[o].id \notin reversed /\ \A i \in tx[o].held : tx[o].inv[i] # NoOne
      BY <1>0, <2>1 DEF AmongInvoices
    <2>3. ASSUME NEW i \in tx[o].held, tx[o].inv[i] # NoOne PROVE tx[o].inv[i] = invoice'[i]
      <3>1. tx[o].inv[i] = invoice[i] /\ i \in TargetsOf(req[o])
        BY <1>0, <2>1, <2>2, <2>3 DEF AmongInvoices, Ascending
      <3>2. i \in Invoices
        BY <2>1, <3>1, SettledInvoices
      <3>3. invoiceLock[i] = o
        BY <2>1, <2>3, <3>2 DEF SessionInv, LocksHeld, HoldsInvoice
      <3>4. o # NoOne
        BY PayablesAssumption
      <3> QED BY <2>3, <3>1, <3>2, <3>3, <3>4 DEF Benign
    <2>4. ASSUME req[o].kind = "REVERSE"
          PROVE  req[o].id \in NoteIds' /\ req[o].id \notin reversed' /\ NoteOf(req[o].id)' = NoteOf(req[o].id)
      <3>1. NotesWhole /\ req[o].id \in NoteIds /\ req[o].id \notin reversed
        BY <2>2, <2>4 DEF SessionInv
      <3>2. NoteOf(req[o].id) \in notes /\ NoteOf(req[o].id).id = req[o].id
        BY <3>1, NoteNamed
      <3>3. NoteOf(req[o].id) \in notes' /\ \A m \in notes' : m.id = req[o].id => m = NoteOf(req[o].id)
        BY <3>2 DEF Benign
      <3>4. (CHOOSE m \in notes' : m.id = req[o].id) = NoteOf(req[o].id)
        BY <3>2, <3>3
      <3>5. req[o].id \in Requests
        <4>1. req[o] \in Submission
          BY <1>0, <2>1 DEF Starting, OnInvoices
        <4> QED BY <2>4, <4>1, BodyFields
      <3>6. noteLock[req[o].id] = o
        BY <2>1, <2>4, <3>5 DEF SessionInv, LocksHeld, HoldsNote
      <3>7. req[o].id \notin reversed'
        BY <3>1, <3>6 DEF Benign
      <3>8. NoteOf(req[o].id)' = NoteOf(req[o].id)
        BY <3>4 DEF NoteOf
      <3> QED BY <3>2, <3>3, <3>7, <3>8 DEF NoteIds
    <2>5. TargetsOf(req[o])' = TargetsOf(req[o])
      BY <2>4 DEF TargetsOf
    <2> QED BY <1>1, <2>2, <2>3, <2>4, <2>5 DEF AmongInvoices
  <1> QED BY <1>2, <1>3, <1>4

(* The locks of a session are all it gives up when it ends.                *)
LEMMA FinishEnds ==
    ASSUME Shape, LocksHeld, NEW r \in Requests, NEW code, Finish(r, code)
    PROVE  /\ LocksHeld'
           /\ invoiceLock' \in [Invoices -> Requests \cup {NoOne}]
           /\ orderLock' \in [Orders -> Requests \cup {NoOne}]
           /\ noteLock' \in [Requests -> Requests \cup {NoOne}]
           /\ pc' = [pc EXCEPT ![r] = "done"] /\ pc' \in [Requests -> Labels]
           /\ req' = req /\ req' = [o \in Requests |-> req'[o]]
           /\ tx' \in [Requests -> Txs]
           /\ pc'[r] = "done" /\ tx'[r] = EmptyTx
           /\ \A o \in Requests : o # r => pc'[o] = pc[o] /\ tx'[o] = tx[o]
  <1>1. /\ pc \in [Requests -> Labels] /\ tx \in [Requests -> Txs] /\ EmptyTx \in Txs
        /\ invoiceLock \in [Invoices -> Requests \cup {NoOne}] /\ orderLock \in [Orders -> Requests \cup {NoOne}]
        /\ noteLock \in [Requests -> Requests \cup {NoOne}] /\ req = [o \in Requests |-> req[o]]
    BY TxEmpty DEF Shape
  <1>2. /\ pc' = [pc EXCEPT ![r] = "done"] /\ tx' = [tx EXCEPT ![r] = EmptyTx] /\ req' = req
        /\ invoiceLock' = Free(invoiceLock, r) /\ orderLock' = Free(orderLock, r) /\ noteLock' = Free(noteLock, r)
    BY DEF Finish
  <1>3. /\ pc'[r] = "done" /\ tx'[r] = EmptyTx /\ \A o \in Requests : o # r => pc'[o] = pc[o] /\ tx'[o] = tx[o]
    BY <1>1, <1>2
  <1>4. pc' \in [Requests -> Labels] /\ tx' \in [Requests -> Txs] /\ req' = [o \in Requests |-> req'[o]]
    BY <1>1, <1>2 DEF Labels
  <1>5. /\ \A i \in Invoices : invoiceLock'[i] = IF invoiceLock[i] = r THEN NoOne ELSE invoiceLock[i]
        /\ \A o \in Orders : orderLock'[o] = IF orderLock[o] = r THEN NoOne ELSE orderLock[o]
        /\ \A id \in Requests : noteLock'[id] = IF noteLock[id] = r THEN NoOne ELSE noteLock[id]
    BY <1>1, <1>2 DEF Free
  <1>6. invoiceLock' \in [Invoices -> Requests \cup {NoOne}] /\ orderLock' \in [Orders -> Requests \cup {NoOne}]
    BY <1>1, <1>2 DEF Free
  <1>7. noteLock' \in [Requests -> Requests \cup {NoOne}]
    BY <1>1, <1>2 DEF Free
  <1>8. r # NoOne
    BY PayablesAssumption
  <1>9. ~OnOrders(r)' /\ ~OnInvoices(r)'
    BY <1>3 DEF OnOrders, OnInvoices
  <1>10. \A o \in Requests : o # r => OnOrders(o)' = OnOrders(o) /\ OnInvoices(o)' = OnInvoices(o)
    BY <1>2, <1>3 DEF OnOrders, OnInvoices
  <1>11. ASSUME NEW i \in Invoices, NEW o \in Requests PROVE invoiceLock'[i] = o <=> HoldsInvoice(o, i)'
    <2>1. invoiceLock[i] = o <=> HoldsInvoice(o, i)
      BY DEF LocksHeld
    <2>2. CASE o = r
      BY <1>5, <1>8, <1>9, <2>2 DEF HoldsInvoice
    <2>3. CASE o # r
      <3>1. HoldsInvoice(o, i)' = HoldsInvoice(o, i)
        BY <1>2, <1>3, <1>10, <2>3 DEF HoldsInvoice
      <3>2. o # NoOne
        BY PayablesAssumption
      <3> QED BY <1>5, <2>1, <2>3, <3>1, <3>2
    <2> QED BY <2>2, <2>3
  <1>12. ASSUME NEW w \in Orders, NEW o \in Requests PROVE orderLock'[w] = o <=> HoldsOrder(o, w)'
    <2>1. orderLock[w] = o <=> HoldsOrder(o, w)
      BY DEF LocksHeld
    <2>2. CASE o = r
      BY <1>5, <1>8, <1>9, <2>2 DEF HoldsOrder
    <2>3. CASE o # r
      <3>1. HoldsOrder(o, w)' = HoldsOrder(o, w)
        BY <1>2, <1>3, <1>10, <2>3 DEF HoldsOrder
      <3>2. o # NoOne
        BY PayablesAssumption
      <3> QED BY <1>5, <2>1, <2>3, <3>1, <3>2
    <2> QED BY <2>2, <2>3
  <1>13. ASSUME NEW id \in Requests, NEW o \in Requests PROVE noteLock'[id] = o <=> HoldsNote(o, id)'
    <2>1. noteLock[id] = o <=> HoldsNote(o, id)
      BY DEF LocksHeld
    <2>2. CASE o = r
      BY <1>5, <1>8, <1>9, <2>2 DEF HoldsNote
    <2>3. CASE o # r
      <3>1. HoldsNote(o, id)' = HoldsNote(o, id)
        BY <1>2, <1>3, <1>10, <2>3 DEF HoldsNote
      <3>2. o # NoOne
        BY PayablesAssumption
      <3> QED BY <1>5, <2>1, <2>3, <3>1, <3>2
    <2> QED BY <2>2, <2>3
  <1>14. LocksHeld'
    BY <1>11, <1>12, <1>13 DEF LocksHeld
  <1> QED BY <1>2, <1>3, <1>4, <1>6, <1>7, <1>14

(* A session that has ended has nothing to keep.                           *)
LEMMA DoneKeeps ==
    ASSUME NEW r \in Requests, pc'[r] = "done", tx'[r] = EmptyTx, req'[r] \in Submission
    PROVE  Starting(r)' /\ AmongOrders(r)' /\ AmongInvoices(r)'
  BY DEF Starting, AmongOrders, AmongInvoices, OnOrders, OnInvoices

(* An end of r that leaves the tables of the others alone keeps all        *)
(* sessions.                                                               *)
LEMMA FinishSessions ==
    ASSUME SessionInv, NEW r \in Requests, NEW code, Finish(r, code), pc[r] # "new", Benign(r)
    PROVE  LocksHeld' /\ Sessions' /\ OwnInvoice'
  <1>1. /\ LocksHeld' /\ req' = req /\ pc'[r] = "done" /\ tx'[r] = EmptyTx
        /\ \A o \in Requests : o # r => pc'[o] = pc[o] /\ tx'[o] = tx[o]
    BY FinishEnds DEF SessionInv
  <1>2. Starting(r)' /\ AmongOrders(r)' /\ AmongInvoices(r)'
    <2>1. req'[r] \in Submission
      BY <1>1 DEF SessionInv, Sessions, Starting
    <2> QED BY <1>1, <2>1, DoneKeeps
  <1>3. ASSUME NEW o \in Requests, o # r PROVE Starting(o)' /\ AmongOrders(o)' /\ AmongInvoices(o)'
    <2>1. pc'[o] = pc[o] /\ tx'[o] = tx[o] /\ req'[o] = req[o]
      BY <1>1, <1>3
    <2> QED BY <1>3, <2>1, OthersKeep
  <1>4. OwnInvoice'
    <2>1. \A o \in Requests : Creates(o)' <=> Creates(o)
      BY <1>1 DEF Creates
    <2> QED BY <1>1, <2>1 DEF SessionInv, OwnInvoice
  <1> QED BY <1>1, <1>2, <1>3, <1>4 DEF Sessions

-----------------------------------------------------------------------------
(* What a commit changes.                                                  *)

Created(r, i, row) ==
    /\ Is(r, {"CREATE"}, "insert") /\ i = req[r].invoice /\ i \in Invoices /\ invoice[i] = NoOne
    /\ row \in PurchaseInvoice /\ IsDraft(row) /\ row.key \in Keys
    /\ \A j \in Rows : invoice[j].key # row.key
    /\ \A j \in Rows \ Alien : invoice[j].number # row.number
    /\ invoice' = [invoice EXCEPT ![i] = row]
    /\ UNCHANGED <<arrived, invoiced, notes, reversed, entries, load>>

Dropped(i) ==
    /\ i \in Rows /\ invoice[i].status = "DRAFT" /\ invoiceLock[i] = NoOne
    /\ invoice' = [invoice EXCEPT ![i] = [invoice[i] EXCEPT !.status = "VOIDED"]]
    /\ UNCHANGED <<arrived, invoiced, notes, reversed, entries, load>>

Posted(r, i) ==
    /\ Is(r, {"POST"}, "write") /\ i = req[r].invoice
    /\ i \in Rows /\ invoice[i].status \in {"DRAFT", "VOIDED"} /\ invoiceLock[i] = NoOne
    /\ \A t \in ItemsOf(invoice[i].lines) :
          orderLock[ItemOrder[t]] = r /\ invoiced[t] + RequestedOf(invoice[i].lines, t) <= Received(t)
    /\ invoice' = [invoice EXCEPT ![i] = [invoice[i] EXCEPT !.status = "POSTED"]]
    /\ invoiced' = [t \in Items |-> IF t \in ItemsOf(invoice[i].lines) THEN invoiced[t] + RequestedOf(invoice[i].lines, t)
                                    ELSE invoiced[t]]
    /\ \E new : /\ new["ACCOUNTS_PAYABLE"] = -CentScale * invoice[i].total
                /\ entries' = entries \cup (IF new = Blank THEN {} ELSE {Entry("PURCHASE_INVOICE", i, new)})
    /\ UNCHANGED <<arrived, notes, reversed, load>>

Unposted(r, i) ==
    /\ Is(r, {"VOID"}, "write") /\ i = req[r].invoice
    /\ i \in Rows /\ invoice[i].status = "POSTED" /\ invoiceLock[i] = r
    /\ \A t \in ItemsOf(invoice[i].lines) : orderLock[ItemOrder[t]] = r
    /\ invoice' = [invoice EXCEPT ![i] = [invoice[i] EXCEPT !.status = "VOIDED"]]
    /\ invoiced' = [t \in Items |-> IF t \in ItemsOf(invoice[i].lines) THEN invoiced[t] - RequestedOf(invoice[i].lines, t)
                                    ELSE invoiced[t]]
    /\ \E new : /\ new["ACCOUNTS_PAYABLE"] = CentScale * invoice[i].total
                /\ entries' = entries \cup (IF new = Blank THEN {} ELSE {Entry("PURCHASE_INVOICE_VOID", i, new)})
    /\ UNCHANGED <<arrived, notes, reversed, load>>

(* The rows of a note's invoices with sign times its allocations applied.  *)
Applies(n, sign) ==
    invoice' = [i \in Invoices |-> IF i \in DOMAIN n.alloc THEN Apply(invoice[i], n.kind, sign * n.alloc[i]) ELSE invoice[i]]

(* A note whose allocations add up.                                        *)
NoteAdds(n) ==
    /\ IsNote(n) /\ (n.kind = "CREDIT" => n.number \in Numbers) /\ n.account # "ACCOUNTS_PAYABLE"
    /\ DOMAIN n.alloc # {}
    /\ (\A i \in DOMAIN n.alloc : n.alloc[i] > 0) /\ n.amount = SumFunctionOnSet(n.alloc, DOMAIN n.alloc)

Settled(r, n) ==
    /\ NoteAdds(n) /\ n.id = r /\ r \notin NoteIds
    /\ \A m \in notes : m.kind = n.kind => m.key # n.key
    /\ n.kind = "CREDIT" => \A m \in notes : m.number # n.number
    /\ n.kind = "PAY" => n.number = NoOne
    /\ \A i \in DOMAIN n.alloc :
          /\ i \in Rows /\ invoiceLock[i] = r /\ invoice[i].status \in {"POSTED", "PARTIALLY_PAID"}
          /\ n.alloc[i] <= Outstanding(invoice[i])
    /\ Applies(n, 1) /\ notes' = notes \cup {n}
    /\ \E new : /\ new["ACCOUNTS_PAYABLE"] = CentScale * n.amount
                /\ entries' = entries \cup {Entry(n.kind, r, new)}
    /\ UNCHANGED <<arrived, invoiced, reversed, load>>

Undone(r, n) ==
    /\ n \in notes /\ n.id \notin reversed /\ noteLock[n.id] = r
    /\ \A i \in DOMAIN n.alloc : invoiceLock[i] = r
    /\ Applies(n, -1) /\ reversed' = reversed \cup {n.id}
    /\ \E new : /\ new["ACCOUNTS_PAYABLE"] = -CentScale * n.amount
                /\ entries' = entries \cup {Entry("REVERSAL", n.id, new)}
    /\ UNCHANGED <<arrived, invoiced, notes, load>>

(* One commit of a session.                                                *)
Commits(r) ==
    \/ \E i, row : Created(r, i, row)
    \/ \E i : Dropped(i) \/ Posted(r, i) \/ Unposted(r, i)
    \/ \E n : Settled(r, n) \/ Undone(r, n)

(* A refusal, or a commit.                                                 *)
Ends(r)     == pc[r] # "new" /\ \E code : Return(r, code)
Concludes(r) == pc[r] # "new" /\ Finish(r, "OK") /\ Commits(r)

(* The fields of a line.                                                   *)
LEMMA LineFields ==
    ASSUME NEW lines \in Seq(InvoiceLine), NEW n \in DOMAIN lines
    PROVE  /\ lines[n] \in InvoiceLine /\ lines[n].item \in Items /\ lines[n].qty \in Nat /\ lines[n].price \in Nat
           /\ lines[n].discount \in Nat /\ lines[n].tax \in Nat
  <1>1. lines[n] \in InvoiceLine
    OBVIOUS
  <1> QED BY <1>1 DEF InvoiceLine

(* The lines an invoice bills.                                             *)
LEMMA RequestedNat ==
    ASSUME NEW lines \in Seq(InvoiceLine), NEW t
    PROVE  RequestedOf(lines, t) \in Nat /\ (t \notin ItemsOf(lines) => RequestedOf(lines, t) = 0)
  <1> DEFINE f == [n \in DOMAIN lines |-> IF lines[n].item = t THEN lines[n].qty ELSE 0]
  <1>1. IsFiniteSet(DOMAIN lines)
    BY FS_Interval
  <1>2. \A n \in DOMAIN lines : f[n] \in Nat
    BY LineFields
  <1>3. t \notin ItemsOf(lines) => \A n \in DOMAIN lines : f[n] = 0
    BY DEF ItemsOf, ToSet
  <1>4. RequestedOf(lines, t) = SumFunctionOnSet(f, DOMAIN lines)
    BY DEF RequestedOf, SumLines
  <1> HIDE DEF f
  <1> QED BY <1>1, <1>2, <1>3, <1>4, SumNat, SumZero

(* The units of an item received so far.                                   *)
LEMMA ReceivedNat ==
    ASSUME Shape, NEW t \in Items
    PROVE  /\ arrived[t] \in Nat /\ arrived[t] <= Len(Deliveries[t]) /\ Received(t) \in Nat
           /\ \A n \in 1 .. Len(Deliveries[t]) : Deliveries[t][n].qty \in Nat
  <1> DEFINE Lots == [qty : Nat, cost : Nat]
             f == [n \in 1 .. arrived[t] |-> Deliveries[t][n].qty]
  <1>1. arrived[t] \in Nat /\ arrived[t] <= Len(Deliveries[t]) /\ Deliveries[t] \in Seq(Lots)
    BY PayablesAssumption DEF Shape
  <1>2. \A l \in Lots : l.qty \in Nat
    OBVIOUS
  <1> HIDE DEF Lots
  <1>3. \A n \in 1 .. Len(Deliveries[t]) : Deliveries[t][n] \in Lots
    BY <1>1
  <1>4. \A n \in 1 .. Len(Deliveries[t]) : Deliveries[t][n].qty \in Nat
    BY <1>2, <1>3
  <1>5. \A n \in 1 .. arrived[t] : f[n] \in Nat
    <2>1. Len(Deliveries[t]) \in Nat
      BY <1>1
    <2> QED BY <1>1, <1>4, <2>1
  <1>6. IsFiniteSet(1 .. arrived[t])
    BY <1>1, FS_Interval
  <1>7. Received(t) = SumFunctionOnSet(f, 1 .. arrived[t])
    BY DEF Received, SumOver
  <1> HIDE DEF f
  <1>8. Received(t) \in Nat
    BY <1>5, <1>6, <1>7, SumNat
  <1> QED BY <1>1, <1>4, <1>8

(* Creating an invoice.                                                    *)
LEMMA InsertEffect ==
    ASSUME SessionInv, NEW r \in Requests, InsertInvoice(r)
    PROVE  Ends(r) \/ Concludes(r)
  <1>0. pc[r] = "insert" /\ req[r].kind = "CREATE"
    BY DEF InsertInvoice, Is
  <1>1. Starting(r)
    BY DEF SessionInv, Sessions
  <1>2. req[r] \in Submission /\ invoice[req[r].invoice] = NoOne /\ req[r].lines # <<>>
    BY <1>0, <1>1 DEF Starting
  <1> DEFINE q == req[r]
             i == q.invoice
             total == Subtotal(q.lines) - Discounts(q.lines) + Taxes(q.lines)
             row == [status |-> "DRAFT", key |-> q.key, number |-> q.number, lines |-> q.lines, total |-> total,
                     paid |-> 0, credited |-> 0]
  <1>3. i \in Invoices /\ q.key \in Keys /\ q.number \in Numbers /\ q.lines \in Seq(InvoiceLine)
    BY <1>0, <1>2, BodyFields
  <1>4. \/ \E code : Return(r, code)
        \/ /\ InvoicesWithKey(q.key) = {} /\ ~(\E j \in Rows \ Alien : invoice[j].number = q.number)
           /\ ~(total < 0)
           /\ invoice' = [invoice EXCEPT ![i] = row]
           /\ Finish(r, "OK")
           /\ UNCHANGED <<matches, arrived, invoiced, notes, reversed, entries, load>>
    <2> HIDE DEF total
    <2> QED BY DEF InsertInvoice, total
  <1>5. total \in Int
    <2>1. IsFiniteSet(DOMAIN q.lines)
      BY <1>3, FS_Interval
    <2>2. \A n \in DOMAIN q.lines :
             /\ RoundHalfUp(q.lines[n].qty * q.lines[n].price, QtyScale * CentScale) \in Int
             /\ q.lines[n].discount \in Int /\ q.lines[n].tax \in Int
      <3>1. SUFFICES ASSUME NEW n \in DOMAIN q.lines
                     PROVE  /\ RoundHalfUp(q.lines[n].qty * q.lines[n].price, QtyScale * CentScale) \in Int
                            /\ q.lines[n].discount \in Int /\ q.lines[n].tax \in Int
        OBVIOUS
      <3>2. q.lines[n].qty \in Nat /\ q.lines[n].price \in Nat /\ q.lines[n].discount \in Int /\ q.lines[n].tax \in Int
        BY <1>3, LineFields
      <3>3. QtyScale \in Nat \ {0} /\ CentScale \in Nat \ {0}
        BY PayablesAssumption
      <3>4. q.lines[n].qty * q.lines[n].price \in Int /\ QtyScale * CentScale \in Nat \ {0}
        <4>1. \A x, y \in Nat : x * y \in Int /\ (x # 0 /\ y # 0 => x * y \in Nat \ {0})
          OBVIOUS
        <4> QED BY <3>2, <3>3, <4>1
      <3>5. \A x \in Int, d \in Nat \ {0} : RoundHalfUp(x, d) \in Int
        BY DEF RoundHalfUp
      <3> QED BY <3>2, <3>4, <3>5
    <2> DEFINE f == [n \in DOMAIN q.lines |-> RoundHalfUp(q.lines[n].qty * q.lines[n].price, QtyScale * CentScale)]
               g == [n \in DOMAIN q.lines |-> q.lines[n].discount]
               h == [n \in DOMAIN q.lines |-> q.lines[n].tax]
    <2>3. \A n \in DOMAIN q.lines : f[n] \in Int /\ g[n] \in Int /\ h[n] \in Int
      BY <2>2
    <2>4. /\ Subtotal(q.lines) = SumFunctionOnSet(f, DOMAIN q.lines)
          /\ Discounts(q.lines) = SumFunctionOnSet(g, DOMAIN q.lines)
          /\ Taxes(q.lines) = SumFunctionOnSet(h, DOMAIN q.lines)
      BY DEF Subtotal, Discounts, Taxes, SumLines
    <2> HIDE DEF f, g, h, q
    <2>5. /\ SumFunctionOnSet(f, DOMAIN q.lines) \in Int /\ SumFunctionOnSet(g, DOMAIN q.lines) \in Int
          /\ SumFunctionOnSet(h, DOMAIN q.lines) \in Int
      BY <2>1, <2>3, SumInt
    <2> QED BY <2>4, <2>5
  <1> HIDE DEF total
  <1>6. CASE \E code : Return(r, code)
    BY <1>0, <1>6 DEF Ends
  <1>7. CASE ~\E code : Return(r, code)
    <2>1. ~(total < 0) => total \in Nat
      BY <1>5
    <2>2. total \in Nat
      BY <1>4, <1>7, <2>1
    <2>3. row \in PurchaseInvoice /\ row.key = q.key /\ row.number = q.number
      BY <1>3, <2>2 DEF PurchaseInvoice, Statuses
    <2>4. IsDraft(row)
      BY <1>2, <2>2 DEF IsDraft
    <2>5. (\A j \in Rows : invoice[j].key # row.key) /\ \A j \in Rows \ Alien : invoice[j].number # row.number
      BY <1>4, <1>7, <2>3 DEF InvoicesWithKey
    <2>6. Finish(r, "OK") /\ invoice' = [invoice EXCEPT ![i] = row]
          /\ UNCHANGED <<arrived, invoiced, notes, reversed, entries, load>>
      BY <1>4, <1>7
    <2> HIDE DEF row
    <2>7. Created(r, i, row)
      BY <1>0, <1>2, <1>3, <2>3, <2>4, <2>5, <2>6 DEF Created, Is
    <2> QED BY <1>0, <2>6, <2>7 DEF Concludes, Commits
  <1> QED BY <1>6, <1>7

(* Posting an invoice.                                                     *)
LEMMA PostEffect ==
    ASSUME SessionInv, NEW r \in Requests, PostInvoice(r)
    PROVE  Ends(r) \/ Concludes(r)
  <1>0. pc[r] = "write" /\ req[r].kind = "POST" /\ OnOrders(r)
    BY DEF PostInvoice, Is, OnOrders
  <1>1. Starting(r) /\ AmongOrders(r)
    BY DEF SessionInv, Sessions
  <1> DEFINE i   == req[r].invoice
             row == invoice[i]
             old == tx[r].invoiced
             new == InvoiceLines(row, MatchLines(row.lines, old))
  <1>2. i \in Invoices
    <2>1. req[r] \in Submission
      BY <1>0, <1>1 DEF Starting
    <2> QED BY <1>0, <2>1, BodyFields
  <1>3. /\ row # NoOne /\ row.status \in {"DRAFT", "VOIDED"}
        /\ tx[r].held = OrdersOf(row.lines)
        /\ \A t \in Items : ItemOrder[t] \in tx[r].held => tx[r].invoiced[t] = invoiced[t]
    BY <1>0, <1>1 DEF AmongOrders
  <1>4. row \in PurchaseInvoice
    BY <1>2, <1>3 DEF SessionInv, Shape
  <1>5. \A t \in ItemsOf(row.lines) : /\ t \in Items /\ ItemOrder[t] \in OrdersOf(row.lines) /\ ItemOrder[t] \in Orders
                                      /\ old[t] = invoiced[t]
    <2>1. row.lines \in Seq(InvoiceLine)
      BY <1>4, RowFields
    <2> HIDE DEF row
    <2> QED BY <1>3, <2>1, LineOrders
  <1>6. \A t \in ItemsOf(row.lines) : orderLock[ItemOrder[t]] = r
    BY <1>0, <1>3, <1>5 DEF SessionInv, LocksHeld, HoldsOrder
  <1>7. new["ACCOUNTS_PAYABLE"] = -CentScale * row.total
    BY DEF InvoiceLines, Accounts
  <1>8. \/ \E code : Return(r, code)
        \/ /\ ~(\E t \in ItemsOf(row.lines) : old[t] + RequestedOf(row.lines, t) > Received(t))
           /\ invoiceLock[i] = NoOne
           /\ Set(i, [row EXCEPT !.status = "POSTED"])
           /\ invoiced' = [t \in Items |-> IF t \in ItemsOf(row.lines) THEN old[t] + RequestedOf(row.lines, t)
                                           ELSE invoiced[t]]
           /\ entries' = entries \cup (IF new = Blank THEN {} ELSE {Entry("PURCHASE_INVOICE", i, new)})
           /\ Finish(r, "OK") /\ UNCHANGED <<arrived, notes, reversed, load>>
    BY DEF PostInvoice
  <1>9. CASE \E code : Return(r, code)
    BY <1>0, <1>9 DEF Ends
  <1>10. CASE ~\E code : Return(r, code)
    <2> HIDE DEF new
    <2>1. /\ ~(\E t \in ItemsOf(row.lines) : old[t] + RequestedOf(row.lines, t) > Received(t))
          /\ invoiceLock[i] = NoOne
          /\ invoice' = [invoice EXCEPT ![i] = [row EXCEPT !.status = "POSTED"]]
          /\ invoiced' = [t \in Items |-> IF t \in ItemsOf(row.lines) THEN old[t] + RequestedOf(row.lines, t)
                                          ELSE invoiced[t]]
          /\ entries' = entries \cup (IF new = Blank THEN {} ELSE {Entry("PURCHASE_INVOICE", i, new)})
          /\ Finish(r, "OK") /\ UNCHANGED <<arrived, notes, reversed, load>>
      BY <1>8, <1>10 DEF Set
    <2>2. invoiced' = [t \in Items |-> IF t \in ItemsOf(row.lines) THEN invoiced[t] + RequestedOf(row.lines, t)
                                       ELSE invoiced[t]]
      BY <1>5, <2>1
    <2>3. \A t \in ItemsOf(row.lines) : invoiced[t] + RequestedOf(row.lines, t) <= Received(t)
      <3>1. SUFFICES ASSUME NEW t \in ItemsOf(row.lines) PROVE invoiced[t] + RequestedOf(row.lines, t) <= Received(t)
        OBVIOUS
      <3>2. ~(invoiced[t] + RequestedOf(row.lines, t) > Received(t))
        BY <1>5, <2>1
      <3>3. invoiced[t] \in Int
        BY <1>5 DEF SessionInv, Shape
      <3>4. RequestedOf(row.lines, t) \in Nat
        BY <1>4, RowFields, RequestedNat
      <3>5. Received(t) \in Int
        BY <1>5, ReceivedNat DEF SessionInv
      <3> QED BY <3>2, <3>3, <3>4, <3>5
    <2> HIDE DEF row
    <2>4. Posted(r, i)
      <3>1. i \in Rows
        BY <1>2, <1>3 DEF Rows, row
      <3>2. \E e : /\ e["ACCOUNTS_PAYABLE"] = -CentScale * row.total
                   /\ entries' = entries \cup (IF e = Blank THEN {} ELSE {Entry("PURCHASE_INVOICE", i, e)})
        BY <1>7, <2>1
      <3> QED BY <1>0, <1>3, <1>6, <2>1, <2>2, <2>3, <3>1, <3>2 DEF Posted, Is, row
    <2> QED BY <1>0, <2>1, <2>4 DEF Concludes, Commits
  <1> QED BY <1>9, <1>10

(* Voiding an invoice: a draft at once, a posted one with its orders.      *)
LEMMA VoidEffect ==
    ASSUME SessionInv, NEW r \in Requests, VoidInvoice(r)
    PROVE  Ends(r) \/ Concludes(r)
  <1>0. pc[r] = "write" /\ req[r].kind = "VOID" /\ OnOrders(r)
    BY DEF VoidInvoice, Is, OnOrders
  <1>1. Starting(r) /\ AmongOrders(r)
    BY DEF SessionInv, Sessions
  <1> DEFINE i   == req[r].invoice
             row == invoice[i]
             old == tx[r].invoiced
             new == Opposite(InvoiceLines(row, VoidMatches(i, old)))
  <1>2. i \in Invoices
    <2>1. req[r] \in Submission
      BY <1>0, <1>1 DEF Starting
    <2> QED BY <1>0, <2>1, BodyFields
  <1>3. /\ row # NoOne /\ row.status = "POSTED"
        /\ tx[r].held = OrdersOf(row.lines)
        /\ \A t \in Items : ItemOrder[t] \in tx[r].held => tx[r].invoiced[t] = invoiced[t]
    BY <1>0, <1>1 DEF AmongOrders
  <1>4. row \in PurchaseInvoice
    BY <1>2, <1>3 DEF SessionInv, Shape
  <1>5. \A t \in ItemsOf(row.lines) : /\ t \in Items /\ ItemOrder[t] \in OrdersOf(row.lines) /\ ItemOrder[t] \in Orders
                                      /\ old[t] = invoiced[t]
    <2>1. row.lines \in Seq(InvoiceLine)
      BY <1>4, RowFields
    <2> HIDE DEF row
    <2> QED BY <1>3, <2>1, LineOrders
  <1>6. (\A t \in ItemsOf(row.lines) : orderLock[ItemOrder[t]] = r) /\ invoiceLock[i] = r
    BY <1>0, <1>2, <1>3, <1>5 DEF SessionInv, LocksHeld, HoldsOrder, HoldsInvoice
  <1>7. new["ACCOUNTS_PAYABLE"] = CentScale * row.total
    <2>1. row.total \in Int /\ CentScale \in Int
      BY <1>4, RowFields, PayablesAssumption
    <2>2. CentScale * row.total \in Int
      BY <2>1
    <2>3. InvoiceLines(row, VoidMatches(i, old))["ACCOUNTS_PAYABLE"] = -CentScale * row.total
      BY DEF InvoiceLines, Accounts
    <2>4. new["ACCOUNTS_PAYABLE"] = -(-CentScale * row.total)
      BY <2>3 DEF Opposite, Accounts
    <2>5. -(-CentScale * row.total) = CentScale * row.total
      BY <2>1
    <2> QED BY <2>4, <2>5
  <1>8. \/ \E code : Return(r, code)
        \/ /\ Set(i, [row EXCEPT !.status = "VOIDED"])
           /\ invoiced' = [t \in Items |-> IF t \in ItemsOf(row.lines) THEN old[t] - RequestedOf(row.lines, t)
                                           ELSE invoiced[t]]
           /\ entries' = entries \cup (IF new = Blank THEN {} ELSE {Entry("PURCHASE_INVOICE_VOID", i, new)})
           /\ Finish(r, "OK") /\ UNCHANGED <<arrived, notes, reversed, load>>
    BY DEF VoidInvoice
  <1>9. CASE \E code : Return(r, code)
    BY <1>0, <1>9 DEF Ends
  <1>10. CASE ~\E code : Return(r, code)
    <2> HIDE DEF new
    <2>1. /\ invoice' = [invoice EXCEPT ![i] = [row EXCEPT !.status = "VOIDED"]]
          /\ invoiced' = [t \in Items |-> IF t \in ItemsOf(row.lines) THEN old[t] - RequestedOf(row.lines, t)
                                          ELSE invoiced[t]]
          /\ entries' = entries \cup (IF new = Blank THEN {} ELSE {Entry("PURCHASE_INVOICE_VOID", i, new)})
          /\ Finish(r, "OK") /\ UNCHANGED <<arrived, notes, reversed, load>>
      BY <1>8, <1>10 DEF Set
    <2>2. invoiced' = [t \in Items |-> IF t \in ItemsOf(row.lines) THEN invoiced[t] - RequestedOf(row.lines, t)
                                       ELSE invoiced[t]]
      BY <1>5, <2>1
    <2> HIDE DEF row
    <2>4. Unposted(r, i)
      <3>1. i \in Rows
        BY <1>2, <1>3 DEF Rows, row
      <3>2. \E e : /\ e["ACCOUNTS_PAYABLE"] = CentScale * row.total
                   /\ entries' = entries \cup (IF e = Blank THEN {} ELSE {Entry("PURCHASE_INVOICE_VOID", i, e)})
        BY <1>7, <2>1
      <3> QED BY <1>0, <1>3, <1>6, <2>1, <2>2, <3>1, <3>2 DEF Unposted, Is, row
    <2> QED BY <1>0, <2>1, <2>4 DEF Concludes, Commits
  <1> QED BY <1>9, <1>10

(* The lock of a posted invoice, to void it.                               *)
TakesVoid(r) ==
    /\ Is(r, {"VOID"}, "begin") /\ req[r].invoice \in Rows /\ invoice[req[r].invoice].status = "POSTED"
    /\ invoiceLock[req[r].invoice] = NoOne
    /\ invoiceLock' = [invoiceLock EXCEPT ![req[r].invoice] = r]
    /\ Goto(r, "orders") /\ UNCHANGED <<tx, tables, orderLock, noteLock>>

(* The three ways the first step of a void can go.                         *)
LEMMA BeginVoidEffect ==
    ASSUME SessionInv, NEW r \in Requests, BeginVoid(r)
    PROVE  Ends(r) \/ Concludes(r) \/ TakesVoid(r)
  <1>0. pc[r] = "begin" /\ req[r].kind = "VOID" /\ Is(r, {"VOID"}, "begin")
    BY DEF BeginVoid, Is
  <1> DEFINE i == req[r].invoice
             row == invoice[i]
  <1>1. i \in Invoices
    <2>1. req[r] \in Submission
      BY <1>0 DEF SessionInv, Sessions, Starting
    <2> QED BY <1>0, <2>1, BodyFields
  <1>2. \/ \E code : Return(r, code)
        \/ /\ row # NoOne /\ row.status = "DRAFT" /\ invoiceLock[i] = NoOne
           /\ Set(i, [row EXCEPT !.status = "VOIDED"])
           /\ Finish(r, "OK")
           /\ UNCHANGED <<matches, arrived, invoiced, notes, reversed, entries, load>>
        \/ /\ row # NoOne /\ row.status \notin {"VOIDED", "PARTIALLY_PAID", "PAID", "DRAFT"} /\ invoiceLock[i] = NoOne
           /\ invoiceLock' = [invoiceLock EXCEPT ![i] = r]
           /\ Goto(r, "orders") /\ UNCHANGED <<tx, tables, orderLock, noteLock>>
    BY DEF BeginVoid
  <1>3. CASE \E code : Return(r, code)
    BY <1>0, <1>3 DEF Ends
  <1>4. row # NoOne => i \in Rows /\ row \in PurchaseInvoice
    BY <1>1 DEF Rows, SessionInv, Shape
  <1>5. CASE /\ row # NoOne /\ row.status = "DRAFT" /\ invoiceLock[i] = NoOne
             /\ Set(i, [row EXCEPT !.status = "VOIDED"])
             /\ Finish(r, "OK")
             /\ UNCHANGED <<matches, arrived, invoiced, notes, reversed, entries, load>>
    <2>1. Dropped(i)
      BY <1>4, <1>5 DEF Dropped, Set
    <2> QED BY <1>0, <1>5, <2>1 DEF Concludes, Commits
  <1>6. CASE /\ row # NoOne /\ row.status \notin {"VOIDED", "PARTIALLY_PAID", "PAID", "DRAFT"} /\ invoiceLock[i] = NoOne
             /\ invoiceLock' = [invoiceLock EXCEPT ![i] = r]
             /\ Goto(r, "orders") /\ UNCHANGED <<tx, tables, orderLock, noteLock>>
    <2>1. row.status = "POSTED"
      BY <1>4, <1>6, RowFields DEF Statuses
    <2> QED BY <1>0, <1>4, <1>6, <2>1 DEF TakesVoid
  <1> QED BY <1>2, <1>3, <1>5, <1>6

(* The allocations of a body, invoice by invoice: each is worth something, *)
(* and together they are its total.                                        *)
LEMMA AllocatedAdds ==
    ASSUME NEW alloc \in Seq(Allocation), ~BadAllocations(alloc)
    PROVE  /\ DOMAIN Allocated(alloc) = Targets(alloc)
           /\ Allocated(alloc) = [i \in Targets(alloc) |-> Allocated(alloc)[i]]
           /\ \A i \in Targets(alloc) : Allocated(alloc)[i] \in Nat /\ Allocated(alloc)[i] > 0
           /\ SumFunctionOnSet(Allocated(alloc), Targets(alloc)) = AllocTotal(alloc)
  <1> DEFINE S == DOMAIN alloc
             k == [n \in S |-> alloc[n].invoice]
             f == [n \in S |-> alloc[n].amount]
             On(i) == {n \in S : k[n] = i}
             only(i) == [n \in S |-> IF alloc[n].invoice = i THEN alloc[n].amount ELSE 0]
  <1>1. IsFiniteSet(S)
    BY FS_Interval
  <1>2. \A n \in S : alloc[n] \in Allocation /\ alloc[n] \in ToSet(alloc)
    BY DEF ToSet
  <1>3. \A n \in S : f[n] \in Nat /\ f[n] > 0 /\ k[n] \in Targets(alloc)
    <2>1. \A a \in ToSet(alloc) : ~(a.amount <= 0)
      BY DEF BadAllocations
    <2>2. \A a \in Allocation : a.amount \in Int
      BY DEF Allocation
    <2> QED BY <1>2, <2>1, <2>2 DEF Targets
  <1>4. ASSUME NEW i \in Targets(alloc)
        PROVE  /\ Allocated(alloc)[i] = SumFunctionOnSet(f, On(i))
               /\ SumFunctionOnSet(f, On(i)) \in Nat /\ SumFunctionOnSet(f, On(i)) > 0
    <2>1. Allocated(alloc)[i] = SumFunctionOnSet(only(i), S)
      BY DEF Allocated, SumLines
    <2>2. On(i) \subseteq S /\ IsFiniteSet(On(i)) /\ (\A n \in On(i) : f[n] \in Nat)
      <3>1. On(i) \subseteq S
        OBVIOUS
      <3> QED BY <1>1, <1>3, <3>1, FS_Subset
    <2>3. \A n \in S : only(i)[n] = IF n \in On(i) THEN f[n] ELSE 0
      OBVIOUS
    <2>4. PICK n \in On(i) : TRUE
      <3>1. PICK a \in ToSet(alloc) : a.invoice = i
        BY <1>4 DEF Targets
      <3>2. PICK n \in S : alloc[n] = a
        BY DEF ToSet
      <3> QED BY <3>1, <3>2
    <2>5. f[n] > 0 /\ f[n] \in Nat
      BY <1>3, <2>2, <2>4
    <2> HIDE DEF On, only, f, S, k
    <2>6. SumFunctionOnSet(only(i), S) = SumFunctionOnSet(only(i), On(i))
      <3>1. (\A m \in On(i) : only(i)[m] \in Int) /\ (\A m \in S : m \notin On(i) => only(i)[m] = 0)
        BY <2>2, <2>3
      <3> QED BY <1>1, <2>2, <3>1, SumDropZero
    <2>7. SumFunctionOnSet(only(i), On(i)) = SumFunctionOnSet(f, On(i))
      <3>1. \A m \in On(i) : only(i)[m] = f[m]
        BY <2>2, <2>3
      <3> QED BY <2>2, <3>1, SumSame
    <2>8. SumFunctionOnSet(f, On(i)) \in Nat /\ SumFunctionOnSet(f, On(i)) >= f[n]
      BY <2>2, SumNat, SumAtLeast
    <2> QED BY <2>1, <2>5, <2>6, <2>7, <2>8
  <1>5. Allocated(alloc) = [i \in Targets(alloc) |-> Allocated(alloc)[i]] /\ DOMAIN Allocated(alloc) = Targets(alloc)
    BY DEF Allocated
  <1>6. AllocTotal(alloc) = SumFunctionOnSet(f, S)
    BY DEF AllocTotal, SumLines
  <1>7. IsFiniteSet(Targets(alloc))
    BY AllocTargets, PayablesAssumption, FS_Subset
  <1>8. SumFunctionOnSet(Allocated(alloc), Targets(alloc)) = SumFunctionOnSet(f, S)
    <2> DEFINE C == [i \in Targets(alloc) |-> On(i)]
    <2>1. \A i \in Targets(alloc) :
             /\ C[i] \subseteq S /\ (\A n \in S : n \in C[i] <=> k[n] = i)
             /\ Allocated(alloc)[i] = SumFunctionOnSet(f, C[i])
      BY <1>4
    <2>2. (\A n \in S : k[n] \in Targets(alloc)) /\ (\A n \in S : f[n] \in Int)
      BY <1>3
    <2> HIDE DEF f, S, k, C
    <2> QED BY <1>1, <1>7, <2>1, <2>2, SumByClass
  <1> QED BY <1>4, <1>5, <1>6, <1>8

(* A sum of natural numbers in a sequence.                                 *)
LEMMA CreditNat == ASSUME NEW lines \in Seq(Nat) PROVE SumLines(lines, LAMBDA n : n) \in Nat
  <1> DEFINE f == [n \in DOMAIN lines |-> lines[n]]
  <1>1. IsFiniteSet(DOMAIN lines) /\ \A n \in DOMAIN lines : f[n] \in Nat
    BY FS_Interval
  <1>2. SumLines(lines, LAMBDA n : n) = SumFunctionOnSet(f, DOMAIN lines)
    BY DEF SumLines
  <1> HIDE DEF f
  <1> QED BY <1>1, <1>2, SumNat

(* The note of a body that was let through to the invoices.                *)
NewNote(r) ==
    [id |-> r, kind |-> req[r].kind, key |-> req[r].key, number |-> IF req[r].kind = "PAY" THEN NoOne ELSE req[r].number,
     lines |-> NoteLines(req[r]), amount |-> AmountOf(req[r]), account |-> AccountOf(req[r]),
     alloc |-> Allocated(req[r].alloc)]

(* A new payment or credit note is the sum of its allocations.             *)
LEMMA NewNoteAdds ==
    ASSUME SessionInv, NEW r \in Requests, OnInvoices(r), req[r].kind # "REVERSE"
    PROVE  /\ NoteAdds(NewNote(r)) /\ DOMAIN NewNote(r).alloc = Targets(req[r].alloc)
           /\ Targets(req[r].alloc) \subseteq Invoices
  <1> DEFINE q == req[r]
             n == NewNote(r)
  <1>1. q \in Submission /\ q.kind \in {"PAY", "CREDIT"} /\ AmongInvoices(r)
    BY DEF OnInvoices, SessionInv, Sessions, Starting
  <1>2. ~BadAllocations(q.alloc) /\ AllocTotal(q.alloc) = AmountOf(q)
    BY <1>1 DEF AmongInvoices
  <1>3. q.key \in Keys /\ q.alloc \in Seq(Allocation)
    BY <1>1, BodyFields
  <1>4. n.alloc = Allocated(q.alloc) /\ n.amount = AmountOf(q) /\ n.id = r /\ n.kind = q.kind /\ n.key = q.key
        /\ n.number = (IF q.kind = "PAY" THEN NoOne ELSE q.number) /\ n.lines = NoteLines(q) /\ n.account = AccountOf(q)
    BY DEF NewNote
  <1> HIDE DEF n, q
  <1>5. /\ DOMAIN n.alloc = Targets(q.alloc) /\ n.alloc = [i \in DOMAIN n.alloc |-> n.alloc[i]]
        /\ \A i \in DOMAIN n.alloc : n.alloc[i] \in Nat /\ n.alloc[i] > 0
        /\ SumFunctionOnSet(n.alloc, DOMAIN n.alloc) = AllocTotal(q.alloc)
    <2> DEFINE A == Allocated(q.alloc)
    <2>1. /\ DOMAIN A = Targets(q.alloc) /\ A = [i \in Targets(q.alloc) |-> A[i]]
          /\ \A i \in Targets(q.alloc) : A[i] \in Nat /\ A[i] > 0
          /\ SumFunctionOnSet(A, Targets(q.alloc)) = AllocTotal(q.alloc)
      BY <1>2, <1>3, AllocatedAdds
    <2> HIDE DEF A
    <2>2. n.alloc = A
      BY <1>4 DEF A
    <2> QED BY <2>1, <2>2
  <1>6. Targets(q.alloc) \subseteq Invoices /\ Targets(q.alloc) # {}
    BY <1>2, <1>3, AllocTargets DEF BadAllocations
  <1>7. n.number \in Numbers \cup {NoOne} /\ (n.kind = "CREDIT" => n.number \in Numbers)
    BY <1>1, <1>4, BodyFields
  <1>8. n.amount \in Nat /\ n.lines \in Seq(Nat)
    <2>1. CASE q.kind = "PAY"
      <3>1. q.amount \in Nat /\ AmountOf(q) = q.amount /\ NoteLines(q) = <<>>
        BY <1>1, <2>1, BodyFields DEF AmountOf, NoteLines
      <3>2. <<>> \in Seq(Nat)
        OBVIOUS
      <3> QED BY <1>4, <3>1, <3>2
    <2>2. CASE q.kind = "CREDIT"
      <3>1. q.lines \in Seq(Nat) /\ NoteLines(q) = q.lines
        BY <1>1, <2>2, BodyFields DEF NoteLines
      <3>2. AmountOf(q) = SumLines(q.lines, LAMBDA m : m)
        BY <2>2 DEF AmountOf
      <3> QED BY <1>4, <3>1, <3>2, CreditNat
    <2> QED BY <1>1, <2>1, <2>2
  <1>9. n.account \in Accounts
    BY <1>4 DEF AccountOf, Accounts
  <1>10. n.alloc \in [DOMAIN n.alloc -> Nat]
    BY <1>5
  <1>11. IsNote(n)
    BY <1>1, <1>3, <1>4, <1>5, <1>6, <1>7, <1>8, <1>9, <1>10 DEF IsNote
  <1>12. NoteAdds(n)
    BY <1>2, <1>4, <1>5, <1>6, <1>7, <1>11 DEF NoteAdds, AccountOf
  <1> QED BY <1>5, <1>6, <1>12 DEF n, q

(* Settling invoices.                                                      *)
LEMMA NoteEffect ==
    ASSUME SessionInv, NEW r \in Requests, WriteNote(r)
    PROVE  Ends(r) \/ Concludes(r)
  <1>0. pc[r] = "write" /\ req[r].kind \in {"PAY", "CREDIT"} /\ OnInvoices(r)
    BY DEF WriteNote, Is, OnInvoices
  <1> DEFINE q    == req[r]
             rows == [i \in Targets(q.alloc) |-> tx[r].inv[i]]
             n    == NewNote(r)
  <1>1. \/ \E code : Return(r, code)
        \/ /\ NotesWithKey(q) = {} /\ ~(\E i \in DOMAIN rows : rows[i] = NoOne)
           /\ ~(\E i \in DOMAIN rows : rows[i].status \notin {"POSTED", "PARTIALLY_PAID"})
           /\ ~(\E i \in DOMAIN rows : n.alloc[i] > Outstanding(rows[i]))
           /\ ~(q.kind = "CREDIT" /\ \E m \in notes : m.number = q.number)
           /\ notes' = notes \cup {n}
           /\ invoice' = ApplyAll(tx[r], q.kind, n.alloc, 1)
           /\ entries' = entries \cup {Entry(q.kind, r, Pair("ACCOUNTS_PAYABLE", n.account, CentScale * n.amount))}
           /\ Finish(r, "OK") /\ UNCHANGED <<arrived, invoiced, reversed, load>>
    BY DEF WriteNote, ReturnMatched, NewNote
  <1>2. CASE \E code : Return(r, code)
    BY <1>0, <1>2 DEF Ends
  <1>3. CASE ~\E code : Return(r, code)
    <2> DEFINE A == n.alloc
    <2>1. /\ NoteAdds(n) /\ DOMAIN A = Targets(q.alloc) /\ Targets(q.alloc) \subseteq Invoices
      BY <1>0, NewNoteAdds
    <2>2. n.id = r /\ n.kind = q.kind /\ n.key = q.key /\ n.number = (IF q.kind = "PAY" THEN NoOne ELSE q.number)
      BY DEF NewNote
    <2>3. n.account # "ACCOUNTS_PAYABLE"
      BY DEF NewNote, AccountOf
    <2> HIDE DEF n
    <2>4. r \notin NoteIds
      BY <1>0 DEF SessionInv, NotesWhole, NoteIds
    <2>5. /\ (\A m \in notes : m.kind = n.kind => m.key # n.key)
          /\ (n.kind = "CREDIT" => \A m \in notes : m.number # n.number)
          /\ n.kind = "PAY" => n.number = NoOne
      BY <1>1, <1>3, <2>2 DEF NotesWithKey
    <2>6. tx[r].held = Targets(q.alloc) /\ \A i \in Targets(q.alloc) : tx[r].inv[i] # NoOne => tx[r].inv[i] = invoice[i]
      BY <1>0 DEF SessionInv, Sessions, AmongInvoices, TargetsOf
    <2>7. \A i \in DOMAIN A : tx[r].inv[i] # NoOne /\ tx[r].inv[i] = invoice[i] /\ i \in Invoices
      BY <1>1, <1>3, <2>1, <2>6
    <2>8. ASSUME NEW i \in DOMAIN A
          PROVE  /\ i \in Rows /\ invoiceLock[i] = r /\ invoice[i].status \in {"POSTED", "PARTIALLY_PAID"}
                 /\ A[i] <= Outstanding(invoice[i])
      <3>1. i \in Rows /\ invoice[i] \in PurchaseInvoice
        BY <2>7 DEF Rows, SessionInv, Shape
      <3>2. HoldsInvoice(r, i)
        BY <1>0, <2>1, <2>6, <2>7 DEF HoldsInvoice
      <3>3. invoiceLock[i] = r
        BY <2>7, <3>2 DEF SessionInv, LocksHeld
      <3>4. rows[i] = invoice[i] /\ i \in DOMAIN rows
        BY <2>1, <2>7
      <3>5. invoice[i].status \in {"POSTED", "PARTIALLY_PAID"} /\ ~(A[i] > Outstanding(invoice[i]))
        BY <1>1, <1>3, <3>4
      <3>6. A[i] \in Int
        BY <2>1 DEF NoteAdds, IsNote
      <3>7. Outstanding(invoice[i]) \in Int
        BY <3>1, RowFields DEF Outstanding
      <3> QED BY <3>1, <3>3, <3>5, <3>6, <3>7
    <2>9. Applies(n, 1)
      <3>1. \A i \in Invoices : (IF i \in DOMAIN A THEN Apply(tx[r].inv[i], q.kind, 1 * A[i]) ELSE invoice[i])
                                  = IF i \in DOMAIN A THEN Apply(invoice[i], n.kind, 1 * A[i]) ELSE invoice[i]
        BY <2>2, <2>7
      <3> QED BY <1>1, <1>3, <3>1 DEF ApplyAll, Applies
    <2>10. \E new : new["ACCOUNTS_PAYABLE"] = CentScale * n.amount /\ entries' = entries \cup {Entry(n.kind, r, new)}
      <3> DEFINE new == Pair("ACCOUNTS_PAYABLE", n.account, CentScale * n.amount)
      <3>1. new["ACCOUNTS_PAYABLE"] = CentScale * n.amount
        BY DEF Pair, Accounts
      <3>2. entries' = entries \cup {Entry(n.kind, r, new)}
        BY <1>1, <1>3, <2>2
      <3> HIDE DEF new
      <3> QED BY <3>1, <3>2
    <2>11. Finish(r, "OK") /\ notes' = notes \cup {n} /\ UNCHANGED <<arrived, invoiced, reversed, load>>
      BY <1>1, <1>3
    <2>12. Settled(r, n)
      BY <2>1, <2>2, <2>4, <2>5, <2>8, <2>9, <2>10, <2>11 DEF Settled
    <2> QED BY <1>0, <2>11, <2>12 DEF Concludes, Commits
  <1> QED BY <1>2, <1>3

(* Undoing a settlement.                                                   *)
LEMMA ReversalEffect ==
    ASSUME SessionInv, NEW r \in Requests, WriteReversal(r)
    PROVE  Ends(r) \/ Concludes(r)
  <1>0. pc[r] = "write" /\ req[r].kind = "REVERSE" /\ OnInvoices(r)
    BY DEF WriteReversal, Is, OnInvoices
  <1> DEFINE n == NoteOf(req[r].id)
  <1>1. \/ \E code : Return(r, code)
        \/ /\ n.id \notin reversed /\ invoice' = ApplyAll(tx[r], n.kind, n.alloc, -1)
           /\ reversed' = reversed \cup {n.id}
           /\ entries' = entries \cup {Entry("REVERSAL", n.id, Pair(n.account, "ACCOUNTS_PAYABLE", CentScale * n.amount))}
           /\ Finish(r, "OK") /\ UNCHANGED <<arrived, invoiced, notes, load>>
    BY DEF WriteReversal
  <1>2. CASE \E code : Return(r, code)
    BY <1>0, <1>2 DEF Ends
  <1>3. CASE ~\E code : Return(r, code)
    <2>1. /\ req[r].id \in NoteIds /\ tx[r].held = DOMAIN n.alloc
          /\ \A i \in DOMAIN n.alloc : tx[r].inv[i] # NoOne /\ tx[r].inv[i] = invoice[i]
      BY <1>0 DEF SessionInv, Sessions, AmongInvoices, TargetsOf
    <2>2. n \in notes /\ n.id = req[r].id
      BY <2>1, NoteNamed DEF SessionInv
    <2>3. IsNote(n)
      BY <2>2 DEF SessionInv, NotesWhole
    <2> HIDE DEF n
    <2>4. noteLock[n.id] = r
      <3>1. n.id \in Requests
        BY <2>3 DEF IsNote
      <3> QED BY <1>0, <2>2, <3>1 DEF SessionInv, LocksHeld, HoldsNote
    <2>5. \A i \in DOMAIN n.alloc : invoiceLock[i] = r
      <3>1. \A i \in DOMAIN n.alloc : i \in Invoices /\ HoldsInvoice(r, i)
        BY <1>0, <2>1, <2>3 DEF IsNote, HoldsInvoice
      <3> QED BY <3>1 DEF SessionInv, LocksHeld
    <2>6. Applies(n, -1)
      <3>1. \A i \in Invoices : (IF i \in DOMAIN n.alloc THEN Apply(tx[r].inv[i], n.kind, (-1) * n.alloc[i]) ELSE invoice[i])
                                  = IF i \in DOMAIN n.alloc THEN Apply(invoice[i], n.kind, (-1) * n.alloc[i]) ELSE invoice[i]
        BY <2>1
      <3> QED BY <1>1, <1>3, <3>1 DEF ApplyAll, Applies
    <2>7. n.account # "ACCOUNTS_PAYABLE" => \E new : new["ACCOUNTS_PAYABLE"] = -CentScale * n.amount
                                               /\ entries' = entries \cup {Entry("REVERSAL", n.id, new)}
      <3> DEFINE new == Pair(n.account, "ACCOUNTS_PAYABLE", CentScale * n.amount)
      <3>1. SUFFICES ASSUME n.account # "ACCOUNTS_PAYABLE" PROVE new["ACCOUNTS_PAYABLE"] = -CentScale * n.amount
        BY <1>1, <1>3
      <3>2. new["ACCOUNTS_PAYABLE"] = -(CentScale * n.amount)
        BY <3>1 DEF Pair, Accounts
      <3>3. n.amount \in Int /\ CentScale \in Int
        BY <2>3, PayablesAssumption DEF IsNote
      <3> QED BY <3>2, <3>3
    <2>8. Finish(r, "OK") /\ reversed' = reversed \cup {n.id} /\ n.id \notin reversed
          /\ UNCHANGED <<arrived, invoiced, notes, load>>
      BY <1>1, <1>3
    <2>9. n.account # "ACCOUNTS_PAYABLE"
      BY <2>2 DEF SessionInv, NotesWhole
    <2>10. Undone(r, n)
      BY <2>2, <2>4, <2>5, <2>6, <2>7, <2>8, <2>9 DEF Undone
    <2> QED BY <1>0, <2>8, <2>10 DEF Concludes, Commits
  <1> QED BY <1>2, <1>3

(* A session that goes on to its locks, or to its insert.                  *)
Moves(r) ==
    \/ Is(r, {"CREATE"}, "begin") /\ req[r].lines # <<>> /\ Stay(r, "insert")
    \/ Is(r, {"POST"}, "begin") /\ invoice[req[r].invoice] # NoOne /\ Stay(r, "orders")
    \/ /\ Is(r, {"PAY", "CREDIT"}, "begin")
       /\ ~BadAllocations(req[r].alloc) /\ AllocTotal(req[r].alloc) = AmountOf(req[r])
       /\ Stay(r, "invoices")

(* The lock of the next order, and of a payment or credit note.            *)
TakesOrder(r) ==
    LET row  == invoice[req[r].invoice]
        left == OrdersOf(row.lines) \ tx[r].held
        o    == Smallest(left)
    IN  /\ Is(r, {"POST", "VOID"}, "orders") /\ orderLock[o] = NoOne
        /\ left = {o} /\ req[r].kind = "POST" => row.status = "DRAFT"
        /\ orderLock' = [orderLock EXCEPT ![o] = r]
        /\ tx' = [tx EXCEPT ![r] = [tx[r] EXCEPT !.held = tx[r].held \cup {o}, !.invoiced = invoiced]]
        /\ Goto(r, IF left = {o} THEN "write" ELSE "orders") /\ UNCHANGED <<tables, invoiceLock, noteLock>>

TakesNote(r) ==
    /\ Is(r, {"REVERSE"}, "begin") /\ noteLock[req[r].id] = NoOne
    /\ req[r].id \in NoteIds /\ req[r].id \notin reversed
    /\ noteLock' = [noteLock EXCEPT ![req[r].id] = r]
    /\ Goto(r, "invoices") /\ UNCHANGED <<tx, tables, invoiceLock, orderLock>>

(* Every step of a session is one of these.                                *)
LEMMA StepEffect ==
    ASSUME SessionInv, NEW r \in Requests, Step(r) \/ Fail(r)
    PROVE  Ends(r) \/ Concludes(r) \/ Moves(r) \/ TakesVoid(r) \/ TakesOrder(r) \/ TakesNote(r) \/ LockInvoice(r)
  <1>1. CASE BeginCreate(r)
    <2>1. pc[r] = "begin" /\ Is(r, {"CREATE"}, "begin")
      BY <1>1 DEF BeginCreate, Is
    <2>2. (\E code : Return(r, code)) \/ (req[r].lines # <<>> /\ Stay(r, "insert"))
      BY <1>1 DEF BeginCreate
    <2> QED BY <2>1, <2>2 DEF Ends, Moves
  <1>2. CASE InsertInvoice(r)
    BY <1>2, InsertEffect
  <1>3. CASE BeginPost(r)
    <2>1. pc[r] = "begin" /\ Is(r, {"POST"}, "begin")
      BY <1>3 DEF BeginPost, Is
    <2>2. (\E code : Return(r, code)) \/ (invoice[req[r].invoice] # NoOne /\ Stay(r, "orders"))
      BY <1>3 DEF BeginPost
    <2> QED BY <2>1, <2>2 DEF Ends, Moves
  <1>4. CASE LockOrder(r)
    <2>1. pc[r] = "orders"
      BY <1>4 DEF LockOrder, Is
    <2>2. (\E code : Return(r, code)) \/ TakesOrder(r)
      BY <1>4 DEF LockOrder, TakesOrder
    <2> QED BY <2>1, <2>2 DEF Ends
  <1>5. CASE PostInvoice(r)
    BY <1>5, PostEffect
  <1>6. CASE BeginVoid(r)
    BY <1>6, BeginVoidEffect
  <1>7. CASE VoidInvoice(r)
    BY <1>7, VoidEffect
  <1>8. CASE BeginPay(r)
    <2>1. pc[r] = "begin" /\ Is(r, {"PAY", "CREDIT"}, "begin") /\ req[r].kind = "PAY"
      BY <1>8 DEF BeginPay, Is
    <2>2. \/ \E code : Return(r, code)
          \/ ~BadAllocations(req[r].alloc) /\ AllocTotal(req[r].alloc) = req[r].amount /\ Stay(r, "invoices")
      BY <1>8 DEF BeginPay, ReturnMatched
    <2>3. AmountOf(req[r]) = req[r].amount
      BY <2>1 DEF AmountOf
    <2> QED BY <2>1, <2>2, <2>3 DEF Ends, Moves
  <1>9. CASE BeginCredit(r)
    <2>1. pc[r] = "begin" /\ Is(r, {"PAY", "CREDIT"}, "begin")
      BY <1>9 DEF BeginCredit, Is
    <2>2. \/ \E code : Return(r, code)
          \/ ~BadAllocations(req[r].alloc) /\ AllocTotal(req[r].alloc) = AmountOf(req[r]) /\ Stay(r, "invoices")
      BY <1>9 DEF BeginCredit, ReturnMatched
    <2> QED BY <2>1, <2>2 DEF Ends, Moves
  <1>10. CASE WriteNote(r)
    BY <1>10, NoteEffect
  <1>11. CASE BeginReverse(r)
    <2>1. pc[r] = "begin" /\ Is(r, {"REVERSE"}, "begin")
      BY <1>11 DEF BeginReverse, Is
    <2>2. \/ \E code : Return(r, code)
          \/ /\ noteLock[req[r].id] = NoOne /\ ~(\A n \in notes : n.id # req[r].id) /\ req[r].id \notin reversed
             /\ noteLock' = [noteLock EXCEPT ![req[r].id] = r]
             /\ Goto(r, "invoices") /\ UNCHANGED <<tx, tables, invoiceLock, orderLock>>
      BY <1>11 DEF BeginReverse
    <2> QED BY <2>1, <2>2 DEF Ends, TakesNote, NoteIds
  <1>12. CASE WriteReversal(r)
    BY <1>12, ReversalEffect
  <1>13. CASE Fail(r)
    BY <1>13 DEF Fail, Ends
  <1>14. CASE LockInvoice(r)
    BY <1>14
  <1> QED BY <1>1, <1>2, <1>3, <1>4, <1>5, <1>6, <1>7, <1>8, <1>9, <1>10, <1>11, <1>12, <1>13, <1>14 DEF Step

-----------------------------------------------------------------------------
(* Rows and notes under a commit.                                          *)

(* A note that stands has settled part of each of its invoices.            *)
LEMMA LiveBilled ==
    ASSUME SessionInv, NEW n \in notes, n.id \notin reversed, NEW i \in DOMAIN n.alloc
    PROVE  /\ i \in Rows /\ i \in Invoices /\ invoice[i] \in PurchaseInvoice /\ n.alloc[i] \in Nat /\ n.alloc[i] > 0
           /\ invoice[i].status \in {"PARTIALLY_PAID", "PAID"}
           /\ invoice[i].paid \in Nat /\ invoice[i].credited \in Nat
           /\ n.kind = "PAY" => invoice[i].paid >= n.alloc[i]
           /\ n.kind = "CREDIT" => invoice[i].credited >= n.alloc[i]
           /\ invoice[i].paid + invoice[i].credited <= invoice[i].total
  <1>1. NotesWhole /\ CachesFollowRows /\ Shape
    BY DEF SessionInv
  <1>2. IsNote(n) /\ i \in Rows /\ n.alloc[i] > 0
    BY <1>1 DEF NotesWhole
  <1>3. i \in Invoices /\ n.alloc[i] \in Nat /\ n.kind \in {"PAY", "CREDIT"}
    BY <1>2 DEF IsNote
  <1>4. invoice[i] \in PurchaseInvoice
    BY <1>1, <1>2, <1>3 DEF Shape, Rows
  <1>5. ASSUME NEW k \in {"PAY", "CREDIT"}
        PROVE  Applied(i, k) \in Nat /\ (n.kind = k => Applied(i, k) >= n.alloc[i])
    <2> DEFINE S == {m \in notes : m.kind = k /\ m.id \notin reversed /\ i \in DOMAIN m.alloc}
               f == [m \in S |-> m.alloc[i]]
    <2>1. S \subseteq notes /\ IsFiniteSet(S)
      <3>1. S \subseteq notes
        OBVIOUS
      <3> QED BY <1>1, <3>1, FS_Subset DEF NotesWhole
    <2>2. \A m \in S : f[m] \in Nat
      BY <1>1 DEF NotesWhole, IsNote
    <2>3. Applied(i, k) = SumFunctionOnSet(f, S)
      BY DEF Applied, SumOver
    <2>4. n.kind = k => n \in S /\ f[n] = n.alloc[i]
      OBVIOUS
    <2> HIDE DEF f, S
    <2>5. SumFunctionOnSet(f, S) \in Nat
      BY <2>1, <2>2, SumNat
    <2>6. ASSUME n.kind = k PROVE SumFunctionOnSet(f, S) >= n.alloc[i]
      <3>1. n \in S /\ f[n] = n.alloc[i]
        BY <2>4, <2>6
      <3> QED BY <2>1, <2>2, <3>1, SumAtLeast
    <2> QED BY <2>3, <2>5, <2>6
  <1>6. /\ invoice[i].paid = Applied(i, "PAY") /\ invoice[i].credited = Applied(i, "CREDIT")
        /\ invoice[i].status = "PAID" => invoice[i].paid + invoice[i].credited = invoice[i].total
        /\ invoice[i].status = "PARTIALLY_PAID" => invoice[i].paid + invoice[i].credited \in 1 .. invoice[i].total - 1
        /\ invoice[i].status \in {"DRAFT", "POSTED", "VOIDED"} => invoice[i].paid + invoice[i].credited = 0
    BY <1>1, <1>2 DEF CachesFollowRows
  <1>7. /\ invoice[i].paid \in Nat /\ invoice[i].credited \in Nat
        /\ n.kind = "PAY" => invoice[i].paid >= n.alloc[i]
        /\ n.kind = "CREDIT" => invoice[i].credited >= n.alloc[i]
    BY <1>5, <1>6
  <1>8. invoice[i].paid + invoice[i].credited # 0
    BY <1>2, <1>3, <1>7
  <1>9. invoice[i].status \in Statuses /\ invoice[i].total \in Int
    BY <1>4, RowFields
  <1>10. invoice[i].status \in {"PARTIALLY_PAID", "PAID"}
    BY <1>6, <1>8, <1>9 DEF Statuses
  <1>11. invoice[i].paid + invoice[i].credited <= invoice[i].total
    BY <1>6, <1>7, <1>9, <1>10
  <1> QED BY <1>2, <1>3, <1>4, <1>7, <1>10, <1>11

RowsTyped ==
    /\ invoice \in [Invoices -> PurchaseInvoice \cup {NoOne}]
    /\ \A i \in Rows : invoice[i].lines # <<>> /\ invoice[i].total \in Nat

(* A row changes nothing but its status, with nothing settled on it.       *)
Unsettled == {"DRAFT", "POSTED", "VOIDED"}
Restated(i, s) ==
    /\ i \in Rows /\ invoice[i].status \in Unsettled /\ s \in Unsettled
    /\ invoice' = [invoice EXCEPT ![i] = [invoice[i] EXCEPT !.status = s]]
    /\ UNCHANGED <<notes, reversed>>

(* The row before and after.                                               *)
LEMMA RestatedRow ==
    ASSUME Shape, NEW i, NEW s, Restated(i, s)
    PROVE  /\ i \in Invoices /\ invoice[i] \in PurchaseInvoice /\ invoice'[i] \in PurchaseInvoice
           /\ invoice'[i].status = s /\ invoice'[i].key = invoice[i].key /\ invoice'[i].number = invoice[i].number
           /\ invoice'[i].lines = invoice[i].lines /\ invoice'[i].total = invoice[i].total
           /\ invoice'[i].paid = invoice[i].paid /\ invoice'[i].credited = invoice[i].credited
           /\ Outstanding(invoice'[i]) = Outstanding(invoice[i])
           /\ \A j \in Invoices : j # i => invoice'[j] = invoice[j]
           /\ Rows' = Rows /\ RowsTyped'
  <1>1. i \in Rows /\ i \in Invoices /\ invoice[i] \in PurchaseInvoice /\ s \in Statuses
        /\ invoice \in [Invoices -> PurchaseInvoice \cup {NoOne}]
    BY DEF Shape, Rows, Restated, Unsettled, Statuses
  <1> DEFINE new == [invoice[i] EXCEPT !.status = s]
  <1>2. /\ new \in PurchaseInvoice /\ new.status = s /\ new.key = invoice[i].key /\ new.number = invoice[i].number
        /\ new.lines = invoice[i].lines /\ new.total = invoice[i].total
        /\ new.paid = invoice[i].paid /\ new.credited = invoice[i].credited
        /\ Outstanding(new) = Outstanding(invoice[i])
    BY <1>1, StatusSet
  <1> HIDE DEF new
  <1>3. invoice'[i] = new /\ (\A j \in Invoices : j # i => invoice'[j] = invoice[j])
        /\ invoice' \in [Invoices -> PurchaseInvoice \cup {NoOne}]
    BY <1>1, <1>2 DEF Restated, new
  <1>4. new # NoOne /\ invoice[i] # NoOne
    BY <1>1, <1>2, RowFields
  <1>5. Rows' = Rows
    BY <1>1, <1>3, <1>4 DEF Rows
  <1>6. \A j \in Rows : invoice'[j].lines # <<>> /\ invoice'[j].total \in Nat
    <2>1. \A j \in Rows : j \in Invoices /\ invoice[j].lines # <<>> /\ invoice[j].total \in Nat
      BY DEF Shape, Rows
    <2> QED BY <1>2, <1>3, <2>1
  <1> QED BY <1>1, <1>2, <1>3, <1>5, <1>6 DEF RowsTyped

(* The rows of a note's invoices before and after.                         *)
LEMMA AppliedRows ==
    ASSUME Shape, NEW n, IsNote(n), DOMAIN n.alloc \subseteq Rows, NEW sign \in {1, -1}, Applies(n, sign)
    PROVE  /\ \A i \in DOMAIN n.alloc :
                /\ i \in Invoices /\ n.alloc[i] \in Nat /\ invoice[i] \in PurchaseInvoice
                /\ sign * n.alloc[i] \in Int /\ invoice'[i] = Apply(invoice[i], n.kind, sign * n.alloc[i])
                /\ invoice'[i] \in PurchaseInvoice /\ invoice'[i].lines = invoice[i].lines
                /\ invoice'[i].total = invoice[i].total /\ invoice'[i].key = invoice[i].key
                /\ invoice'[i].number = invoice[i].number
           /\ \A i \in Invoices : i \notin DOMAIN n.alloc => invoice'[i] = invoice[i]
           /\ Rows' = Rows /\ RowsTyped'
  <1>1. invoice \in [Invoices -> PurchaseInvoice \cup {NoOne}] /\ n.kind \in {"PAY", "CREDIT"}
    BY DEF Shape, IsNote
  <1>2. \A i \in DOMAIN n.alloc :
           /\ i \in Invoices /\ n.alloc[i] \in Nat /\ invoice[i] \in PurchaseInvoice /\ sign * n.alloc[i] \in Int
    <2>1. \A i \in DOMAIN n.alloc : i \in Invoices /\ n.alloc[i] \in Nat /\ invoice[i] # NoOne
      BY DEF IsNote, Rows
    <2>2. \A x \in Nat : sign * x \in Int
      OBVIOUS
    <2> QED BY <1>1, <2>1, <2>2
  <1>3. /\ \A i \in DOMAIN n.alloc : invoice'[i] = Apply(invoice[i], n.kind, sign * n.alloc[i])
        /\ \A i \in Invoices : i \notin DOMAIN n.alloc => invoice'[i] = invoice[i]
    BY <1>2 DEF Applies
  <1>4. \A i \in DOMAIN n.alloc :
           /\ invoice'[i] \in PurchaseInvoice /\ invoice'[i].lines = invoice[i].lines
           /\ invoice'[i].total = invoice[i].total /\ invoice'[i].key = invoice[i].key
           /\ invoice'[i].number = invoice[i].number
    <2>1. SUFFICES ASSUME NEW i \in DOMAIN n.alloc
                   PROVE  /\ invoice'[i] \in PurchaseInvoice /\ invoice'[i].lines = invoice[i].lines
                          /\ invoice'[i].total = invoice[i].total /\ invoice'[i].key = invoice[i].key
                          /\ invoice'[i].number = invoice[i].number
      OBVIOUS
    <2>2. /\ invoice[i] \in PurchaseInvoice /\ sign * n.alloc[i] \in Int
          /\ invoice'[i] = Apply(invoice[i], n.kind, sign * n.alloc[i])
      BY <1>2, <1>3
    <2>3. PICK old, new, d, k : old = invoice[i] /\ new = invoice'[i] /\ d = sign * n.alloc[i] /\ k = n.kind
      OBVIOUS
    <2>4. old \in PurchaseInvoice /\ d \in Int /\ k \in {"PAY", "CREDIT"} /\ new = Apply(old, k, d)
      BY <1>1, <2>2, <2>3
    <2>5. IsApplied(new, old, k, d)
      BY ONLY <2>4, ApplyFields
    <2> QED BY <2>3, <2>5 DEF IsApplied
  <1>5. invoice' = [i \in Invoices |-> invoice'[i]]
    BY DEF Applies
  <1>6. invoice' \in [Invoices -> PurchaseInvoice \cup {NoOne}]
    BY <1>1, <1>3, <1>4, <1>5
  <1>7. \A i \in PurchaseInvoice : i # NoOne
    BY RowFields
  <1>8. Rows' = Rows
    BY <1>2, <1>3, <1>4, <1>7 DEF Rows
  <1>9. \A j \in Rows : invoice'[j].lines # <<>> /\ invoice'[j].total \in Nat
    <2>1. \A j \in Rows : j \in Invoices /\ invoice[j].lines # <<>> /\ invoice[j].total \in Nat
      BY DEF Shape, Rows
    <2> QED BY <1>3, <1>4, <2>1
  <1> QED BY <1>2, <1>3, <1>4, <1>6, <1>8, <1>9 DEF RowsTyped

(* A new row among the others.                                             *)
LEMMA CreatedRow ==
    ASSUME Shape, NEW r, NEW i, NEW row, Created(r, i, row)
    PROVE  /\ i \in Invoices /\ i \notin Rows /\ invoice'[i] = row /\ row \in PurchaseInvoice /\ row # NoOne
           /\ row.status = "DRAFT" /\ row.paid = 0 /\ row.credited = 0
           /\ \A j \in Invoices : j # i => invoice'[j] = invoice[j]
           /\ Rows' = Rows \cup {i} /\ RowsTyped'
  <1>1. /\ i \in Invoices /\ invoice[i] = NoOne /\ row \in PurchaseInvoice /\ IsDraft(row)
        /\ invoice' = [invoice EXCEPT ![i] = row] /\ invoice \in [Invoices -> PurchaseInvoice \cup {NoOne}]
    BY DEF Created, Shape
  <1>2. row # NoOne
    BY <1>1, RowFields
  <1>3. invoice'[i] = row /\ (\A j \in Invoices : j # i => invoice'[j] = invoice[j])
        /\ invoice' \in [Invoices -> PurchaseInvoice \cup {NoOne}]
    BY <1>1
  <1>4. i \notin Rows /\ Rows' = Rows \cup {i}
    BY <1>1, <1>2, <1>3 DEF Rows
  <1>5. \A j \in Rows' : invoice'[j].lines # <<>> /\ invoice'[j].total \in Nat
    <2>1. \A j \in Rows : j \in Invoices /\ invoice[j].lines # <<>> /\ invoice[j].total \in Nat
      BY DEF Shape, Rows
    <2>2. row.lines # <<>> /\ row.total \in Nat
      BY <1>1 DEF IsDraft
    <2> QED BY <1>3, <1>4, <2>1, <2>2
  <1> QED BY <1>1, <1>2, <1>3, <1>4, <1>5 DEF RowsTyped, IsDraft

(* What the commits restate.                                               *)
LEMMA CommitsRestate ==
    ASSUME NEW r, NEW i
    PROVE  /\ Dropped(i) => Restated(i, "VOIDED")
           /\ Posted(r, i) => Restated(i, "POSTED")
           /\ Unposted(r, i) => Restated(i, "VOIDED")
  BY DEF Dropped, Posted, Unposted, Restated, Unsettled

(* Two sessions never post the same invoice at once.                       *)
LEMMA OnePoster ==
    ASSUME SessionInv, NEW r \in Requests, NEW o \in Requests, Is(r, {"POST"}, "write"), Is(o, {"POST"}, "write"),
           req[r].invoice = req[o].invoice
    PROVE  o = r
  <1> DEFINE i == req[r].invoice
  <1>1. OnOrders(r) /\ OnOrders(o)
    BY DEF Is, OnOrders
  <1>2. invoice[i] # NoOne /\ tx[r].held = OrdersOf(invoice[i].lines) /\ tx[o].held = OrdersOf(invoice[i].lines)
    BY <1>1 DEF SessionInv, Sessions, AmongOrders, Is
  <1>3. i \in Invoices
    <2>1. req[r] \in Submission
      BY DEF SessionInv, Sessions, Starting, Is
    <2> QED BY <2>1, BodyFields DEF Is
  <1>4. invoice[i] \in PurchaseInvoice /\ invoice[i].lines # <<>>
    BY <1>2, <1>3 DEF SessionInv, Shape, Rows
  <1>5. PICK w \in OrdersOf(invoice[i].lines) : w \in Orders
    <2>1. invoice[i].lines \in Seq(InvoiceLine)
      BY <1>4, RowFields
    <2> QED BY <1>4, <2>1, LineOrders
  <1> QED BY <1>1, <1>2, <1>5 DEF SessionInv, LocksHeld, HoldsOrder

(* A commit disturbs no other session.                                     *)
LEMMA CommitBenign ==
    ASSUME SessionInv, NEW r \in Requests, Commits(r)
    PROVE  Benign(r) /\ RowsTyped' /\ Rows \subseteq Rows' /\ load' = load
  <1>0. Shape /\ NotesWhole /\ \A m, n \in notes : m.id = n.id => m = n
    BY DEF SessionInv, NotesWhole
  <1>1. ASSUME NEW o \in Requests, NEW i, Is(o, {"POST"}, "write"), req[o].invoice = i
        PROVE  invoice[i].status \in {"DRAFT", "VOIDED"}
    <2>1. OnOrders(o)
      BY <1>1 DEF Is, OnOrders
    <2> QED BY <1>1, <2>1 DEF SessionInv, Sessions, AmongOrders, Is
  <1>2. ASSUME NEW i, NEW row, Created(r, i, row) PROVE Benign(r) /\ RowsTyped' /\ Rows \subseteq Rows' /\ load' = load
    <2>1. Creates(r) /\ req[r].invoice = i /\ invoice[i] = NoOne /\ UNCHANGED <<invoiced, notes, reversed, load>>
      BY <1>2 DEF Created, Is, Creates
    <2>2. (\A j \in Invoices : j # i => invoice'[j] = invoice[j]) /\ RowsTyped' /\ Rows' = Rows \cup {i}
      BY <1>0, <1>2, CreatedRow
    <2> QED BY <1>0, <2>1, <2>2 DEF Benign
  <1>3. ASSUME NEW i, NEW s, Restated(i, s), invoiceLock[i] \in {NoOne, r},
               \A o \in Requests : o # r /\ Is(o, {"POST"}, "write") /\ req[o].invoice = i => s = "VOIDED",
               \A t \in Items : invoiced'[t] # invoiced[t] => orderLock[ItemOrder[t]] = r
        PROVE  Benign(r) /\ RowsTyped' /\ Rows \subseteq Rows'
    <2>1. /\ i \in Invoices /\ invoice[i] \in PurchaseInvoice /\ invoice'[i] \in PurchaseInvoice
          /\ invoice'[i].status = s /\ invoice'[i].lines = invoice[i].lines
          /\ \A j \in Invoices : j # i => invoice'[j] = invoice[j]
          /\ RowsTyped' /\ Rows' = Rows
      BY <1>0, <1>3, RestatedRow
    <2>2. invoice[i] # NoOne /\ invoice'[i] # NoOne
      BY <2>1, RowFields
    <2>3. UNCHANGED <<notes, reversed>>
      BY <1>3 DEF Restated
    <2> QED BY <1>0, <1>3, <2>1, <2>2, <2>3 DEF Benign
  <1>4. ASSUME NEW i, Dropped(i) PROVE Benign(r) /\ RowsTyped' /\ Rows \subseteq Rows' /\ load' = load
    <2>1. Restated(i, "VOIDED") /\ invoiceLock[i] = NoOne /\ UNCHANGED <<invoiced, load>>
      BY <1>4, CommitsRestate DEF Dropped
    <2> QED BY <1>3, <2>1
  <1>5. ASSUME NEW i, Posted(r, i) PROVE Benign(r) /\ RowsTyped' /\ Rows \subseteq Rows' /\ load' = load
    <2>1. /\ Restated(i, "POSTED") /\ invoiceLock[i] = NoOne /\ load' = load
          /\ Is(r, {"POST"}, "write") /\ req[r].invoice = i
      BY <1>5, CommitsRestate DEF Posted
    <2>2. \A o \in Requests : o # r /\ Is(o, {"POST"}, "write") /\ req[o].invoice = i => FALSE
      BY <2>1, OnePoster
    <2>3. \A t \in Items : invoiced'[t] # invoiced[t] => orderLock[ItemOrder[t]] = r
      BY <1>5 DEF Posted
    <2> QED BY <1>3, <2>1, <2>2, <2>3
  <1>6. ASSUME NEW i, Unposted(r, i) PROVE Benign(r) /\ RowsTyped' /\ Rows \subseteq Rows' /\ load' = load
    <2>1. Restated(i, "VOIDED") /\ invoiceLock[i] = r /\ load' = load
      BY <1>6, CommitsRestate DEF Unposted
    <2>3. \A t \in Items : invoiced'[t] # invoiced[t] => orderLock[ItemOrder[t]] = r
      BY <1>6 DEF Unposted
    <2> QED BY <1>3, <2>1, <2>3
  <1>7. ASSUME NEW n, IsNote(n), DOMAIN n.alloc \subseteq Rows, NEW sign \in {1, -1}, Applies(n, sign),
               \A i \in DOMAIN n.alloc : invoiceLock[i] = r /\ invoice[i].status \notin {"DRAFT", "VOIDED"},
               UNCHANGED invoiced, notes \subseteq notes', \A k, m \in notes' : k.id = m.id => k = m,
               \A id \in reversed' : id \notin reversed => noteLock[id] = r
        PROVE  Benign(r) /\ RowsTyped' /\ Rows \subseteq Rows'
    <2>1. /\ \A i \in DOMAIN n.alloc : i \in Invoices /\ invoice'[i] \in PurchaseInvoice
                                       /\ invoice'[i].lines = invoice[i].lines
          /\ \A i \in Invoices : i \notin DOMAIN n.alloc => invoice'[i] = invoice[i]
          /\ RowsTyped' /\ Rows' = Rows
      BY <1>0, <1>7, AppliedRows
    <2>2. \A i \in DOMAIN n.alloc : invoice[i] # NoOne /\ invoice'[i] # NoOne
      BY <1>7, <2>1, RowFields DEF Rows
    <2>3. \A i \in DOMAIN n.alloc : \A o \in Requests : ~(Is(o, {"POST"}, "write") /\ req[o].invoice = i)
      BY <1>1, <1>7
    <2> QED BY <1>7, <2>1, <2>2, <2>3 DEF Benign
  <1>8. ASSUME NEW n, Settled(r, n) PROVE Benign(r) /\ RowsTyped' /\ Rows \subseteq Rows' /\ load' = load
    <2>1. /\ IsNote(n) /\ DOMAIN n.alloc \subseteq Rows /\ Applies(n, 1) /\ UNCHANGED <<invoiced, reversed, load>>
          /\ \A i \in DOMAIN n.alloc : invoiceLock[i] = r /\ invoice[i].status \notin {"DRAFT", "VOIDED"}
          /\ notes' = notes \cup {n} /\ n.id \notin NoteIds
      BY <1>8 DEF Settled, NoteAdds
    <2>2. \A k, m \in notes' : k.id = m.id => k = m
      BY <1>0, <2>1 DEF NoteIds
    <2> QED BY <1>7, <2>1, <2>2
  <1>9. ASSUME NEW n, Undone(r, n) PROVE Benign(r) /\ RowsTyped' /\ Rows \subseteq Rows' /\ load' = load
    <2>1. /\ n \in notes /\ n.id \notin reversed /\ Applies(n, -1) /\ UNCHANGED <<invoiced, notes, load>>
          /\ \A i \in DOMAIN n.alloc : invoiceLock[i] = r
          /\ \A id \in reversed' : id \notin reversed => noteLock[id] = r
      BY <1>9 DEF Undone
    <2>2. IsNote(n) /\ DOMAIN n.alloc \subseteq Rows
      BY <1>0, <2>1 DEF NotesWhole
    <2>3. \A i \in DOMAIN n.alloc : invoice[i].status \notin {"DRAFT", "VOIDED"}
      <3>1. SUFFICES ASSUME NEW i \in DOMAIN n.alloc PROVE invoice[i].status \notin {"DRAFT", "VOIDED"}
        OBVIOUS
      <3>2. invoice[i].status \in {"PARTIALLY_PAID", "PAID"}
        BY <2>1, LiveBilled
      <3> QED BY <3>2
    <2> QED BY <1>0, <1>7, <2>1, <2>2, <2>3
  <1> QED BY <1>2, <1>4, <1>5, <1>6, <1>8, <1>9 DEF Commits

(* The notes that stand on an invoice, and what they add up to.            *)
On(i, k) == {n \in notes : n.kind = k /\ n.id \notin reversed /\ i \in DOMAIN n.alloc}
Share(i, k) == [n \in On(i, k) |-> n.alloc[i]]

(* What notes give to one invoice are finitely many natural numbers.       *)
LEMMA SharesAdd ==
    ASSUME NEW N, IsFiniteSet(N), \A n \in N : IsNote(n), NEW i, NEW S,
           \A n \in S : n \in N /\ i \in DOMAIN n.alloc, NEW f, \A n \in S : f[n] = n.alloc[i]
    PROVE  /\ IsFiniteSet(S) /\ (\A n \in S : f[n] \in Nat /\ f[n] = n.alloc[i])
           /\ SumFunctionOnSet(f, S) \in Nat
  <1>1. S \subseteq N
    OBVIOUS
  <1>2. IsFiniteSet(S)
    BY <1>1, FS_Subset
  <1>3. \A n \in S : f[n] \in Nat /\ f[n] = n.alloc[i]
    BY DEF IsNote
  <1> QED BY <1>2, <1>3, SumNat

(* What the standing notes of a kind give to an invoice, as a sum ...      *)
LEMMA AppliedIs ==
    ASSUME NotesWhole, NEW i, NEW k
    PROVE  /\ Applied(i, k) = SumFunctionOnSet(Share(i, k), On(i, k))
           /\ IsFiniteSet(On(i, k)) /\ (\A n \in On(i, k) : Share(i, k)[n] \in Nat /\ Share(i, k)[n] = n.alloc[i])
           /\ Applied(i, k) \in Nat
  <1>1. Applied(i, k) = SumFunctionOnSet(Share(i, k), On(i, k))
    BY DEF Applied, SumOver, On, Share
  <1>2. IsFiniteSet(notes) /\ \A n \in notes : IsNote(n)
    BY DEF NotesWhole
  <1>3. PICK N, S, f : N = notes /\ S = On(i, k) /\ f = Share(i, k)
    OBVIOUS
  <1>4. /\ (\A n \in S : n \in N /\ i \in DOMAIN n.alloc) /\ \A n \in S : f[n] = n.alloc[i]
        /\ IsFiniteSet(N) /\ \A n \in N : IsNote(n)
    BY <1>2, <1>3 DEF On, Share
  <1>5. /\ IsFiniteSet(S) /\ (\A n \in S : f[n] \in Nat /\ f[n] = n.alloc[i])
        /\ SumFunctionOnSet(f, S) \in Nat
    BY ONLY <1>4, SharesAdd
  <1> QED BY <1>1, <1>3, <1>5

(* ... and the same after a step.                                          *)
LEMMA AppliedNext ==
    ASSUME NotesWhole', NEW i, NEW k
    PROVE  /\ Applied(i, k)' = SumFunctionOnSet(Share(i, k)', On(i, k)')
           /\ IsFiniteSet(On(i, k)') /\ (\A n \in On(i, k)' : Share(i, k)'[n] \in Nat /\ Share(i, k)'[n] = n.alloc[i])
           /\ Applied(i, k)' \in Nat
  <1>1. Applied(i, k)' = SumFunctionOnSet(Share(i, k)', On(i, k)')
    BY DEF Applied, SumOver, On, Share
  <1>2. IsFiniteSet(notes') /\ \A n \in notes' : IsNote(n)
    BY DEF NotesWhole, IsNote
  <1>3. PICK N, S, f : N = notes' /\ S = On(i, k)' /\ f = Share(i, k)'
    OBVIOUS
  <1>4. /\ (\A n \in S : n \in N /\ i \in DOMAIN n.alloc) /\ \A n \in S : f[n] = n.alloc[i]
        /\ IsFiniteSet(N) /\ \A n \in N : IsNote(n)
    BY <1>2, <1>3 DEF On, Share
  <1>5. /\ IsFiniteSet(S) /\ (\A n \in S : f[n] \in Nat /\ f[n] = n.alloc[i])
        /\ SumFunctionOnSet(f, S) \in Nat
    BY ONLY <1>4, SharesAdd
  <1> QED BY <1>1, <1>3, <1>5

(* A new note adds its allocation to what stands on its invoices.          *)
LEMMA SettledSums ==
    ASSUME NotesWhole, NotesWhole', NEW r, NEW n, Settled(r, n), NEW i, NEW k
    PROVE  Applied(i, k)' = Applied(i, k) + IF n.kind = k /\ i \in DOMAIN n.alloc THEN n.alloc[i] ELSE 0
  <1>0. PICK S, T, f, g : S = On(i, k) /\ T = On(i, k)' /\ f = Share(i, k) /\ g = Share(i, k)'
    OBVIOUS
  <1>1. /\ Applied(i, k) = SumFunctionOnSet(f, S) /\ IsFiniteSet(S) /\ (\A m \in S : f[m] \in Nat /\ f[m] = m.alloc[i])
        /\ Applied(i, k) \in Nat
    BY <1>0, AppliedIs
  <1>2. Applied(i, k)' = SumFunctionOnSet(g, T) /\ IsFiniteSet(T) /\ (\A m \in T : g[m] \in Nat /\ g[m] = m.alloc[i])
    BY <1>0, AppliedNext
  <1>3. n.id = r /\ r \notin NoteIds /\ notes' = notes \cup {n} /\ reversed' = reversed /\ n \notin notes /\ r \notin reversed
    BY DEF Settled, NoteIds, NotesWhole
  <1>4. CASE n.kind = k /\ i \in DOMAIN n.alloc
    <2>1. n \in T /\ n \notin S /\ (\A m \in S : m \in T) /\ \A m \in T : m = n \/ m \in S
      BY <1>0, <1>3, <1>4 DEF On
    <2>2. (\A m \in S : g[m] = f[m] /\ f[m] \in Int) /\ g[n] \in Int /\ g[n] = n.alloc[i]
      BY <1>1, <1>2, <2>1
    <2>3. SumFunctionOnSet(g, T) = g[n] + SumFunctionOnSet(f, S)
      BY ONLY <1>1, <2>1, <2>2, SumWith
    <2> QED BY <1>1, <1>2, <1>4, <2>2, <2>3
  <1>5. CASE ~(n.kind = k /\ i \in DOMAIN n.alloc)
    <2>1. T = S
      BY <1>0, <1>3, <1>5 DEF On
    <2>2. \A m \in S : g[m] = f[m]
      BY <1>1, <1>2, <2>1
    <2>3. SumFunctionOnSet(g, S) = SumFunctionOnSet(f, S)
      BY ONLY <1>1, <2>2, SumSame
    <2> QED BY <1>1, <1>2, <1>5, <2>1, <2>3
  <1> QED BY <1>4, <1>5

(* Undoing it takes the same off.                                          *)
LEMMA UndoneSums ==
    ASSUME NotesWhole, NotesWhole', NEW r, NEW n, Undone(r, n), NEW i, NEW k
    PROVE  Applied(i, k)' = Applied(i, k) - IF n.kind = k /\ i \in DOMAIN n.alloc THEN n.alloc[i] ELSE 0
  <1>0. PICK S, T, f, g : S = On(i, k) /\ T = On(i, k)' /\ f = Share(i, k) /\ g = Share(i, k)'
    OBVIOUS
  <1>1. /\ Applied(i, k) = SumFunctionOnSet(f, S) /\ IsFiniteSet(S) /\ (\A m \in S : f[m] \in Nat /\ f[m] = m.alloc[i])
        /\ Applied(i, k) \in Nat
    BY <1>0, AppliedIs
  <1>2. /\ Applied(i, k)' = SumFunctionOnSet(g, T) /\ IsFiniteSet(T) /\ (\A m \in T : g[m] \in Nat /\ g[m] = m.alloc[i])
        /\ Applied(i, k)' \in Nat
    BY <1>0, AppliedNext
  <1>3. n \in notes /\ n.id \notin reversed /\ notes' = notes /\ reversed' = reversed \cup {n.id}
        /\ \A m \in notes : m.id = n.id => m = n
    BY DEF Undone, NotesWhole
  <1>4. CASE n.kind = k /\ i \in DOMAIN n.alloc
    <2>1. n \in S /\ n \notin T /\ (\A m \in T : m \in S) /\ \A m \in S : m = n \/ m \in T
      BY <1>0, <1>3, <1>4 DEF On
    <2>2. (\A m \in T : f[m] = g[m] /\ g[m] \in Int) /\ f[n] \in Int /\ f[n] = n.alloc[i]
      BY <1>1, <1>2, <2>1
    <2>3. SumFunctionOnSet(f, S) = f[n] + SumFunctionOnSet(g, T)
      BY ONLY <1>2, <2>1, <2>2, SumWith
    <2> QED BY <1>1, <1>2, <1>4, <2>2, <2>3
  <1>5. CASE ~(n.kind = k /\ i \in DOMAIN n.alloc)
    <2>1. T = S
      BY <1>0, <1>3, <1>5 DEF On
    <2>2. \A m \in S : g[m] = f[m]
      BY <1>1, <1>2, <2>1
    <2>3. SumFunctionOnSet(g, S) = SumFunctionOnSet(f, S)
      BY ONLY <1>1, <2>2, SumSame
    <2> QED BY <1>1, <1>2, <1>5, <2>1, <2>3
  <1> QED BY <1>4, <1>5

(* Notes stay whole under a commit.                                        *)
LEMMA CommitNotes ==
    ASSUME SessionInv, NEW r \in Requests, Concludes(r)
    PROVE  NotesWhole'
  <1>0. NotesWhole /\ Benign(r) /\ Rows \subseteq Rows' /\ Shape
    BY CommitBenign DEF SessionInv, Concludes
  <1>1. pc'[r] = "done" /\ \A o \in Requests : pc[o] = "done" => pc'[o] = "done"
    <2>1. pc'[r] = "done" /\ \A o \in Requests : o # r => pc'[o] = pc[o]
      BY FinishEnds DEF SessionInv, Concludes
    <2> QED BY <2>1
  <1>2. \A m, n \in notes' : m.id = n.id => m = n
    BY <1>0 DEF Benign
  <1>3. \A n \in notes :
          /\ IsNote(n) /\ pc'[n.id] = "done"
          /\ (n.kind = "CREDIT" => n.number \in Numbers) /\ n.account # "ACCOUNTS_PAYABLE"
          /\ DOMAIN n.alloc \subseteq Rows' /\ DOMAIN n.alloc # {}
          /\ \A i \in DOMAIN n.alloc : n.alloc[i] > 0
          /\ n.amount = SumFunctionOnSet(n.alloc, DOMAIN n.alloc)
    <2>1. \A n \in notes : n.id \in Requests
      BY <1>0 DEF NotesWhole, IsNote
    <2> QED BY <1>0, <1>1, <2>1 DEF NotesWhole
  <1>4. ASSUME NEW n, Settled(r, n) PROVE NotesWhole'
    <2>1. notes' = notes \cup {n} /\ reversed' = reversed /\ NoteAdds(n) /\ n.id = r /\ DOMAIN n.alloc \subseteq Rows
      BY <1>4 DEF Settled
    <2>2. IsFiniteSet(notes')
      BY <1>0, <2>1, FS_AddElement DEF NotesWhole
    <2>3. reversed' \subseteq NoteIds'
      BY <1>0, <2>1 DEF NotesWhole, NoteIds
    <2>4. /\ IsNote(n) /\ pc'[n.id] = "done"
          /\ (n.kind = "CREDIT" => n.number \in Numbers) /\ n.account # "ACCOUNTS_PAYABLE"
          /\ DOMAIN n.alloc \subseteq Rows' /\ DOMAIN n.alloc # {}
          /\ \A i \in DOMAIN n.alloc : n.alloc[i] > 0
          /\ n.amount = SumFunctionOnSet(n.alloc, DOMAIN n.alloc)
      BY <1>0, <1>1, <2>1 DEF NoteAdds
    <2> QED BY <1>2, <1>3, <2>1, <2>2, <2>3, <2>4 DEF NotesWhole, IsNote
  <1>5. ASSUME notes' = notes, \/ reversed' = reversed \/ \E n \in notes : reversed' = reversed \cup {n.id}
        PROVE  NotesWhole'
    <2>1. reversed' \subseteq NoteIds'
      BY <1>0, <1>5 DEF NotesWhole, NoteIds
    <2>2. IsFiniteSet(notes')
      BY <1>0, <1>5 DEF NotesWhole
    <2> QED BY <1>2, <1>3, <1>5, <2>1, <2>2 DEF NotesWhole, IsNote
  <1>6. ASSUME NEW n, Undone(r, n) PROVE NotesWhole'
    BY <1>5, <1>6 DEF Undone
  <1>7. ASSUME NEW i, NEW row, Created(r, i, row) PROVE NotesWhole'
    BY <1>5, <1>7 DEF Created
  <1>8. ASSUME NEW i, Dropped(i) \/ Posted(r, i) \/ Unposted(r, i) PROVE NotesWhole'
    BY <1>5, <1>8 DEF Dropped, Posted, Unposted
  <1> QED BY <1>4, <1>6, <1>7, <1>8 DEF Concludes, Commits

(* One row follows the notes that stand.                                   *)
Follows(i) ==
    LET row == invoice[i]
        settled == row.paid + row.credited
    IN  /\ row.paid = Applied(i, "PAY") /\ row.credited = Applied(i, "CREDIT")
        /\ row.status = "PAID" => settled = row.total
        /\ row.status = "PARTIALLY_PAID" => settled \in 1 .. row.total - 1
        /\ row.status \in {"DRAFT", "POSTED", "VOIDED"} => settled = 0

(* The caches follow the rows when each row's does ...                     *)
LEMMA CachesAre == CachesFollowRows <=> \A i \in Rows : Follows(i)
  BY DEF CachesFollowRows, Follows

(* ... and the same after a step.                                          *)
LEMMA CachesNext == CachesFollowRows' <=> \A i \in Rows' : Follows(i)'
  BY DEF CachesFollowRows, Follows

(* A row and its notes as they were.                                       *)
LEMMA FollowsSame ==
    ASSUME NEW i, Follows(i), invoice'[i] = invoice[i],
           Applied(i, "PAY")' = Applied(i, "PAY"), Applied(i, "CREDIT")' = Applied(i, "CREDIT")
    PROVE  Follows(i)'
  BY DEF Follows

(* The cached amounts follow the notes through every commit.               *)
LEMMA CommitCaches ==
    ASSUME SessionInv, NEW r \in Requests, Concludes(r)
    PROVE  CachesFollowRows'
  <1>0. NotesWhole /\ Shape /\ \A i \in Rows : Follows(i)
    BY CachesAre DEF SessionInv
  <1>1. NotesWhole' /\ Commits(r)
    BY CommitNotes DEF Concludes
  <1>2. ASSUME UNCHANGED <<notes, reversed>>, NEW i, NEW k PROVE Applied(i, k)' = Applied(i, k)
    BY <1>2 DEF Applied, SumOver
  <1>3. ASSUME NEW i, NEW row, Created(r, i, row) PROVE CachesFollowRows'
    <2>1. /\ i \notin Rows /\ invoice'[i] = row /\ row.status = "DRAFT" /\ row.paid = 0 /\ row.credited = 0
          /\ \A j \in Invoices : j # i => invoice'[j] = invoice[j]
          /\ Rows' = Rows \cup {i}
      BY <1>0, <1>3, CreatedRow
    <2>2. UNCHANGED <<notes, reversed>>
      BY <1>3 DEF Created
    <2>3. ASSUME NEW k PROVE Applied(i, k)' = 0
      <3>1. On(i, k) = {}
        BY <1>0, <2>1 DEF On, NotesWhole
      <3>2. Applied(i, k) = SumFunctionOnSet(Share(i, k), {})
        BY <1>0, <3>1, AppliedIs
      <3> QED BY <1>2, <2>2, <3>2, SumEmpty
    <2>4. Follows(i)'
      BY <2>1, <2>3 DEF Follows
    <2>5. ASSUME NEW j \in Rows PROVE Follows(j)'
      <3>1. invoice'[j] = invoice[j] /\ Follows(j)
        BY <1>0, <2>1 DEF Rows
      <3> QED BY <1>2, <2>2, <3>1, FollowsSame
    <2> QED BY <2>1, <2>4, <2>5, CachesNext
  <1>4. ASSUME NEW i, NEW s, Restated(i, s) PROVE CachesFollowRows'
    <2>1. /\ invoice'[i].status = s /\ invoice'[i].paid = invoice[i].paid /\ invoice'[i].credited = invoice[i].credited
          /\ \A j \in Invoices : j # i => invoice'[j] = invoice[j]
          /\ Rows' = Rows
      BY <1>0, <1>4, RestatedRow
    <2>2. UNCHANGED <<notes, reversed>> /\ i \in Rows /\ invoice[i].status \in Unsettled /\ s \in Unsettled
      BY <1>4 DEF Restated
    <2>3. Follows(i)'
      <3>1. Follows(i)
        BY <1>0, <2>2
      <3>2. invoice[i].paid + invoice[i].credited = 0
        BY <2>2, <3>1 DEF Follows, Unsettled
      <3>3. invoice[i].paid = Applied(i, "PAY") /\ invoice[i].credited = Applied(i, "CREDIT")
        BY <3>1 DEF Follows
      <3>4. Applied(i, "PAY")' = Applied(i, "PAY") /\ Applied(i, "CREDIT")' = Applied(i, "CREDIT")
        BY <1>2, <2>2
      <3> QED BY <2>1, <2>2, <3>2, <3>3, <3>4 DEF Follows, Unsettled
    <2>4. ASSUME NEW j \in Rows, j # i PROVE Follows(j)'
      <3>1. invoice'[j] = invoice[j] /\ Follows(j)
        BY <1>0, <2>1, <2>4 DEF Rows
      <3> QED BY <1>2, <2>2, <3>1, FollowsSame
    <2> QED BY <2>1, <2>3, <2>4, CachesNext
  <1>5. ASSUME NEW n, IsNote(n), DOMAIN n.alloc \subseteq Rows, NEW sign \in {1, -1}, Applies(n, sign),
               \A i : \A k : Applied(i, k)' =
                   Applied(i, k) + IF n.kind = k /\ i \in DOMAIN n.alloc THEN sign * n.alloc[i] ELSE 0,
               \A i \in DOMAIN n.alloc :
                  /\ invoice[i].paid + invoice[i].credited + sign * n.alloc[i] <= invoice[i].total
                  /\ invoice[i].paid + invoice[i].credited + sign * n.alloc[i] >= 0
                  /\ invoice[i].total > 0
        PROVE  CachesFollowRows'
    <2>1. /\ \A i \in DOMAIN n.alloc :
                /\ invoice[i] \in PurchaseInvoice /\ sign * n.alloc[i] \in Int
                /\ invoice'[i] = Apply(invoice[i], n.kind, sign * n.alloc[i])
          /\ \A i \in Invoices : i \notin DOMAIN n.alloc => invoice'[i] = invoice[i]
          /\ Rows' = Rows
      BY <1>0, <1>5, AppliedRows
    <2>2. ASSUME NEW i \in Rows, i \in DOMAIN n.alloc PROVE Follows(i)'
      <3>1. PICK old, new, d, k : old = invoice[i] /\ new = invoice'[i] /\ d = sign * n.alloc[i] /\ k = n.kind
        OBVIOUS
      <3>2. old \in PurchaseInvoice /\ d \in Int /\ k \in {"PAY", "CREDIT"} /\ new = Apply(old, k, d)
        BY <1>5, <2>1, <2>2, <3>1 DEF IsNote
      <3>3. /\ new.total = old.total
            /\ new.paid = (IF k = "PAY" THEN old.paid + d ELSE old.paid)
            /\ new.credited = (IF k = "PAY" THEN old.credited ELSE old.credited + d)
            /\ new.status = (IF new.paid + new.credited >= old.total THEN "PAID"
                             ELSE IF new.paid + new.credited > 0 THEN "PARTIALLY_PAID" ELSE "POSTED")
        <4>1. IsApplied(new, old, k, d)
          BY ONLY <3>2, ApplyFields
        <4> QED BY <4>1 DEF IsApplied
      <3>4. old.paid \in Int /\ old.credited \in Int /\ old.total \in Int
        BY <3>2, RowFields
      <3>5. old.paid + old.credited + d <= old.total /\ old.paid + old.credited + d >= 0 /\ old.total > 0
        BY <1>5, <2>2, <3>1
      <3>6. new.paid \in Int /\ new.credited \in Int /\ new.paid + new.credited = old.paid + old.credited + d
        BY <3>2, <3>3, <3>4
      <3>7. old.paid = Applied(i, "PAY") /\ old.credited = Applied(i, "CREDIT")
        BY <1>0, <3>1 DEF Follows
      <3>8. new.paid = Applied(i, "PAY")' /\ new.credited = Applied(i, "CREDIT")'
        <4>1. CASE k = "PAY"
          <5>1. Applied(i, "PAY")' = Applied(i, "PAY") + d /\ Applied(i, "CREDIT")' = Applied(i, "CREDIT") + 0
            BY <1>5, <2>2, <3>1, <4>1
          <5> QED BY <3>3, <3>4, <3>7, <4>1, <5>1
        <4>2. CASE k = "CREDIT"
          <5>1. Applied(i, "PAY")' = Applied(i, "PAY") + 0 /\ Applied(i, "CREDIT")' = Applied(i, "CREDIT") + d
            BY <1>5, <2>2, <3>1, <4>2
          <5> QED BY <3>3, <3>4, <3>7, <4>2, <5>1
        <4> QED BY <3>2, <4>1, <4>2
      <3>9. /\ new.status = "PAID" => new.paid + new.credited = new.total
            /\ new.status = "PARTIALLY_PAID" => new.paid + new.credited \in 1 .. new.total - 1
            /\ new.status \in {"DRAFT", "POSTED", "VOIDED"} => new.paid + new.credited = 0
        BY <3>3, <3>4, <3>5, <3>6
      <3> QED BY <3>1, <3>8, <3>9 DEF Follows
    <2>3. ASSUME NEW i \in Rows, i \notin DOMAIN n.alloc PROVE Follows(i)'
      <3>1. invoice'[i] = invoice[i] /\ Follows(i)
        BY <1>0, <2>1, <2>3 DEF Rows
      <3>2. ASSUME NEW k PROVE Applied(i, k)' = Applied(i, k)
        <4>1. Applied(i, k)' = Applied(i, k) + 0
          BY <1>5, <2>3
        <4>2. Applied(i, k) \in Nat
          BY <1>0, AppliedIs
        <4> QED BY <4>1, <4>2
      <3> QED BY <3>1, <3>2, FollowsSame
    <2> QED BY <2>1, <2>2, <2>3, CachesNext
  <1>6. ASSUME NEW n, Settled(r, n) PROVE CachesFollowRows'
    <2>1. IsNote(n) /\ DOMAIN n.alloc \subseteq Rows /\ Applies(n, 1) /\ \A i \in DOMAIN n.alloc : n.alloc[i] > 0
      BY <1>6 DEF Settled, NoteAdds
    <2>2. ASSUME NEW i \in DOMAIN n.alloc
          PROVE  /\ invoice[i].paid + invoice[i].credited + 1 * n.alloc[i] <= invoice[i].total
                 /\ invoice[i].paid + invoice[i].credited + 1 * n.alloc[i] >= 0
                 /\ invoice[i].total > 0
      <3>1. n.alloc[i] <= Outstanding(invoice[i]) /\ n.alloc[i] > 0
        BY <1>6, <2>1 DEF Settled
      <3>2. i \in Rows /\ n.alloc[i] \in Nat
        BY <2>1 DEF IsNote
      <3>3. invoice[i] \in PurchaseInvoice
        BY <1>0, <3>2 DEF Shape, Rows
      <3>4. invoice[i].paid \in Nat /\ invoice[i].credited \in Nat
        BY <1>0, <3>2, AppliedIs DEF Follows
      <3>5. invoice[i].total \in Int
        BY <3>3, RowFields
      <3> QED BY <3>1, <3>2, <3>4, <3>5 DEF Outstanding
    <2>3. \A i : \A k : Applied(i, k)' = Applied(i, k) + IF n.kind = k /\ i \in DOMAIN n.alloc THEN 1 * n.alloc[i] ELSE 0
      <3>1. SUFFICES ASSUME NEW i, NEW k
                     PROVE  Applied(i, k)' = Applied(i, k) + IF n.kind = k /\ i \in DOMAIN n.alloc THEN 1 * n.alloc[i] ELSE 0
        OBVIOUS
      <3>2. Applied(i, k)' = Applied(i, k) + IF n.kind = k /\ i \in DOMAIN n.alloc THEN n.alloc[i] ELSE 0
        BY <1>0, <1>1, <1>6, SettledSums
      <3>3. i \in DOMAIN n.alloc => n.alloc[i] = 1 * n.alloc[i]
        BY <2>1 DEF IsNote
      <3> QED BY <3>2, <3>3
    <2> QED BY <1>5, <2>1, <2>2, <2>3
  <1>7. ASSUME NEW n, Undone(r, n) PROVE CachesFollowRows'
    <2>1. Applies(n, -1) /\ n \in notes /\ n.id \notin reversed
      BY <1>7 DEF Undone
    <2>2. IsNote(n) /\ DOMAIN n.alloc \subseteq Rows
      BY <1>0, <2>1 DEF NotesWhole
    <2>3. ASSUME NEW i \in DOMAIN n.alloc
          PROVE  /\ invoice[i].paid + invoice[i].credited + (-1) * n.alloc[i] <= invoice[i].total
                 /\ invoice[i].paid + invoice[i].credited + (-1) * n.alloc[i] >= 0
                 /\ invoice[i].total > 0
      <3>1. /\ n.alloc[i] \in Nat /\ n.alloc[i] > 0 /\ invoice[i].paid \in Nat /\ invoice[i].credited \in Nat
            /\ n.kind = "PAY" => invoice[i].paid >= n.alloc[i]
            /\ n.kind = "CREDIT" => invoice[i].credited >= n.alloc[i]
            /\ invoice[i].paid + invoice[i].credited <= invoice[i].total
            /\ invoice[i] \in PurchaseInvoice
        BY <2>1, LiveBilled
      <3>2. n.kind \in {"PAY", "CREDIT"}
        BY <2>2 DEF IsNote
      <3>3. invoice[i].total \in Int
        BY <3>1, RowFields
      <3> QED BY <3>1, <3>2, <3>3
    <2>4. \A i : \A k : Applied(i, k)' = Applied(i, k) + IF n.kind = k /\ i \in DOMAIN n.alloc THEN (-1) * n.alloc[i] ELSE 0
      <3>1. SUFFICES ASSUME NEW i, NEW k
                     PROVE  Applied(i, k)' = Applied(i, k) + IF n.kind = k /\ i \in DOMAIN n.alloc THEN (-1) * n.alloc[i] ELSE 0
        OBVIOUS
      <3>2. Applied(i, k)' = Applied(i, k) - IF n.kind = k /\ i \in DOMAIN n.alloc THEN n.alloc[i] ELSE 0
        BY <1>0, <1>1, <1>7, UndoneSums
      <3>3. i \in DOMAIN n.alloc => n.alloc[i] \in Nat
        BY <2>2 DEF IsNote
      <3>4. Applied(i, k) \in Nat
        BY <1>0, AppliedIs
      <3> QED BY <3>2, <3>3, <3>4
    <2> QED BY <1>5, <2>1, <2>2, <2>3, <2>4
  <1>8. ASSUME NEW i, Dropped(i) \/ Posted(r, i) \/ Unposted(r, i) PROVE CachesFollowRows'
    BY <1>4, <1>8, CommitsRestate
  <1> QED BY <1>1, <1>3, <1>6, <1>7, <1>8 DEF Commits

-----------------------------------------------------------------------------
(* The invariant is kept.                                                  *)

(* Tables as they were.                                                    *)
LEMMA QuietTables ==
    ASSUME SessionInv, UNCHANGED <<invoice, notes, reversed>>,
           \A o \in Requests : pc[o] = "done" => pc'[o] = "done"
    PROVE  NotesWhole' /\ CachesFollowRows' /\ RowsTyped'
  <1>1. Rows' = Rows /\ NoteIds' = NoteIds
    BY DEF Rows, NoteIds
  <1>2. NotesWhole'
    <2>1. \A n \in notes : n.id \in Requests
      BY DEF SessionInv, NotesWhole, IsNote
    <2> QED BY <1>1, <2>1 DEF SessionInv, NotesWhole, IsNote
  <1>3. \A i \in Rows : Follows(i)
    BY CachesAre DEF SessionInv
  <1>4. ASSUME NEW i, NEW k PROVE Applied(i, k)' = Applied(i, k)
    BY DEF Applied, SumOver
  <1>5. \A i \in Rows' : Follows(i)'
    BY <1>1, <1>3, <1>4, FollowsSame
  <1>6. CachesFollowRows'
    BY <1>5, CachesNext
  <1>7. RowsTyped'
    BY <1>1 DEF SessionInv, Shape, RowsTyped
  <1> QED BY <1>2, <1>6, <1>7

(* The locks after a step that takes some and gives none up.               *)
LEMMA MoveLocks ==
    ASSUME SessionInv, NEW r \in Requests,
           \A o \in Requests : o # r => pc'[o] = pc[o] /\ req'[o] = req[o] /\ tx'[o] = tx[o],
           \A i \in Invoices :
              /\ HoldsInvoice(r, i) => HoldsInvoice(r, i)'
              /\ HoldsInvoice(r, i)' /\ ~HoldsInvoice(r, i) => invoiceLock[i] = NoOne
              /\ invoiceLock'[i] = IF HoldsInvoice(r, i)' THEN r ELSE invoiceLock[i],
           \A o \in Orders :
              /\ HoldsOrder(r, o) => HoldsOrder(r, o)'
              /\ HoldsOrder(r, o)' /\ ~HoldsOrder(r, o) => orderLock[o] = NoOne
              /\ orderLock'[o] = IF HoldsOrder(r, o)' THEN r ELSE orderLock[o],
           \A id \in Requests :
              /\ HoldsNote(r, id) => HoldsNote(r, id)'
              /\ HoldsNote(r, id)' /\ ~HoldsNote(r, id) => noteLock[id] = NoOne
              /\ noteLock'[id] = IF HoldsNote(r, id)' THEN r ELSE noteLock[id]
    PROVE  LocksHeld'
  <1>1. \A o \in Requests : o # r => OnOrders(o)' = OnOrders(o) /\ OnInvoices(o)' = OnInvoices(o)
    BY DEF OnOrders, OnInvoices
  <1>2. r # NoOne /\ \A o \in Requests : o # NoOne
    BY PayablesAssumption
  <1>3. ASSUME NEW i \in Invoices, NEW o \in Requests PROVE invoiceLock'[i] = o <=> HoldsInvoice(o, i)'
    <2>1. (invoiceLock[i] = o <=> HoldsInvoice(o, i)) /\ (invoiceLock[i] = r <=> HoldsInvoice(r, i))
      BY DEF SessionInv, LocksHeld
    <2>2. o # r => HoldsInvoice(o, i)' = HoldsInvoice(o, i)
      BY <1>1 DEF HoldsInvoice
    <2>3. /\ HoldsInvoice(r, i) => HoldsInvoice(r, i)'
          /\ HoldsInvoice(r, i)' /\ ~HoldsInvoice(r, i) => invoiceLock[i] = NoOne
          /\ invoiceLock'[i] = IF HoldsInvoice(r, i)' THEN r ELSE invoiceLock[i]
      OBVIOUS
    <2>4. CASE o = r
      BY <1>2, <2>1, <2>3, <2>4
    <2>5. CASE o # r
      BY <1>2, <2>1, <2>2, <2>3, <2>5
    <2> QED BY <2>4, <2>5
  <1>4. ASSUME NEW i \in Orders, NEW o \in Requests PROVE orderLock'[i] = o <=> HoldsOrder(o, i)'
    <2>1. (orderLock[i] = o <=> HoldsOrder(o, i)) /\ (orderLock[i] = r <=> HoldsOrder(r, i))
      BY DEF SessionInv, LocksHeld
    <2>2. o # r => HoldsOrder(o, i)' = HoldsOrder(o, i)
      BY <1>1 DEF HoldsOrder
    <2>3. /\ HoldsOrder(r, i) => HoldsOrder(r, i)'
          /\ HoldsOrder(r, i)' /\ ~HoldsOrder(r, i) => orderLock[i] = NoOne
          /\ orderLock'[i] = IF HoldsOrder(r, i)' THEN r ELSE orderLock[i]
      OBVIOUS
    <2>4. CASE o = r
      BY <1>2, <2>1, <2>3, <2>4
    <2>5. CASE o # r
      BY <1>2, <2>1, <2>2, <2>3, <2>5
    <2> QED BY <2>4, <2>5
  <1>5. ASSUME NEW i \in Requests, NEW o \in Requests PROVE noteLock'[i] = o <=> HoldsNote(o, i)'
    <2>1. (noteLock[i] = o <=> HoldsNote(o, i)) /\ (noteLock[i] = r <=> HoldsNote(r, i))
      BY DEF SessionInv, LocksHeld
    <2>2. o # r => HoldsNote(o, i)' = HoldsNote(o, i)
      BY <1>1 DEF HoldsNote
    <2>3. /\ HoldsNote(r, i) => HoldsNote(r, i)'
          /\ HoldsNote(r, i)' /\ ~HoldsNote(r, i) => noteLock[i] = NoOne
          /\ noteLock'[i] = IF HoldsNote(r, i)' THEN r ELSE noteLock[i]
      OBVIOUS
    <2>4. CASE o = r
      BY <1>2, <2>1, <2>3, <2>4
    <2>5. CASE o # r
      BY <1>2, <2>1, <2>2, <2>3, <2>5
    <2> QED BY <2>4, <2>5
  <1> QED BY <1>3, <1>4, <1>5 DEF LocksHeld

(* A step of r that moves its session and leaves the tables alone.         *)
LEMMA MovesKeep ==
    ASSUME SessionInv, NEW r \in Requests, UNCHANGED tables, pc[r] # "done",
           pc' \in [Requests -> Labels], req' = [o \in Requests |-> req'[o]], tx' \in [Requests -> Txs],
           invoiceLock' \in [Invoices -> Requests \cup {NoOne}],
           orderLock' \in [Orders -> Requests \cup {NoOne}],
           noteLock' \in [Requests -> Requests \cup {NoOne}],
           \A o \in Requests : o # r => pc'[o] = pc[o] /\ req'[o] = req[o] /\ tx'[o] = tx[o],
           LocksHeld', OwnInvoice', Starting(r)', AmongOrders(r)', AmongInvoices(r)'
    PROVE  SessionInv'
  <1>1. Benign(r)
    BY QuietBenign
  <1>2. NotesWhole' /\ CachesFollowRows' /\ RowsTyped'
    <2>1. \A o \in Requests : pc[o] = "done" => pc'[o] = "done"
      OBVIOUS
    <2> QED BY <2>1, QuietTables DEF tables
  <1>3. Shape'
    BY <1>2 DEF RowsTyped, Shape, SessionInv, tables
  <1>4. ASSUME NEW o \in Requests, o # r PROVE Starting(o)' /\ AmongOrders(o)' /\ AmongInvoices(o)'
    BY <1>1, <1>4, OthersKeep
  <1>5. Sessions'
    BY <1>4 DEF Sessions
  <1> QED BY <1>2, <1>3, <1>5 DEF SessionInv

(* A refusal.                                                              *)
LEMMA EndsKeep == ASSUME SessionInv, NEW r \in Requests, Ends(r) PROVE SessionInv'
  <1>1. PICK code : Finish(r, code) /\ UNCHANGED tables
    BY DEF Ends, Return
  <1>2. /\ invoiceLock' \in [Invoices -> Requests \cup {NoOne}] /\ orderLock' \in [Orders -> Requests \cup {NoOne}]
        /\ noteLock' \in [Requests -> Requests \cup {NoOne}] /\ pc' \in [Requests -> Labels]
        /\ req' = [o \in Requests |-> req'[o]] /\ tx' \in [Requests -> Txs]
        /\ pc'[r] = "done" /\ \A o \in Requests : o # r => pc'[o] = pc[o]
    BY <1>1, FinishEnds DEF SessionInv
  <1>3. LocksHeld' /\ Sessions' /\ OwnInvoice'
    BY <1>1, QuietBenign, FinishSessions DEF Ends
  <1>4. NotesWhole' /\ CachesFollowRows' /\ RowsTyped'
    <2>1. \A o \in Requests : pc[o] = "done" => pc'[o] = "done"
      BY <1>2
    <2> QED BY <1>1, <2>1, QuietTables DEF tables
  <1>5. Shape'
    BY <1>1, <1>2, <1>4 DEF RowsTyped, Shape, SessionInv, tables
  <1> QED BY <1>3, <1>4, <1>5 DEF SessionInv

(* The quantities a commit leaves.                                         *)
LEMMA CommitShape ==
    ASSUME SessionInv, NEW r \in Requests, Concludes(r)
    PROVE  Shape'
  <1>1. Shape /\ Commits(r) /\ Finish(r, "OK")
    BY DEF SessionInv, Concludes
  <1>2. /\ invoiceLock' \in [Invoices -> Requests \cup {NoOne}] /\ orderLock' \in [Orders -> Requests \cup {NoOne}]
        /\ noteLock' \in [Requests -> Requests \cup {NoOne}] /\ pc' \in [Requests -> Labels]
        /\ req' = [o \in Requests |-> req'[o]] /\ tx' \in [Requests -> Txs]
    BY <1>1, FinishEnds DEF SessionInv
  <1>3. RowsTyped' /\ load' = load
    BY <1>1, CommitBenign
  <1>4. arrived' = arrived
    BY <1>1 DEF Commits, Created, Dropped, Posted, Unposted, Settled, Undone
  <1>5. invoiced' \in [Items -> Int]
    <2>1. invoiced \in [Items -> Int]
      BY <1>1 DEF Shape
    <2>2. ASSUME NEW i \in Rows, NEW t PROVE RequestedOf(invoice[i].lines, t) \in Int
      <3>1. invoice[i] \in PurchaseInvoice
        BY <1>1, <2>2 DEF Shape, Rows
      <3>2. invoice[i].lines \in Seq(InvoiceLine)
        BY <3>1, RowFields
      <3> QED BY <3>2, RequestedNat
    <2>3. ASSUME NEW i, Posted(r, i) PROVE invoiced' \in [Items -> Int]
      <3>1. i \in Rows
            /\ invoiced' = [t \in Items |-> IF t \in ItemsOf(invoice[i].lines) THEN invoiced[t] + RequestedOf(invoice[i].lines, t)
                                           ELSE invoiced[t]]
        BY <2>3 DEF Posted
      <3>2. \A t \in Items : invoiced[t] \in Int /\ RequestedOf(invoice[i].lines, t) \in Int
        BY <2>1, <2>2, <3>1
      <3>3. \A t \in Items : invoiced'[t] \in Int
        BY <3>1, <3>2
      <3> QED BY <3>1, <3>3
    <2>4. ASSUME NEW i, Unposted(r, i) PROVE invoiced' \in [Items -> Int]
      <3>1. i \in Rows
            /\ invoiced' = [t \in Items |-> IF t \in ItemsOf(invoice[i].lines) THEN invoiced[t] - RequestedOf(invoice[i].lines, t)
                                           ELSE invoiced[t]]
        BY <2>4 DEF Unposted
      <3>2. \A t \in Items : invoiced[t] \in Int /\ RequestedOf(invoice[i].lines, t) \in Int
        BY <2>1, <2>2, <3>1
      <3>3. \A t \in Items : invoiced'[t] \in Int
        BY <3>1, <3>2
      <3> QED BY <3>1, <3>3
    <2>5. \/ invoiced' = invoiced \/ \E i : Posted(r, i) \/ Unposted(r, i)
      BY <1>1 DEF Commits, Created, Dropped, Settled, Undone
    <2> QED BY <2>1, <2>3, <2>4, <2>5
  <1> QED BY <1>1, <1>2, <1>3, <1>4, <1>5 DEF Shape, RowsTyped

(* A commit.                                                               *)
LEMMA ConcludesKeep == ASSUME SessionInv, NEW r \in Requests, Concludes(r) PROVE SessionInv'
  <1>1. Finish(r, "OK") /\ pc[r] # "new" /\ Benign(r)
    BY CommitBenign DEF Concludes
  <1>2. LocksHeld' /\ Sessions' /\ OwnInvoice'
    BY <1>1, FinishSessions
  <1> QED BY <1>2, CommitShape, CommitNotes, CommitCaches DEF SessionInv

(* What a move of r's session leaves of the variables.                     *)
MovesTo(r, label) ==
    /\ pc' = [pc EXCEPT ![r] = label] /\ req' = req /\ UNCHANGED tables
    /\ \E t \in Txs : tx' = [tx EXCEPT ![r] = t]

(* The shapes after it, and the sessions of the others.                    *)
LEMMA MovedShape ==
    ASSUME SessionInv, NEW r \in Requests, pc[r] # "new", NEW label \in Labels, label # "new", MovesTo(r, label)
    PROVE  /\ pc' \in [Requests -> Labels] /\ req' = [o \in Requests |-> req'[o]] /\ tx' \in [Requests -> Txs]
           /\ pc'[r] = label /\ req'[r] = req[r] /\ req[r] \in Submission
           /\ \A o \in Requests : o # r => pc'[o] = pc[o] /\ req'[o] = req[o] /\ tx'[o] = tx[o]
           /\ OwnInvoice'
  <1>1. pc \in [Requests -> Labels] /\ req = [o \in Requests |-> req[o]] /\ tx \in [Requests -> Txs]
    BY DEF SessionInv, Shape
  <1>2. pc' \in [Requests -> Labels] /\ pc'[r] = label /\ \A o \in Requests : o # r => pc'[o] = pc[o]
    BY <1>1 DEF MovesTo
  <1>3. tx' \in [Requests -> Txs] /\ \A o \in Requests : o # r => tx'[o] = tx[o]
    BY <1>1 DEF MovesTo
  <1>4. req' = req
    BY DEF MovesTo
  <1>5. req[r] \in Submission
    BY DEF SessionInv, Sessions, Starting
  <1>6. OwnInvoice'
    <2>1. \A o \in Requests : Creates(o)' => Creates(o)
      BY <1>2, <1>4 DEF Creates
    <2> QED BY <1>4, <2>1 DEF SessionInv, OwnInvoice
  <1> QED BY <1>1, <1>2, <1>3, <1>4, <1>5, <1>6

(* A body is submitted.                                                    *)
LEMMA SubmitKeeps == ASSUME SessionInv, NEW r \in Requests, Submit(r) PROVE SessionInv'
  <1>1. PICK q \in load.sent[r] :
           /\ q.kind = "CREATE" =>
                 /\ invoice[q.invoice] = NoOne
                 /\ q.invoice \notin {req[o].invoice : o \in {x \in Requests : pc[x] # "new" /\ req[x].kind = "CREATE"}}
           /\ req' = [req EXCEPT ![r] = q]
    BY DEF Submit
  <1>2. /\ pc[r] = "new" /\ pc' = [pc EXCEPT ![r] = "begin"] /\ UNCHANGED <<tx, answer, tables, locks>>
    BY DEF Submit
  <1>3. /\ pc \in [Requests -> Labels] /\ req = [o \in Requests |-> req[o]] /\ tx \in [Requests -> Txs]
        /\ invoiceLock \in [Invoices -> Requests \cup {NoOne}] /\ orderLock \in [Orders -> Requests \cup {NoOne}]
        /\ noteLock \in [Requests -> Requests \cup {NoOne}]
    BY DEF SessionInv, Shape
  <1>4. q \in Submission
    <2>1. load \in Workloads
      BY DEF SessionInv, Shape
    <2> QED BY <1>1, <2>1, PayablesAssumption
  <1>5. /\ pc' \in [Requests -> Labels] /\ pc'[r] = "begin" /\ req'[r] = q /\ req' = [o \in Requests |-> req'[o]]
        /\ \A o \in Requests : o # r => pc'[o] = pc[o] /\ req'[o] = req[o]
    BY <1>1, <1>2, <1>3 DEF Labels
  <1>6. /\ \A o \in Requests : o # r => pc'[o] = pc[o] /\ req'[o] = req[o] /\ tx'[o] = tx[o]
        /\ UNCHANGED <<tx, invoiceLock, orderLock, noteLock>>
    BY <1>2, <1>5 DEF locks
  <1>7. ~OnOrders(r) /\ ~OnInvoices(r) /\ ~OnOrders(r)' /\ ~OnInvoices(r)'
    BY <1>2, <1>5 DEF OnOrders, OnInvoices
  <1>8. LocksHeld'
    <2>1. /\ \A i : ~HoldsInvoice(r, i) /\ ~HoldsInvoice(r, i)' /\ ~HoldsOrder(r, i) /\ ~HoldsOrder(r, i)'
          /\ \A i : ~HoldsNote(r, i) /\ ~HoldsNote(r, i)'
      BY <1>7 DEF HoldsInvoice, HoldsOrder, HoldsNote
    <2> QED BY <1>6, <2>1, MoveLocks
  <1>9. OwnInvoice'
    <2>1. \A o \in Requests : o # r => Creates(o)' = Creates(o)
      BY <1>6 DEF Creates
    <2>2. ASSUME NEW o \in Requests, o # r, Creates(o)', Creates(r)' PROVE req'[o].invoice # req'[r].invoice
      <3>1. Creates(o) /\ q.kind = "CREATE"
        BY <1>5, <2>1, <2>2 DEF Creates
      <3> QED BY <1>1, <1>5, <2>2, <3>1 DEF Creates
    <2> QED BY <1>6, <2>1, <2>2 DEF SessionInv, OwnInvoice
  <1>10. tx[r] = EmptyTx
    BY <1>2 DEF SessionInv, Sessions, Starting
  <1>11. Starting(r)' /\ AmongOrders(r)' /\ AmongInvoices(r)'
    <2>1. invoice' = invoice
      BY <1>2 DEF tables
    <2> QED BY <1>1, <1>4, <1>5, <1>6, <1>7, <1>10, <2>1 DEF Starting, AmongOrders, AmongInvoices
  <1> QED BY <1>2, <1>3, <1>5, <1>6, <1>8, <1>9, <1>11, MovesKeep

(* A session that goes on without a lock.                                  *)
LEMMA MovesKeeps == ASSUME SessionInv, NEW r \in Requests, Moves(r) PROVE SessionInv'
  <1>1. PICK label \in {"insert", "orders", "invoices"} :
           /\ Stay(r, label) /\ pc[r] = "begin"
           /\ label = "insert" => req[r].kind = "CREATE" /\ req[r].lines # <<>>
           /\ label = "orders" => req[r].kind = "POST" /\ invoice[req[r].invoice] # NoOne
           /\ label = "invoices" => /\ req[r].kind \in {"PAY", "CREDIT"}
                                    /\ ~BadAllocations(req[r].alloc) /\ AllocTotal(req[r].alloc) = AmountOf(req[r])
    BY DEF Moves, Is
  <1>2. /\ pc' = [pc EXCEPT ![r] = label] /\ UNCHANGED <<req, tx, tables, invoiceLock, orderLock, noteLock>>
    BY <1>1 DEF Stay, Goto, locks
  <1>3. Shape /\ tx[r] = EmptyTx
    BY <1>1 DEF SessionInv, Sessions, Starting
  <1>4. /\ pc' \in [Requests -> Labels] /\ req' = [o \in Requests |-> req'[o]] /\ tx' \in [Requests -> Txs]
        /\ pc'[r] = label /\ req[r] \in Submission
        /\ \A o \in Requests : o # r => pc'[o] = pc[o] /\ req'[o] = req[o] /\ tx'[o] = tx[o]
        /\ OwnInvoice'
    <2>1. tx' = [tx EXCEPT ![r] = tx[r]] /\ tx[r] \in Txs
      BY <1>2, <1>3 DEF Shape
    <2>2. MovesTo(r, label)
      BY <1>2, <2>1 DEF MovesTo
    <2>3. label \in Labels /\ label # "new" /\ pc[r] # "new"
      BY <1>1 DEF Labels
    <2> QED BY <2>2, <2>3, MovedShape
  <1>5. tx[r].held = {}
    BY <1>3, TxEmpty
  <1>6. LocksHeld'
    <2>1. /\ \A i : ~HoldsInvoice(r, i) /\ ~HoldsInvoice(r, i)' /\ ~HoldsOrder(r, i) /\ ~HoldsOrder(r, i)'
          /\ \A i : ~HoldsNote(r, i) /\ ~HoldsNote(r, i)'
      BY <1>1, <1>2, <1>4, <1>5 DEF HoldsInvoice, HoldsOrder, HoldsNote, OnOrders, OnInvoices
    <2> QED BY <1>2, <1>4, <2>1, MoveLocks
  <1>7. UNCHANGED <<invoice, notes, invoiced, reversed>>
    BY <1>2 DEF tables
  <1>8. Starting(r)'
    <2>1. pc[r] = "begin" /\ req[r].kind = "CREATE" => invoice[req[r].invoice] = NoOne
      BY DEF SessionInv, Sessions, Starting
    <2> QED BY <1>1, <1>2, <1>3, <1>4, <1>7, <2>1 DEF Starting, OnOrders, OnInvoices
  <1>9. AmongOrders(r)'
    <2>1. SUFFICES ASSUME label = "orders" PROVE AmongOrders(r)'
      BY <1>1, <1>2, <1>4 DEF AmongOrders, OnOrders
    <2> DEFINE row == invoice[req[r].invoice]
    <2>2. req[r].invoice \in Invoices /\ row # NoOne
      BY <1>1, <1>4, <2>1, BodyFields
    <2>3. row \in PurchaseInvoice /\ row.lines # <<>>
      BY <1>3, <2>2 DEF Shape, Rows
    <2>4. OrdersOf(row.lines) # {}
      <3>1. row.lines \in Seq(InvoiceLine)
        BY <2>3, RowFields
      <3> QED BY <2>3, <3>1, LineOrders
    <2> QED BY <1>1, <1>2, <1>4, <1>5, <1>7, <2>1, <2>2, <2>4 DEF AmongOrders, Ascending
  <1>10. AmongInvoices(r)'
    <2>1. SUFFICES ASSUME label = "invoices" PROVE AmongInvoices(r)'
      BY <1>1, <1>2, <1>4 DEF AmongInvoices, OnInvoices
    <2>2. req[r].kind \in {"PAY", "CREDIT"} /\ ~BadAllocations(req[r].alloc)
      BY <1>1, <2>1
    <2>3. req[r].alloc \in Seq(Allocation) /\ req[r].alloc # <<>>
      BY <1>4, <2>2, BodyFields DEF BadAllocations
    <2>4. TargetsOf(req[r]) # {} /\ TargetsOf(req[r])' = TargetsOf(req[r])
      BY <1>2, <2>2, <2>3, AllocTargets DEF TargetsOf
    <2> QED BY <1>1, <1>2, <1>4, <1>5, <2>1, <2>2, <2>4 DEF AmongInvoices, Ascending
  <1> QED BY <1>1, <1>2, <1>3, <1>4, <1>6, <1>8, <1>9, <1>10, MovesKeep DEF Shape

(* A posted invoice is locked to be voided.                                *)
LEMMA TakesVoidKeeps == ASSUME SessionInv, NEW r \in Requests, TakesVoid(r) PROVE SessionInv'
  <1> DEFINE i == req[r].invoice
  <1>1. /\ pc[r] = "begin" /\ req[r].kind = "VOID" /\ i \in Rows /\ invoice[i].status = "POSTED" /\ invoiceLock[i] = NoOne
        /\ invoiceLock' = [invoiceLock EXCEPT ![i] = r] /\ pc' = [pc EXCEPT ![r] = "orders"]
        /\ UNCHANGED <<req, tx, tables, orderLock, noteLock>>
    BY DEF TakesVoid, Is, Goto
  <1>2. Shape /\ tx[r] = EmptyTx /\ i \in Invoices
    BY <1>1 DEF SessionInv, Sessions, Starting, Rows
  <1>3. /\ pc' \in [Requests -> Labels] /\ req' = [o \in Requests |-> req'[o]] /\ tx' \in [Requests -> Txs]
        /\ pc'[r] = "orders" /\ req[r] \in Submission
        /\ \A o \in Requests : o # r => pc'[o] = pc[o] /\ req'[o] = req[o] /\ tx'[o] = tx[o]
        /\ OwnInvoice'
    <2>1. tx' = [tx EXCEPT ![r] = tx[r]] /\ tx[r] \in Txs
      BY <1>1, <1>2 DEF Shape
    <2>2. MovesTo(r, "orders")
      BY <1>1, <2>1 DEF MovesTo
    <2>3. "orders" \in Labels /\ pc[r] # "new"
      BY <1>1 DEF Labels
    <2> QED BY <2>2, <2>3, MovedShape
  <1>4. tx[r].held = {}
    BY <1>2, TxEmpty
  <1>5. invoiceLock' \in [Invoices -> Requests \cup {NoOne}] /\ invoiceLock'[i] = r
        /\ \A j \in Invoices : j # i => invoiceLock'[j] = invoiceLock[j]
    BY <1>1, <1>2 DEF Shape
  <1>6. LocksHeld'
    <2>1. /\ \A j : ~HoldsInvoice(r, j) /\ ~HoldsOrder(r, j) /\ ~HoldsOrder(r, j)'
          /\ \A j : ~HoldsNote(r, j) /\ ~HoldsNote(r, j)'
          /\ \A j : HoldsInvoice(r, j)' <=> j = i
      BY <1>1, <1>3, <1>4 DEF HoldsInvoice, HoldsOrder, HoldsNote, OnOrders, OnInvoices
    <2> HIDE DEF i
    <2> QED BY <1>1, <1>3, <1>5, <2>1, MoveLocks
  <1>7. UNCHANGED <<invoice, notes, invoiced, reversed>>
    BY <1>1 DEF tables
  <1>8. Starting(r)' /\ AmongInvoices(r)'
    BY <1>1, <1>3, <1>7 DEF Starting, AmongInvoices, OnOrders, OnInvoices
  <1>9. AmongOrders(r)'
    <2> DEFINE row == invoice[i]
    <2>3. row \in PurchaseInvoice /\ row.lines # <<>>
      BY <1>1, <1>2 DEF Shape, Rows
    <2>4. OrdersOf(row.lines) # {} /\ row # NoOne
      <3>1. row.lines \in Seq(InvoiceLine)
        BY <2>3, RowFields
      <3> QED BY <2>3, <3>1, LineOrders, RowFields
    <2> QED BY <1>1, <1>3, <1>4, <1>7, <2>4 DEF AmongOrders, Ascending
  <1> QED BY <1>1, <1>2, <1>3, <1>5, <1>6, <1>8, <1>9, MovesKeep DEF Shape

(* A document is locked to be reversed.                                    *)
LEMMA TakesNoteKeeps == ASSUME SessionInv, NEW r \in Requests, TakesNote(r) PROVE SessionInv'
  <1> DEFINE id == req[r].id
  <1>1. /\ pc[r] = "begin" /\ req[r].kind = "REVERSE" /\ noteLock[id] = NoOne /\ id \in NoteIds /\ id \notin reversed
        /\ noteLock' = [noteLock EXCEPT ![id] = r] /\ pc' = [pc EXCEPT ![r] = "invoices"]
        /\ UNCHANGED <<req, tx, tables, invoiceLock, orderLock>>
    BY DEF TakesNote, Is, Goto
  <1>2. Shape /\ NotesWhole /\ tx[r] = EmptyTx
    BY <1>1 DEF SessionInv, Sessions, Starting
  <1>3. /\ pc' \in [Requests -> Labels] /\ req' = [o \in Requests |-> req'[o]] /\ tx' \in [Requests -> Txs]
        /\ pc'[r] = "invoices" /\ req[r] \in Submission
        /\ \A o \in Requests : o # r => pc'[o] = pc[o] /\ req'[o] = req[o] /\ tx'[o] = tx[o]
        /\ OwnInvoice'
    <2>1. tx' = [tx EXCEPT ![r] = tx[r]] /\ tx[r] \in Txs
      BY <1>1, <1>2 DEF Shape
    <2>2. MovesTo(r, "invoices")
      BY <1>1, <2>1 DEF MovesTo
    <2>3. "invoices" \in Labels /\ pc[r] # "new"
      BY <1>1 DEF Labels
    <2> QED BY <2>2, <2>3, MovedShape
  <1>4. tx[r].held = {} /\ id \in Requests
    BY <1>1, <1>2, <1>3, TxEmpty, BodyFields
  <1>5. noteLock' \in [Requests -> Requests \cup {NoOne}] /\ noteLock'[id] = r
        /\ \A j \in Requests : j # id => noteLock'[j] = noteLock[j]
    BY <1>1, <1>2, <1>4 DEF Shape
  <1>6. LocksHeld'
    <2>1. /\ \A j : ~HoldsInvoice(r, j) /\ ~HoldsInvoice(r, j)' /\ ~HoldsOrder(r, j) /\ ~HoldsOrder(r, j)'
          /\ \A j : ~HoldsNote(r, j)
          /\ \A j : HoldsNote(r, j)' <=> j = id
      BY <1>1, <1>3, <1>4 DEF HoldsInvoice, HoldsOrder, HoldsNote, OnOrders, OnInvoices
    <2> HIDE DEF id
    <2> QED BY <1>1, <1>3, <1>5, <2>1, MoveLocks
  <1>7. UNCHANGED <<invoice, notes, invoiced, reversed>>
    BY <1>1 DEF tables
  <1>8. Starting(r)' /\ AmongOrders(r)'
    BY <1>1, <1>3, <1>7 DEF Starting, AmongOrders, OnOrders, OnInvoices
  <1>9. AmongInvoices(r)'
    <2>1. NoteOf(id) \in notes
      BY <1>1, <1>2, NoteNamed
    <2>2. DOMAIN NoteOf(id).alloc # {}
      BY <1>2, <2>1 DEF NotesWhole
    <2>3. TargetsOf(req[r]) # {} /\ TargetsOf(req[r])' = TargetsOf(req[r]) /\ NoteIds' = NoteIds
      BY <1>1, <1>7, <2>2 DEF TargetsOf, NoteOf, NoteIds
    <2> QED BY <1>1, <1>3, <1>4, <1>7, <2>3 DEF AmongInvoices, Ascending
  <1> QED BY <1>1, <1>2, <1>3, <1>5, <1>6, <1>8, <1>9, MovesKeep DEF Shape

(* The next row in ascending order: how it is chosen, and what it leaves.  *)
IsNext(all, got, m) ==
    all \subseteq Int /\ IsFiniteSet(all) /\ Ascending(got, all) /\ got # all /\ m = Smallest(all \ got)
AddsNext(all, got, m) ==
    /\ m \in all /\ m \notin got /\ Ascending(got \cup {m}, all) /\ got \cup {m} \subseteq Int
    /\ got \cup {m} = all <=> all \ got = {m}
    /\ \A g \in got : g < m

(* The smallest of the rows that are left keeps the order.                 *)
LEMMA NextAscends == ASSUME NEW all, NEW got, NEW m, IsNext(all, got, m) PROVE AddsNext(all, got, m)
  <1>1. all \ got \subseteq Int /\ IsFiniteSet(all \ got) /\ all \ got # {}
    <2>1. all \ got \subseteq all
      OBVIOUS
    <2> QED BY <2>1, FS_Subset DEF Ascending, IsNext
  <1>2. m \in all \ got /\ \A x \in all \ got : m <= x
    BY <1>1, SmallestIs DEF IsNext
  <1>3. \A l \in all \ (got \cup {m}) : m < l
    BY <1>1, <1>2
  <1> QED BY <1>1, <1>2, <1>3 DEF Ascending, IsNext, AddsNext

(* The next order is locked.                                               *)
LEMMA TakesOrderKeeps == ASSUME SessionInv, NEW r \in Requests, TakesOrder(r) PROVE SessionInv'
  <1> DEFINE i == req[r].invoice
             row == invoice[i]
             all == OrdersOf(row.lines)
             got == tx[r].held
             o == Smallest(all \ got)
             label == IF all \ got = {o} THEN "write" ELSE "orders"
             new == [tx[r] EXCEPT !.held = got \cup {o}, !.invoiced = invoiced]
  <1>1. /\ pc[r] = "orders" /\ req[r].kind \in {"POST", "VOID"} /\ orderLock[o] = NoOne
        /\ all \ got = {o} /\ req[r].kind = "POST" => row.status = "DRAFT"
        /\ orderLock' = [orderLock EXCEPT ![o] = r] /\ tx' = [tx EXCEPT ![r] = new]
        /\ pc' = [pc EXCEPT ![r] = label] /\ UNCHANGED <<req, tables, invoiceLock, noteLock>>
    BY DEF TakesOrder, Is, Goto
  <1>2. Shape /\ AmongOrders(r) /\ Starting(r) /\ OnOrders(r) /\ req[r] \in Submission
    BY <1>1 DEF SessionInv, Sessions, Starting
  <1>3. /\ i \in Invoices /\ row # NoOne /\ Ascending(got, all) /\ got # all
        /\ req[r].kind = "VOID" => row.status = "POSTED"
        /\ row \in PurchaseInvoice
    <2>1. i \in Invoices
      BY <1>1, <1>2, BodyFields
    <2>2. row # NoOne /\ Ascending(got, all) /\ got # all /\ (req[r].kind = "VOID" => row.status = "POSTED")
      BY <1>1, <1>2 DEF AmongOrders
    <2> QED BY <1>2, <2>1, <2>2 DEF Shape
  <1>4. all \subseteq Orders /\ all \subseteq Int /\ IsFiniteSet(all)
    <2>1. row.lines \in Seq(InvoiceLine)
      BY <1>3, RowFields
    <2> QED BY <2>1, LineOrders
  <1> HIDE DEF o, all, row, i
  <1>5. /\ o \in all /\ o \notin got /\ Ascending(got \cup {o}, all) /\ got \cup {o} \subseteq Int
        /\ got \cup {o} = all <=> all \ got = {o}
    <2>1. IsNext(all, got, o)
      BY <1>3, <1>4 DEF IsNext, o
    <2>2. AddsNext(all, got, o)
      BY <2>1, NextAscends
    <2> QED BY <2>2 DEF AddsNext
  <1>6. new \in Txs /\ new.held = got \cup {o} /\ new.invoiced = invoiced /\ tx[r] \in Txs
    <2>1. PICK t, h, v, u : t = tx[r] /\ h = got \cup {o} /\ v = invoiced /\ u = new
      OBVIOUS
    <2>2. t \in Txs /\ h \in SUBSET Int /\ v \in [Items -> Int] /\ u = [t EXCEPT !.held = h, !.invoiced = v]
      BY <1>2, <1>5, <2>1 DEF Shape
    <2>3. u \in Txs /\ u.held = h /\ u.inv = t.inv /\ u.invoiced = v
      BY ONLY <2>2 DEF Txs
    <2> QED BY <2>1, <2>2, <2>3
  <1> HIDE DEF new
  <1>7. label \in Labels /\ label \in {"orders", "write"} /\ (label = "write" <=> got \cup {o} = all)
    BY <1>5 DEF Labels
  <1> HIDE DEF label
  <1>8. /\ pc' \in [Requests -> Labels] /\ req' = [x \in Requests |-> req'[x]] /\ tx' \in [Requests -> Txs]
        /\ pc'[r] = label
        /\ \A x \in Requests : x # r => pc'[x] = pc[x] /\ req'[x] = req[x] /\ tx'[x] = tx[x]
        /\ OwnInvoice'
    <2>2. MovesTo(r, label)
      BY <1>1, <1>6 DEF MovesTo
    <2>3. pc[r] # "new" /\ label # "new"
      BY <1>1, <1>7
    <2> QED BY <1>7, <2>2, <2>3, MovedShape
  <1>9. tx'[r] = new /\ tx \in [Requests -> Txs]
    BY <1>1, <1>2 DEF Shape
  <1>10. /\ orderLock' \in [Orders -> Requests \cup {NoOne}] /\ orderLock'[o] = r /\ o \in Orders
         /\ \A j \in Orders : j # o => orderLock'[j] = orderLock[j]
    <2>1. orderLock \in [Orders -> Requests \cup {NoOne}] /\ o \in Orders
      BY <1>2, <1>4, <1>5 DEF Shape
    <2> QED BY <1>1, <2>1
  <1>11. OnOrders(r)' /\ ~OnInvoices(r) /\ ~OnInvoices(r)' /\ UNCHANGED req
    BY <1>1, <1>7, <1>8 DEF OnOrders, OnInvoices
  <1>12. LocksHeld'
    <2>1. \A j : ~HoldsNote(r, j) /\ ~HoldsNote(r, j)'
      BY <1>11 DEF HoldsNote
    <2>2. \A j : HoldsInvoice(r, j)' <=> HoldsInvoice(r, j)
      BY <1>2, <1>11 DEF HoldsInvoice
    <2>3. \A j : (HoldsOrder(r, j) <=> j \in got) /\ (HoldsOrder(r, j)' <=> j \in got \/ j = o)
      BY <1>2, <1>6, <1>9, <1>11 DEF HoldsOrder
    <2>4. \A j \in Invoices : invoiceLock[j] = r <=> HoldsInvoice(r, j)
      BY DEF SessionInv, LocksHeld
    <2>5. \A j \in Orders : orderLock[j] = r <=> HoldsOrder(r, j)
      BY DEF SessionInv, LocksHeld
    <2>6. \A j \in Invoices :
              /\ HoldsInvoice(r, j) => HoldsInvoice(r, j)'
              /\ HoldsInvoice(r, j)' /\ ~HoldsInvoice(r, j) => invoiceLock[j] = NoOne
              /\ invoiceLock'[j] = IF HoldsInvoice(r, j)' THEN r ELSE invoiceLock[j]
      BY <1>1, <2>2, <2>4
    <2>7. \A j \in Orders :
              /\ HoldsOrder(r, j) => HoldsOrder(r, j)'
              /\ HoldsOrder(r, j)' /\ ~HoldsOrder(r, j) => orderLock[j] = NoOne
              /\ orderLock'[j] = IF HoldsOrder(r, j)' THEN r ELSE orderLock[j]
      BY <1>1, <1>10, <2>3, <2>5
    <2> QED BY <1>1, <1>8, <2>1, <2>6, <2>7, MoveLocks
  <1>13. UNCHANGED <<invoice, notes, invoiced, reversed>>
    BY <1>1 DEF tables
  <1>14. Starting(r)' /\ AmongInvoices(r)'
    BY <1>1, <1>2, <1>7, <1>8, <1>11 DEF Starting, AmongInvoices
  <1>15. AmongOrders(r)'
    <2>1. invoice'[req'[r].invoice] = row /\ tx'[r].held = got \cup {o} /\ tx'[r].invoiced = invoiced
      BY <1>1, <1>6, <1>9, <1>13 DEF row, i
    <2>2. pc'[r] = "write" <=> tx'[r].held = all
      BY <1>7, <1>8, <2>1
    <2>3. req[r].kind = "POST" /\ pc'[r] = "write" => row.status = "DRAFT"
      BY <1>1, <1>5, <1>7, <1>8
    <2> QED BY <1>3, <1>5, <1>11, <1>13, <2>1, <2>2, <2>3 DEF AmongOrders, all
  <1> QED BY <1>1, <1>2, <1>8, <1>10, <1>12, <1>14, <1>15, MovesKeep DEF Shape

(* The next invoice is locked, or found to have no row.                    *)
LEMMA LockInvoiceKeeps == ASSUME SessionInv, NEW r \in Requests, LockInvoice(r) PROVE SessionInv'
  <1> DEFINE all == TargetsOf(req[r])
             got == tx[r].held
             i == Smallest(all \ got)
             label == IF all \ got = {i} THEN "write" ELSE "invoices"
             inv == [tx[r].inv EXCEPT ![i] = invoice[i]]
             new == [tx[r] EXCEPT !.held = got \cup {i}, !.inv = inv]
  <1>1. /\ pc[r] = "invoices" /\ req[r].kind \in {"PAY", "CREDIT", "REVERSE"} /\ invoiceLock[i] = NoOne
        /\ invoiceLock' = IF invoice[i] = NoOne THEN invoiceLock ELSE [invoiceLock EXCEPT ![i] = r]
        /\ tx' = [tx EXCEPT ![r] = new]
        /\ pc' = [pc EXCEPT ![r] = label] /\ UNCHANGED <<req, tables, orderLock, noteLock>>
    BY DEF LockInvoice, Is, Goto, NextInvoice
  <1>2. Shape /\ AmongInvoices(r) /\ Starting(r) /\ OnInvoices(r) /\ req[r] \in Submission
    BY <1>1 DEF SessionInv, Sessions, Starting
  <1>3. Ascending(got, all) /\ got # all
    BY <1>1, <1>2 DEF AmongInvoices
  <1>4. all \subseteq Invoices /\ all \subseteq Int /\ IsFiniteSet(all)
    <2>1. all \subseteq Invoices
      BY <1>2, SettledInvoices
    <2> QED BY <2>1, PayablesAssumption, FS_Subset
  <1> HIDE DEF i, all
  <1>5. /\ i \in all /\ i \notin got /\ Ascending(got \cup {i}, all) /\ got \cup {i} \subseteq Int
        /\ got \cup {i} = all <=> all \ got = {i}
    <2>1. IsNext(all, got, i)
      BY <1>3, <1>4 DEF IsNext, i
    <2>2. AddsNext(all, got, i)
      BY <2>1, NextAscends
    <2> QED BY <2>2 DEF AddsNext
  <1>6. i \in Invoices /\ tx[r] \in Txs /\ tx[r].inv \in [Invoices -> PurchaseInvoice \cup {NoOne}]
        /\ invoice \in [Invoices -> PurchaseInvoice \cup {NoOne}]
    BY <1>2, <1>4, <1>5 DEF Shape, Txs
  <1>7. inv \in [Invoices -> PurchaseInvoice \cup {NoOne}] /\ inv[i] = invoice[i]
        /\ \A j \in Invoices : j # i => inv[j] = tx[r].inv[j]
    BY <1>6
  <1> HIDE DEF inv
  <1>8. new \in Txs /\ new.held = got \cup {i} /\ new.inv = inv
    <2>1. PICK t, h, v, u : t = tx[r] /\ h = got \cup {i} /\ v = inv /\ u = new
      OBVIOUS
    <2>2. t \in Txs /\ h \in SUBSET Int /\ v \in [Invoices -> PurchaseInvoice \cup {NoOne}]
          /\ u = [t EXCEPT !.held = h, !.inv = v]
      BY <1>5, <1>6, <1>7, <2>1
    <2>3. u \in Txs /\ u.held = h /\ u.inv = v /\ u.invoiced = t.invoiced
      BY ONLY <2>2 DEF Txs
    <2> QED BY <2>1, <2>2, <2>3
  <1> HIDE DEF new
  <1>9. label \in Labels /\ label \in {"invoices", "write"} /\ (label = "write" <=> got \cup {i} = all)
    BY <1>5 DEF Labels
  <1> HIDE DEF label
  <1>10. /\ pc' \in [Requests -> Labels] /\ req' = [x \in Requests |-> req'[x]] /\ tx' \in [Requests -> Txs]
         /\ pc'[r] = label
         /\ \A x \in Requests : x # r => pc'[x] = pc[x] /\ req'[x] = req[x] /\ tx'[x] = tx[x]
         /\ OwnInvoice'
    <2>2. MovesTo(r, label)
      BY <1>1, <1>8 DEF MovesTo
    <2>3. pc[r] # "new" /\ label # "new"
      BY <1>1, <1>9
    <2> QED BY <1>9, <2>2, <2>3, MovedShape
  <1>11. tx'[r] = new /\ tx \in [Requests -> Txs]
    BY <1>1, <1>2 DEF Shape
  <1>12. /\ invoiceLock' \in [Invoices -> Requests \cup {NoOne}]
         /\ invoiceLock'[i] = IF invoice[i] = NoOne THEN invoiceLock[i] ELSE r
         /\ \A j \in Invoices : j # i => invoiceLock'[j] = invoiceLock[j]
    <2>1. invoiceLock \in [Invoices -> Requests \cup {NoOne}]
      BY <1>2 DEF Shape
    <2>2. CASE invoice[i] = NoOne
      BY <1>1, <2>1, <2>2
    <2>3. CASE invoice[i] # NoOne
      BY <1>1, <1>6, <2>1, <2>3
    <2> QED BY <2>2, <2>3
  <1>13. OnInvoices(r)' /\ ~OnOrders(r) /\ ~OnOrders(r)' /\ UNCHANGED req
    BY <1>1, <1>9, <1>10 DEF OnOrders, OnInvoices
  <1>14. LocksHeld'
    <2>1. \A j : ~HoldsOrder(r, j) /\ ~HoldsOrder(r, j)'
      BY <1>13 DEF HoldsOrder
    <2>2. \A j : HoldsNote(r, j)' <=> HoldsNote(r, j)
      BY <1>2, <1>13 DEF HoldsNote
    <2>3. /\ \A j \in Invoices : HoldsInvoice(r, j) <=> j \in got /\ tx[r].inv[j] # NoOne
          /\ \A j \in Invoices : HoldsInvoice(r, j)' <=> (j \in got \/ j = i) /\ inv[j] # NoOne
      BY <1>2, <1>8, <1>11, <1>13 DEF HoldsInvoice
    <2>4. \A j \in Invoices : invoiceLock[j] = r <=> HoldsInvoice(r, j)
      BY DEF SessionInv, LocksHeld
    <2>5. \A j \in Requests : noteLock[j] = r <=> HoldsNote(r, j)
      BY DEF SessionInv, LocksHeld
    <2>6. \A j \in Invoices :
              /\ HoldsInvoice(r, j) => HoldsInvoice(r, j)'
              /\ HoldsInvoice(r, j)' /\ ~HoldsInvoice(r, j) => invoiceLock[j] = NoOne
              /\ invoiceLock'[j] = IF HoldsInvoice(r, j)' THEN r ELSE invoiceLock[j]
      <3>1. SUFFICES ASSUME NEW j \in Invoices
                     PROVE  /\ HoldsInvoice(r, j) => HoldsInvoice(r, j)'
                            /\ HoldsInvoice(r, j)' /\ ~HoldsInvoice(r, j) => invoiceLock[j] = NoOne
                            /\ invoiceLock'[j] = IF HoldsInvoice(r, j)' THEN r ELSE invoiceLock[j]
        OBVIOUS
      <3>2. CASE j = i
        BY <1>1, <1>5, <1>7, <1>12, <2>3, <2>4, <3>2
      <3>3. CASE j # i
        BY <1>7, <1>12, <2>3, <2>4, <3>3
      <3> QED BY <3>2, <3>3
    <2>7. \A j \in Requests :
              /\ HoldsNote(r, j) => HoldsNote(r, j)'
              /\ HoldsNote(r, j)' /\ ~HoldsNote(r, j) => noteLock[j] = NoOne
              /\ noteLock'[j] = IF HoldsNote(r, j)' THEN r ELSE noteLock[j]
      BY <1>1, <2>2, <2>5
    <2> QED BY <1>1, <1>10, <2>1, <2>6, <2>7, MoveLocks
  <1>15. UNCHANGED <<invoice, notes, invoiced, reversed>>
    BY <1>1 DEF tables
  <1>16. Starting(r)' /\ AmongOrders(r)'
    BY <1>1, <1>2, <1>9, <1>10, <1>13 DEF Starting, AmongOrders
  <1>17. AmongInvoices(r)'
    <2>1. tx'[r].held = got \cup {i} /\ tx'[r].inv = inv /\ req'[r] = req[r]
      BY <1>1, <1>8, <1>11
    <2>2. TargetsOf(req[r])' = all /\ NoteIds' = NoteIds
      BY <1>1, <1>15 DEF TargetsOf, NoteOf, NoteIds, all
    <2>3. pc'[r] = "write" <=> tx'[r].held = all
      BY <1>9, <1>10, <2>1
    <2>4. got \subseteq Invoices
      BY <1>3, <1>4 DEF Ascending
    <2>5. \A j \in tx'[r].held : tx'[r].inv[j] # NoOne => tx'[r].inv[j] = invoice'[j]
      BY <1>2, <1>6, <1>7, <1>15, <2>1, <2>4 DEF AmongInvoices
    <2>6. req[r].kind = "REVERSE" => \A j \in tx'[r].held : tx'[r].inv[j] # NoOne
      <3>1. SUFFICES ASSUME req[r].kind = "REVERSE" PROVE \A j \in tx'[r].held : tx'[r].inv[j] # NoOne
        OBVIOUS
      <3>2. NotesWhole /\ req[r].id \in NoteIds
        BY <1>2, <3>1 DEF SessionInv, AmongInvoices
      <3>3. NoteOf(req[r].id) \in notes
        BY <3>2, NoteNamed
      <3>4. all \subseteq Rows
        BY <3>1, <3>2, <3>3 DEF NotesWhole, TargetsOf, all
      <3>5. invoice[i] # NoOne
        BY <1>5, <3>4 DEF Rows
      <3> QED BY <1>2, <1>7, <2>1, <2>4, <3>1, <3>5 DEF AmongInvoices
    <2>7. /\ req[r].kind # "REVERSE" => ~BadAllocations(req[r].alloc) /\ AllocTotal(req[r].alloc) = AmountOf(req[r])
          /\ req[r].kind = "REVERSE" => req[r].id \in NoteIds /\ req[r].id \notin reversed
      BY <1>2 DEF AmongInvoices
    <2> QED BY <1>5, <1>15, <2>1, <2>2, <2>3, <2>5, <2>6, <2>7 DEF AmongInvoices
  <1> QED BY <1>1, <1>2, <1>10, <1>12, <1>14, <1>16, <1>17, MovesKeep DEF Shape

(* Sessions see nothing new.                                               *)
LEMMA SessionsSame ==
    ASSUME SessionInv, UNCHANGED <<invoice, invoiced, notes, reversed, pc, req, tx>>
    PROVE  Sessions' /\ OwnInvoice' /\ NotesWhole' /\ CachesFollowRows'
  <1>1. UNCHANGED <<invoice, invoiced, notes, reversed, pc, req, tx>>
    OBVIOUS
  <1>2. NotesWhole' /\ CachesFollowRows'
    BY <1>1, QuietTables
  <1>3. OwnInvoice'
    BY <1>1 DEF SessionInv, OwnInvoice, Creates
  <1>4. Sessions'
    <2>1. SUFFICES ASSUME NEW r \in Requests PROVE Starting(r)' /\ AmongOrders(r)' /\ AmongInvoices(r)'
      BY DEF Sessions
    <2>2. Starting(r) /\ AmongOrders(r) /\ AmongInvoices(r)
      BY DEF SessionInv, Sessions
    <2>3. TargetsOf(req[r])' = TargetsOf(req[r]) /\ NoteIds' = NoteIds
      BY <1>1 DEF TargetsOf, NoteOf, NoteIds
    <2>4. OnOrders(r)' = OnOrders(r) /\ OnInvoices(r)' = OnInvoices(r)
      BY <1>1 DEF OnOrders, OnInvoices
    <2>5. Starting(r)'
      BY <1>1, <2>2, <2>4 DEF Starting
    <2>6. AmongOrders(r)'
      BY <1>1, <2>2, <2>4 DEF AmongOrders
    <2>7. AmongInvoices(r)'
      BY <1>1, <2>2, <2>3, <2>4 DEF AmongInvoices
    <2> QED BY <2>5, <2>6, <2>7
  <1> QED BY <1>2, <1>3, <1>4

(* A lot arrives: no session reads lots before it holds the order.         *)
LEMMA ReceiveKeeps == ASSUME SessionInv, NEW t \in Items, Receive(t) PROVE SessionInv'
  <1>1. /\ arrived[t] < Len(Deliveries[t]) /\ arrived' = [arrived EXCEPT ![t] = @ + 1]
        /\ UNCHANGED <<invoice, matches, invoiced, notes, reversed, load, invoiceLock, orderLock, noteLock, pc, req, tx>>
    BY DEF Receive, locks, session
  <1>2. Shape'
    <2>1. arrived \in [Items -> Nat] /\ \A x \in Items : arrived[x] <= Len(Deliveries[x])
      BY DEF SessionInv, Shape
    <2>2. Len(Deliveries[t]) \in Nat
      BY PayablesAssumption
    <2>3. arrived' \in [Items -> Nat]
      BY <1>1, <2>1
    <2>4. \A x \in Items : arrived'[x] <= Len(Deliveries[x])
      BY <1>1, <2>1, <2>2
    <2>5. Rows' = Rows
      BY <1>1 DEF Rows
    <2> QED BY <1>1, <2>3, <2>4, <2>5 DEF SessionInv, Shape
  <1>3. NotesWhole' /\ CachesFollowRows'
    BY <1>1, QuietTables
  <1>4. LocksHeld'
    BY <1>1 DEF SessionInv, LocksHeld, HoldsInvoice, HoldsOrder, HoldsNote, OnOrders, OnInvoices
  <1>5. OwnInvoice'
    BY <1>1 DEF SessionInv, OwnInvoice, Creates
  <1>6. Sessions'
    BY <1>1, SessionsSame
  <1> QED BY <1>2, <1>3, <1>4, <1>5, <1>6 DEF SessionInv

(* Nothing happens.                                                        *)
LEMMA StutterKeeps == ASSUME SessionInv, UNCHANGED vars PROVE SessionInv'
  <1>1. UNCHANGED <<invoice, arrived, invoiced, notes, reversed, load, invoiceLock, orderLock, noteLock, pc, req, tx>>
    BY DEF vars, tables, locks, session
  <1>2. NotesWhole' /\ CachesFollowRows'
    BY <1>1, QuietTables
  <1>3. Shape'
    BY <1>1 DEF SessionInv, Shape, Rows
  <1>4. LocksHeld'
    BY <1>1 DEF SessionInv, LocksHeld, HoldsInvoice, HoldsOrder, HoldsNote, OnOrders, OnInvoices
  <1>5. OwnInvoice'
    BY <1>1 DEF SessionInv, OwnInvoice, Creates
  <1>6. Sessions'
    BY <1>1, SessionsSame
  <1> QED BY <1>2, <1>3, <1>4, <1>5, <1>6 DEF SessionInv

(* Every step.                                                             *)
LEMMA SessionKept == ASSUME SessionInv, [Next]_vars PROVE SessionInv'
  <1>1. CASE UNCHANGED vars
    BY <1>1, StutterKeeps
  <1>2. ASSUME NEW r \in Requests, Submit(r) PROVE SessionInv'
    BY <1>2, SubmitKeeps
  <1>3. ASSUME NEW r \in Requests, Step(r) \/ Fail(r) PROVE SessionInv'
    BY <1>3, StepEffect, EndsKeep, ConcludesKeep, MovesKeeps, TakesVoidKeeps, TakesOrderKeeps, TakesNoteKeeps, LockInvoiceKeeps
  <1>4. ASSUME NEW t \in Items, Receive(t) PROVE SessionInv'
    BY <1>4, ReceiveKeeps
  <1> QED BY <1>1, <1>2, <1>3, <1>4 DEF Next

(* The rows at the start.                                                  *)
LEMMA InitRows ==
    ASSUME Init
    PROVE  /\ Shape
           /\ \A i \in Rows : /\ i \in Invoices /\ InitialInvoices[i] \in PurchaseInvoice
                              /\ invoice[i].lines = InitialInvoices[i].lines /\ invoice[i].key = InitialInvoices[i].key
                              /\ invoice[i].number = InitialInvoices[i].number
                              /\ invoice[i].total = InitialInvoices[i].total
                              /\ invoice[i].paid = 0 /\ invoice[i].credited = 0
                              /\ invoice[i].status = IF i \in load.posted THEN "POSTED" ELSE "DRAFT"
           /\ load.posted \subseteq Rows /\ Rows = {i \in Invoices : InitialInvoices[i] # NoOne}
  <1>1. /\ load \in Workloads /\ arrived = InitialArrived
        /\ invoice = [i \in Invoices |-> IF i \in load.posted THEN [InitialInvoices[i] EXCEPT !.status = "POSTED"]
                                         ELSE InitialInvoices[i]]
        /\ invoiced = [t \in Items |-> SumOver(load.posted, LAMBDA i : RequestedOf(InitialInvoices[i].lines, t))]
    BY DEF Init
  <1>2. /\ InitialInvoices \in [Invoices -> PurchaseInvoice \cup {NoOne}]
        /\ \A i \in Invoices : InitialInvoices[i] # NoOne => IsDraft(InitialInvoices[i])
        /\ \A i \in load.posted : i \in Invoices /\ InitialInvoices[i] # NoOne
        /\ IsFiniteSet(Invoices)
    BY <1>1, PayablesAssumption
  <1>3. ASSUME NEW i \in Invoices, InitialInvoices[i] # NoOne
        PROVE  /\ invoice[i] \in PurchaseInvoice /\ invoice[i] # NoOne
               /\ invoice[i].lines = InitialInvoices[i].lines /\ invoice[i].key = InitialInvoices[i].key
               /\ invoice[i].number = InitialInvoices[i].number /\ invoice[i].total = InitialInvoices[i].total
               /\ invoice[i].paid = 0 /\ invoice[i].credited = 0 /\ invoice[i].total \in Nat /\ invoice[i].lines # <<>>
               /\ invoice[i].status = IF i \in load.posted THEN "POSTED" ELSE "DRAFT"
    <2> DEFINE old == InitialInvoices[i]
               new == [old EXCEPT !.status = "POSTED"]
    <2>1. old \in PurchaseInvoice /\ IsDraft(old)
      BY <1>2, <1>3
    <2>2. /\ new \in PurchaseInvoice /\ new.status = "POSTED" /\ new.key = old.key /\ new.number = old.number
          /\ new.lines = old.lines /\ new.total = old.total /\ new.paid = old.paid /\ new.credited = old.credited
      BY <2>1, StatusSet DEF Statuses
    <2>3. invoice[i] = IF i \in load.posted THEN new ELSE old
      BY <1>1
    <2>4. old # NoOne /\ new # NoOne
      BY <2>1, <2>2, RowFields
    <2> HIDE DEF old, new
    <2>5. CASE i \in load.posted
      BY <2>1, <2>2, <2>3, <2>4, <2>5 DEF IsDraft, old
    <2>6. CASE i \notin load.posted
      BY <2>1, <2>3, <2>4, <2>6 DEF IsDraft, old
    <2> QED BY <2>5, <2>6
  <1>4. \A i \in Invoices : InitialInvoices[i] = NoOne => invoice[i] = NoOne
    BY <1>1, <1>2
  <1>5. Rows = {i \in Invoices : InitialInvoices[i] # NoOne} /\ load.posted \subseteq Rows
    BY <1>2, <1>3, <1>4 DEF Rows
  <1>6. invoice \in [Invoices -> PurchaseInvoice \cup {NoOne}]
    <2>1. \A i \in Invoices : invoice[i] \in PurchaseInvoice \cup {NoOne}
      BY <1>3, <1>4
    <2> QED BY <1>1, <2>1
  <1>7. \A i \in Invoices : InitialInvoices[i] # NoOne => InitialInvoices[i] \in PurchaseInvoice
    BY <1>2
  <1>8. invoiced \in [Items -> Int]
    <2>1. ASSUME NEW t \in Items PROVE SumOver(load.posted, LAMBDA i : RequestedOf(InitialInvoices[i].lines, t)) \in Int
      <3> DEFINE f == [i \in load.posted |-> RequestedOf(InitialInvoices[i].lines, t)]
      <3>1. IsFiniteSet(load.posted)
        BY <1>2, FS_Subset
      <3>2. \A i \in load.posted : f[i] \in Int
        <4>1. SUFFICES ASSUME NEW i \in load.posted PROVE RequestedOf(InitialInvoices[i].lines, t) \in Int
          OBVIOUS
        <4>2. InitialInvoices[i] \in PurchaseInvoice
          BY <1>2
        <4>3. InitialInvoices[i].lines \in Seq(InvoiceLine)
          BY <4>2, RowFields
        <4> QED BY <4>3, RequestedNat
      <3>3. SumOver(load.posted, LAMBDA i : RequestedOf(InitialInvoices[i].lines, t)) = SumFunctionOnSet(f, load.posted)
        BY DEF SumOver
      <3> HIDE DEF f
      <3> QED BY <3>1, <3>2, <3>3, SumInt
    <2> QED BY <1>1, <2>1
  <1>9. arrived \in [Items -> Nat] /\ \A t \in Items : arrived[t] <= Len(Deliveries[t])
    BY <1>1, PayablesAssumption
  <1>10. Shape
    <2>1. /\ invoiceLock \in [Invoices -> Requests \cup {NoOne}] /\ orderLock \in [Orders -> Requests \cup {NoOne}]
          /\ noteLock \in [Requests -> Requests \cup {NoOne}] /\ pc \in [Requests -> Labels]
          /\ req = [r \in Requests |-> req[r]] /\ tx \in [Requests -> Txs]
      BY TxEmpty DEF Init, Labels
    <2>2. \A i \in Rows : invoice[i].lines # <<>> /\ invoice[i].total \in Nat
      BY <1>3, <1>5
    <2> QED BY <1>1, <1>6, <1>8, <1>9, <2>1, <2>2 DEF Shape
  <1> QED BY <1>3, <1>5, <1>7, <1>10

(* The invariant at the start.                                             *)
LEMMA InitSession == ASSUME Init PROVE SessionInv
  <1>1. /\ notes = {} /\ reversed = {} /\ \A r \in Requests : pc[r] = "new" /\ tx[r] = EmptyTx
        /\ \A i \in Invoices : invoiceLock[i] = NoOne
        /\ \A o \in Orders : orderLock[o] = NoOne
        /\ \A r \in Requests : noteLock[r] = NoOne
    BY DEF Init
  <1>2. LocksHeld
    <2>1. \A r \in Requests : r # NoOne
      BY PayablesAssumption
    <2> QED BY <1>1, <2>1 DEF LocksHeld, HoldsInvoice, HoldsOrder, HoldsNote, OnOrders, OnInvoices
  <1>3. Sessions /\ OwnInvoice
    BY <1>1 DEF Sessions, Starting, AmongOrders, AmongInvoices, OnOrders, OnInvoices, OwnInvoice, Creates
  <1>4. NotesWhole
    BY <1>1, FS_EmptySet DEF NotesWhole
  <1>5. CachesFollowRows
    <2>1. ASSUME NEW i, NEW k PROVE Applied(i, k) = 0
      <3> DEFINE S == {n \in notes : n.kind = k /\ n.id \notin reversed /\ i \in DOMAIN n.alloc}
                 f == [n \in S |-> n.alloc[i]]
      <3>1. S = {} /\ Applied(i, k) = SumFunctionOnSet(f, S)
        BY <1>1 DEF Applied, SumOver
      <3> HIDE DEF S, f
      <3> QED BY <3>1, SumEmpty
    <2>2. \A i \in Rows : invoice[i].paid = 0 /\ invoice[i].credited = 0 /\ invoice[i].status \in {"POSTED", "DRAFT"}
      BY InitRows
    <2>3. \A i \in Rows : Follows(i)
      BY <2>1, <2>2 DEF Follows
    <2> QED BY <2>3, CachesAre
  <1> QED BY <1>2, <1>3, <1>4, <1>5, InitRows DEF SessionInv

(* The sessions' invariant holds from the start and after every step.      *)
LEMMA SessionAlways == Spec => []SessionInv
  BY InitSession, SessionKept, PTL DEF Spec

-----------------------------------------------------------------------------
(* Sessions do not wait for each other in a circle.                        *)

(* The order a session waits for, after those it has.                      *)
LEMMA NextOrder ==
    ASSUME SessionInv, NEW r \in Requests, pc[r] = "orders"
    PROVE  LET left == OrdersOf(invoice[req[r].invoice].lines) \ tx[r].held
           IN  /\ left # {} /\ Smallest(left) \in Orders /\ Smallest(left) \in Int
               /\ \A g \in tx[r].held : g < Smallest(left)
               /\ Holder(r) = orderLock[Smallest(left)]
  <1> DEFINE row == invoice[req[r].invoice]
             all == OrdersOf(row.lines)
             got == tx[r].held
             o == Smallest(all \ got)
  <1>1. Shape /\ AmongOrders(r) /\ OnOrders(r) /\ req[r] \in Submission
    BY DEF SessionInv, Sessions, Starting
  <1>2. row # NoOne /\ Ascending(got, all) /\ got # all
    BY <1>1 DEF AmongOrders
  <1>3. req[r].invoice \in Invoices
    BY <1>1, BodyFields DEF OnOrders
  <1>4. row \in PurchaseInvoice
    BY <1>1, <1>2, <1>3 DEF Shape
  <1>5. row.lines \in Seq(InvoiceLine)
    BY <1>4, RowFields
  <1>6. all \subseteq Orders /\ all \subseteq Int /\ IsFiniteSet(all)
    BY <1>5, LineOrders
  <1> HIDE DEF o, all, row
  <1>7. IsNext(all, got, o)
    BY <1>2, <1>6 DEF IsNext, o
  <1>8. AddsNext(all, got, o)
    BY <1>7, NextAscends
  <1>9. o \in all /\ o \notin got /\ \A g \in got : g < o
    BY <1>8 DEF AddsNext
  <1>10. all \ got # {} /\ o \in Orders /\ o \in Int
    BY <1>6, <1>9
  <1>11. Holder(r) = orderLock[o]
    <2>1. OrdersOf(invoice[req[r].invoice].lines) \ tx[r].held # {}
      BY <1>10 DEF all, row
    <2> QED BY <2>1 DEF Holder, o, all, row
  <1> QED BY <1>9, <1>10, <1>11 DEF o, all, row

(* The invoice a settlement waits for, after those it has.                 *)
LEMMA NextTarget ==
    ASSUME SessionInv, NEW r \in Requests, pc[r] = "invoices"
    PROVE  LET left == TargetsOf(req[r]) \ tx[r].held
           IN  /\ Smallest(left) \in Invoices /\ Smallest(left) \in Int
               /\ \A g \in tx[r].held : g < Smallest(left)
               /\ Holder(r) = invoiceLock[Smallest(left)]
  <1> DEFINE all == TargetsOf(req[r])
             got == tx[r].held
             i == Smallest(all \ got)
  <1>1. AmongInvoices(r) /\ OnInvoices(r)
    BY DEF SessionInv, Sessions, Starting
  <1>2. Ascending(got, all) /\ got # all
    BY <1>1 DEF AmongInvoices
  <1>3. all \subseteq Invoices /\ all \subseteq Int /\ IsFiniteSet(all)
    <2>1. all \subseteq Invoices
      BY <1>1, SettledInvoices
    <2> QED BY <2>1, PayablesAssumption, FS_Subset
  <1> HIDE DEF i, all
  <1>4. IsNext(all, got, i)
    BY <1>2, <1>3 DEF IsNext, i
  <1>5. AddsNext(all, got, i)
    BY <1>4, NextAscends
  <1>6. i \in Invoices /\ i \in Int /\ \A g \in got : g < i
    BY <1>3, <1>5 DEF AddsNext
  <1>7. Holder(r) = invoiceLock[i]
    BY DEF Holder, NextInvoice, i, all
  <1> QED BY <1>6, <1>7 DEF i, all


(* A session that holds an order, an invoice or a note and waits itself.   *)
LEMMA HoldersWait ==
    ASSUME SessionInv, NEW h \in Requests, Holder(h) \in Requests
    PROVE  /\ \A o \in Orders : orderLock[o] = h => pc[h] = "orders" \/ Is(h, {"POST"}, "write")
           /\ \A i \in Invoices : invoiceLock[i] = h => pc[h] \in {"orders", "invoices"}
           /\ \A n \in Requests : noteLock[n] = h => pc[h] = "invoices"
  <1>1. NoOne \notin Requests
    BY PayablesAssumption
  <1>2. pc[h] = "write" => req[h].kind = "POST"
    BY <1>1 DEF Holder
  <1> QED BY <1>2 DEF SessionInv, LocksHeld, HoldsOrder, HoldsInvoice, HoldsNote, OnOrders, OnInvoices, Is

(* Nobody that posts waits for a session that settles billed invoices.     *)
LEMMA PosterWaits ==
    ASSUME SessionInv, NEW r \in Requests, Is(r, {"POST"}, "write"), NEW h \in Requests, Holder(r) = h, Holder(h) \in Requests
    PROVE  HoldsUnbilled(h)
  <1> DEFINE i == req[r].invoice
  <1>1. OnOrders(r) /\ pc[r] = "write" /\ req[r].kind = "POST"
    BY DEF Is, OnOrders
  <1>2. req[r] \in Submission /\ AmongOrders(r)
    BY <1>1 DEF SessionInv, Sessions, Starting
  <1>3. i \in Invoices /\ invoice[i] # NoOne /\ invoice[i].status \in {"DRAFT", "VOIDED"}
    BY <1>1, <1>2, BodyFields DEF AmongOrders
  <1>4. invoiceLock[i] = h
    BY <1>1 DEF Holder
  <1>5. HoldsInvoice(h, i) /\ pc[h] \in {"orders", "invoices"}
    BY <1>3, <1>4, HoldersWait DEF SessionInv, LocksHeld
  <1>6. AmongOrders(h) /\ AmongInvoices(h)
    BY DEF SessionInv, Sessions
  <1>7. ~(OnOrders(h) /\ req[h].kind = "VOID" /\ req[h].invoice = i)
    BY <1>3, <1>6 DEF AmongOrders
  <1>8. OnInvoices(h) /\ i \in tx[h].held /\ tx[h].inv[i] # NoOne /\ pc[h] = "invoices"
    BY <1>5, <1>7 DEF HoldsInvoice, OnInvoices
  <1>9. i \notin Billed
    BY <1>3 DEF Billed, Standing
  <1>10. req[h].kind # "REVERSE"
    <2>1. SUFFICES ASSUME req[h].kind = "REVERSE" PROVE FALSE
      OBVIOUS
    <2>2. NotesWhole /\ req[h].id \in NoteIds /\ req[h].id \notin reversed /\ i \in TargetsOf(req[h])
      BY <1>6, <1>8, <2>1 DEF SessionInv, AmongInvoices, Ascending
    <2>3. PICK n \in notes : n = NoteOf(req[h].id) /\ n.id = req[h].id
      BY <2>2, NoteNamed
    <2>4. i \in DOMAIN n.alloc /\ n.id \notin reversed
      BY <2>1, <2>2, <2>3 DEF TargetsOf
    <2>5. invoice[i].status \in {"PARTIALLY_PAID", "PAID"}
      BY <2>4, LiveBilled
    <2> QED BY <1>3, <2>5
  <1> QED BY <1>8, <1>9, <1>10 DEF HoldsUnbilled, Is, OnInvoices

(* Among sessions that all wait for each other none waits for an order:    *)
(* orders are locked in ascending order.                                   *)
LEMMA NoneOnOrders ==
    ASSUME SessionInv, NEW S \in SUBSET Requests, \A r \in S : ~HoldsUnbilled(r) /\ Holder(r) \in S
    PROVE  \A r \in S : pc[r] # "orders"
  <1> DEFINE T == {r \in S : pc[r] = "orders"}
             f == [r \in T |-> Smallest(OrdersOf(invoice[req[r].invoice].lines) \ tx[r].held)]
  <1>1. SUFFICES ASSUME T # {} PROVE FALSE
    OBVIOUS
  <1>2. IsFiniteSet(T)
    BY PayablesAssumption, FS_Subset
  <1>3. \A r \in T : r \in Requests /\ f[r] \in Int /\ f[r] \in Orders /\ Holder(r) = orderLock[f[r]]
                     /\ \A g \in tx[r].held : g < f[r]
    BY NextOrder
  <1>4. PICK m \in T : \A r \in T : f[r] <= f[m]
    <2> HIDE DEF f, T
    <2> QED BY <1>1, <1>2, <1>3, FiniteMost
  <1>5. PICK h \in S : h = Holder(m)
    OBVIOUS
  <1>6. m \in Requests /\ h \in Requests /\ orderLock[f[m]] = h /\ f[m] \in Orders /\ Holder(h) \in Requests
    BY <1>3, <1>4, <1>5
  <1> HIDE DEF f
  <1>7. pc[h] = "orders" \/ Is(h, {"POST"}, "write")
    BY <1>6, HoldersWait
  <1>8. ~Is(h, {"POST"}, "write")
    <2>1. SUFFICES ASSUME Is(h, {"POST"}, "write") PROVE FALSE
      OBVIOUS
    <2>2. PICK k \in S : k = Holder(h)
      BY <1>5
    <2>3. k \in Requests /\ Holder(k) \in Requests /\ ~HoldsUnbilled(k)
      BY <2>2
    <2> QED BY <1>6, <2>1, <2>2, <2>3, PosterWaits
  <1>9. h \in T
    BY <1>7, <1>8
  <1>10. f[m] \in tx[h].held
    BY <1>6 DEF SessionInv, LocksHeld, HoldsOrder
  <1>11. f[m] < f[h] /\ f[h] <= f[m] /\ f[h] \in Int /\ f[m] \in Int
    BY <1>3, <1>4, <1>9, <1>10
  <1> QED BY <1>11

(* Nor for an invoice, for the same reason.                                *)
LEMMA NoneOnInvoices ==
    ASSUME SessionInv, NEW S \in SUBSET Requests, \A r \in S : ~HoldsUnbilled(r) /\ Holder(r) \in S
    PROVE  \A r \in S : pc[r] # "invoices"
  <1> DEFINE T == {r \in S : pc[r] = "invoices"}
             f == [r \in T |-> Smallest(TargetsOf(req[r]) \ tx[r].held)]
  <1>1. SUFFICES ASSUME T # {} PROVE FALSE
    OBVIOUS
  <1>2. IsFiniteSet(T)
    BY PayablesAssumption, FS_Subset
  <1>3. \A r \in T : r \in Requests /\ f[r] \in Int /\ f[r] \in Invoices /\ Holder(r) = invoiceLock[f[r]]
                     /\ \A g \in tx[r].held : g < f[r]
    BY NextTarget
  <1>4. PICK m \in T : \A r \in T : f[r] <= f[m]
    <2> HIDE DEF f, T
    <2> QED BY <1>1, <1>2, <1>3, FiniteMost
  <1>5. PICK h \in S : h = Holder(m)
    OBVIOUS
  <1>6. m \in Requests /\ h \in Requests /\ invoiceLock[f[m]] = h /\ f[m] \in Invoices /\ Holder(h) \in Requests
    BY <1>3, <1>4, <1>5
  <1> HIDE DEF f
  <1>7. pc[h] = "invoices"
    BY <1>6, HoldersWait, NoneOnOrders
  <1>8. h \in T
    BY <1>7
  <1>9. f[m] \in tx[h].held
    BY <1>6, <1>7 DEF SessionInv, LocksHeld, HoldsInvoice, OnOrders
  <1>10. f[m] < f[h] /\ f[h] <= f[m] /\ f[h] \in Int /\ f[m] \in Int
    BY <1>3, <1>4, <1>8, <1>9
  <1> QED BY <1>10

(* So none of them is left.                                                *)
LEMMA NoCircle == ASSUME SessionInv PROVE NoCircularWait
  <1>1. SUFFICES ASSUME NEW S \in SUBSET {r \in Requests : ~HoldsUnbilled(r)}, \A r \in S : Holder(r) \in S, S # {}
                 PROVE  FALSE
    BY DEF NoCircularWait
  <1>2. S \in SUBSET Requests /\ \A r \in S : ~HoldsUnbilled(r) /\ Holder(r) \in S
    BY <1>1
  <1>3. PICK r \in S : TRUE
    BY <1>1
  <1>4. PICK h \in S : h = Holder(r)
    BY <1>1
  <1>5. r \in Requests /\ h \in Requests /\ Holder(r) \in Requests /\ Holder(h) \in Requests /\ ~HoldsUnbilled(h)
    BY <1>2, <1>4
  <1>6. pc[r] \notin {"orders", "invoices"} /\ pc[h] \notin {"orders", "invoices"}
    BY <1>2, NoneOnOrders, NoneOnInvoices
  <1>7. ~Is(r, {"POST"}, "write")
    BY <1>4, <1>5, PosterWaits
  <1>8. NoOne \notin Requests
    BY PayablesAssumption, SMTT(40)
  <1>9. \/ pc[r] = "begin" /\ req[r].kind = "VOID" /\ h = invoiceLock[req[r].invoice]
        \/ pc[r] = "begin" /\ req[r].kind = "REVERSE" /\ h = noteLock[req[r].id]
    BY <1>4, <1>5, <1>6, <1>7, <1>8 DEF Holder, Is
  <1>10. req[r] \in Submission
    BY <1>5, <1>9 DEF SessionInv, Sessions, Starting
  <1>11. pc[h] \in {"orders", "invoices"}
    <2>1. CASE pc[r] = "begin" /\ req[r].kind = "VOID" /\ h = invoiceLock[req[r].invoice]
      BY <1>5, <1>10, <2>1, BodyFields, HoldersWait
    <2>2. CASE pc[r] = "begin" /\ req[r].kind = "REVERSE" /\ h = noteLock[req[r].id]
      BY <1>5, <1>10, <2>2, BodyFields, HoldersWait
    <2> QED BY <1>9, <2>1, <2>2
  <1> QED BY <1>6, <1>11

(* For every set of invoices, orders and requests: sessions of             *)
(* post_purchase_invoice, void_purchase_invoice, record_supplier_payment,  *)
(* create_supplier_credit_note and the reversals never wait for each other *)
(* in a circle, unless one of them settles an invoice that is not posted.  *)
THEOREM NoDeadlock == Spec => []NoCircularWait
  BY SessionAlways, NoCircle, PTL

-----------------------------------------------------------------------------
(* The invoices that stand, and what a commit does to them.                *)

(* What a row still owes, by its status.                                   *)
LEMMA RowOwes ==
    ASSUME SessionInv, NEW i \in Rows
    PROVE  /\ i \in Invoices /\ invoice[i] \in PurchaseInvoice /\ invoice[i].total \in Nat
           /\ invoice[i].paid \in Nat /\ invoice[i].credited \in Nat /\ Outstanding(invoice[i]) \in Nat
           /\ invoice[i].status \in Unsettled => Outstanding(invoice[i]) = invoice[i].total
           /\ invoice[i].status = "PAID" => Outstanding(invoice[i]) = 0
           /\ invoice[i].status = "PARTIALLY_PAID" => Outstanding(invoice[i]) > 0
  <1> DEFINE row == invoice[i]
  <1>1. i \in Invoices /\ row \in PurchaseInvoice /\ row.total \in Nat /\ Follows(i) /\ NotesWhole
    <2>1. i \in Invoices /\ row # NoOne
      BY DEF Rows
    <2>2. Follows(i)
      BY CachesAre DEF SessionInv
    <2> QED BY <2>1, <2>2 DEF SessionInv, Shape
  <1>2. Applied(i, "PAY") \in Nat /\ Applied(i, "CREDIT") \in Nat
    BY <1>1, AppliedIs
  <1>3. /\ row.paid \in Nat /\ row.credited \in Nat
        /\ row.status = "PAID" => row.paid + row.credited = row.total
        /\ row.status = "PARTIALLY_PAID" => row.paid + row.credited \in 1 .. row.total - 1
        /\ row.status \in Unsettled => row.paid + row.credited = 0
    BY <1>1, <1>2 DEF Follows, Unsettled
  <1>4. row.status \in Statuses
    BY <1>1, RowFields
  <1>5. row.status \in Unsettled \cup {"PAID", "PARTIALLY_PAID"}
    BY <1>4 DEF Statuses, Unsettled
  <1>6. "PAID" \notin Unsettled /\ "PARTIALLY_PAID" \notin Unsettled
    BY DEF Unsettled
  <1> HIDE DEF row
  <1>7. Outstanding(row) = row.total - row.paid - row.credited
    BY DEF Outstanding
  <1>8. PICK T, P, C : T = row.total /\ P = row.paid /\ C = row.credited
    OBVIOUS
  <1>9. /\ T \in Nat /\ P \in Nat /\ C \in Nat /\ Outstanding(row) = T - P - C
        /\ row.status = "PAID" => P + C = T
        /\ row.status = "PARTIALLY_PAID" => P + C >= 1 /\ P + C <= T - 1
        /\ row.status \in Unsettled => P + C = 0
    BY <1>1, <1>3, <1>7, <1>8 DEF row
  <1>10. /\ row.status \in Unsettled => Outstanding(row) = T /\ Outstanding(row) \in Nat
         /\ row.status = "PAID" => Outstanding(row) = 0
         /\ row.status = "PARTIALLY_PAID" => Outstanding(row) > 0 /\ Outstanding(row) \in Nat
    BY <1>9
  <1> QED BY <1>1, <1>3, <1>5, <1>8, <1>10 DEF row

(* The five kinds of commit: nothing that stands changes, an invoice is    *)
(* billed, one is voided, a note is applied to invoices that stand, one is *)
(* taken back from them.                                                   *)
SameBills == Billed' = Billed /\ (\A j \in Billed : invoice'[j] = invoice[j])
LessBilled(n, sign) ==
    /\ Billed' = Billed /\ \A i \in DOMAIN n.alloc : i \in Billed
    /\ \A j \in Billed :
          /\ invoice'[j].lines = invoice[j].lines /\ invoice'[j].total = invoice[j].total
          /\ j \in DOMAIN n.alloc => Outstanding(invoice'[j]) = Outstanding(invoice[j]) - sign * n.alloc[j]
          /\ j \notin DOMAIN n.alloc => invoice'[j] = invoice[j]
OneBilled(i) ==
    /\ i \in Invoices /\ i \notin Billed /\ i \in Billed' /\ \A j \in Invoices : j # i => (j \in Billed' <=> j \in Billed)
    /\ \A j \in Billed : invoice'[j] = invoice[j]
    /\ invoice'[i].lines = invoice[i].lines /\ invoice'[i].total = invoice[i].total
    /\ Outstanding(invoice'[i]) = invoice[i].total
OneVoided(i) ==
    /\ i \in Billed /\ i \notin Billed' /\ \A j \in Invoices : j # i => (j \in Billed' <=> j \in Billed)
    /\ \A j \in Billed : j # i => invoice'[j] = invoice[j]
    /\ Outstanding(invoice[i]) = invoice[i].total

(* Applying a note to standing invoices leaves them standing.              *)
LEMMA AppliesBilled ==
    ASSUME SessionInv, NEW n, IsNote(n), DOMAIN n.alloc \subseteq Billed, NEW sign \in {1, -1}, Applies(n, sign)
    PROVE  LessBilled(n, sign)
  <1>1. Shape /\ DOMAIN n.alloc \subseteq Rows
    BY DEF SessionInv, Billed
  <1>2. /\ \A i \in DOMAIN n.alloc :
                /\ i \in Invoices /\ n.alloc[i] \in Nat /\ invoice[i] \in PurchaseInvoice
                /\ sign * n.alloc[i] \in Int /\ invoice'[i] = Apply(invoice[i], n.kind, sign * n.alloc[i])
                /\ invoice'[i].lines = invoice[i].lines /\ invoice'[i].total = invoice[i].total
        /\ \A i \in Invoices : i \notin DOMAIN n.alloc => invoice'[i] = invoice[i]
        /\ Rows' = Rows
    BY <1>1, AppliedRows
  <1>3. ASSUME NEW i \in DOMAIN n.alloc
        PROVE  /\ invoice'[i].status \in Standing
               /\ Outstanding(invoice'[i]) = Outstanding(invoice[i]) - sign * n.alloc[i]
    <2>1. PICK old, new, d, k : old = invoice[i] /\ new = invoice'[i] /\ d = sign * n.alloc[i] /\ k = n.kind
      OBVIOUS
    <2>2. old \in PurchaseInvoice /\ d \in Int /\ k \in {"PAY", "CREDIT"} /\ new = Apply(old, k, d)
      BY <1>2, <1>3, <2>1 DEF IsNote
    <2>3. IsApplied(new, old, k, d)
      BY ONLY <2>2, ApplyFields
    <2>4. new.status \in Standing /\ Outstanding(new) = Outstanding(old) - d
      BY <2>3 DEF IsApplied, Standing
    <2> QED BY <2>1, <2>4
  <1>4. Billed \subseteq Invoices /\ Rows \subseteq Invoices
    BY DEF Billed, Rows
  <1>5. Billed' = Billed
    BY <1>2, <1>3, <1>4 DEF Billed
  <1> QED BY <1>2, <1>3, <1>4, <1>5 DEF LessBilled

(* What each commit does to the invoices that stand.                       *)
LEMMA CommitBilled ==
    ASSUME SessionInv, NEW r \in Requests, Commits(r)
    PROVE  /\ \A i, row : Created(r, i, row) => SameBills
           /\ \A i : Dropped(i) => SameBills
           /\ \A i : Posted(r, i) => OneBilled(i)
           /\ \A i : Unposted(r, i) => OneVoided(i)
           /\ \A n : Settled(r, n) => LessBilled(n, 1)
           /\ \A n : Undone(r, n) => LessBilled(n, -1)
  <1>0. Shape /\ Billed \subseteq Invoices /\ Rows \subseteq Invoices
    BY DEF SessionInv, Billed, Rows
  <1>1. ASSUME NEW i, NEW row, Created(r, i, row) PROVE SameBills
    <2>1. /\ i \in Invoices /\ i \notin Rows /\ invoice'[i] = row /\ row.status = "DRAFT"
          /\ \A j \in Invoices : j # i => invoice'[j] = invoice[j]
          /\ Rows' = Rows \cup {i}
      BY <1>0, <1>1, CreatedRow
    <2> QED BY <1>0, <2>1 DEF SameBills, Billed, Standing
  <1>2. ASSUME NEW i, NEW s, Restated(i, s)
        PROVE  /\ i \in Rows /\ i \in Invoices /\ (\A j \in Invoices : j # i => (invoice'[j] = invoice[j] /\ (j \in Billed' <=> j \in Billed)))
               /\ (i \in Billed' <=> s \in Standing) /\ invoice'[i].lines = invoice[i].lines
               /\ invoice'[i].total = invoice[i].total
               /\ Outstanding(invoice[i]) = invoice[i].total /\ Outstanding(invoice'[i]) = invoice[i].total
    <2>1. /\ i \in Invoices /\ invoice'[i].status = s
          /\ invoice'[i].lines = invoice[i].lines /\ invoice'[i].total = invoice[i].total
          /\ Outstanding(invoice'[i]) = Outstanding(invoice[i])
          /\ (\A j \in Invoices : j # i => invoice'[j] = invoice[j])
          /\ Rows' = Rows
      BY <1>0, <1>2, RestatedRow
    <2>2. i \in Rows /\ invoice[i].status \in Unsettled
      BY <1>2 DEF Restated
    <2>3. Outstanding(invoice[i]) = invoice[i].total
      BY <2>2, RowOwes
    <2>4. \A j \in Invoices : j # i => (j \in Billed' <=> j \in Billed)
      BY <2>1 DEF Billed
    <2>5. i \in Billed' <=> s \in Standing
      BY <2>1, <2>2 DEF Billed
    <2> QED BY <2>1, <2>2, <2>3, <2>4, <2>5
  <1>3. ASSUME NEW i, Dropped(i) PROVE SameBills
    <2>1. Restated(i, "VOIDED") /\ i \in Rows /\ invoice[i].status = "DRAFT"
      BY <1>3, CommitsRestate DEF Dropped
    <2>2. i \notin Billed /\ "VOIDED" \notin Standing
      BY <2>1 DEF Billed, Standing
    <2>3. i \notin Billed' /\ \A j \in Invoices : j # i => (invoice'[j] = invoice[j] /\ (j \in Billed' <=> j \in Billed))
      BY <1>2, <2>1, <2>2
    <2>4. Billed' \subseteq Invoices
      BY DEF Billed, Rows
    <2> QED BY <1>0, <2>2, <2>3, <2>4 DEF SameBills
  <1>4. ASSUME NEW i, Posted(r, i) PROVE OneBilled(i)
    <2>1. Restated(i, "POSTED") /\ i \in Rows /\ invoice[i].status \in {"DRAFT", "VOIDED"}
      BY <1>4, CommitsRestate DEF Posted
    <2>2. i \notin Billed /\ "POSTED" \in Standing
      BY <2>1 DEF Billed, Standing
    <2> QED BY <1>0, <1>2, <2>1, <2>2 DEF OneBilled
  <1>5. ASSUME NEW i, Unposted(r, i) PROVE OneVoided(i)
    <2>1. Restated(i, "VOIDED") /\ i \in Rows /\ invoice[i].status = "POSTED"
      BY <1>5, CommitsRestate DEF Unposted
    <2>2. i \in Billed /\ "VOIDED" \notin Standing
      BY <2>1 DEF Billed, Standing
    <2> QED BY <1>0, <1>2, <2>1, <2>2 DEF OneVoided
  <1>6. ASSUME NEW n, Settled(r, n) PROVE LessBilled(n, 1)
    <2>1. IsNote(n) /\ Applies(n, 1) /\ DOMAIN n.alloc \subseteq Billed
      BY <1>6 DEF Settled, NoteAdds, Billed, Standing
    <2> QED BY <2>1, AppliesBilled
  <1>7. ASSUME NEW n, Undone(r, n) PROVE LessBilled(n, -1)
    <2>1. n \in notes /\ n.id \notin reversed /\ Applies(n, -1)
      BY <1>7 DEF Undone
    <2>2. IsNote(n)
      BY <2>1 DEF SessionInv, NotesWhole
    <2>3. ASSUME NEW i \in DOMAIN n.alloc PROVE i \in Billed
      BY <2>1, <2>3, LiveBilled DEF Billed, Standing
    <2>4. DOMAIN n.alloc \subseteq Billed
      BY <2>3
    <2> QED BY <2>1, <2>2, <2>4, AppliesBilled
  <1> QED BY <1>1, <1>3, <1>4, <1>5, <1>6, <1>7

-----------------------------------------------------------------------------
(* Three-way matching.                                                     *)

(* The units of an item that the standing invoices bill.                   *)
Units(t) == [i \in Billed |-> RequestedOf(invoice[i].lines, t)]

(* They are what the invariant adds up.                                    *)
LEMMA UnitsAre ==
    ASSUME Shape, NEW t
    PROVE  /\ IsFiniteSet(Billed) /\ (\A i \in Billed : Units(t)[i] = RequestedOf(invoice[i].lines, t) /\ Units(t)[i] \in Nat)
           /\ SumOver(Billed, LAMBDA i : RequestedOf(invoice[i].lines, t)) = SumFunctionOnSet(Units(t), Billed)
  <1>1. IsFiniteSet(Billed)
    BY PayablesAssumption, FS_Subset DEF Billed, Rows
  <1>2. ASSUME NEW i \in Billed PROVE RequestedOf(invoice[i].lines, t) \in Nat
    <2>1. invoice[i] \in PurchaseInvoice
      BY <1>2 DEF Shape, Billed, Rows
    <2>2. invoice[i].lines \in Seq(InvoiceLine)
      BY <2>1, RowFields
    <2> QED BY <2>2, RequestedNat
  <1>3. SumOver(Billed, LAMBDA i : RequestedOf(invoice[i].lines, t)) = SumFunctionOnSet(Units(t), Billed)
    BY DEF SumOver, Units
  <1> QED BY <1>1, <1>2, <1>3 DEF Units

(* Also after a step.                                                      *)
LEMMA UnitsNext ==
    ASSUME Shape', NEW t
    PROVE  /\ IsFiniteSet(Billed')
           /\ (\A i \in Billed' : Units(t)'[i] = RequestedOf(invoice'[i].lines, t) /\ Units(t)'[i] \in Nat)
           /\ SumOver(Billed, LAMBDA i : RequestedOf(invoice[i].lines, t))' = SumFunctionOnSet(Units(t)', Billed')
  <1>1. IsFiniteSet(Billed')
    BY PayablesAssumption, FS_Subset DEF Billed, Rows
  <1>2. ASSUME NEW i \in Billed' PROVE RequestedOf(invoice'[i].lines, t) \in Nat
    <2>1. invoice'[i] \in PurchaseInvoice
      BY <1>2 DEF Shape, Billed, Rows
    <2>2. invoice'[i].lines \in Seq(InvoiceLine)
      BY <2>1, RowFields
    <2> QED BY <2>2, RequestedNat
  <1>3. SumOver(Billed, LAMBDA i : RequestedOf(invoice[i].lines, t))' = SumFunctionOnSet(Units(t)', Billed')
    BY DEF SumOver, Units
  <1> QED BY <1>1, <1>2, <1>3 DEF Units

(* The invariant as a sum of functions.                                    *)
LEMMA WithinAre ==
    ASSUME Shape
    PROVE  InvoicedWithinReceived <=> \A t \in Items : invoiced[t] <= Received(t) /\ invoiced[t] = SumFunctionOnSet(Units(t), Billed)
  BY UnitsAre DEF InvoicedWithinReceived

(* Also after a step.                                                      *)
LEMMA WithinNext ==
    ASSUME Shape', \A t \in Items : invoiced'[t] <= Received(t)' /\ invoiced'[t] = SumFunctionOnSet(Units(t)', Billed')
    PROVE  InvoicedWithinReceived'
  BY UnitsNext DEF InvoicedWithinReceived

(* The same units on the same invoices.                                    *)
LEMMA UnitsSame ==
    ASSUME Shape, Shape', Billed' = Billed, \A j \in Billed : invoice'[j].lines = invoice[j].lines, NEW t
    PROVE  SumFunctionOnSet(Units(t)', Billed') = SumFunctionOnSet(Units(t), Billed)
  <1>1. PICK S, f, g : S = Billed /\ f = Units(t)' /\ g = Units(t)
    OBVIOUS
  <1>2. IsFiniteSet(S) /\ \A x \in S : f[x] = g[x]
    <2>1. IsFiniteSet(S) /\ \A x \in S : g[x] = RequestedOf(invoice[x].lines, t)
      BY <1>1, UnitsAre
    <2>2. \A x \in S : f[x] = RequestedOf(invoice'[x].lines, t)
      BY <1>1, UnitsNext
    <2>3. \A x \in S : invoice'[x].lines = invoice[x].lines
      BY <1>1
    <2> QED BY <2>1, <2>2, <2>3
  <1>3. SumFunctionOnSet(f, S) = SumFunctionOnSet(g, S)
    BY ONLY <1>2, SumSame
  <1> QED BY <1>1, <1>3

(* A lot adds its units to what was received.                              *)
LEMMA ReceiveAdds ==
    ASSUME SessionInv, SessionInv', NEW t \in Items, Receive(t)
    PROVE  \A x \in Items : Received(x) <= Received(x)' /\ Received(x) \in Nat /\ Received(x)' \in Nat
  <1>1. SUFFICES ASSUME NEW x \in Items PROVE Received(x) <= Received(x)' /\ Received(x) \in Nat /\ Received(x)' \in Nat
    OBVIOUS
  <1>2. /\ arrived[x] \in Nat /\ arrived'[x] \in Nat /\ arrived'[x] <= Len(Deliveries[x])
        /\ \A n \in 1 .. Len(Deliveries[x]) : Deliveries[x][n].qty \in Nat
        /\ Received(x) \in Nat /\ Len(Deliveries[x]) \in Nat
        /\ arrived'[x] = IF x = t THEN arrived[x] + 1 ELSE arrived[x]
    <2>1. /\ arrived[x] \in Nat /\ Received(x) \in Nat /\ \A n \in 1 .. Len(Deliveries[x]) : Deliveries[x][n].qty \in Nat
      BY ReceivedNat DEF SessionInv
    <2>2. arrived \in [Items -> Nat] /\ arrived' \in [Items -> Nat] /\ arrived'[x] <= Len(Deliveries[x])
      BY DEF SessionInv, Shape
    <2>3. arrived' = [arrived EXCEPT ![t] = @ + 1]
      BY DEF Receive
    <2> QED BY <2>1, <2>2, <2>3, PayablesAssumption
  <1> DEFINE S == 1 .. arrived[x]
             T == 1 .. arrived'[x]
             f == [n \in S |-> Deliveries[x][n].qty]
             g == [n \in T |-> Deliveries[x][n].qty]
  <1>3. Received(x) = SumFunctionOnSet(f, S) /\ Received(x)' = SumFunctionOnSet(g, T)
    BY DEF Received, SumOver
  <1>4. IsFiniteSet(S) /\ IsFiniteSet(T) /\ (\A n \in T : g[n] \in Nat) /\ (\A n \in S : f[n] = g[n] /\ n \in T)
    <2>1. IsFiniteSet(S) /\ IsFiniteSet(T)
      <3>1. PICK a \in Nat, b \in Nat : a = arrived[x] /\ b = arrived'[x]
        BY <1>2
      <3>2. \A c \in Nat : IsFiniteSet(1 .. c)
        BY ONLY FS_Interval
      <3>3. IsFiniteSet(1 .. a) /\ IsFiniteSet(1 .. b)
        BY ONLY <3>2
      <3> QED BY <3>1, <3>3
    <2>2. \A n \in T : n \in 1 .. Len(Deliveries[x])
      BY <1>2
    <2>3. \A n \in T : g[n] \in Nat
      BY <1>2, <2>2
    <2>4. \A n \in S : n \in T
      BY <1>2
    <2> QED BY <2>1, <2>3, <2>4
  <1>5. CASE x # t
    <2>1. T = S /\ g = f
      BY <1>2, <1>5
    <2> QED BY <1>2, <1>3, <2>1, SMTT(40)
  <1>6. CASE x = t
    <2> DEFINE e == arrived[x] + 1
    <2>1. e \in T /\ e \notin S /\ (\A n \in T : n = e \/ n \in S)
      BY <1>2, <1>6
    <2> HIDE DEF S, T, f, g, e
    <2>2. g[e] \in Int /\ (\A n \in S : g[n] = f[n] /\ f[n] \in Int) /\ g[e] \in Nat
      BY <1>4, <2>1
    <2>3. SumFunctionOnSet(g, T) = g[e] + SumFunctionOnSet(f, S)
      BY ONLY <1>4, <2>1, <2>2, SumWith
    <2> QED BY <1>2, <1>3, <2>2, <2>3
  <1> QED BY <1>5, <1>6

(* A commit keeps quantity_invoiced what the standing invoices bill.       *)
LEMMA CommitWithin ==
    ASSUME SessionInv, SessionInv', InvoicedWithinReceived, NEW r \in Requests, Concludes(r)
    PROVE  InvoicedWithinReceived'
  <1>0. /\ Shape /\ Shape' /\ Commits(r) /\ arrived' = arrived
        /\ \A t \in Items : invoiced[t] <= Received(t) /\ invoiced[t] = SumFunctionOnSet(Units(t), Billed)
    BY WithinAre DEF SessionInv, Concludes, Commits, Created, Dropped, Posted, Unposted, Settled, Undone
  <1>1. \A t \in Items : Received(t)' = Received(t) /\ Received(t) \in Nat /\ invoiced[t] \in Int
    <2>1. \A t : Received(t)' = Received(t)
      BY <1>0 DEF Received, SumOver
    <2> QED BY <1>0, <2>1, ReceivedNat DEF Shape
  <1>2. ASSUME UNCHANGED invoiced, Billed' = Billed, \A j \in Billed : invoice'[j].lines = invoice[j].lines
        PROVE  InvoicedWithinReceived'
    <2>1. \A t \in Items : invoiced'[t] <= Received(t)' /\ invoiced'[t] = SumFunctionOnSet(Units(t)', Billed')
      BY <1>0, <1>1, <1>2, UnitsSame
    <2> QED BY <1>0, <2>1, WithinNext
  <1>3. ASSUME NEW i, NEW row, Created(r, i, row) PROVE InvoicedWithinReceived'
    <2>1. SameBills /\ UNCHANGED invoiced
      BY <1>0, <1>3, CommitBilled DEF Created
    <2> QED BY <1>2, <2>1 DEF SameBills
  <1>4. ASSUME NEW i, Dropped(i) PROVE InvoicedWithinReceived'
    <2>1. SameBills /\ UNCHANGED invoiced
      BY <1>0, <1>4, CommitBilled DEF Dropped
    <2> QED BY <1>2, <2>1 DEF SameBills
  <1>5. ASSUME NEW n, Settled(r, n) \/ Undone(r, n) PROVE InvoicedWithinReceived'
    <2>1. (LessBilled(n, 1) \/ LessBilled(n, -1)) /\ UNCHANGED invoiced
      BY <1>0, <1>5, CommitBilled DEF Settled, Undone
    <2> QED BY <1>2, <2>1 DEF LessBilled
  <1>6. ASSUME NEW i \in Rows, NEW t \in Items
        PROVE  /\ RequestedOf(invoice[i].lines, t) \in Nat
               /\ (t \notin ItemsOf(invoice[i].lines) => RequestedOf(invoice[i].lines, t) = 0)
    <2>1. invoice[i] \in PurchaseInvoice
      BY <1>0, <1>6 DEF Shape, Rows
    <2>2. invoice[i].lines \in Seq(InvoiceLine)
      BY <2>1, RowFields
    <2> QED BY <2>2, RequestedNat
  <1>7. ASSUME NEW i, Posted(r, i) PROVE InvoicedWithinReceived'
    <2>1. /\ OneBilled(i) /\ i \in Rows
          /\ \A t \in ItemsOf(invoice[i].lines) : invoiced[t] + RequestedOf(invoice[i].lines, t) <= Received(t)
          /\ invoiced' = [t \in Items |-> IF t \in ItemsOf(invoice[i].lines) THEN invoiced[t] + RequestedOf(invoice[i].lines, t)
                                          ELSE invoiced[t]]
      BY <1>0, <1>7, CommitBilled DEF Posted
    <2>2. ASSUME NEW t \in Items
          PROVE  invoiced'[t] <= Received(t)' /\ invoiced'[t] = SumFunctionOnSet(Units(t)', Billed')
      <3>1. PICK S, T, f, g, q : S = Billed /\ T = Billed' /\ g = Units(t) /\ f = Units(t)'
                              /\ q = RequestedOf(invoice[i].lines, t)
        OBVIOUS
      <3>2. q \in Nat /\ (t \notin ItemsOf(invoice[i].lines) => q = 0)
        BY <1>6, <2>1, <2>2, <3>1
      <3>3. invoiced'[t] = invoiced[t] + q
        BY <1>1, <2>1, <2>2, <3>1, <3>2
      <3>4. invoiced'[t] <= Received(t)'
        BY <1>0, <1>1, <2>1, <2>2, <3>1, <3>2, <3>3
      <3>5. S \subseteq Invoices /\ T \subseteq Invoices
        BY <3>1 DEF Billed, Rows
      <3>6. IsFiniteSet(S) /\ i \in T /\ i \notin S /\ (\A x \in S : x \in T) /\ (\A x \in T : x = i \/ x \in S)
        BY <1>0, <2>1, <3>1, <3>5, UnitsAre DEF OneBilled
      <3>7. f[i] = q /\ f[i] \in Int /\ \A x \in S : f[x] = g[x] /\ g[x] \in Int
        <4>1. \A x \in S : g[x] = RequestedOf(invoice[x].lines, t) /\ g[x] \in Nat
          BY <1>0, <3>1, UnitsAre
        <4>2. \A x \in T : f[x] = RequestedOf(invoice'[x].lines, t)
          BY <1>0, <3>1, UnitsNext
        <4>3. invoice'[i].lines = invoice[i].lines /\ \A x \in S : invoice'[x] = invoice[x]
          BY <2>1, <3>1 DEF OneBilled
        <4> QED BY <3>1, <3>2, <3>6, <4>1, <4>2, <4>3
      <3>8. SumFunctionOnSet(f, T) = f[i] + SumFunctionOnSet(g, S)
        BY ONLY <3>6, <3>7, SumWith
      <3> QED BY <1>0, <1>1, <2>2, <3>1, <3>2, <3>3, <3>4, <3>7, <3>8
    <2> QED BY <1>0, <2>2, WithinNext
  <1>8. ASSUME NEW i, Unposted(r, i) PROVE InvoicedWithinReceived'
    <2>1. /\ OneVoided(i) /\ i \in Rows
          /\ invoiced' = [t \in Items |-> IF t \in ItemsOf(invoice[i].lines) THEN invoiced[t] - RequestedOf(invoice[i].lines, t)
                                          ELSE invoiced[t]]
      BY <1>0, <1>8, CommitBilled DEF Unposted
    <2>2. ASSUME NEW t \in Items
          PROVE  invoiced'[t] <= Received(t)' /\ invoiced'[t] = SumFunctionOnSet(Units(t)', Billed')
      <3>1. PICK S, T, f, g, q : S = Billed /\ T = Billed' /\ g = Units(t) /\ f = Units(t)'
                              /\ q = RequestedOf(invoice[i].lines, t)
        OBVIOUS
      <3>2. q \in Nat /\ (t \notin ItemsOf(invoice[i].lines) => q = 0)
        BY <1>6, <2>1, <2>2, <3>1
      <3>3. invoiced'[t] = invoiced[t] - q
        BY <1>1, <2>1, <2>2, <3>1, <3>2
      <3>4. invoiced'[t] <= Received(t)'
        BY <1>0, <1>1, <2>1, <2>2, <3>1, <3>2, <3>3
      <3>5. S \subseteq Invoices /\ T \subseteq Invoices
        BY <3>1 DEF Billed, Rows
      <3>6. IsFiniteSet(T) /\ i \in S /\ i \notin T /\ (\A x \in T : x \in S) /\ (\A x \in S : x = i \/ x \in T)
        BY <1>0, <2>1, <3>1, <3>5, UnitsNext DEF OneVoided
      <3>7. g[i] = q /\ g[i] \in Int /\ \A x \in T : g[x] = f[x] /\ f[x] \in Int
        <4>1. \A x \in S : g[x] = RequestedOf(invoice[x].lines, t) /\ g[x] \in Nat
          BY <1>0, <3>1, UnitsAre
        <4>2. \A x \in T : f[x] = RequestedOf(invoice'[x].lines, t)
          BY <1>0, <3>1, UnitsNext
        <4>3. \A x \in S : x # i => invoice'[x] = invoice[x]
          BY <2>1, <3>1 DEF OneVoided
        <4> QED BY <3>1, <3>2, <3>6, <4>1, <4>2, <4>3
      <3>8. SumFunctionOnSet(g, S) = g[i] + SumFunctionOnSet(f, T)
        BY ONLY <3>6, <3>7, SumWith
      <3>9. SumFunctionOnSet(f, T) \in Int
        BY ONLY <3>6, <3>7, SumInt
      <3> QED BY <1>0, <1>1, <2>2, <3>1, <3>2, <3>3, <3>4, <3>7, <3>8, <3>9
    <2> QED BY <1>0, <2>2, WithinNext
  <1> QED BY <1>0, <1>3, <1>4, <1>5, <1>7, <1>8 DEF Commits

(* What a step other than a commit does to the tables: nothing, or a lot   *)
(* arrives.                                                                *)
LEMMA StepOrQuiet ==
    ASSUME SessionInv, [Next]_vars
    PROVE  \/ UNCHANGED tables
           \/ \E r \in Requests : Concludes(r)
           \/ \E t \in Items : Receive(t)
  <1>1. CASE UNCHANGED vars
    BY <1>1 DEF vars
  <1>2. ASSUME NEW r \in Requests, Submit(r) PROVE UNCHANGED tables
    BY <1>2 DEF Submit
  <1>3. ASSUME NEW r \in Requests, Step(r) \/ Fail(r) PROVE UNCHANGED tables \/ Concludes(r)
    <2>1. Ends(r) \/ Concludes(r) \/ Moves(r) \/ TakesVoid(r) \/ TakesOrder(r) \/ TakesNote(r) \/ LockInvoice(r)
      BY <1>3, StepEffect
    <2>2. Ends(r) \/ Moves(r) => UNCHANGED tables
      BY DEF Ends, Return, Moves, Stay
    <2>3. TakesVoid(r) \/ TakesOrder(r) \/ TakesNote(r) \/ LockInvoice(r) => UNCHANGED tables
      BY DEF TakesVoid, TakesOrder, TakesNote, LockInvoice
    <2> QED BY <2>1, <2>2, <2>3
  <1> QED BY <1>1, <1>2, <1>3 DEF Next

(* Every step keeps the matching.                                          *)
LEMMA WithinKept ==
    ASSUME SessionInv, SessionInv', InvoicedWithinReceived, [Next]_vars
    PROVE  InvoicedWithinReceived'
  <1>0. Shape /\ Shape' /\ \A t \in Items : invoiced[t] <= Received(t) /\ invoiced[t] = SumFunctionOnSet(Units(t), Billed)
    BY WithinAre DEF SessionInv
  <1>1. CASE UNCHANGED tables
    <2>1. UNCHANGED <<invoice, invoiced, arrived>>
      BY <1>1 DEF tables
    <2> QED BY <2>1 DEF InvoicedWithinReceived, Received, Billed, Rows, SumOver
  <1>2. ASSUME NEW r \in Requests, Concludes(r) PROVE InvoicedWithinReceived'
    BY <1>2, CommitWithin
  <1>3. ASSUME NEW t \in Items, Receive(t) PROVE InvoicedWithinReceived'
    <2>1. UNCHANGED <<invoice, invoiced>>
      BY <1>3 DEF Receive
    <2>2. Billed' = Billed
      BY <2>1 DEF Billed, Rows
    <2>3. \A x \in Items : invoiced'[x] = SumFunctionOnSet(Units(x)', Billed')
      BY <1>0, <2>1, <2>2, UnitsSame
    <2>4. \A x \in Items : invoiced[x] \in Int /\ Received(x) \in Nat /\ Received(x)' \in Nat /\ Received(x) <= Received(x)'
      BY <1>0, <1>3, ReceiveAdds DEF Shape
    <2>5. \A x \in Items : invoiced'[x] <= Received(x)'
      BY <1>0, <2>1, <2>4
    <2> QED BY <1>0, <2>3, <2>5, WithinNext
  <1> QED BY <1>1, <1>2, <1>3, StepOrQuiet

(* It holds at the start.                                                  *)
LEMMA InitWithin == ASSUME Init PROVE InvoicedWithinReceived
  <1>1. /\ load \in Workloads /\ arrived = InitialArrived
        /\ invoiced = [t \in Items |-> SumOver(load.posted, LAMBDA i : RequestedOf(InitialInvoices[i].lines, t))]
    BY DEF Init
  <1>2. Billed = load.posted /\ Shape /\ \A i \in load.posted : invoice[i].lines = InitialInvoices[i].lines
    BY InitRows DEF Billed, Standing
  <1>3. ASSUME NEW t \in Items PROVE invoiced[t] <= Received(t) /\ invoiced[t] = SumFunctionOnSet(Units(t), Billed)
    <2> DEFINE f == [i \in load.posted |-> RequestedOf(InitialInvoices[i].lines, t)]
    <2>1. invoiced[t] = SumFunctionOnSet(f, load.posted)
      BY <1>1, <1>3 DEF SumOver
    <2>2. f = Units(t)
      BY <1>2 DEF Units
    <2>3. SumOver(load.posted, LAMBDA i : RequestedOf(InitialInvoices[i].lines, t))
            <= SumOver(1 .. InitialArrived[t], LAMBDA n : Deliveries[t][n].qty)
      BY <1>1, PayablesAssumption
    <2>4. Received(t) = SumOver(1 .. InitialArrived[t], LAMBDA n : Deliveries[t][n].qty)
      BY <1>1 DEF Received
    <2> QED BY <1>1, <1>2, <1>3, <2>1, <2>2, <2>3, <2>4
  <1> QED BY <1>2, <1>3, WithinAre

(* For every set of invoices, orders, lots and requests: however postings, *)
(* voids and receipts interleave, quantity_invoiced is what the standing   *)
(* invoices bill and never more than was received (post_purchase_invoice,  *)
(* void_purchase_invoice).                                                 *)
THEOREM ThreeWayMatching == Spec => []InvoicedWithinReceived
  <1>1. Init => SessionInv /\ InvoicedWithinReceived
    BY InitSession, InitWithin
  <1>2. SessionInv /\ InvoicedWithinReceived /\ [Next]_vars => (SessionInv /\ InvoicedWithinReceived)'
    BY SessionKept, WithinKept
  <1> QED BY <1>1, <1>2, PTL DEF Spec

-----------------------------------------------------------------------------
(* The refinement of Settlement.                                           *)

(* What is owed on each invoice, and the settlements that stand.           *)
Owing == [i \in Invoices |-> IF i \in Billed THEN Outstanding(invoice[i]) ELSE 0]
Live  == {[id |-> n.id, amounts |-> n.alloc] : n \in {m \in notes : m.id \notin reversed}}

(* What is owed is never negative.                                         *)
LEMMA OwingNat ==
    ASSUME SessionInv
    PROVE  /\ Owing \in [Invoices -> Nat] /\ Billed \subseteq Invoices /\ IsFiniteSet(Billed)
           /\ \A i \in Billed : Owing[i] = Outstanding(invoice[i])
           /\ \A i \in Invoices : i \notin Billed => Owing[i] = 0
  <1>1. Billed \subseteq Invoices /\ Billed \subseteq Rows
    BY DEF Billed, Rows
  <1>2. \A i \in Billed : Outstanding(invoice[i]) \in Nat
    BY <1>1, RowOwes
  <1>3. IsFiniteSet(Billed)
    BY <1>1, PayablesAssumption, FS_Subset
  <1> QED BY <1>1, <1>2, <1>3 DEF Owing

(* Also after a step.                                                      *)
LEMMA OwingNext ==
    ASSUME NEW T, T = Billed', NEW f, f = Owing'
    PROVE  /\ f = [i \in Invoices |-> f[i]] /\ T \subseteq Invoices
           /\ \A i \in T : f[i] = Outstanding(invoice'[i])
           /\ \A i \in Invoices : i \notin T => f[i] = 0
  BY DEF Owing, Billed, Rows

(* The notes and the settlements that stand.                               *)
LEMMA LiveNote ==
    ASSUME NEW s \in Live
    PROVE  \E n \in notes : n.id \notin reversed /\ s.id = n.id /\ s.amounts = n.alloc /\ s = [id |-> n.id, amounts |-> n.alloc]
  BY DEF Live

(* Nothing owed changes hands.                                             *)
LEMMA SameOwing ==
    ASSUME SessionInv, SameBills
    PROVE  Owing' = Owing /\ Billed' = Billed
  <1>1. Billed' = Billed /\ \A j \in Billed : invoice'[j] = invoice[j]
    BY DEF SameBills
  <1> QED BY <1>1 DEF Owing

(* Posting an invoice bills it.                                            *)
LEMMA PostedBills ==
    ASSUME SessionInv, SessionInv', NEW i, OneBilled(i), UNCHANGED <<notes, reversed>>
    PROVE  Promise!Bill(i)
  <1>1. i \in Invoices /\ i \notin Billed /\ Billed' = Billed \cup {i}
    BY DEF OneBilled, Billed, Rows
  <1>2. \A j \in Invoices : j # i => Owing'[j] = Owing[j]
    BY <1>1 DEF OneBilled, Owing
  <1>3. Owing'[i] \in Nat
    <2>1. i \in Rows' /\ Owing'[i] = Outstanding(invoice'[i])
      BY <1>1 DEF Owing, Billed
    <2>2. invoice'[i].total \in Nat
      BY <2>1 DEF SessionInv, Shape
    <2> QED BY <2>1, <2>2 DEF OneBilled
  <1>4. Owing' = [Owing EXCEPT ![i] = Owing'[i]]
    BY <1>1, <1>2 DEF Owing
  <1>5. Live' = Live /\ UNCHANGED notes
    BY DEF Live
  <1> QED BY <1>1, <1>3, <1>4, <1>5 DEF Promise!Bill, Owing, Live

(* Voiding it takes it back, with nothing settled on it.                   *)
LEMMA UnpostedVoids ==
    ASSUME SessionInv, NEW i, OneVoided(i), invoice[i].status = "POSTED", UNCHANGED <<notes, reversed>>
    PROVE  Promise!Void(i)
  <1>1. i \in Billed /\ i \in Invoices /\ Billed' = Billed \ {i}
    BY DEF OneVoided, Billed, Rows
  <1>2. \A s \in Live : i \notin DOMAIN s.amounts
    <2>1. SUFFICES ASSUME NEW s \in Live, i \in DOMAIN s.amounts PROVE FALSE
      OBVIOUS
    <2>2. PICK n \in notes : n.id \notin reversed /\ s.amounts = n.alloc
      BY LiveNote
    <2>3. invoice[i].status \in {"PARTIALLY_PAID", "PAID"}
      BY <2>1, <2>2, LiveBilled
    <2> QED BY <2>3
  <1>3. \A j \in Invoices : j # i => Owing'[j] = Owing[j]
    BY <1>1 DEF OneVoided, Owing
  <1>4. Owing'[i] = 0
    BY <1>1 DEF Owing
  <1>5. Owing' = [Owing EXCEPT ![i] = 0]
    BY <1>1, <1>3, <1>4 DEF Owing
  <1>6. Live' = Live /\ UNCHANGED notes
    BY DEF Live
  <1> QED BY <1>1, <1>2, <1>5, <1>6 DEF Promise!Void, Owing, Live

(* A payment or credit note settles several invoices at once.              *)
LEMMA SettledSettles ==
    ASSUME SessionInv, NEW r \in Requests, NEW n, Settled(r, n), LessBilled(n, 1)
    PROVE  Promise!Settle
  <1> DEFINE s == [id |-> n.id, amounts |-> n.alloc]
  <1>1. /\ n.id = r /\ r \notin NoteIds /\ notes' = notes \cup {n} /\ reversed' = reversed /\ IsNote(n)
        /\ \A i \in DOMAIN n.alloc : n.alloc[i] > 0 /\ n.alloc[i] <= Outstanding(invoice[i])
    BY DEF Settled, NoteAdds
  <1>2. r \notin reversed
    BY <1>1 DEF SessionInv, NotesWhole
  <1>3. Live' = Live \cup {s}
    BY <1>1, <1>2 DEF Live
  <1>4. s \notin Live
    <2>1. SUFFICES ASSUME s \in Live PROVE FALSE
      OBVIOUS
    <2>2. PICK m \in notes : s.id = m.id
      BY <2>1, LiveNote
    <2> QED BY <1>1, <2>2 DEF NoteIds
  <1>5. \A b \in DOMAIN n.alloc : b \in Billed /\ b \in Invoices /\ n.alloc[b] \in 1 .. Owing[b]
    <2>1. \A b \in DOMAIN n.alloc : b \in Billed /\ b \in Invoices /\ n.alloc[b] \in Nat
      BY <1>1 DEF LessBilled, IsNote
    <2>2. \A b \in DOMAIN n.alloc : Owing[b] = Outstanding(invoice[b]) /\ Owing[b] \in Nat
      BY <2>1, OwingNat
    <2> QED BY <1>1, <2>1, <2>2
  <1>6. ASSUME NEW b \in Invoices
        PROVE  Owing'[b] = IF b \in DOMAIN n.alloc THEN Owing[b] - n.alloc[b] ELSE Owing[b]
    <2>1. CASE b \in DOMAIN n.alloc
      <3>1. b \in Billed /\ b \in Billed' /\ Outstanding(invoice'[b]) = Outstanding(invoice[b]) - 1 * n.alloc[b] /\ n.alloc[b] \in Nat
        BY <1>1, <2>1 DEF LessBilled, IsNote
      <3> QED BY <1>6, <2>1, <3>1 DEF Owing
    <2>2. CASE b \notin DOMAIN n.alloc
      BY <1>6, <2>2 DEF Owing, LessBilled
    <2> QED BY <2>1, <2>2
  <1>7. Owing' = [b \in Invoices |-> IF b \in DOMAIN n.alloc THEN Owing[b] - n.alloc[b] ELSE Owing[b]]
    BY <1>6 DEF Owing
  <1>8. Billed' = Billed
    BY DEF LessBilled
  <1>9. {m.id : m \in notes'} = {m.id : m \in notes} \cup {s.id} /\ s.id \in Requests \ {m.id : m \in notes}
    BY <1>1 DEF NoteIds
  <1>10. s \in Live' \ Live /\ s.amounts = n.alloc
    BY <1>3, <1>4
  <1> QED BY <1>3, <1>5, <1>7, <1>8, <1>9, <1>10 DEF Promise!Settle, Owing, Live

(* A reversal gives back what the document settled.                        *)
LEMMA UndoneUndoes ==
    ASSUME SessionInv, NEW r \in Requests, NEW n, Undone(r, n), LessBilled(n, -1)
    PROVE  Promise!Undo
  <1> DEFINE s == [id |-> n.id, amounts |-> n.alloc]
  <1>1. /\ n \in notes /\ n.id \notin reversed /\ notes' = notes /\ reversed' = reversed \cup {n.id} /\ IsNote(n)
        /\ \A m \in notes : m.id = n.id => m = n
    BY DEF Undone, SessionInv, NotesWhole
  <1>2. s \in Live
    BY <1>1 DEF Live
  <1>3. Live' = Live \ {s}
    BY <1>1 DEF Live
  <1>6. ASSUME NEW b \in Invoices
        PROVE  Owing'[b] = IF b \in DOMAIN n.alloc THEN Owing[b] + n.alloc[b] ELSE Owing[b]
    <2>1. CASE b \in DOMAIN n.alloc
      <3>1. b \in Billed /\ b \in Billed' /\ Outstanding(invoice'[b]) = Outstanding(invoice[b]) - (-1) * n.alloc[b]
            /\ n.alloc[b] \in Nat
        BY <1>1, <2>1 DEF LessBilled, IsNote
      <3>2. Outstanding(invoice[b]) \in Nat
        BY <3>1, RowOwes DEF Billed
      <3>3. Owing'[b] = Outstanding(invoice'[b]) /\ Owing[b] = Outstanding(invoice[b])
        BY <1>6, <3>1 DEF Owing
      <3> QED BY <2>1, <3>1, <3>2, <3>3
    <2>2. CASE b \notin DOMAIN n.alloc
      BY <1>6, <2>2 DEF Owing, LessBilled
    <2> QED BY <2>1, <2>2
  <1>7. Owing' = [b \in Invoices |-> IF b \in DOMAIN n.alloc THEN Owing[b] + n.alloc[b] ELSE Owing[b]]
    BY <1>6 DEF Owing
  <1>8. Billed' = Billed
    BY DEF LessBilled
  <1>10. s.amounts = n.alloc
    OBVIOUS
  <1> QED BY <1>1, <1>2, <1>3, <1>7, <1>8, <1>10 DEF Promise!Undo, Owing, Live

(* Every step is a step of Settlement or leaves it alone.                  *)
LEMMA StepRefines ==
    ASSUME SessionInv, SessionInv', [Next]_vars
    PROVE  [Promise!Next]_(Promise!svars)
  <1>0. ASSUME Owing' = Owing, Billed' = Billed, UNCHANGED <<notes, reversed>> PROVE UNCHANGED Promise!svars
    BY <1>0 DEF Promise!svars, Owing
  <1>1. CASE UNCHANGED tables
    <2>1. UNCHANGED <<invoice, notes, reversed>>
      BY <1>1 DEF tables
    <2>2. Billed' = Billed /\ Owing' = Owing
      BY <2>1 DEF Billed, Rows, Owing
    <2> QED BY <1>0, <2>1, <2>2
  <1>2. ASSUME NEW t \in Items, Receive(t) PROVE UNCHANGED Promise!svars
    <2>1. UNCHANGED <<invoice, notes, reversed>>
      BY <1>2 DEF Receive
    <2>2. Billed' = Billed /\ Owing' = Owing
      BY <2>1 DEF Billed, Rows, Owing
    <2> QED BY <1>0, <2>1, <2>2
  <1>3. ASSUME NEW r \in Requests, Concludes(r) PROVE [Promise!Next]_(Promise!svars)
    <2>0. Commits(r)
      BY <1>3 DEF Concludes
    <2>1. ASSUME NEW i, NEW row, Created(r, i, row) PROVE UNCHANGED Promise!svars
      <3>1. SameBills /\ UNCHANGED <<notes, reversed>>
        BY <2>0, <2>1, CommitBilled DEF Created
      <3> QED BY <1>0, <3>1, SameOwing
    <2>2. ASSUME NEW i, Dropped(i) PROVE UNCHANGED Promise!svars
      <3>1. SameBills /\ UNCHANGED <<notes, reversed>>
        BY <2>0, <2>2, CommitBilled DEF Dropped
      <3> QED BY <1>0, <3>1, SameOwing
    <2>3. ASSUME NEW i, Posted(r, i) PROVE Promise!Next
      <3>1. OneBilled(i) /\ UNCHANGED <<notes, reversed>> /\ i \in Invoices
        BY <2>0, <2>3, CommitBilled DEF Posted, Rows
      <3>2. Promise!Bill(i)
        BY <3>1, PostedBills
      <3> QED BY <3>1, <3>2 DEF Promise!Next
    <2>4. ASSUME NEW i, Unposted(r, i) PROVE Promise!Next
      <3>1. OneVoided(i) /\ UNCHANGED <<notes, reversed>> /\ i \in Invoices /\ invoice[i].status = "POSTED"
        BY <2>0, <2>4, CommitBilled DEF Unposted, Rows
      <3>2. Promise!Void(i)
        BY <3>1, UnpostedVoids
      <3> QED BY <3>1, <3>2 DEF Promise!Next
    <2>5. ASSUME NEW n, Settled(r, n) PROVE Promise!Next
      BY <2>0, <2>5, CommitBilled, SettledSettles DEF Promise!Next
    <2>6. ASSUME NEW n, Undone(r, n) PROVE Promise!Next
      BY <2>0, <2>6, CommitBilled, UndoneUndoes DEF Promise!Next
    <2> QED BY <2>0, <2>1, <2>2, <2>3, <2>4, <2>5, <2>6 DEF Commits
  <1> QED BY <1>1, <1>2, <1>3, StepOrQuiet, <1>0

(* The start is one of Settlement's.                                       *)
LEMMA InitRefines == ASSUME Init PROVE Promise!Init
  <1>1. SessionInv /\ notes = {}
    BY InitSession DEF Init
  <1>2. Live = {} /\ {n.id : n \in notes} = {}
    BY <1>1 DEF Live
  <1> QED BY <1>1, <1>2, OwingNat DEF Promise!Init, Owing, Live

(* For every set of invoices and requests: accounts payable, in the small  *)
(* steps of its sessions, implements Settlement, where an invoice is       *)
(* billed, voided, settled and unsettled atomically and never beyond what  *)
(* it owes (record_supplier_payment, create_supplier_credit_note, the      *)
(* reversals, post_purchase_invoice and void_purchase_invoice).            *)
THEOREM PayablesImplementSettlement == Spec => SettlementIsAtomic
  <1>1. SessionInv /\ SessionInv' /\ [Next]_vars => [Promise!Next]_(Promise!svars)
    BY StepRefines
  <1> QED BY <1>1, InitRefines, SessionAlways, PTL DEF Spec, SettlementIsAtomic, Promise!Spec

-----------------------------------------------------------------------------
(* One document for a key or a number.                                     *)

(* Rows keep their keys and numbers.                                       *)
SameNames == Rows' = Rows /\ \A i \in Rows : invoice'[i].key = invoice[i].key /\ invoice'[i].number = invoice[i].number

(* The names of a commit's rows.                                           *)
LEMMA CommitNames ==
    ASSUME SessionInv, NEW r \in Requests, Commits(r)
    PROVE  SameNames \/ \E i, row : Created(r, i, row)
  <1>0. Shape /\ Rows \subseteq Invoices
    BY DEF SessionInv, Rows
  <1>1. ASSUME NEW i, NEW s, Restated(i, s) PROVE SameNames
    <2>1. /\ i \in Invoices /\ invoice'[i].key = invoice[i].key /\ invoice'[i].number = invoice[i].number
          /\ (\A j \in Invoices : j # i => invoice'[j] = invoice[j])
          /\ Rows' = Rows
      BY <1>0, <1>1, RestatedRow
    <2> QED BY <1>0, <2>1 DEF SameNames
  <1>2. ASSUME NEW n, IsNote(n), DOMAIN n.alloc \subseteq Rows, NEW sign \in {1, -1}, Applies(n, sign) PROVE SameNames
    <2>1. /\ \A i \in DOMAIN n.alloc : invoice'[i].key = invoice[i].key /\ invoice'[i].number = invoice[i].number
          /\ \A i \in Invoices : i \notin DOMAIN n.alloc => invoice'[i] = invoice[i]
          /\ Rows' = Rows
      BY <1>0, <1>2, AppliedRows
    <2> QED BY <1>0, <2>1 DEF SameNames
  <1>3. ASSUME NEW i, Dropped(i) \/ Posted(r, i) \/ Unposted(r, i) PROVE SameNames
    <2>1. Restated(i, "VOIDED") \/ Restated(i, "POSTED")
      BY <1>3, CommitsRestate
    <2> QED BY <1>1, <2>1
  <1>4. ASSUME NEW n, Settled(r, n) PROVE SameNames
    <2>1. IsNote(n) /\ DOMAIN n.alloc \subseteq Rows /\ Applies(n, 1)
      BY <1>4 DEF Settled, NoteAdds
    <2> QED BY <1>2, <2>1
  <1>5. ASSUME NEW n, Undone(r, n) PROVE SameNames
    <2>1. IsNote(n) /\ DOMAIN n.alloc \subseteq Rows /\ Applies(n, -1)
      BY <1>5 DEF Undone, SessionInv, NotesWhole
    <2> QED BY <1>2, <2>1
  <1> QED BY <1>3, <1>4, <1>5 DEF Commits

(* Documents under a commit.                                               *)
LEMMA CommitDocuments ==
    ASSUME SessionInv, SessionInv', OneDocument, NEW r \in Requests, Concludes(r)
    PROVE  OneDocument'
  <1>0. Commits(r)
    BY DEF Concludes
  <1>1. /\ \A i, j \in Rows \ Alien : i # j => invoice[i].number # invoice[j].number
        /\ \A i, j \in Rows : i # j /\ invoice[i].key # NoOne => invoice[i].key # invoice[j].key
        /\ \A a, b \in notes : a.kind = b.kind /\ a.key = b.key => a = b
        /\ \A a, b \in notes : a.kind = "CREDIT" /\ a.number = b.number => a = b
    BY DEF OneDocument
  <1>2. /\ \A i, j \in Rows' \ Alien : i # j => invoice'[i].number # invoice'[j].number
        /\ \A i, j \in Rows' : i # j /\ invoice'[i].key # NoOne => invoice'[i].key # invoice'[j].key
    <2>1. CASE SameNames
      BY <1>1, <2>1 DEF SameNames
    <2>2. ASSUME NEW i, NEW row, Created(r, i, row)
          PROVE  /\ \A k, j \in Rows' \ Alien : k # j => invoice'[k].number # invoice'[j].number
                 /\ \A k, j \in Rows' : k # j /\ invoice'[k].key # NoOne => invoice'[k].key # invoice'[j].key
      <3>1. /\ (\A j \in Rows : invoice[j].key # row.key) /\ (\A j \in Rows \ Alien : invoice[j].number # row.number)
            /\ row.key \in Keys
        BY <2>2 DEF Created
      <3>2. /\ i \notin Rows /\ invoice'[i] = row /\ Rows' = Rows \cup {i}
            /\ \A j \in Invoices : j # i => invoice'[j] = invoice[j]
        BY <2>2, CreatedRow DEF SessionInv
      <3>3. \A j \in Rows : invoice'[j] = invoice[j]
        BY <3>2 DEF Rows
      <3> QED BY <1>1, <3>1, <3>2, <3>3
    <2> QED BY <1>0, <2>1, <2>2, CommitNames
  <1>3. /\ \A a, b \in notes' : a.kind = b.kind /\ a.key = b.key => a = b
        /\ \A a, b \in notes' : a.kind = "CREDIT" /\ a.number = b.number => a = b
    <2>1. CASE notes' = notes
      BY <1>1, <2>1
    <2>2. ASSUME NEW n, Settled(r, n)
          PROVE  /\ \A a, b \in notes' : a.kind = b.kind /\ a.key = b.key => a = b
                 /\ \A a, b \in notes' : a.kind = "CREDIT" /\ a.number = b.number => a = b
      <3>1. /\ notes' = notes \cup {n} /\ (\A m \in notes : m.kind = n.kind => m.key # n.key)
            /\ (n.kind = "CREDIT" => \A m \in notes : m.number # n.number)
            /\ (n.kind = "PAY" => n.number = NoOne) /\ n.kind \in {"PAY", "CREDIT"}
        BY <2>2 DEF Settled, NoteAdds, IsNote
      <3>2. \A m \in notes : m.kind = "CREDIT" => m.number \in Numbers
        BY DEF SessionInv, NotesWhole
      <3>3. NoOne \notin Numbers
        BY PayablesAssumption
      <3> QED BY <1>1, <3>1, <3>2, <3>3
    <2>3. notes' = notes \/ \E n : Settled(r, n)
      BY <1>0 DEF Commits, Created, Dropped, Posted, Unposted, Undone
    <2> QED BY <2>1, <2>2, <2>3
  <1> QED BY <1>2, <1>3 DEF OneDocument

(* Every step keeps one document for a name.                               *)
LEMMA DocumentsKept ==
    ASSUME SessionInv, SessionInv', OneDocument, [Next]_vars
    PROVE  OneDocument'
  <1>1. ASSUME UNCHANGED <<invoice, notes>> PROVE OneDocument'
    BY <1>1 DEF OneDocument, Rows
  <1>2. UNCHANGED tables => UNCHANGED <<invoice, notes>>
    BY DEF tables
  <1>3. ASSUME NEW t \in Items, Receive(t) PROVE UNCHANGED <<invoice, notes>>
    BY <1>3 DEF Receive
  <1> QED BY <1>1, <1>2, <1>3, StepOrQuiet, CommitDocuments

(* And so it is at the start.                                              *)
LEMMA InitDocuments == ASSUME Init PROVE OneDocument
  <1>1. /\ notes = {} /\ Rows = {i \in Invoices : InitialInvoices[i] # NoOne}
        /\ \A i \in Rows : invoice[i].key = InitialInvoices[i].key /\ invoice[i].number = InitialInvoices[i].number
    BY InitRows DEF Init
  <1>2. \A i, j \in Invoices :
          i # j /\ InitialInvoices[i] # NoOne /\ InitialInvoices[j] # NoOne =>
              /\ InitialInvoices[i].key # NoOne => InitialInvoices[i].key # InitialInvoices[j].key
              /\ i \notin Alien /\ j \notin Alien => InitialInvoices[i].number # InitialInvoices[j].number
    BY PayablesAssumption
  <1> QED BY <1>1, <1>2 DEF OneDocument

-----------------------------------------------------------------------------
(* The books.                                                              *)

(* The types of the tables.                                                *)
LEMMA TypesAre == ASSUME SessionInv, InvoicedWithinReceived PROVE TypeOK
  <1>1. \A i \in Rows : invoice[i].paid >= 0 /\ invoice[i].credited >= 0 /\ Outstanding(invoice[i]) >= 0
    BY RowOwes
  <1>2. invoiced \in [Items -> Nat]
    <2>1. Shape /\ \A t \in Items : invoiced[t] = SumFunctionOnSet(Units(t), Billed)
      BY WithinAre DEF SessionInv
    <2>2. ASSUME NEW t \in Items PROVE invoiced[t] \in Nat
      <3>1. PICK S, f : S = Billed /\ f = Units(t)
        OBVIOUS
      <3>2. IsFiniteSet(S) /\ \A x \in S : f[x] \in Nat
        BY <2>1, <3>1, UnitsAre
      <3>3. SumFunctionOnSet(f, S) \in Nat
        BY ONLY <3>2, SumNat
      <3> QED BY <2>1, <3>1, <3>3
    <2>3. invoiced \in [Items -> Int]
      BY <2>1 DEF Shape
    <2> QED BY <2>2, <2>3
  <1>3. (\A n \in notes : IsNote(n)) /\ reversed \subseteq Requests
    BY DEF SessionInv, NotesWhole, IsNote, NoteIds
  <1> QED BY <1>1, <1>2, <1>3 DEF SessionInv, Shape, TypeOK

(* What is owed in all.                                                    *)
Debt == SumFunctionOnSet(Owing, Invoices)

(* The reports leave out what owes nothing.                                *)
LEMMA TotalIs ==
    ASSUME SessionInv, NEW T, \A i \in T : i \in Open, \A i \in Open : i \notin T => Outstanding(invoice[i]) = 0,
           NEW f, \A i \in T : f[i] = Outstanding(invoice[i])
    PROVE  SumFunctionOnSet(f, T) = Debt /\ IsFiniteSet(T) /\ \A i \in T : f[i] \in Nat
  <1>1. PICK S, g : S = Invoices /\ g = Owing
    OBVIOUS
  <1>2. Open \subseteq Billed /\ Open \subseteq Rows /\ Billed \subseteq Rows
    BY DEF Open, Billed, Standing
  <1>3. \A i \in Billed : i \notin Open => Outstanding(invoice[i]) = 0
    <2>1. \A i \in Billed : i \in Rows /\ (i \notin Open => invoice[i].status = "PAID")
      BY DEF Open, Billed, Standing
    <2> QED BY <2>1, RowOwes
  <1>4. /\ IsFiniteSet(S) /\ (\A i \in S : g[i] \in Nat) /\ (\A i \in Billed : i \in S /\ g[i] = Outstanding(invoice[i]))
        /\ \A i \in S : i \notin Billed => g[i] = 0
    BY <1>1, OwingNat, PayablesAssumption
  <1>5. T \subseteq S /\ (\A x \in T : g[x] \in Int /\ f[x] = g[x]) /\ (\A x \in S : x \notin T => g[x] = 0)
    BY <1>2, <1>3, <1>4
  <1>6. IsFiniteSet(T)
    BY <1>4, <1>5, FS_Subset
  <1>7. SumFunctionOnSet(g, S) = SumFunctionOnSet(g, T)
    BY ONLY <1>4, <1>5, SumDropZero
  <1>8. SumFunctionOnSet(f, T) = SumFunctionOnSet(g, T)
    BY ONLY <1>5, <1>6, SumSame
  <1> QED BY <1>1, <1>2, <1>4, <1>5, <1>6, <1>7, <1>8 DEF Debt

(* total_owed is what is owed in all.                                      *)
LEMMA TotalOwedIs == ASSUME SessionInv PROVE TotalOwed = Debt /\ Debt \in Nat
  <1> DEFINE f == [i \in Open |-> Outstanding(invoice[i])]
  <1>1. TotalOwed = SumFunctionOnSet(f, Open) /\ \A i \in Open : f[i] = Outstanding(invoice[i])
    BY DEF TotalOwed, SumOver
  <1> HIDE DEF f
  <1>2. PICK T : T = Open
    OBVIOUS
  <1>3. SumFunctionOnSet(f, T) = Debt
    BY <1>1, <1>2, TotalIs
  <1>4. Debt \in Nat
    <2>1. PICK S, g : S = Invoices /\ g = Owing
      OBVIOUS
    <2>2. IsFiniteSet(S) /\ \A x \in S : g[x] \in Nat
      BY <2>1, OwingNat, PayablesAssumption
    <2>3. SumFunctionOnSet(g, S) \in Nat
      BY ONLY <2>2, SumNat
    <2> QED BY <2>1, <2>3 DEF Debt
  <1> QED BY <1>1, <1>2, <1>3, <1>4

(* The aging's buckets.                                                    *)
Buckets == {"current", "1_30", "31_60", "61_90", "90+"}
Due == {i \in Open : Outstanding(invoice[i]) > 0}

(* They split the invoices that owe something.                             *)
LEMMA AgingAdds == ASSUME SessionInv PROVE SumOver(Buckets, Aging) = Debt
  <1> DEFINE k == [i \in Due |-> Bucket(Overdue[i])]
             f == [i \in Due |-> Outstanding(invoice[i])]
             C == [b \in Buckets |-> {i \in Open : Outstanding(invoice[i]) > 0 /\ Bucket(Overdue[i]) = b}]
             g == [b \in Buckets |-> Aging(b)]
  <1>1. SumOver(Buckets, Aging) = SumFunctionOnSet(g, Buckets)
    BY DEF SumOver
  <1>2. \A i \in Due : k[i] \in Buckets
    <2>1. \A d : Bucket(d) \in Buckets
      BY DEF Bucket, Buckets
    <2> QED BY <2>1
  <1>3. \A b \in Buckets : C[b] \subseteq Due /\ (\A x \in Due : x \in C[b] <=> k[x] = b)
    BY DEF Due
  <1>4. \A i \in Open : i \notin Due => Outstanding(invoice[i]) = 0
    <2>1. \A i \in Open : i \in Rows
      BY DEF Open
    <2>2. \A i \in Open : Outstanding(invoice[i]) \in Nat
      BY <2>1, RowOwes
    <2> QED BY <2>2 DEF Due
  <1>5. (\A i \in Due : i \in Open) /\ (\A i \in Due : f[i] = Outstanding(invoice[i]))
    BY DEF Due
  <1>6. SumFunctionOnSet(f, Due) = Debt /\ IsFiniteSet(Due) /\ \A i \in Due : f[i] \in Nat
    <2> HIDE DEF f
    <2>1. PICK T : T = Due
      OBVIOUS
    <2> QED BY <1>4, <1>5, <2>1, TotalIs
  <1>7. ASSUME NEW b \in Buckets PROVE g[b] = SumFunctionOnSet(f, C[b])
    <2> DEFINE B == {i \in Open : Outstanding(invoice[i]) > 0 /\ Bucket(Overdue[i]) = b}
               h == [i \in B |-> Outstanding(invoice[i])]
    <2>1. g[b] = SumFunctionOnSet(h, B) /\ C[b] = B
      BY <1>7 DEF Aging, SumOver
    <2>2. B \subseteq Due /\ \A x \in B : h[x] = f[x]
      BY DEF Due
    <2> HIDE DEF h, B, f
    <2>3. IsFiniteSet(B)
      BY <1>6, <2>2, FS_Subset
    <2>4. SumFunctionOnSet(h, B) = SumFunctionOnSet(f, B)
      BY ONLY <2>2, <2>3, SumSame
    <2> QED BY <2>1, <2>4
  <1>8. IsFiniteSet(Buckets)
    <2>1. Buckets = {"current"} \cup {"1_30"} \cup {"31_60"} \cup {"61_90"} \cup {"90+"}
      BY DEF Buckets
    <2> QED BY <2>1, FS_Singleton, FS_Union
  <1> HIDE DEF k, f, C, g
  <1>9. PICK S, B : S = Due /\ B = Buckets
    OBVIOUS
  <1>10. /\ IsFiniteSet(S) /\ IsFiniteSet(B) /\ (\A x \in S : k[x] \in B) /\ (\A x \in S : f[x] \in Int)
         /\ \A b \in B : C[b] \subseteq S /\ (\A x \in S : x \in C[b] <=> k[x] = b) /\ g[b] = SumFunctionOnSet(f, C[b])
    BY <1>2, <1>3, <1>6, <1>7, <1>8, <1>9
  <1>11. SumFunctionOnSet(g, B) = SumFunctionOnSet(f, S)
    BY ONLY <1>10, SumByClass
  <1> QED BY <1>1, <1>6, <1>9, <1>11

(* An entry names a document that has been written, and that no session    *)
(* can write again.                                                        *)
Posting(i) == \E o \in Requests : Is(o, {"POST"}, "write") /\ req[o].invoice = i
EntryStands(e) ==
    /\ e.lines["ACCOUNTS_PAYABLE"] \in Int
    /\ e.source = "PURCHASE_INVOICE" => e.id \in Rows /\ invoice[e.id].status # "DRAFT" /\ ~Posting(e.id)
    /\ e.source = "PURCHASE_INVOICE_VOID" => e.id \in Rows /\ invoice[e.id].status = "VOIDED" /\ ~Posting(e.id)
    /\ e.source \in {"PAY", "CREDIT"} => e.id \in NoteIds
    /\ e.source = "REVERSAL" => e.id \in reversed
EntriesStand == IsFiniteSet(entries) /\ \A e \in entries : EntryStands(e)

(* The accounts payable lines of the entries.                              *)
Lines == [e \in entries |-> e.lines["ACCOUNTS_PAYABLE"]]

(* The balance of the account.                                             *)
LEMMA BalanceIs == /\ Balance("ACCOUNTS_PAYABLE") = SumFunctionOnSet(Lines, entries)
                   /\ \A e \in entries : Lines[e] = e.lines["ACCOUNTS_PAYABLE"]
  BY DEF Balance, SumOver, Lines

(* Also after a step.                                                      *)
LEMMA BalanceNext == /\ Balance("ACCOUNTS_PAYABLE")' = SumFunctionOnSet(Lines', entries')
                     /\ \A e \in entries' : Lines'[e] = e.lines["ACCOUNTS_PAYABLE"]
  BY DEF Balance, SumOver, Lines

(* A new entry moves it by its line.                                       *)
LEMMA BalanceMoves ==
    ASSUME EntriesStand, NEW e, e \notin entries, entries' = entries \cup {e}, e.lines["ACCOUNTS_PAYABLE"] \in Int
    PROVE  /\ Balance("ACCOUNTS_PAYABLE")' = Balance("ACCOUNTS_PAYABLE") + e.lines["ACCOUNTS_PAYABLE"]
           /\ Balance("ACCOUNTS_PAYABLE") \in Int /\ IsFiniteSet(entries')
  <1>1. PICK S, T, f, g : S = entries /\ T = entries' /\ g = Lines /\ f = Lines'
    OBVIOUS
  <1>2. IsFiniteSet(S) /\ e \in T /\ e \notin S /\ (\A x \in S : x \in T) /\ (\A x \in T : x = e \/ x \in S)
    BY <1>1 DEF EntriesStand
  <1>3. /\ (\A x \in S : g[x] = x.lines["ACCOUNTS_PAYABLE"] /\ g[x] \in Int)
        /\ \A x \in T : f[x] = x.lines["ACCOUNTS_PAYABLE"]
    BY <1>1, BalanceIs, BalanceNext DEF EntriesStand, EntryStands
  <1>4. f[e] \in Int /\ f[e] = e.lines["ACCOUNTS_PAYABLE"] /\ \A x \in S : f[x] = g[x] /\ g[x] \in Int
    BY <1>2, <1>3
  <1>5. SumFunctionOnSet(f, T) = f[e] + SumFunctionOnSet(g, S)
    BY ONLY <1>2, <1>4, SumWith
  <1>6. SumFunctionOnSet(g, S) \in Int
    BY ONLY <1>2, <1>4, SumInt
  <1>7. IsFiniteSet(entries')
    BY <1>2, <1>1, FS_AddElement
  <1> QED BY <1>1, <1>4, <1>5, <1>6, <1>7, BalanceIs, BalanceNext

(* The balance is a number.                                                *)
LEMMA BalanceInt == ASSUME EntriesStand PROVE Balance("ACCOUNTS_PAYABLE") \in Int
  <1>1. PICK S, g : S = entries /\ g = Lines
    OBVIOUS
  <1>2. IsFiniteSet(S) /\ \A x \in S : g[x] \in Int
    BY <1>1, BalanceIs DEF EntriesStand, EntryStands
  <1>3. SumFunctionOnSet(g, S) \in Int
    BY ONLY <1>2, SumInt
  <1> QED BY <1>1, <1>3, BalanceIs

(* The same entries have the same balance.                                 *)
LEMMA BalanceSame == ASSUME entries' = entries PROVE Balance("ACCOUNTS_PAYABLE")' = Balance("ACCOUNTS_PAYABLE")
  BY DEF Balance, SumOver

(* Entries that a step does not write stay true of their documents.        *)
LEMMA EntryKept ==
    ASSUME NEW e, EntryStands(e), NoteIds \subseteq NoteIds', reversed \subseteq reversed',
           \A i \in Rows : /\ i \in Rows' /\ (invoice'[i].status = "DRAFT" => invoice[i].status = "DRAFT")
                           /\ invoice[i].status = "VOIDED" /\ ~Posting(i) => invoice'[i].status = "VOIDED"
                           /\ Posting(i)' => Posting(i) \/ invoice[i].status = "DRAFT"
    PROVE  EntryStands(e)'
  BY DEF EntryStands

(* A step of r that does not end at the write of a POST starts no posting. *)
LEMMA NoPosting ==
    ASSUME NEW r, \A o \in Requests : o # r => pc'[o] = pc[o] /\ req'[o] = req[o], ~Is(r, {"POST"}, "write")', NEW i, Posting(i)'
    PROVE  \E o \in Requests : o # r /\ Is(o, {"POST"}, "write") /\ req[o].invoice = i
  BY DEF Posting, Is

(* Who else moves when a session ends.                                     *)
LEMMA EndMoves ==
    ASSUME SessionInv, NEW r \in Requests, NEW code, Finish(r, code)
    PROVE  (\A o \in Requests : o # r => pc'[o] = pc[o] /\ req'[o] = req[o]) /\ ~Is(r, {"POST"}, "write")'
  <1>1. /\ req' = req /\ pc'[r] = "done" /\ \A o \in Requests : o # r => pc'[o] = pc[o]
    BY FinishEnds DEF SessionInv
  <1> QED BY <1>1 DEF Is

(* Steps that leave the rows alone.                                        *)
LEMMA QuietEntries ==
    ASSUME SessionInv, UNCHANGED <<invoice, notes, reversed>>, [Next]_vars, NEW e, EntryStands(e)
    PROVE  EntryStands(e)'
  <1>0. Rows' = Rows /\ NoteIds' = NoteIds
    BY DEF Rows, NoteIds
  <1>1. ASSUME \A i \in Rows : Posting(i)' => Posting(i) \/ invoice[i].status = "DRAFT" PROVE EntryStands(e)'
    BY <1>0, <1>1, EntryKept
  <1>2. ASSUME NEW r \in Requests, \A o \in Requests : o # r => pc'[o] = pc[o] /\ req'[o] = req[o],
               ~Is(r, {"POST"}, "write")'
        PROVE  EntryStands(e)'
    <2>1. ASSUME NEW i \in Rows, Posting(i)' PROVE Posting(i)
      <3>1. \E o \in Requests : o # r /\ Is(o, {"POST"}, "write") /\ req[o].invoice = i
        BY <1>2, <2>1, NoPosting
      <3> QED BY <3>1 DEF Posting
    <2> QED BY <1>1, <2>1
  <1>3. pc \in [Requests -> Labels] /\ req = [o \in Requests |-> req[o]]
    BY DEF SessionInv, Shape
  <1>4. CASE UNCHANGED <<pc, req>>
    <2>1. \A i : Posting(i)' = Posting(i)
      BY <1>4 DEF Posting, Is
    <2> QED BY <1>1, <2>1
  <1>5. ASSUME NEW r \in Requests, NEW label, pc' = [pc EXCEPT ![r] = label], req' = req, label # "write"
        PROVE  EntryStands(e)'
    <2>1. (\A o \in Requests : o # r => pc'[o] = pc[o] /\ req'[o] = req[o]) /\ ~Is(r, {"POST"}, "write")'
      BY <1>3, <1>5 DEF Is
    <2> QED BY <1>2, <2>1
  <1>6. ASSUME NEW r \in Requests, Submit(r) PROVE EntryStands(e)'
    <2>1. pc' = [pc EXCEPT ![r] = "begin"] /\ \E q : req' = [req EXCEPT ![r] = q]
      BY <1>6 DEF Submit
    <2>2. (\A o \in Requests : o # r => pc'[o] = pc[o] /\ req'[o] = req[o]) /\ pc'[r] = "begin"
      BY <1>3, <2>1
    <2> QED BY <1>2, <2>2 DEF Is
  <1>7. ASSUME NEW r \in Requests, TakesOrder(r) PROVE EntryStands(e)'
    <2> DEFINE left == OrdersOf(invoice[req[r].invoice].lines) \ tx[r].held
               label == IF left = {Smallest(left)} THEN "write" ELSE "orders"
    <2>1. /\ left = {Smallest(left)} /\ req[r].kind = "POST" => invoice[req[r].invoice].status = "DRAFT"
          /\ pc' = [pc EXCEPT ![r] = label] /\ req' = req
      BY <1>7 DEF TakesOrder, Goto
    <2> HIDE DEF left
    <2>2. pc'[r] = label /\ \A o \in Requests : o # r => pc'[o] = pc[o]
      BY <1>3, <2>1
    <2>3. ASSUME NEW i \in Rows, Posting(i)' PROVE Posting(i) \/ invoice[i].status = "DRAFT"
      BY <2>1, <2>2, <2>3 DEF Posting, Is
    <2> QED BY <1>1, <2>3
  <1>8. ASSUME NEW r \in Requests, Step(r) \/ Fail(r) PROVE EntryStands(e)'
    <2>1. CASE Ends(r)
      <3>1. PICK code : Finish(r, code)
        BY <2>1 DEF Ends, Return
      <3> QED BY <1>2, <3>1, EndMoves
    <2>2. CASE Concludes(r)
      BY <1>2, <2>2, EndMoves DEF Concludes
    <2>3. CASE Moves(r)
      BY <1>5, <2>3 DEF Moves, Stay, Goto
    <2>4. CASE TakesVoid(r) \/ TakesNote(r)
      BY <1>5, <2>4 DEF TakesVoid, TakesNote, Goto
    <2>5. CASE LockInvoice(r)
      <3>1. PICK label : pc' = [pc EXCEPT ![r] = label] /\ req' = req
        BY <2>5 DEF LockInvoice, Goto
      <3>2. (\A o \in Requests : o # r => pc'[o] = pc[o] /\ req'[o] = req[o]) /\ ~Is(r, {"POST"}, "write")'
        BY <1>3, <2>5, <3>1 DEF Is, LockInvoice
      <3> QED BY <1>2, <3>2
    <2> QED BY <1>7, <1>8, <2>1, <2>2, <2>3, <2>4, <2>5, StepEffect
  <1>9. CASE UNCHANGED vars
    BY <1>4, <1>9 DEF vars, session
  <1>10. ASSUME NEW t \in Items, Receive(t) PROVE EntryStands(e)'
    BY <1>4, <1>10 DEF Receive, session
  <1> QED BY <1>6, <1>8, <1>9, <1>10 DEF Next

(* Entries under a commit.                                                 *)
LEMMA CommitEntries ==
    ASSUME SessionInv, NEW r \in Requests, Concludes(r), NEW e, EntryStands(e)
    PROVE  EntryStands(e)'
  <1>0. Commits(r) /\ Shape /\ Rows \subseteq Invoices /\ Benign(r)
    BY CommitBenign DEF Concludes, SessionInv, Rows
  <1>1. (\A o \in Requests : o # r => pc'[o] = pc[o] /\ req'[o] = req[o]) /\ ~Is(r, {"POST"}, "write")'
    BY EndMoves DEF Concludes
  <1>2. \A i : Posting(i)' => Posting(i)
    BY <1>1, NoPosting DEF Posting
  <1>3. NoteIds \subseteq NoteIds' /\ reversed \subseteq reversed'
    <2>1. notes \subseteq notes'
      BY <1>0 DEF Benign
    <2>2. reversed \subseteq reversed'
      BY <1>0 DEF Commits, Created, Dropped, Posted, Unposted, Settled, Undone
    <2> QED BY <2>1, <2>2 DEF NoteIds
  <1>4. SUFFICES \A i \in Rows : /\ i \in Rows' /\ (invoice'[i].status = "DRAFT" => invoice[i].status = "DRAFT")
                                 /\ invoice[i].status = "VOIDED" /\ ~Posting(i) => invoice'[i].status = "VOIDED"
    BY <1>2, <1>3, EntryKept
  <1>5. ASSUME NEW i, NEW row, Created(r, i, row) PROVE \A j \in Rows : j \in Rows' /\ invoice'[j] = invoice[j]
    <2>1. i \notin Rows /\ Rows' = Rows \cup {i} /\ \A j \in Invoices : j # i => invoice'[j] = invoice[j]
      BY <1>0, <1>5, CreatedRow
    <2> QED BY <1>0, <2>1
  <1>6. ASSUME NEW i, NEW s, Restated(i, s)
        PROVE  Rows' = Rows /\ invoice'[i].status = s /\ \A j \in Rows : j # i => invoice'[j] = invoice[j]
    BY <1>0, <1>6, RestatedRow
  <1>7. ASSUME NEW i, Dropped(i) \/ Unposted(r, i)
        PROVE  \A j \in Rows : /\ j \in Rows' /\ (invoice'[j].status = "DRAFT" => invoice[j].status = "DRAFT")
                               /\ invoice[j].status = "VOIDED" => invoice'[j].status = "VOIDED"
    <2>1. Restated(i, "VOIDED")
      BY <1>7, CommitsRestate
    <2> QED BY <1>6, <2>1
  <1>8. ASSUME NEW i, Posted(r, i)
        PROVE  \A j \in Rows : /\ j \in Rows' /\ (invoice'[j].status = "DRAFT" => invoice[j].status = "DRAFT")
                               /\ invoice[j].status = "VOIDED" /\ ~Posting(j) => invoice'[j].status = "VOIDED"
    <2>1. Restated(i, "POSTED") /\ Posting(i)
      BY <1>8, CommitsRestate DEF Posted, Posting
    <2> QED BY <1>6, <2>1
  <1>9. ASSUME NEW n, Settled(r, n) \/ Undone(r, n)
        PROVE  \A j \in Rows : /\ j \in Rows' /\ (invoice'[j].status = "DRAFT" => invoice[j].status = "DRAFT")
                               /\ invoice[j].status = "VOIDED" => invoice'[j].status = "VOIDED"
    <2>1. LessBilled(n, 1) \/ LessBilled(n, -1)
      BY <1>0, <1>9, CommitBilled
    <2>2. PICK sign \in {1, -1} : Applies(n, sign)
      BY <1>9 DEF Settled, Undone
    <2>3. IsNote(n) /\ DOMAIN n.alloc \subseteq Rows
      BY <1>9, <2>1 DEF Settled, Undone, NoteAdds, SessionInv, NotesWhole, LessBilled, Billed
    <2>4. Rows' = Rows /\ \A i \in Invoices : i \notin DOMAIN n.alloc => invoice'[i] = invoice[i]
      BY <1>0, <2>2, <2>3, AppliedRows
    <2>5. \A i \in DOMAIN n.alloc : i \in Billed /\ i \in Billed'
      BY <2>1 DEF LessBilled
    <2> QED BY <1>0, <2>4, <2>5 DEF Billed, Standing
  <1> QED BY <1>0, <1>5, <1>7, <1>8, <1>9 DEF Commits

(* A new entry, about a document that stands after the step.               *)
LEMMA EntryAdded ==
    ASSUME EntriesStand, \A x \in entries : EntryStands(x)', NEW e, e \notin entries, entries' = entries \cup {e},
           EntryStands(e)'
    PROVE  EntriesStand' /\ Balance("ACCOUNTS_PAYABLE")' = Balance("ACCOUNTS_PAYABLE") + e.lines["ACCOUNTS_PAYABLE"]
  <1>1. e.lines["ACCOUNTS_PAYABLE"] \in Int
    BY DEF EntryStands
  <1>2. /\ Balance("ACCOUNTS_PAYABLE")' = Balance("ACCOUNTS_PAYABLE") + e.lines["ACCOUNTS_PAYABLE"]
        /\ IsFiniteSet(entries')
    BY <1>1, BalanceMoves
  <1>3. \A x \in entries' : EntryStands(x)'
    OBVIOUS
  <1> QED BY <1>2, <1>3 DEF EntriesStand

(* No new entry.                                                           *)
LEMMA EntryNone ==
    ASSUME EntriesStand, \A x \in entries : EntryStands(x)', entries' = entries
    PROVE  EntriesStand' /\ Balance("ACCOUNTS_PAYABLE")' = Balance("ACCOUNTS_PAYABLE") + 0
  <1>1. Balance("ACCOUNTS_PAYABLE") \in Int /\ Balance("ACCOUNTS_PAYABLE")' = Balance("ACCOUNTS_PAYABLE")
    BY BalanceInt, BalanceSame
  <1> QED BY <1>1 DEF EntriesStand

(* The entry of an invoice or of its void, unless all its lines are zero.  *)
LEMMA EntryOrNone ==
    ASSUME EntriesStand, \A x \in entries : EntryStands(x)', NEW source, NEW i, NEW new, NEW d, d = new["ACCOUNTS_PAYABLE"],
           entries' = entries \cup (IF new = Blank THEN {} ELSE {Entry(source, i, new)}),
           Entry(source, i, new) \notin entries, EntryStands(Entry(source, i, new))'
    PROVE  EntriesStand' /\ Balance("ACCOUNTS_PAYABLE")' = Balance("ACCOUNTS_PAYABLE") + d
  <1>1. CASE new = Blank
    <2>1. d = 0 /\ entries' = entries
      BY <1>1 DEF Blank, Accounts
    <2> QED BY <2>1, EntryNone
  <1>2. CASE new # Blank
    <2>1. PICK e : e = Entry(source, i, new)
      OBVIOUS
    <2>2. e.lines["ACCOUNTS_PAYABLE"] = d
      BY <2>1 DEF Entry
    <2>3. e \notin entries /\ entries' = entries \cup {e} /\ EntryStands(e)'
      BY <1>2, <2>1
    <2> QED BY <2>2, <2>3, EntryAdded
  <1> QED BY <1>1, <1>2

(* The balance after posting an invoice.                                   *)
LEMMA PostedEntry ==
    ASSUME SessionInv, EntriesStand, NEW r \in Requests, Concludes(r), NEW i, Posted(r, i)
    PROVE  EntriesStand' /\ Balance("ACCOUNTS_PAYABLE")' = Balance("ACCOUNTS_PAYABLE") + (-CentScale * invoice[i].total)
  <1>1. /\ Restated(i, "POSTED") /\ Posting(i) /\ i \in Rows /\ invoice[i].total \in Nat
    <2>1. i \in Rows
      BY DEF Posted
    <2> QED BY <2>1, RowOwes, CommitsRestate DEF Posted, Posting
  <1>2. PICK new : /\ new["ACCOUNTS_PAYABLE"] = -CentScale * invoice[i].total
                   /\ entries' = entries \cup (IF new = Blank THEN {} ELSE {Entry("PURCHASE_INVOICE", i, new)})
    BY DEF Posted
  <1>3. i \in Rows' /\ invoice'[i].status = "POSTED"
    BY <1>1, RestatedRow DEF SessionInv
  <1>4. ~Posting(i)'
    <2>1. SUFFICES ASSUME Posting(i)' PROVE FALSE
      OBVIOUS
    <2>2. (\A o \in Requests : o # r => pc'[o] = pc[o] /\ req'[o] = req[o]) /\ ~Is(r, {"POST"}, "write")'
      BY EndMoves DEF Concludes
    <2>3. \E o \in Requests : o # r /\ Is(o, {"POST"}, "write") /\ req[o].invoice = i
      BY <2>1, <2>2, NoPosting
    <2> QED BY <2>3, OnePoster DEF Posted
  <1>5. PICK e : e = Entry("PURCHASE_INVOICE", i, new)
    OBVIOUS
  <1>6. e.source = "PURCHASE_INVOICE" /\ e.id = i /\ e.lines = new
    BY <1>5 DEF Entry
  <1>7. e \notin entries
    BY <1>1, <1>6 DEF EntriesStand, EntryStands
  <1>8. new["ACCOUNTS_PAYABLE"] \in Int
    BY <1>1, <1>2, PayablesAssumption
  <1>9. EntryStands(e)'
    BY <1>3, <1>4, <1>6, <1>8 DEF EntryStands
  <1>10. \A x \in entries : EntryStands(x)'
    BY CommitEntries DEF EntriesStand
  <1> QED BY <1>2, <1>5, <1>7, <1>9, <1>10, EntryOrNone

(* After voiding one.                                                      *)
LEMMA UnpostedEntry ==
    ASSUME SessionInv, EntriesStand, NEW r \in Requests, Concludes(r), NEW i, Unposted(r, i)
    PROVE  EntriesStand' /\ Balance("ACCOUNTS_PAYABLE")' = Balance("ACCOUNTS_PAYABLE") + CentScale * invoice[i].total
  <1>1. /\ Restated(i, "VOIDED") /\ i \in Rows /\ invoice[i].total \in Nat /\ invoice[i].status = "POSTED"
    <2>1. i \in Rows /\ invoice[i].status = "POSTED"
      BY DEF Unposted
    <2> QED BY <2>1, RowOwes, CommitsRestate
  <1>2. PICK new : /\ new["ACCOUNTS_PAYABLE"] = CentScale * invoice[i].total
                   /\ entries' = entries \cup (IF new = Blank THEN {} ELSE {Entry("PURCHASE_INVOICE_VOID", i, new)})
    BY DEF Unposted
  <1>3. i \in Rows' /\ invoice'[i].status = "VOIDED"
    BY <1>1, RestatedRow DEF SessionInv
  <1>4. ~Posting(i)'
    <2>1. SUFFICES ASSUME Posting(i)' PROVE FALSE
      OBVIOUS
    <2>2. (\A o \in Requests : o # r => pc'[o] = pc[o] /\ req'[o] = req[o]) /\ ~Is(r, {"POST"}, "write")'
      BY EndMoves DEF Concludes
    <2>3. PICK o \in Requests : o # r /\ Is(o, {"POST"}, "write") /\ req[o].invoice = i
      BY <2>1, <2>2, NoPosting
    <2>4. OnOrders(o) /\ AmongOrders(o)
      BY <2>3 DEF Is, OnOrders, SessionInv, Sessions
    <2>5. invoice[i].status \in {"DRAFT", "VOIDED"}
      BY <2>3, <2>4 DEF AmongOrders, Is
    <2> QED BY <1>1, <2>5
  <1>5. PICK e : e = Entry("PURCHASE_INVOICE_VOID", i, new)
    OBVIOUS
  <1>6. e.source = "PURCHASE_INVOICE_VOID" /\ e.id = i /\ e.lines = new
    BY <1>5 DEF Entry
  <1>7. e \notin entries
    BY <1>1, <1>6 DEF EntriesStand, EntryStands
  <1>8. new["ACCOUNTS_PAYABLE"] \in Int
    BY <1>1, <1>2, PayablesAssumption
  <1>9. EntryStands(e)'
    BY <1>3, <1>4, <1>6, <1>8 DEF EntryStands
  <1>10. \A x \in entries : EntryStands(x)'
    BY CommitEntries DEF EntriesStand
  <1> QED BY <1>2, <1>5, <1>7, <1>9, <1>10, EntryOrNone

(* After a payment or credit note.                                         *)
LEMMA SettledEntry ==
    ASSUME SessionInv, EntriesStand, NEW r \in Requests, Concludes(r), NEW n, Settled(r, n)
    PROVE  EntriesStand' /\ Balance("ACCOUNTS_PAYABLE")' = Balance("ACCOUNTS_PAYABLE") + CentScale * n.amount
  <1>1. /\ n.id = r /\ r \notin NoteIds /\ notes' = notes \cup {n} /\ IsNote(n) /\ n.amount \in Nat
        /\ n.kind \in {"PAY", "CREDIT"}
    BY DEF Settled, NoteAdds, IsNote
  <1>2. PICK new : /\ new["ACCOUNTS_PAYABLE"] = CentScale * n.amount
                   /\ entries' = entries \cup {Entry(n.kind, r, new)}
    BY DEF Settled
  <1>3. r \in NoteIds'
    BY <1>1 DEF NoteIds
  <1>5. PICK e : e = Entry(n.kind, r, new)
    OBVIOUS
  <1>6. e.source = n.kind /\ e.id = r /\ e.lines = new
    BY <1>5 DEF Entry
  <1>7. e \notin entries
    BY <1>1, <1>6 DEF EntriesStand, EntryStands
  <1>8. new["ACCOUNTS_PAYABLE"] \in Int
    BY <1>1, <1>2, PayablesAssumption
  <1>9. EntryStands(e)'
    BY <1>1, <1>3, <1>6, <1>8 DEF EntryStands
  <1>10. \A x \in entries : EntryStands(x)'
    BY CommitEntries DEF EntriesStand
  <1> QED BY <1>2, <1>5, <1>6, <1>7, <1>9, <1>10, EntryAdded

(* After a reversal.                                                       *)
LEMMA UndoneEntry ==
    ASSUME SessionInv, EntriesStand, NEW r \in Requests, Concludes(r), NEW n, Undone(r, n)
    PROVE  EntriesStand' /\ Balance("ACCOUNTS_PAYABLE")' = Balance("ACCOUNTS_PAYABLE") + (-CentScale * n.amount)
  <1>1. n \in notes /\ n.id \notin reversed /\ reversed' = reversed \cup {n.id} /\ n.amount \in Nat
    BY DEF Undone, SessionInv, NotesWhole, IsNote
  <1>2. PICK new : /\ new["ACCOUNTS_PAYABLE"] = -CentScale * n.amount
                   /\ entries' = entries \cup {Entry("REVERSAL", n.id, new)}
    BY DEF Undone
  <1>5. PICK e : e = Entry("REVERSAL", n.id, new)
    OBVIOUS
  <1>6. e.source = "REVERSAL" /\ e.id = n.id /\ e.lines = new
    BY <1>5 DEF Entry
  <1>7. e \notin entries
    BY <1>1, <1>6 DEF EntriesStand, EntryStands
  <1>8. new["ACCOUNTS_PAYABLE"] \in Int
    BY <1>1, <1>2, PayablesAssumption
  <1>9. EntryStands(e)'
    BY <1>1, <1>6, <1>8 DEF EntryStands
  <1>10. \A x \in entries : EntryStands(x)'
    BY CommitEntries DEF EntriesStand
  <1> QED BY <1>2, <1>5, <1>6, <1>7, <1>9, <1>10, EntryAdded

(* After a receipt: nothing is owed for goods without an invoice.          *)
LEMMA ReceiveEntry ==
    ASSUME SessionInv, EntriesStand, NEW t \in Items, Receive(t)
    PROVE  EntriesStand' /\ Balance("ACCOUNTS_PAYABLE")' = Balance("ACCOUNTS_PAYABLE") + 0
  <1>0. UNCHANGED <<invoice, notes, reversed>> /\ entries' = entries \cup ReceiptEntry(t, arrived[t] + 1) /\ Next
    BY DEF Receive, Next
  <1>1. \A x \in entries : EntryStands(x)'
    BY <1>0, QuietEntries DEF EntriesStand
  <1>2. CASE entries' = entries
    BY <1>1, <1>2, EntryNone
  <1>3. CASE entries' # entries
    <2> DEFINE v == LotValue(Deliveries[t][arrived[t] + 1])
               new == Pair("INVENTORY", "PURCHASE_CLEARING", v)
    <2>1. PICK e : e = Entry("PURCHASE_RECEIPT", <<t, arrived[t] + 1>>, new)
      OBVIOUS
    <2>2. entries' = entries \cup {e}
      BY <1>0, <1>3, <2>1 DEF ReceiptEntry
    <2>3. new["ACCOUNTS_PAYABLE"] = 0
      BY DEF Pair, Accounts
    <2>4. e.source = "PURCHASE_RECEIPT" /\ e.lines["ACCOUNTS_PAYABLE"] = 0
      BY <2>1, <2>3 DEF Entry
    <2>5. e \notin entries
      BY <1>3, <2>2
    <2>6. EntryStands(e)'
      BY <2>4 DEF EntryStands
    <2> QED BY <1>1, <2>2, <2>4, <2>5, <2>6, EntryAdded
  <1> QED BY <1>2, <1>3

-----------------------------------------------------------------------------
(* What a commit changes of the debt and of the statement.                 *)

(* Two states of the debt.                                                 *)
LEMMA DebtNames ==
    ASSUME SessionInv, SessionInv'
    PROVE  \E S, f, g : /\ S = Invoices /\ f = Owing' /\ g = Owing /\ IsFiniteSet(S)
                        /\ Debt = SumFunctionOnSet(g, S) /\ Debt' = SumFunctionOnSet(f, S)
                        /\ (\A x \in S : g[x] \in Nat) /\ (\A x \in S : f[x] \in Nat)
                        /\ Debt \in Nat /\ Debt' \in Nat
  <1>1. PICK S, f, g : S = Invoices /\ f = Owing' /\ g = Owing
    OBVIOUS
  <1>2. IsFiniteSet(S) /\ Debt = SumFunctionOnSet(g, S) /\ Debt' = SumFunctionOnSet(f, S)
    BY <1>1, PayablesAssumption DEF Debt
  <1>3. \A x \in S : g[x] \in Nat
    BY <1>1, OwingNat
  <1>4. \A x \in S : f[x] \in Nat
    <2>1. ASSUME NEW i \in Invoices PROVE Owing'[i] \in Nat
      <3>1. CASE i \in Billed'
        <4>1. i \in Rows'
          BY <3>1 DEF Billed
        <4>2. Outstanding(invoice'[i]) \in Nat
          <5>1. Follows(i)' /\ invoice'[i] # NoOne /\ NotesWhole' /\ Shape'
            BY <4>1, CachesNext DEF SessionInv, Rows
          <5>2. Applied(i, "PAY")' \in Nat /\ Applied(i, "CREDIT")' \in Nat
            BY <2>1, <5>1, AppliedNext
          <5>3. PICK T, P, C : T = invoice'[i].total /\ P = invoice'[i].paid /\ C = invoice'[i].credited
            OBVIOUS
          <5>4. T \in Nat /\ P \in Nat /\ C \in Nat /\ Outstanding(invoice'[i]) = T - P - C
            BY <4>1, <5>1, <5>2, <5>3 DEF Follows, Shape, Outstanding
          <5>5. invoice'[i].status \in Standing
            BY <3>1 DEF Billed
          <5>6. P + C <= T
            BY <5>1, <5>3, <5>4, <5>5 DEF Follows, Standing
          <5> QED BY <5>4, <5>6
        <4> QED BY <2>1, <3>1, <4>2, OwingNext
      <3>2. CASE i \notin Billed'
        BY <2>1, <3>2, OwingNext
      <3> QED BY <3>1, <3>2
    <2> QED BY <1>1, <2>1
  <1>5. Debt \in Nat /\ Debt' \in Nat
    <2>1. SumFunctionOnSet(g, S) \in Nat
      BY ONLY <1>2, <1>3, SumNat
    <2>2. SumFunctionOnSet(f, S) \in Nat
      BY ONLY <1>2, <1>4, SumNat
    <2> QED BY <1>2, <2>1, <2>2
  <1> QED BY <1>1, <1>2, <1>3, <1>4, <1>5

(* Billing an invoice.                                                     *)
LEMMA DebtBilled ==
    ASSUME SessionInv, SessionInv', NEW i, OneBilled(i), invoice[i].total \in Nat
    PROVE  Debt' = Debt + invoice[i].total
  <1>1. PICK S, f, g : /\ S = Invoices /\ f = Owing' /\ g = Owing /\ IsFiniteSet(S)
                       /\ Debt = SumFunctionOnSet(g, S) /\ Debt' = SumFunctionOnSet(f, S)
                       /\ (\A x \in S : g[x] \in Nat) /\ (\A x \in S : f[x] \in Nat)
                       /\ Debt \in Nat /\ Debt' \in Nat
    BY DebtNames
  <1>2. i \in S /\ g[i] = 0 /\ f[i] = invoice[i].total
    BY <1>1 DEF OneBilled, Owing
  <1>3. \A x \in S : x # i => f[x] = g[x]
    BY <1>1 DEF OneBilled, Owing
  <1>4. \A x \in S : g[x] \in Int
    BY <1>1
  <1>5. f[i] \in Int
    BY <1>2
  <1>6. SumFunctionOnSet(f, S) = SumFunctionOnSet(g, S) + f[i] - g[i]
    BY ONLY <1>1, <1>2, <1>3, <1>4, <1>5, SumChange
  <1> QED BY <1>1, <1>2, <1>6

(* Voiding one.                                                            *)
LEMMA DebtVoided ==
    ASSUME SessionInv, SessionInv', NEW i, OneVoided(i), invoice[i].total \in Nat
    PROVE  Debt' = Debt - invoice[i].total
  <1>1. PICK S, f, g : /\ S = Invoices /\ f = Owing' /\ g = Owing /\ IsFiniteSet(S)
                       /\ Debt = SumFunctionOnSet(g, S) /\ Debt' = SumFunctionOnSet(f, S)
                       /\ (\A x \in S : g[x] \in Nat) /\ (\A x \in S : f[x] \in Nat)
                       /\ Debt \in Nat /\ Debt' \in Nat
    BY DebtNames
  <1>2. i \in S /\ f[i] = 0 /\ g[i] = invoice[i].total
    BY <1>1 DEF OneVoided, Owing, Billed, Rows
  <1>3. \A x \in S : x # i => f[x] = g[x]
    BY <1>1 DEF OneVoided, Owing
  <1>4. \A x \in S : g[x] \in Int
    BY <1>1
  <1>5. f[i] \in Int
    BY <1>2
  <1>6. SumFunctionOnSet(f, S) = SumFunctionOnSet(g, S) + f[i] - g[i]
    BY ONLY <1>1, <1>2, <1>3, <1>4, <1>5, SumChange
  <1> QED BY <1>1, <1>2, <1>6

(* Settling several invoices.                                              *)
LEMMA DebtSettled ==
    ASSUME SessionInv, SessionInv', NEW n, IsNote(n), n.amount = SumFunctionOnSet(n.alloc, DOMAIN n.alloc), LessBilled(n, 1)
    PROVE  Debt' = Debt - n.amount
  <1>1. PICK S, f, g : /\ S = Invoices /\ f = Owing' /\ g = Owing /\ IsFiniteSet(S)
                       /\ Debt = SumFunctionOnSet(g, S) /\ Debt' = SumFunctionOnSet(f, S)
                       /\ (\A x \in S : g[x] \in Nat) /\ (\A x \in S : f[x] \in Nat)
                       /\ Debt \in Nat /\ Debt' \in Nat
    BY DebtNames
  <1>2. PICK D, a : D = DOMAIN n.alloc /\ a = n.alloc
    OBVIOUS
  <1>3. D \subseteq S /\ (\A x \in D : a[x] \in Int) /\ n.amount \in Nat
    BY <1>1, <1>2 DEF IsNote
  <1>4. \A x \in D : x \in Billed /\ x \in Billed' /\ Outstanding(invoice'[x]) = Outstanding(invoice[x]) - 1 * a[x]
    BY <1>2 DEF LessBilled
  <1>5. \A x \in D : f[x] = g[x] - a[x]
    <2>1. \A x \in D : f[x] = Outstanding(invoice'[x]) /\ g[x] = Outstanding(invoice[x])
      BY <1>1, <1>3, <1>4 DEF Owing
    <2>2. \A x \in D : g[x] \in Int
      BY <1>1, <1>3
    <2> QED BY <1>3, <1>4, <2>1, <2>2
  <1>6. \A x \in S : x \notin D => f[x] = g[x]
    BY <1>1, <1>2 DEF Owing, LessBilled
  <1>7. (\A x \in S : g[x] \in Int) /\ (\A x \in D : a[x] \in Int /\ f[x] = g[x] - a[x])
    BY <1>1, <1>3, <1>5
  <1>8. SumFunctionOnSet(f, S) = SumFunctionOnSet(g, S) - SumFunctionOnSet(a, D)
    BY ONLY <1>1, <1>3, <1>6, <1>7, SumMinus
  <1> QED BY <1>1, <1>2, <1>8

(* And unsettling them.                                                    *)
LEMMA DebtUndone ==
    ASSUME SessionInv, SessionInv', NEW n, IsNote(n), n.amount = SumFunctionOnSet(n.alloc, DOMAIN n.alloc), LessBilled(n, -1)
    PROVE  Debt' = Debt + n.amount
  <1>1. PICK S, f, g : /\ S = Invoices /\ f = Owing' /\ g = Owing /\ IsFiniteSet(S)
                       /\ Debt = SumFunctionOnSet(g, S) /\ Debt' = SumFunctionOnSet(f, S)
                       /\ (\A x \in S : g[x] \in Nat) /\ (\A x \in S : f[x] \in Nat)
                       /\ Debt \in Nat /\ Debt' \in Nat
    BY DebtNames
  <1>2. PICK D, a : D = DOMAIN n.alloc /\ a = n.alloc
    OBVIOUS
  <1>3. D \subseteq S /\ (\A x \in D : a[x] \in Int) /\ n.amount \in Nat
    BY <1>1, <1>2 DEF IsNote
  <1>4. \A x \in D : x \in Billed /\ x \in Billed' /\ Outstanding(invoice'[x]) = Outstanding(invoice[x]) - (-1) * a[x]
    BY <1>2 DEF LessBilled
  <1>5. \A x \in D : g[x] = f[x] - a[x]
    <2>1. \A x \in D : f[x] = Outstanding(invoice'[x]) /\ g[x] = Outstanding(invoice[x])
      BY <1>1, <1>3, <1>4 DEF Owing
    <2>2. \A x \in D : g[x] \in Int
      BY <1>1, <1>3
    <2> QED BY <1>3, <1>4, <2>1, <2>2
  <1>6. \A x \in S : x \notin D => g[x] = f[x]
    BY <1>1, <1>2 DEF Owing, LessBilled
  <1>7. (\A x \in S : f[x] \in Int) /\ (\A x \in D : a[x] \in Int /\ g[x] = f[x] - a[x])
    BY <1>1, <1>3, <1>5
  <1>8. SumFunctionOnSet(g, S) = SumFunctionOnSet(f, S) - SumFunctionOnSet(a, D)
    BY ONLY <1>1, <1>3, <1>6, <1>7, SumMinus
  <1> QED BY <1>1, <1>2, <1>3, <1>8

(* The three sums of the statement.                                        *)
Back == {n \in notes : n.id \in reversed}
Totals  == [i \in Billed |-> invoice[i].total]
Amounts == [n \in notes |-> n.amount]
Refunds == [n \in Back |-> n.amount]
BilledSum == SumFunctionOnSet(Totals, Billed)
NotesSum  == SumFunctionOnSet(Amounts, notes)
BackSum   == SumFunctionOnSet(Refunds, Back)

(* The statement is made of them.                                          *)
LEMMA StatementIs == StatementClosing = BilledSum - NotesSum + BackSum
  BY DEF StatementClosing, SumOver, Back, Totals, Amounts, Refunds, BilledSum, NotesSum, BackSum

(* Also after a step.                                                      *)
LEMMA StatementNext == StatementClosing' = BilledSum' - NotesSum' + BackSum'
  BY DEF StatementClosing, SumOver, Back, Totals, Amounts, Refunds, BilledSum, NotesSum, BackSum

(* They are numbers.                                                       *)
LEMMA StatementInts ==
    ASSUME SessionInv
    PROVE  BilledSum \in Int /\ NotesSum \in Int /\ BackSum \in Int
  <1>1. PICK S, f : S = Billed /\ f = Totals
    OBVIOUS
  <1>2. IsFiniteSet(S) /\ \A x \in S : f[x] \in Int
    <2>1. \A x \in Billed : invoice[x].total \in Nat
      BY RowOwes DEF Billed
    <2> QED BY <1>1, <2>1, OwingNat DEF Totals
  <1>3. SumFunctionOnSet(f, S) \in Int
    BY ONLY <1>2, SumInt
  <1>4. IsFiniteSet(notes) /\ \A n \in notes : n.amount \in Int
    BY DEF SessionInv, NotesWhole, IsNote
  <1>5. PICK N, g : N = notes /\ g = Amounts
    OBVIOUS
  <1>6. IsFiniteSet(N) /\ \A x \in N : g[x] \in Int
    BY <1>4, <1>5 DEF Amounts
  <1>7. SumFunctionOnSet(g, N) \in Int
    BY ONLY <1>6, SumInt
  <1>8. PICK B, h : B = Back /\ h = Refunds
    OBVIOUS
  <1>9. Back \subseteq notes
    BY DEF Back
  <1>10. IsFiniteSet(B) /\ \A x \in B : h[x] \in Int
    BY <1>4, <1>8, <1>9, FS_Subset DEF Refunds
  <1>11. SumFunctionOnSet(h, B) \in Int
    BY ONLY <1>10, SumInt
  <1> QED BY <1>1, <1>3, <1>5, <1>7, <1>8, <1>11 DEF BilledSum, NotesSum, BackSum

(* The totals of the same invoices.                                        *)
LEMMA TotalsSame ==
    ASSUME SessionInv, Billed' = Billed, \A i \in Billed : invoice'[i].total = invoice[i].total
    PROVE  BilledSum' = BilledSum
  <1>1. PICK S, f, g : S = Billed /\ g = Totals /\ f = Totals'
    OBVIOUS
  <1>2. IsFiniteSet(S) /\ \A x \in S : f[x] = g[x]
    BY <1>1, OwingNat DEF Totals
  <1>3. SumFunctionOnSet(f, S) = SumFunctionOnSet(g, S)
    BY ONLY <1>2, SumSame
  <1> QED BY <1>1, <1>3 DEF BilledSum

(* With one more.                                                          *)
LEMMA TotalsMore ==
    ASSUME SessionInv, NEW i, OneBilled(i), invoice[i].total \in Nat
    PROVE  BilledSum' = BilledSum + invoice[i].total
  <1>1. PICK S, T, f, g : S = Billed /\ T = Billed' /\ g = Totals /\ f = Totals'
    OBVIOUS
  <1>2. /\ IsFiniteSet(S) /\ i \in T /\ i \notin S /\ (\A x \in S : x \in T) /\ (\A x \in T : x = i \/ x \in S)
    BY <1>1, OwingNat DEF OneBilled, Billed, Rows
  <1>3. (\A x \in S : g[x] = invoice[x].total /\ g[x] \in Int) /\ \A x \in T : f[x] = invoice'[x].total
    BY <1>1, RowOwes DEF Totals, Billed
  <1>4. f[i] = invoice[i].total /\ f[i] \in Int /\ \A x \in S : f[x] = g[x] /\ g[x] \in Int
    BY <1>1, <1>2, <1>3 DEF OneBilled
  <1>5. SumFunctionOnSet(f, T) = f[i] + SumFunctionOnSet(g, S)
    BY ONLY <1>2, <1>4, SumWith
  <1>6. BilledSum \in Int
    BY StatementInts
  <1> QED BY <1>1, <1>4, <1>5, <1>6 DEF BilledSum

(* With one less.                                                          *)
LEMMA TotalsLess ==
    ASSUME SessionInv, NEW i, OneVoided(i), invoice[i].total \in Nat
    PROVE  BilledSum' = BilledSum - invoice[i].total
  <1>1. PICK S, T, f, g : T = Billed /\ S = Billed' /\ f = Totals /\ g = Totals'
    OBVIOUS
  <1>2. S \subseteq T
    BY <1>1 DEF OneVoided, Billed, Rows
  <1>3. IsFiniteSet(S) /\ IsFiniteSet(T)
    BY <1>1, <1>2, OwingNat, FS_Subset
  <1>4. /\ i \in T /\ i \notin S /\ (\A x \in S : x \in T) /\ (\A x \in T : x = i \/ x \in S)
    BY <1>1, <1>2 DEF OneVoided, Billed, Rows
  <1>5. (\A x \in T : f[x] = invoice[x].total /\ f[x] \in Int) /\ \A x \in S : g[x] = invoice'[x].total
    BY <1>1, RowOwes DEF Totals, Billed
  <1>6. f[i] = invoice[i].total /\ f[i] \in Int /\ \A x \in S : f[x] = g[x] /\ g[x] \in Int
    BY <1>1, <1>4, <1>5 DEF OneVoided
  <1>7. SumFunctionOnSet(f, T) = f[i] + SumFunctionOnSet(g, S)
    BY ONLY <1>3, <1>4, <1>6, SumWith
  <1>8. SumFunctionOnSet(g, S) \in Int
    BY ONLY <1>3, <1>6, SumInt
  <1> QED BY <1>1, <1>6, <1>7, <1>8 DEF BilledSum

(* The same documents.                                                     *)
LEMMA NotesSame ==
    ASSUME UNCHANGED <<notes, reversed>>
    PROVE  NotesSum' = NotesSum /\ BackSum' = BackSum
  <1>1. Back' = Back
    BY DEF Back
  <1> QED BY <1>1 DEF NotesSum, BackSum, Amounts, Refunds

(* A new one.                                                              *)
LEMMA NotesMore ==
    ASSUME SessionInv, NEW n, n.amount \in Nat, n.id \notin NoteIds, notes' = notes \cup {n}, reversed' = reversed
    PROVE  NotesSum' = NotesSum + n.amount /\ BackSum' = BackSum
  <1>1. PICK S, T, f, g : S = notes /\ T = notes' /\ g = Amounts /\ f = Amounts'
    OBVIOUS
  <1>2. n \notin notes /\ n.id \notin reversed /\ IsFiniteSet(notes) /\ \A x \in notes : x.amount \in Int
    BY DEF SessionInv, NotesWhole, NoteIds, IsNote
  <1>3. IsFiniteSet(S) /\ n \in T /\ n \notin S /\ (\A x \in S : x \in T) /\ (\A x \in T : x = n \/ x \in S)
    BY <1>1, <1>2
  <1>4. (\A x \in S : g[x] = x.amount /\ g[x] \in Int) /\ \A x \in T : f[x] = x.amount
    BY <1>1, <1>2 DEF Amounts
  <1>5. f[n] \in Int /\ f[n] = n.amount /\ \A x \in S : f[x] = g[x] /\ g[x] \in Int
    BY <1>3, <1>4
  <1>6. SumFunctionOnSet(f, T) = f[n] + SumFunctionOnSet(g, S)
    BY ONLY <1>3, <1>5, SumWith
  <1>7. Back' = Back
    BY <1>2 DEF Back
  <1>8. BackSum' = BackSum
    BY <1>7 DEF BackSum, Refunds
  <1>9. NotesSum \in Int
    BY StatementInts
  <1> QED BY <1>1, <1>5, <1>6, <1>8, <1>9 DEF NotesSum

(* One taken back.                                                         *)
LEMMA NotesBack ==
    ASSUME SessionInv, NEW n \in notes, n.id \notin reversed, notes' = notes, reversed' = reversed \cup {n.id}
    PROVE  NotesSum' = NotesSum /\ BackSum' = BackSum + n.amount
  <1>1. PICK S, T, f, g : S = Back /\ T = Back' /\ g = Refunds /\ f = Refunds'
    OBVIOUS
  <1>2. IsFiniteSet(notes) /\ (\A x \in notes : x.amount \in Int) /\ \A x \in notes : x.id = n.id => x = n
    BY DEF SessionInv, NotesWhole, IsNote
  <1>3. Back \subseteq notes /\ n \notin Back /\ Back' = Back \cup {n}
    BY <1>2 DEF Back
  <1>4. IsFiniteSet(S) /\ n \in T /\ n \notin S /\ (\A x \in S : x \in T) /\ (\A x \in T : x = n \/ x \in S)
    BY <1>1, <1>2, <1>3, FS_Subset
  <1>5. (\A x \in S : g[x] = x.amount /\ g[x] \in Int) /\ \A x \in T : f[x] = x.amount
    BY <1>1, <1>2, <1>3 DEF Refunds
  <1>6. f[n] \in Int /\ f[n] = n.amount /\ \A x \in S : f[x] = g[x] /\ g[x] \in Int
    BY <1>2, <1>4, <1>5
  <1>7. SumFunctionOnSet(f, T) = f[n] + SumFunctionOnSet(g, S)
    BY ONLY <1>4, <1>6, SumWith
  <1>8. NotesSum' = NotesSum
    BY DEF NotesSum, Amounts
  <1>9. BackSum \in Int
    BY StatementInts
  <1> QED BY <1>1, <1>6, <1>7, <1>8, <1>9 DEF BackSum

-----------------------------------------------------------------------------
(* The books.                                                              *)

(* The inductive invariant of the ledger, of the statement and of the      *)
(* invoices: each is the same debt.                                        *)
LedgerInv ==
    /\ EntriesStand
    /\ -Balance("ACCOUNTS_PAYABLE") = CentScale * Debt
    /\ StatementClosing = Debt

(* A debt that moves by d moves the ledger by CentScale times that.        *)
LEMMA LedgerMoves ==
    ASSUME SessionInv, SessionInv', LedgerInv, NEW d \in Int, NEW x, x = -CentScale * d,
           Debt' = Debt + d, EntriesStand', Balance("ACCOUNTS_PAYABLE")' = Balance("ACCOUNTS_PAYABLE") + x,
           StatementClosing' = StatementClosing + d
    PROVE  LedgerInv'
  <1>1. PICK b, c, e : b = Balance("ACCOUNTS_PAYABLE") /\ c = CentScale /\ e = Debt
    OBVIOUS
  <1>2. b \in Int /\ c \in Int /\ e \in Int
    BY <1>1, BalanceInt, TotalOwedIs, PayablesAssumption DEF LedgerInv
  <1>3. -b = c * e /\ StatementClosing = e
    BY <1>1 DEF LedgerInv
  <1>4. c * (e + d) = c * e + c * d /\ -c * d = -(c * d)
    BY <1>2
  <1>5. PICK p, q : p = c * e /\ q = c * d /\ p \in Int /\ q \in Int
    BY <1>2
  <1>6. -(b + x) = c * (e + d)
    <2>1. x = -q /\ -b = p
      BY <1>1, <1>3, <1>4, <1>5
    <2> QED BY <1>2, <1>4, <1>5, <2>1
  <1> QED BY <1>1, <1>3, <1>6 DEF LedgerInv

(* Posting.                                                                *)
LEMMA LedgerPosted ==
    ASSUME SessionInv, SessionInv', LedgerInv, NEW r \in Requests, Concludes(r), NEW i, Posted(r, i)
    PROVE  LedgerInv'
  <1>1. OneBilled(i) /\ UNCHANGED <<notes, reversed>> /\ i \in Rows
    BY CommitBilled DEF Concludes, Posted
  <1>2. invoice[i].total \in Nat
    BY <1>1, RowOwes
  <1>3. PICK d, x : d = invoice[i].total /\ x = -CentScale * d /\ d \in Int
    BY <1>2
  <1>4. EntriesStand' /\ Balance("ACCOUNTS_PAYABLE")' = Balance("ACCOUNTS_PAYABLE") + x
    BY <1>3, PostedEntry DEF LedgerInv
  <1>5. Debt' = Debt + d
    BY <1>1, <1>2, <1>3, DebtBilled
  <1>6. BilledSum' = BilledSum + d /\ NotesSum' = NotesSum /\ BackSum' = BackSum
    BY <1>1, <1>2, <1>3, TotalsMore, NotesSame
  <1>7. StatementClosing' = StatementClosing + d
    BY <1>3, <1>6, StatementIs, StatementNext, StatementInts
  <1> QED BY <1>3, <1>4, <1>5, <1>7, LedgerMoves

(* Voiding.                                                                *)
LEMMA LedgerUnposted ==
    ASSUME SessionInv, SessionInv', LedgerInv, NEW r \in Requests, Concludes(r), NEW i, Unposted(r, i)
    PROVE  LedgerInv'
  <1>1. OneVoided(i) /\ UNCHANGED <<notes, reversed>> /\ i \in Rows
    BY CommitBilled DEF Concludes, Unposted
  <1>2. invoice[i].total \in Nat
    BY <1>1, RowOwes
  <1>3. PICK d, x : d = -invoice[i].total /\ x = -CentScale * d /\ d \in Int
    BY <1>2
  <1>4. x = CentScale * invoice[i].total
    BY <1>2, <1>3, PayablesAssumption
  <1>5. EntriesStand' /\ Balance("ACCOUNTS_PAYABLE")' = Balance("ACCOUNTS_PAYABLE") + x
    BY <1>4, UnpostedEntry DEF LedgerInv
  <1>6. Debt' = Debt + d
    BY <1>1, <1>2, <1>3, DebtVoided, TotalOwedIs
  <1>7. BilledSum' = BilledSum + d /\ NotesSum' = NotesSum /\ BackSum' = BackSum
    BY <1>1, <1>2, <1>3, TotalsLess, NotesSame, StatementInts
  <1>8. StatementClosing' = StatementClosing + d
    BY <1>3, <1>7, StatementIs, StatementNext, StatementInts
  <1> QED BY <1>3, <1>5, <1>6, <1>8, LedgerMoves

(* Settling.                                                               *)
LEMMA LedgerSettled ==
    ASSUME SessionInv, SessionInv', LedgerInv, NEW r \in Requests, Concludes(r), NEW n, Settled(r, n)
    PROVE  LedgerInv'
  <1>1. /\ LessBilled(n, 1) /\ NoteAdds(n) /\ IsNote(n) /\ n.amount \in Nat /\ n.id = r /\ r \notin NoteIds
        /\ notes' = notes \cup {n} /\ reversed' = reversed /\ n.amount = SumFunctionOnSet(n.alloc, DOMAIN n.alloc)
    BY CommitBilled DEF Concludes, Settled, NoteAdds, IsNote
  <1>3. PICK d, x : d = -n.amount /\ x = -CentScale * d /\ d \in Int
    BY <1>1
  <1>4. x = CentScale * n.amount
    BY <1>1, <1>3, PayablesAssumption
  <1>5. EntriesStand' /\ Balance("ACCOUNTS_PAYABLE")' = Balance("ACCOUNTS_PAYABLE") + x
    BY <1>4, SettledEntry DEF LedgerInv
  <1>6. Debt' = Debt + d
    BY <1>1, <1>3, DebtSettled, TotalOwedIs
  <1>7. Billed' = Billed /\ \A i \in Billed : invoice'[i].total = invoice[i].total
    BY <1>1 DEF LessBilled
  <1>8. BilledSum' = BilledSum /\ NotesSum' = NotesSum + n.amount /\ BackSum' = BackSum
    BY <1>1, <1>7, TotalsSame, NotesMore
  <1>9. StatementClosing' = StatementClosing + d
    BY <1>1, <1>3, <1>8, StatementIs, StatementNext, StatementInts
  <1> QED BY <1>3, <1>5, <1>6, <1>9, LedgerMoves

(* Undoing a settlement.                                                   *)
LEMMA LedgerUndone ==
    ASSUME SessionInv, SessionInv', LedgerInv, NEW r \in Requests, Concludes(r), NEW n, Undone(r, n)
    PROVE  LedgerInv'
  <1>1. /\ LessBilled(n, -1) /\ n \in notes /\ n.id \notin reversed
        /\ notes' = notes /\ reversed' = reversed \cup {n.id}
    BY CommitBilled DEF Concludes, Undone
  <1>2. IsNote(n) /\ n.amount \in Nat /\ n.amount = SumFunctionOnSet(n.alloc, DOMAIN n.alloc)
    BY <1>1 DEF SessionInv, NotesWhole, IsNote
  <1>3. PICK d, x : d = n.amount /\ x = -CentScale * d /\ d \in Int
    BY <1>2
  <1>5. EntriesStand' /\ Balance("ACCOUNTS_PAYABLE")' = Balance("ACCOUNTS_PAYABLE") + x
    BY <1>3, UndoneEntry DEF LedgerInv
  <1>6. Debt' = Debt + d
    BY <1>1, <1>2, <1>3, DebtUndone
  <1>7. Billed' = Billed /\ \A i \in Billed : invoice'[i].total = invoice[i].total
    BY <1>1 DEF LessBilled
  <1>8. BilledSum' = BilledSum /\ NotesSum' = NotesSum /\ BackSum' = BackSum + d
    BY <1>1, <1>3, <1>7, TotalsSame, NotesBack
  <1>9. StatementClosing' = StatementClosing + d
    BY <1>3, <1>8, StatementIs, StatementNext, StatementInts
  <1> QED BY <1>3, <1>5, <1>6, <1>9, LedgerMoves

(* Steps that change no document.                                          *)
LEMMA LedgerSame ==
    ASSUME SessionInv, SessionInv', LedgerInv, SameBills, UNCHANGED <<notes, reversed>>,
           EntriesStand', Balance("ACCOUNTS_PAYABLE")' = Balance("ACCOUNTS_PAYABLE") + 0
    PROVE  LedgerInv'
  <1>1. Billed' = Billed /\ (\A i \in Billed : invoice'[i].total = invoice[i].total) /\ Owing' = Owing
    BY SameOwing DEF SameBills
  <1>2. Debt' = Debt + 0
    BY <1>1, TotalOwedIs DEF Debt
  <1>3. BilledSum' = BilledSum /\ NotesSum' = NotesSum /\ BackSum' = BackSum
    BY <1>1, TotalsSame, NotesSame
  <1>4. StatementClosing' = StatementClosing + 0
    BY <1>3, StatementIs, StatementNext, StatementInts
  <1>5. PICK d, x : d = 0 /\ x = -CentScale * d /\ d \in Int /\ x = 0
    BY PayablesAssumption
  <1> QED BY <1>2, <1>4, <1>5, LedgerMoves

(* Every step keeps the books.                                             *)
LEMMA LedgerKept ==
    ASSUME SessionInv, SessionInv', LedgerInv, [Next]_vars
    PROVE  LedgerInv'
  <1>0. EntriesStand
    BY DEF LedgerInv
  <1>1. CASE UNCHANGED tables
    <2>1. UNCHANGED <<invoice, notes, reversed, entries>>
      BY <1>1 DEF tables
    <2>2. \A x \in entries : EntryStands(x)'
      BY <1>0, <2>1, QuietEntries DEF EntriesStand
    <2>3. SameBills
      BY <2>1 DEF SameBills, Billed, Rows
    <2>4. EntriesStand' /\ Balance("ACCOUNTS_PAYABLE")' = Balance("ACCOUNTS_PAYABLE") + 0
      BY <1>0, <2>1, <2>2, EntryNone
    <2> QED BY <2>1, <2>3, <2>4, LedgerSame
  <1>2. ASSUME NEW t \in Items, Receive(t) PROVE LedgerInv'
    <2>1. UNCHANGED <<invoice, notes, reversed>>
      BY <1>2 DEF Receive
    <2>2. SameBills
      BY <2>1 DEF SameBills, Billed, Rows
    <2>3. EntriesStand' /\ Balance("ACCOUNTS_PAYABLE")' = Balance("ACCOUNTS_PAYABLE") + 0
      BY <1>0, <1>2, ReceiveEntry
    <2> QED BY <2>1, <2>2, <2>3, LedgerSame
  <1>3. ASSUME NEW r \in Requests, Concludes(r) PROVE LedgerInv'
    <2>0. Commits(r)
      BY <1>3 DEF Concludes
    <2>1. ASSUME SameBills, UNCHANGED <<notes, reversed, entries>> PROVE LedgerInv'
      <3>1. \A x \in entries : EntryStands(x)'
        BY <1>0, <1>3, CommitEntries DEF EntriesStand
      <3>2. EntriesStand' /\ Balance("ACCOUNTS_PAYABLE")' = Balance("ACCOUNTS_PAYABLE") + 0
        BY <1>0, <2>1, <3>1, EntryNone
      <3> QED BY <2>1, <3>2, LedgerSame
    <2>2. ASSUME NEW i, NEW row, Created(r, i, row) PROVE LedgerInv'
      <3>1. SameBills /\ UNCHANGED <<notes, reversed, entries>>
        BY <2>0, <2>2, CommitBilled DEF Created
      <3> QED BY <2>1, <3>1
    <2>3. ASSUME NEW i, Dropped(i) PROVE LedgerInv'
      <3>1. SameBills /\ UNCHANGED <<notes, reversed, entries>>
        BY <2>0, <2>3, CommitBilled DEF Dropped
      <3> QED BY <2>1, <3>1
    <2> QED BY <1>3, <2>0, <2>2, <2>3, LedgerPosted, LedgerUnposted, LedgerSettled, LedgerUndone DEF Commits
  <1> QED BY <1>1, <1>2, <1>3, StepOrQuiet

(* The entries at the start: the postings and the receipts.                *)
FirstEntry(i) == Entry("PURCHASE_INVOICE", i, InvoiceLines(InitialInvoices[i], matches[i]))
FirstReceipts == UNION {UNION {ReceiptEntry(i, n) : n \in 1 .. InitialArrived[i]} : i \in Items}

(* Receipts owe nothing, and there are finitely many.                      *)
LEMMA InitReceipts ==
    /\ IsFiniteSet(FirstReceipts)
    /\ \A e \in FirstReceipts : e.source = "PURCHASE_RECEIPT" /\ e.lines["ACCOUNTS_PAYABLE"] = 0
  <1>1. ASSUME NEW i, NEW n, NEW e \in ReceiptEntry(i, n)
        PROVE  e.source = "PURCHASE_RECEIPT" /\ e.lines["ACCOUNTS_PAYABLE"] = 0
    <2> DEFINE new == Pair("INVENTORY", "PURCHASE_CLEARING", LotValue(Deliveries[i][n]))
    <2>1. e = Entry("PURCHASE_RECEIPT", <<i, n>>, new)
      BY <1>1 DEF ReceiptEntry
    <2>2. new["ACCOUNTS_PAYABLE"] = 0
      BY DEF Pair, Accounts
    <2> QED BY <2>1, <2>2 DEF Entry
  <1>2. ASSUME NEW i, NEW n PROVE IsFiniteSet(ReceiptEntry(i, n))
    BY FS_EmptySet, FS_Singleton DEF ReceiptEntry
  <1>3. ASSUME NEW i \in Items PROVE IsFiniteSet(UNION {ReceiptEntry(i, n) : n \in 1 .. InitialArrived[i]})
    <2> DEFINE h == [n \in 1 .. InitialArrived[i] |-> ReceiptEntry(i, n)]
               T == {h[n] : n \in 1 .. InitialArrived[i]}
    <2>1. IsFiniteSet(1 .. InitialArrived[i])
      <3>1. InitialArrived[i] \in Int /\ 1 \in Int
        BY PayablesAssumption
      <3> QED BY <3>1, FS_Interval
    <2>2. IsFiniteSet(T)
      <3> HIDE DEF h
      <3> QED BY <2>1, FiniteImage
    <2>3. \A x \in T : IsFiniteSet(x)
      BY <1>2
    <2>4. T = {ReceiptEntry(i, n) : n \in 1 .. InitialArrived[i]}
      OBVIOUS
    <2> HIDE DEF T
    <2>5. IsFiniteSet(UNION T)
      BY <2>2, <2>3, FS_UNION
    <2> QED BY <2>4, <2>5
  <1>4. IsFiniteSet(FirstReceipts)
    <2> DEFINE h == [i \in Items |-> UNION {ReceiptEntry(i, n) : n \in 1 .. InitialArrived[i]}]
               T == {h[i] : i \in Items}
    <2>1. IsFiniteSet(Items)
      BY PayablesAssumption
    <2>2. IsFiniteSet(T)
      <3> HIDE DEF h
      <3> QED BY <2>1, FiniteImage
    <2>3. \A x \in T : IsFiniteSet(x)
      BY <1>3
    <2>4. T = {UNION {ReceiptEntry(i, n) : n \in 1 .. InitialArrived[i]} : i \in Items}
      OBVIOUS
    <2> HIDE DEF T
    <2>5. IsFiniteSet(UNION T)
      BY <2>2, <2>3, FS_UNION
    <2> QED BY <2>4, <2>5 DEF FirstReceipts
  <1>5. ASSUME NEW e \in FirstReceipts PROVE \E i, n : e \in ReceiptEntry(i, n)
    BY <1>5 DEF FirstReceipts
  <1> QED BY <1>1, <1>4, <1>5

(* The books at the start.                                                 *)
LEMMA InitLedger == ASSUME Init PROVE LedgerInv
  <1>0. SessionInv /\ notes = {} /\ reversed = {} /\ entries = {FirstEntry(i) : i \in load.posted} \cup FirstReceipts
    BY InitSession DEF Init, FirstEntry, FirstReceipts
  <1>1. /\ Billed = load.posted /\ Open = load.posted /\ load.posted \subseteq Rows /\ load.posted \subseteq Invoices
        /\ \A i \in load.posted : invoice[i].status = "POSTED" /\ invoice[i].total = InitialInvoices[i].total
    BY InitRows DEF Billed, Open, Standing, Rows
  <1>2. \A i \in load.posted : invoice[i].total \in Nat /\ Outstanding(invoice[i]) = invoice[i].total
    BY <1>0, <1>1, RowOwes DEF Unsettled
  <1>3. ASSUME NEW i \in load.posted
        PROVE  /\ FirstEntry(i).source = "PURCHASE_INVOICE" /\ FirstEntry(i).id = i
               /\ FirstEntry(i).lines["ACCOUNTS_PAYABLE"] = -CentScale * invoice[i].total
               /\ FirstEntry(i).lines["ACCOUNTS_PAYABLE"] \in Int
    <2> DEFINE new == InvoiceLines(InitialInvoices[i], matches[i])
    <2>1. new["ACCOUNTS_PAYABLE"] = -CentScale * InitialInvoices[i].total
      BY DEF InvoiceLines, Accounts
    <2>2. -CentScale * invoice[i].total \in Int
      BY <1>2, <1>3, PayablesAssumption
    <2> HIDE DEF new
    <2> QED BY <1>1, <1>3, <2>1, <2>2 DEF FirstEntry, Entry, new
  <1>4. \A i : ~Posting(i)
    BY DEF Init, Posting, Is
  <1>5. ASSUME NEW e \in entries PROVE EntryStands(e)
    <2>1. CASE e \in FirstReceipts
      BY <2>1, InitReceipts DEF EntryStands
    <2>2. CASE e \notin FirstReceipts
      <3>1. PICK i \in load.posted : e = FirstEntry(i)
        BY <1>0, <1>5, <2>2
      <3> QED BY <1>1, <1>3, <1>4, <3>1 DEF EntryStands
    <2> QED BY <2>1, <2>2
  <1>6. IsFiniteSet(load.posted)
    BY <1>1, PayablesAssumption, FS_Subset
  <1>7. PICK P, h, E, f, g, t : /\ P = load.posted /\ h = [i \in load.posted |-> FirstEntry(i)] /\ E = entries
                                /\ f = Lines /\ g = [i \in load.posted |-> -CentScale * invoice[i].total] /\ t = Totals
    OBVIOUS
  <1>8. IsFiniteSet(P) /\ \A i \in P : h[i] = FirstEntry(i)
    BY <1>6, <1>7
  <1>9. PICK D : D = {h[x] : x \in P}
    OBVIOUS
  <1>10. IsFiniteSet(D) /\ D = {FirstEntry(i) : i \in load.posted} /\ E = D \cup FirstReceipts
    <2>1. IsFiniteSet(D)
      BY <1>8, <1>9, FiniteImage
    <2> QED BY <1>0, <1>7, <1>8, <1>9, <2>1
  <1>11. IsFiniteSet(E)
    BY <1>10, InitReceipts, FS_Union
  <1>12. EntriesStand
    BY <1>5, <1>7, <1>11 DEF EntriesStand
  <1>13. \A e \in E : f[e] = e.lines["ACCOUNTS_PAYABLE"] /\ f[e] \in Int
    BY <1>5, <1>7, BalanceIs DEF EntryStands
  <1>14. SumFunctionOnSet(f, E) = SumFunctionOnSet(f, D)
    <2>1. D \subseteq E /\ (\A x \in D : f[x] \in Int) /\ (\A x \in E : x \notin D => f[x] = 0)
      BY <1>10, <1>13, InitReceipts
    <2> QED BY ONLY <1>11, <2>1, SumDropZero
  <1>15. SumFunctionOnSet(g, P) = SumFunctionOnSet(f, D)
    <2>1. \A x \in P : g[x] = f[h[x]] /\ g[x] \in Int
      <3>1. ASSUME NEW x \in P PROVE g[x] = f[h[x]] /\ g[x] \in Int
        <4>1. h[x] \in E /\ h[x] = FirstEntry(x) /\ x \in load.posted
          BY <1>7, <1>8, <1>9, <1>10
        <4> QED BY <1>3, <1>7, <1>13, <4>1
      <3> QED BY <3>1
    <2>2. \A x, y \in P : h[x] = h[y] => x = y
      BY <1>3, <1>7, <1>8
    <2> QED BY ONLY <1>8, <1>9, <2>1, <2>2, SumReindex
  <1>16. PICK c : c = -CentScale /\ c \in Int
    BY PayablesAssumption
  <1>17. SumFunctionOnSet(g, P) = c * SumFunctionOnSet(t, P)
    <2>1. ASSUME NEW x \in P PROVE t[x] \in Int /\ g[x] = c * t[x]
      <3>1. x \in load.posted /\ x \in Billed /\ invoice[x].total \in Nat
        BY <1>1, <1>2, <1>7
      <3>2. t[x] = invoice[x].total
        BY <1>7, <3>1 DEF Totals
      <3>3. g[x] = -CentScale * invoice[x].total
        BY <1>7, <3>1
      <3>4. PICK a, b : a = CentScale /\ b = invoice[x].total /\ a \in Int /\ b \in Int
        BY <3>1, PayablesAssumption
      <3>5. -(a * b) = (-a) * b
        BY <3>4
      <3>6. c = -a /\ g[x] = -(a * b) /\ t[x] = b
        BY <1>16, <3>2, <3>3, <3>4
      <3> QED BY <3>4, <3>5, <3>6
    <2>2. \A x \in P : t[x] \in Int /\ g[x] = c * t[x]
      BY <2>1
    <2> QED BY ONLY <1>8, <1>16, <2>2, SumScale
  <1>18. SumFunctionOnSet(t, P) = Debt
    <2>1. (\A i \in P : i \in Open) /\ \A i \in Open : i \notin P => Outstanding(invoice[i]) = 0
      BY <1>1, <1>7
    <2>2. \A i \in P : t[i] = Outstanding(invoice[i])
      BY <1>1, <1>2, <1>7 DEF Totals
    <2> QED BY <1>0, <2>1, <2>2, TotalIs
  <1>19. Balance("ACCOUNTS_PAYABLE") = c * Debt
    BY <1>7, <1>14, <1>15, <1>17, <1>18, BalanceIs
  <1>20. -Balance("ACCOUNTS_PAYABLE") = CentScale * Debt
    <2>1. Debt \in Int
      BY <1>0, TotalOwedIs
    <2> QED BY <1>16, <1>19, <2>1, PayablesAssumption
  <1>21. BilledSum = Debt
    BY <1>1, <1>7, <1>18 DEF BilledSum
  <1>22. NotesSum = 0 /\ BackSum = 0
    <2>1. notes = {} /\ Back = {}
      BY <1>0 DEF Back
    <2> QED BY <2>1, SumEmpty DEF NotesSum, BackSum
  <1>23. StatementClosing = Debt
    BY <1>0, <1>21, <1>22, StatementIs, TotalOwedIs
  <1> QED BY <1>12, <1>20, <1>23 DEF LedgerInv

(* For every set of invoices, documents and concurrent requests: the       *)
(* accounts payable balance, the total owed, the statement's closing       *)
(* balance and the aging are one amount, the amounts cached on invoices    *)
(* are the allocations that stand, and no document is entered twice        *)
(* (get_supplier_ap_summary, get_supplier_statement, ap_aging,             *)
(* ap_reconciliation).                                                     *)
THEOREM ReportsAgree == Spec => []BooksAgree
  <1> DEFINE Inv == SessionInv /\ InvoicedWithinReceived /\ OneDocument /\ LedgerInv
  <1>1. Init => Inv
    BY InitSession, InitWithin, InitDocuments, InitLedger
  <1>2. Inv /\ [Next]_vars => Inv'
    BY SessionKept, WithinKept, DocumentsKept, LedgerKept
  <1>3. Inv => BooksAgree
    <2>1. SUFFICES ASSUME Inv PROVE BooksAgree
      OBVIOUS
    <2>2. TypeOK /\ TotalOwed = Debt /\ SumOver(Buckets, Aging) = Debt /\ CachesFollowRows
      BY <2>1, TypesAre, TotalOwedIs, AgingAdds DEF SessionInv
    <2> QED BY <2>1, <2>2 DEF BooksAgree, LedgerInv, Buckets
  <1> QED BY <1>1, <1>2, <1>3, PTL DEF Spec
=============================================================================
