--------------------------- MODULE TransfersProofs ---------------------------
(***************************************************************************)
(* Proofs about Transfers: shipments, receipts and write-offs never wait   *)
(* for each other in a circle, and a write-off is decided once.            *)
(***************************************************************************)
EXTENDS Transfers, Sums, TLAPS

-----------------------------------------------------------------------------
(* Sessions.                                                               *)

Labels == {"new", "begin", "keys", "header", "products", "write", "discrepancy", "insert", "writeoff", "line", "done"}
Pending(r) == pc[r] \notin {"new", "done"}

(* The kinds of request that pass a label.                                 *)
KindsAt(label) ==
    CASE label = "keys" -> {"CREATE"}
      [] label \in {"header", "products", "write"} -> {"SHIP", "RECEIVE"}
      [] label = "insert" -> {"WRITEOFF"}
      [] label = "discrepancy" -> {"WRITEOFF", "APPROVE", "DENY"}
      [] label = "writeoff" -> {"APPROVE", "DENY", "REVERSE"}
      [] label = "line" -> {"APPROVE", "REVERSE"}

(* A session that has begun serves a body its client may send; one that is *)
(* past its first checks serves a body that passed them.                   *)
Served(r) ==
    /\ Pending(r) => req[r] \in load.sent[r]
    /\ Pending(r) /\ pc[r] # "begin" => req[r].kind \in KindsAt(pc[r])
    /\ pc[r] = "header" => req[r].lines # <<>>

Shape ==
    /\ load \in Workloads
    /\ pc \in [Requests -> Labels]
    /\ held = [r \in Requests |-> held[r]] /\ req = [r \in Requests |-> req[r]]
    /\ \A r \in Requests : Served(r)

(* The transaction of r is over: its locks are free.                       *)
Over(r) ==
    /\ pc' = [pc EXCEPT ![r] = "done"] /\ held' = [held EXCEPT ![r] = {}] /\ req' = [req EXCEPT ![r] = NoOne]
    /\ UNCHANGED load
(* It ends without having changed anything.                                *)
Ends(r) == Over(r) /\ UNCHANGED tables
(* r goes on to a label, with the rows locked that it takes for it.        *)
Moves(r, label, rows) ==
    /\ pc' = [pc EXCEPT ![r] = label] /\ held' = [held EXCEPT ![r] = @ \cup rows]
    /\ UNCHANGED <<req, tables>>

(* The steps that take no lock.                                            *)
Begins(r) ==
    /\ pc[r] = "begin"
    /\ \/ req[r].kind = "CREATE" /\ Moves(r, "keys", {})
       \/ req[r].kind \in {"SHIP", "RECEIVE"} /\ req[r].lines # <<>> /\ Moves(r, "header", {})
       \/ req[r].kind = "WRITEOFF" /\ Moves(r, "discrepancy", {})
       \/ req[r].kind \in {"APPROVE", "DENY", "REVERSE"} /\ Moves(r, "writeoff", {})
(* The steps that write.                                                   *)
Writes(r) ==
    \/ CommitTransfer(r) \/ CancelTransfer(r) \/ WriteShip(r) \/ WriteReceipt(r) \/ MoveDiscrepancy(r)
    \/ InsertWriteOff(r) \/ AddRule(r) \/ DenyWriteOff(r) \/ ApproveWriteOff(r) \/ ReverseWriteOff(r)

(* A step that returns ends the transaction.                               *)
LEMMA ReturnEnds == ASSUME NEW r, NEW code, Return(r, code) PROVE Ends(r)
  BY DEF Return, Finish, Ends, Over, tables

(* What leaves the rows locked so far as they are adds none.               *)
LEMMA MovesOn ==
    ASSUME Shape, NEW r \in Requests, NEW label, Goto(r, label), UNCHANGED held
    PROVE  Moves(r, label, {})
  BY DEF Goto, Moves, Shape

(* Every step of a request begins it, ends it, takes it on or writes.      *)
LEMMA Cases ==
    ASSUME Shape, NEW r \in Requests, Submit(r) \/ Step(r) \/ Fail(r)
    PROVE  \/ Submit(r) \/ Ends(r) \/ Begins(r)
           \/ LockTransfer(r) /\ ~Ends(r)
           \/ LockProduct(r) \/ ShareProduct(r)
           \/ RequestWriteOff(r) /\ ~Ends(r)
           \/ LockWriteOff(r) /\ ~Ends(r)
           \/ LockDiscrepancy(r) /\ ~Ends(r)
           \/ Writes(r) /\ ~Ends(r) /\ Over(r)
<1>1. CASE Fail(r)
  BY <1>1, ReturnEnds DEF Fail
<1>2. BeginShip(r) => Ends(r) \/ Begins(r)
  BY ReturnEnds, MovesOn DEF BeginShip, Begins, Is
<1>3. BeginReceive(r) => Ends(r) \/ Begins(r)
  BY ReturnEnds, MovesOn DEF BeginReceive, Begins, Is
<1>4. BeginWriteOff(r) => Ends(r) \/ Begins(r)
  BY ReturnEnds, MovesOn DEF BeginWriteOff, Begins, Is
<1>5. BeginDecide(r) => Ends(r) \/ Begins(r)
  BY ReturnEnds, MovesOn DEF BeginDecide, Begins, Is
<1>6. ASSUME NEW code, Finish(r, code), UNCHANGED load PROVE Over(r)
  BY <1>6 DEF Finish, Over
<1>7. Writes(r) => Ends(r) \/ Over(r)
  <2>1. CommitTransfer(r) => Ends(r) \/ Over(r)
    BY <1>6 DEF CommitTransfer
  <2>2. CancelTransfer(r) => Ends(r) \/ Over(r)
    BY <1>6, ReturnEnds, SMTT(40) DEF CancelTransfer
  <2>3. WriteShip(r) => Ends(r) \/ Over(r)
    BY <1>6, ReturnEnds DEF WriteShip
  <2>4. WriteReceipt(r) => Ends(r) \/ Over(r)
    BY <1>6, ReturnEnds DEF WriteReceipt
  <2>5. MoveDiscrepancy(r) => Ends(r) \/ Over(r)
    BY <1>6, ReturnEnds DEF MoveDiscrepancy
  <2>6. InsertWriteOff(r) => Ends(r) \/ Over(r)
    BY <1>6, ReturnEnds DEF InsertWriteOff
  <2>7. AddRule(r) => Ends(r) \/ Over(r)
    BY <1>6, ReturnEnds DEF AddRule
  <2>8. DenyWriteOff(r) => Ends(r) \/ Over(r)
    BY <1>6, ReturnEnds, SMTT(40) DEF DenyWriteOff
  <2>9. ApproveWriteOff(r) => Ends(r) \/ Over(r)
    BY <1>6, ReturnEnds, ZenonT(40) DEF ApproveWriteOff
  <2>10. ReverseWriteOff(r) => Ends(r) \/ Over(r)
    BY <1>6, ReturnEnds DEF ReverseWriteOff
  <2>. QED  BY <2>1, <2>2, <2>3, <2>4, <2>5, <2>6, <2>7, <2>8, <2>9, <2>10 DEF Writes
<1>8. CreateTransfer(r) => Ends(r) \/ Begins(r)
  BY ReturnEnds, MovesOn DEF CreateTransfer, Begins, Is
<1>. QED  BY <1>1, <1>2, <1>3, <1>4, <1>5, <1>7, <1>8 DEF Step, Writes

(* A foreign key of a new line takes a share of its product.               *)
LEMMA ShareEffect ==
    ASSUME NEW r \in Requests, ShareProduct(r)
    PROVE  pc[r] = "keys" /\ req[r].kind = "CREATE" /\ Moves(r, "keys", {<<"share", NextKey(r)>>})
  BY DEF ShareProduct, Is, Take, Goto, Moves

(* SELECT ... FOR UPDATE of the header takes a row nobody else holds.      *)
LEMMA LockTransferEffect ==
    ASSUME NEW r \in Requests, LockTransfer(r), ~Ends(r)
    PROVE  LET row == <<"transfer", req[r].transfer>> IN
           pc[r] = "header" /\ Free(row, r) /\ Moves(r, "products", {row})
  BY ReturnEnds DEF LockTransfer, Is, Take, Goto, Moves

(* What locking a discrepancy for a new write-off takes and has checked.   *)
LEMMA RequestEffect ==
    ASSUME NEW r \in Requests, RequestWriteOff(r), ~Ends(r)
    PROVE  LET d == req[r].disc IN
           /\ pc[r] = "discrepancy" /\ req[r].kind = "WRITEOFF"
           /\ Free(<<"disc", d>>, r) /\ Moves(r, "insert", {<<"disc", d>>})
           /\ d \in DOMAIN disc /\ disc[d].status = "RESOLVED" /\ disc[d].finding # "VENDOR_CAUSED"
           /\ WriteOffsOf(d, {"PENDING_APPROVAL"}) = {}
  BY ReturnEnds DEF RequestWriteOff, Is, Take, Goto, Moves

(* What locking a write-off for a decision takes and has checked.          *)
LEMMA LockWriteOffEffect ==
    ASSUME NEW r \in Requests, LockWriteOff(r), ~Ends(r)
    PROVE  LET w == req[r].id IN
           /\ pc[r] = "writeoff" /\ req[r].kind \in {"APPROVE", "DENY", "REVERSE"}
           /\ Free(<<"writeoff", w>>, r)
           /\ w \in DOMAIN writeOff
           /\ req[r].kind = "REVERSE" => writeOff[w].status = "POSTED" /\ Moves(r, "line", {<<"writeoff", w>>})
           /\ req[r].kind # "REVERSE" => /\ writeOff[w].status = "PENDING_APPROVAL" /\ MayDecide(req[r].by, w)
                                         /\ Moves(r, "discrepancy", {<<"writeoff", w>>})
<1>1. pc[r] = "writeoff" /\ req[r].kind \in {"APPROVE", "DENY", "REVERSE"} /\ Free(<<"writeoff", req[r].id>>, r)
  BY DEF LockWriteOff, Is
<1>2. /\ req[r].id \in DOMAIN writeOff
      /\ writeOff[req[r].id].status = (IF req[r].kind = "REVERSE" THEN "POSTED" ELSE "PENDING_APPROVAL")
      /\ req[r].kind \in {"APPROVE", "DENY"} => MayDecide(req[r].by, req[r].id)
      /\ Moves(r, IF req[r].kind = "REVERSE" THEN "line" ELSE "discrepancy", {<<"writeoff", req[r].id>>})
  BY <1>1, ReturnEnds DEF LockWriteOff, Take, Goto, Moves
<1>. QED  BY <1>1, <1>2

(* What locking the discrepancy of an approval takes.                      *)
LEMMA LockDiscrepancyEffect ==
    ASSUME NEW r \in Requests, LockDiscrepancy(r), ~Ends(r)
    PROVE  LET row == <<"disc", writeOff[req[r].id].disc>> IN
           /\ pc[r] = "discrepancy" /\ req[r].kind = "APPROVE"
           /\ Free(row, r) /\ Moves(r, "line", {row})
  BY ReturnEnds DEF LockDiscrepancy, Is, Take, Goto, Moves

-----------------------------------------------------------------------------
(* Locks.                                                                  *)

(* The tables a session may hold rows of.                                  *)
TablesAt(label, kind) ==
    CASE label = "keys" -> {"share"}
      [] label \in {"products", "write"} -> {"transfer", "product"}
      [] label = "discrepancy" /\ kind # "WRITEOFF" -> {"writeoff"}
      [] label = "insert" -> {"disc"}
      [] label = "line" -> {"writeoff", "disc"}
      [] OTHER -> {}

Tagged(r) == \A row \in held[r] : row = <<row[1], row[2]>> /\ row[1] \in TablesAt(pc[r], req[r].kind)
(* Products are locked in ascending order, and there is one to lock.       *)
Ascending(r) ==
    pc[r] = "products" =>
        /\ Left(r) # {}
        /\ \A p \in Int : <<"product", p>> \in held[r] => \A o \in Left(r) : p < o

(* No row is locked by two sessions, unless both only refer to it.         *)
Shared(row) == row[1] = "share"
Exclusive == \A a, b \in Requests : a # b => \A row \in held[a] \cap held[b] : Shared(row)

LockInv == Shape /\ Exclusive /\ \A r \in Requests : Tagged(r) /\ Ascending(r)

(* The products of a shipment or a receipt are finitely many integers.     *)
LEMMA ProductsFinite ==
    ASSUME Shape, NEW r \in Requests, Pending(r), req[r].kind \in {"SHIP", "RECEIVE"}
    PROVE  /\ ProductsOf(req[r]) \subseteq Int /\ IsFiniteSet(ProductsOf(req[r]))
           /\ req[r].lines # <<>> => ProductsOf(req[r]) # {}
<1>. DEFINE q == req[r]
            of(i) == IF q.kind = "SHIP" THEN Source[i.line] ELSE Destination[i.line]
<1>1. q \in Submission
  BY TransfersAssumption DEF Shape, Served
<1>2. /\ Len(q.lines) \in Nat /\ DOMAIN q.lines = 1 .. Len(q.lines) /\ q.lines = <<>> <=> Len(q.lines) = 0
      /\ \A n \in 1 .. Len(q.lines) : q.lines[n].line \in Lines
  <2>1. CASE q.kind = "SHIP"
    <3>1. q.lines \in Seq(Shipment)
      BY <1>1, <2>1 DEF Submission
    <3>2. \A n \in 1 .. Len(q.lines) : q.lines[n] \in Shipment
      BY <3>1
    <3>3. \A n \in 1 .. Len(q.lines) : q.lines[n].line \in Lines
      BY <3>2 DEF Shipment
    <3>. QED  BY <3>1, <3>3
  <2>2. CASE q.kind = "RECEIVE"
    <3>1. q.lines \in Seq(Item)
      BY <1>1, <2>2 DEF Submission
    <3>2. \A n \in 1 .. Len(q.lines) : q.lines[n] \in Item
      BY <3>1
    <3>3. \A n \in 1 .. Len(q.lines) : q.lines[n].line \in Lines
      BY <3>2 DEF Item
    <3>. QED  BY <3>1, <3>3
  <2>. QED  BY <2>1, <2>2
<1>3. ProductsOf(q) = {of(q.lines[n]) : n \in 1 .. Len(q.lines)}
  BY <1>2 DEF ProductsOf, ToSet
<1>4. ProductsOf(q) \subseteq Int
  <2>1. ASSUME NEW n \in 1 .. Len(q.lines) PROVE of(q.lines[n]) \in Int
    BY <1>2, TransfersAssumption
  <2>. HIDE DEF of
  <2>. QED  BY <1>3, <2>1
<1>5. IsFiniteSet(ProductsOf(q))
  <2>. DEFINE f == [n \in 1 .. Len(q.lines) |-> of(q.lines[n])]
  <2>1. f \in Surjection(1 .. Len(q.lines), ProductsOf(q))
    BY <1>3 DEF Surjection
  <2>2. IsFiniteSet(1 .. Len(q.lines))
    <3>1. 1 \in Int /\ Len(q.lines) \in Int
      BY <1>2
    <3>. QED  BY ONLY <3>1, FS_Interval
  <2>. HIDE DEF f
  <2>. QED  BY <2>1, <2>2, FS_Surjection
<1>6. q.lines # <<>> => ProductsOf(q) # {}
  <2>1. q.lines # <<>> => 1 \in 1 .. Len(q.lines)
    BY <1>2
  <2>. QED  BY <1>3, <2>1
<1>. QED  BY <1>4, <1>5, <1>6

(* The next product is the least one that is not locked yet.               *)
LEMMA LeastLeft ==
    ASSUME Shape, NEW r \in Requests, pc[r] = "products", Left(r) # {}
    PROVE  /\ NextProduct(req[r], Left(r)) \in Left(r) /\ Left(r) \subseteq Int /\ Left(r) \subseteq ProductsOf(req[r])
           /\ \A o \in Left(r) : NextProduct(req[r], Left(r)) <= o
<1>1. Pending(r) /\ req[r].kind \in {"SHIP", "RECEIVE"}
  BY DEF Shape, Served, Pending, KindsAt
<1>2. Left(r) \subseteq ProductsOf(req[r])
  BY DEF Left
<1>3. Left(r) \subseteq Int /\ IsFiniteSet(Left(r))
  BY <1>1, <1>2, ProductsFinite, FS_Subset
<1>4. \E m \in Left(r) : \A o \in Left(r) : m <= o
  BY <1>3, FiniteMin
<1>. QED  BY <1>2, <1>3, <1>4 DEF NextProduct, Smallest

(* No lock is held before the first request.                               *)
LEMMA LockInit == Init => LockInv
  BY DEF Init, LockInv, Shape, Served, Labels, Pending, Exclusive, Tagged, Ascending

(* A step of r leaves the other sessions as they are.                      *)
LEMMA OneSteps ==
    ASSUME LockInv, NEW r \in Requests, UNCHANGED load,
           NEW label \in Labels, pc' = [pc EXCEPT ![r] = label],
           NEW rows, held' = [held EXCEPT ![r] = rows],
           NEW q, req' = [req EXCEPT ![r] = q],
           Served(r)', Tagged(r)', Ascending(r)',
           \A o \in Requests \ {r} : \A row \in rows \cap held[o] : Shared(row)
    PROVE  LockInv'
<1>1. ASSUME NEW o \in Requests, o # r
      PROVE  /\ pc'[o] = pc[o] /\ held'[o] = held[o] /\ req'[o] = req[o]
             /\ Served(o)' /\ Tagged(o)' /\ Ascending(o)'
  <2>1. pc'[o] = pc[o] /\ held'[o] = held[o] /\ req'[o] = req[o]
    BY <1>1 DEF LockInv, Shape
  <2>2. Served(o) /\ Tagged(o) /\ Ascending(o)
    BY DEF LockInv, Shape
  <2>3. Left(o)' = Left(o) /\ ProductsOf(req[o])' = ProductsOf(req[o])
    BY <2>1 DEF Left, ProductsOf
  <2>4. Served(o)'
    BY <2>1, <2>2 DEF Served, Pending
  <2>5. Tagged(o)'
    BY <2>1, <2>2 DEF Tagged
  <2>6. Ascending(o)'
    BY <2>1, <2>2, <2>3 DEF Ascending
  <2>. QED  BY <2>1, <2>4, <2>5, <2>6
<1>2. Shape'
  BY <1>1 DEF LockInv, Shape
<1>3. held'[r] = rows
  BY DEF LockInv, Shape
<1>4. Exclusive'
  BY <1>1, <1>3 DEF LockInv, Exclusive
<1>. QED  BY <1>1, <1>2, <1>4 DEF LockInv

(* The same for a step that takes a row nobody else holds, or a share.     *)
LEMMA OneMoves ==
    ASSUME LockInv, NEW r \in Requests, NEW label \in Labels, NEW rows, Moves(r, label, rows),
           \A row \in rows : Free(row, r) \/ Shared(row),
           Served(r)', Tagged(r)', Ascending(r)'
    PROVE  LockInv'
<1>1. req' = [req EXCEPT ![r] = req[r]] /\ UNCHANGED load
  BY DEF Moves, tables, LockInv, Shape
<1>2. held' = [held EXCEPT ![r] = held[r] \cup rows] /\ pc' = [pc EXCEPT ![r] = label]
  BY DEF Moves, LockInv, Shape
<1>3. \A o \in Requests \ {r} : \A row \in (held[r] \cup rows) \cap held[o] : Shared(row)
  BY DEF LockInv, Exclusive, Free
<1>. QED  BY <1>1, <1>2, <1>3, OneSteps

(* What a step that takes the session on does to it.                       *)
LEMMA MovedSession ==
    ASSUME LockInv, NEW r \in Requests, NEW label, NEW rows, Moves(r, label, rows)
    PROVE  /\ pc'[r] = label /\ held'[r] = held[r] \cup rows /\ req'[r] = req[r] /\ load' = load
           /\ ProductsOf(req[r])' = ProductsOf(req[r])
           /\ Left(r)' = {p \in ProductsOf(req[r]) : <<"product", p>> \notin held[r] \cup rows}
<1>1. pc'[r] = label /\ held'[r] = held[r] \cup rows /\ req'[r] = req[r] /\ load' = load
  BY DEF Moves, tables, LockInv, Shape
<1>. QED  BY <1>1 DEF Left, ProductsOf

(* Taking the header, with every product of the body still to lock.        *)
LEMMA LockTransferKeeps ==
    ASSUME LockInv, NEW r \in Requests, LockTransfer(r), ~Ends(r)
    PROVE  LockInv'
<1>. DEFINE row == <<"transfer", req[r].transfer>>
<1>1. pc[r] = "header" /\ Free(row, r) /\ Moves(r, "products", {row})
  BY LockTransferEffect
<1>2. /\ pc'[r] = "products" /\ held'[r] = held[r] \cup {row} /\ req'[r] = req[r] /\ load' = load
      /\ ProductsOf(req[r])' = ProductsOf(req[r])
      /\ Left(r)' = {p \in ProductsOf(req[r]) : <<"product", p>> \notin held[r] \cup {row}}
  BY <1>1, MovedSession
<1>3. held[r] = {} /\ Served(r) /\ Pending(r) /\ req[r].kind \in {"SHIP", "RECEIVE"} /\ req[r].lines # <<>>
  BY <1>1 DEF LockInv, Shape, Served, Tagged, TablesAt, Pending, KindsAt
<1>4. \A p : <<"product", p>> # row
  OBVIOUS
<1>5. Left(r)' = ProductsOf(req[r]) /\ Left(r)' # {}
  BY <1>2, <1>3, <1>4, ProductsFinite DEF LockInv
<1>6. Tagged(r)'
  BY <1>2, <1>3 DEF Tagged, TablesAt
<1>7. Ascending(r)'
  BY <1>2, <1>3, <1>4, <1>5 DEF Ascending
<1>8. Served(r)'
  BY <1>2, <1>3 DEF Served, Pending, KindsAt
<1>. HIDE DEF row
<1>. QED  BY <1>1, <1>6, <1>7, <1>8, OneMoves, "products" \in Labels DEF Labels

(* Taking the least product keeps the order.                               *)
LEMMA LockProductKeeps ==
    ASSUME LockInv, NEW r \in Requests, LockProduct(r)
    PROVE  LockInv'
<1>. DEFINE p == NextProduct(req[r], Left(r))
            row == <<"product", p>>
            label == IF Left(r) = {p} THEN "write" ELSE "products"
<1>1. pc[r] = "products" /\ Free(row, r) /\ Moves(r, label, {row})
  BY DEF LockProduct, Is, Take, Goto, Moves
<1>2. Left(r) # {} /\ Served(r) /\ Tagged(r) /\ Ascending(r)
  BY <1>1 DEF LockInv, Shape, Ascending
<1>3. p \in Left(r) /\ Left(r) \subseteq Int /\ Left(r) \subseteq ProductsOf(req[r]) /\ \A o \in Left(r) : p <= o
  BY <1>1, <1>2, LeastLeft DEF LockInv
<1>4. /\ pc'[r] = label /\ held'[r] = held[r] \cup {row} /\ req'[r] = req[r] /\ load' = load
      /\ ProductsOf(req[r])' = ProductsOf(req[r])
      /\ Left(r)' = {o \in ProductsOf(req[r]) : <<"product", o>> \notin held[r] \cup {row}}
  BY <1>1, MovedSession
<1>5. Left(r)' = Left(r) \ {p}
  BY <1>3, <1>4 DEF Left
<1>6. label \in {"write", "products"}
  OBVIOUS
<1>7. Tagged(r)'
  <2>1. row[1] = "product" /\ row = <<row[1], row[2]>>
    OBVIOUS
  <2>2. \A x \in held[r] : x = <<x[1], x[2]>> /\ x[1] \in {"transfer", "product"}
    BY <1>1, <1>2 DEF Tagged, TablesAt
  <2>. HIDE DEF row, label
  <2>. QED  BY <1>4, <1>6, <2>1, <2>2 DEF Tagged, TablesAt
<1>8. Served(r)'
  <2>. HIDE DEF label, p
  <2>. QED  BY <1>1, <1>2, <1>4, <1>6 DEF Served, Pending, KindsAt
<1>9. Ascending(r)'
  <2>. SUFFICES ASSUME label = "products"
                PROVE  /\ Left(r)' # {}
                       /\ \A m \in Int : <<"product", m>> \in held'[r] => \A o \in Left(r)' : m < o
    BY <1>4 DEF Ascending
  <2>1. Left(r)' # {}
    BY <1>3, <1>5
  <2>2. ASSUME NEW m \in Int, <<"product", m>> \in held'[r], NEW o \in Left(r)'
        PROVE  m < o
    <3>1. o \in Left(r) /\ o # p
      BY <1>5, <2>2
    <3>. HIDE DEF p
    <3>2. CASE m = p
      BY <1>3, <3>1, <3>2
    <3>3. CASE m # p
      BY <1>1, <1>2, <1>4, <2>2, <3>1, <3>3 DEF Ascending
    <3>. QED  BY <3>2, <3>3
  <2>. QED  BY <2>1, <2>2
<1>10. label \in Labels
  BY DEF Labels
<1>. HIDE DEF row, label
<1>. QED  BY <1>1, <1>7, <1>8, <1>9, <1>10, OneMoves

(* Every step keeps the locks exclusive and in order.                      *)
LEMMA LockKept == LockInv /\ [Next]_vars => LockInv'
<1>. SUFFICES ASSUME LockInv, [Next]_vars PROVE LockInv'
  OBVIOUS
<1>0. Shape
  BY DEF LockInv
<1>1. CASE UNCHANGED vars
  <2>1. UNCHANGED <<pc, held, req, load>>
    BY <1>1 DEF vars, session, tables
  <2>2. ASSUME NEW r \in Requests PROVE (Served(r) /\ Tagged(r) /\ Ascending(r))'
    <3>1. Served(r) /\ Tagged(r) /\ Ascending(r)
      BY DEF LockInv, Shape
    <3>2. Left(r)' = Left(r) /\ ProductsOf(req[r])' = ProductsOf(req[r])
      BY <2>1 DEF Left, ProductsOf
    <3>3. Served(r)'
      BY <2>1, <3>1 DEF Served, Pending
    <3>4. Tagged(r)'
      BY <2>1, <3>1 DEF Tagged
    <3>. QED  BY <2>1, <3>1, <3>2, <3>3, <3>4 DEF Ascending
  <2>3. Shape' /\ Exclusive'
    BY <2>1, <2>2 DEF LockInv, Shape, Exclusive
  <2>. QED  BY <2>2, <2>3 DEF LockInv
<1>2. CASE Next
  <2>0. PICK r \in Requests : Submit(r) \/ Step(r) \/ Fail(r)
    BY <1>2 DEF Next
  <2>00. Served(r) /\ Tagged(r)
    BY DEF LockInv, Shape
  <2>1. CASE Submit(r)
    <3>1. PICK q \in load.sent[r] : req' = [req EXCEPT ![r] = q]
      BY <2>1 DEF Submit
    <3>2. pc[r] = "new" /\ pc' = [pc EXCEPT ![r] = "begin"] /\ held' = held /\ load' = load
      BY <2>1 DEF Submit, tables
    <3>3. held[r] = {} /\ held' = [held EXCEPT ![r] = {}]
      BY <3>2, <2>00, <1>0 DEF Tagged, TablesAt, Shape
    <3>4. pc'[r] = "begin" /\ req'[r] = q /\ held'[r] = {}
      BY <3>1, <3>2, <3>3, <1>0 DEF Shape
    <3>5. Served(r)' /\ Tagged(r)' /\ Ascending(r)'
      BY <3>1, <3>2, <3>4 DEF Served, Tagged, Ascending, Pending
    <3>6. "begin" \in Labels /\ \A o \in Requests \ {r} : \A row \in {} \cap held[o] : Shared(row)
      BY DEF Labels
    <3>. QED  BY <3>1, <3>2, <3>3, <3>5, <3>6, OneSteps
  <2>2. CASE Over(r)
    <3>1. pc' = [pc EXCEPT ![r] = "done"] /\ held' = [held EXCEPT ![r] = {}] /\ req' = [req EXCEPT ![r] = NoOne] /\ load' = load
      BY <2>2 DEF Over
    <3>2. pc'[r] = "done" /\ held'[r] = {}
      BY <3>1, <1>0 DEF Shape
    <3>3. Served(r)' /\ Tagged(r)' /\ Ascending(r)'
      BY <3>2 DEF Served, Tagged, Ascending, Pending
    <3>4. "done" \in Labels /\ \A o \in Requests \ {r} : \A row \in {} \cap held[o] : Shared(row)
      BY DEF Labels
    <3>. QED  BY <3>1, <3>3, <3>4, OneSteps
  <2>3. CASE Begins(r)
    <3>0. pc[r] = "begin" /\ held[r] = {}
      BY <2>3, <2>00 DEF Begins, Tagged, TablesAt
    <3>1. PICK label \in {"keys", "header", "discrepancy", "writeoff"} :
            /\ Moves(r, label, {}) /\ req[r].kind \in KindsAt(label)
            /\ label = "header" => req[r].lines # <<>>
      BY <2>3 DEF Begins, KindsAt
    <3>2. pc'[r] = label /\ held'[r] = {} /\ req'[r] = req[r] /\ load' = load
      BY <3>0, <3>1, MovedSession
    <3>3. Served(r)' /\ Tagged(r)' /\ Ascending(r)'
      BY <3>0, <3>1, <3>2, <2>00 DEF Served, Tagged, Ascending, Pending
    <3>4. label \in Labels /\ \A row \in {} : Free(row, r)
      BY DEF Labels
    <3>. QED  BY <3>1, <3>3, <3>4, OneMoves
  <2>4. CASE LockTransfer(r) /\ ~Ends(r)
    BY <2>4, LockTransferKeeps
  <2>5. CASE LockProduct(r)
    BY <2>5, LockProductKeeps
  <2>9. CASE ShareProduct(r)
    <3>. DEFINE row == <<"share", NextKey(r)>>
    <3>1. pc[r] = "keys" /\ req[r].kind = "CREATE" /\ Moves(r, "keys", {row})
      BY <2>9, ShareEffect
    <3>2. pc'[r] = "keys" /\ held'[r] = held[r] \cup {row} /\ req'[r] = req[r] /\ load' = load
      BY <3>1, MovedSession
    <3>3. \A x \in held[r] : x = <<x[1], x[2]>> /\ x[1] = "share"
      BY <3>1, <2>00 DEF Tagged, TablesAt
    <3>4. Tagged(r)'
      <4>. HIDE DEF NextKey
      <4>. QED  BY <3>2, <3>3 DEF Tagged, TablesAt
    <3>5. Served(r)' /\ Ascending(r)'
      BY <3>1, <3>2, <2>00 DEF Served, Ascending, Pending, KindsAt
    <3>6. "keys" \in Labels /\ Shared(row)
      BY DEF Labels, Shared
    <3>. HIDE DEF row
    <3>. QED  BY <3>1, <3>4, <3>5, <3>6, OneMoves
  <2>6. CASE RequestWriteOff(r) /\ ~Ends(r)
    <3>. DEFINE row == <<"disc", req[r].disc>>
    <3>1. pc[r] = "discrepancy" /\ req[r].kind = "WRITEOFF" /\ Free(row, r) /\ Moves(r, "insert", {row})
      BY <2>6, RequestEffect
    <3>2. pc'[r] = "insert" /\ held'[r] = held[r] \cup {row} /\ req'[r] = req[r] /\ load' = load
      BY <3>1, MovedSession
    <3>3. held[r] = {}
      BY <3>1, <2>00 DEF Tagged, TablesAt
    <3>4. Tagged(r)'
      BY <3>2, <3>3 DEF Tagged, TablesAt
    <3>5. Served(r)' /\ Ascending(r)'
      BY <3>1, <3>2, <2>00 DEF Served, Ascending, Pending, KindsAt
    <3>6. "insert" \in Labels
      BY DEF Labels
    <3>. HIDE DEF row
    <3>. QED  BY <3>1, <3>4, <3>5, <3>6, OneMoves
  <2>7. CASE LockWriteOff(r) /\ ~Ends(r)
    <3>. DEFINE row == <<"writeoff", req[r].id>>
    <3>1. /\ pc[r] = "writeoff" /\ Free(row, r) /\ req[r].kind \in {"APPROVE", "DENY", "REVERSE"}
          /\ req[r].kind = "REVERSE" => Moves(r, "line", {row})
          /\ req[r].kind # "REVERSE" => Moves(r, "discrepancy", {row})
      BY <2>7, LockWriteOffEffect
    <3>2. PICK label \in {"line", "discrepancy"} : Moves(r, label, {row}) /\ req[r].kind \in KindsAt(label) \ {"WRITEOFF"}
      BY <3>1 DEF KindsAt
    <3>3. pc'[r] = label /\ held'[r] = held[r] \cup {row} /\ req'[r] = req[r] /\ load' = load
      BY <3>2, MovedSession
    <3>4. held[r] = {}
      BY <3>1, <2>00 DEF Tagged, TablesAt
    <3>5. Tagged(r)'
      BY <3>2, <3>3, <3>4 DEF Tagged, TablesAt
    <3>6. Served(r)' /\ Ascending(r)'
      BY <3>1, <3>2, <3>3, <2>00 DEF Served, Ascending, Pending
    <3>7. label \in Labels
      BY DEF Labels
    <3>. HIDE DEF row
    <3>. QED  BY <3>1, <3>2, <3>5, <3>6, <3>7, OneMoves
  <2>8. CASE LockDiscrepancy(r) /\ ~Ends(r)
    <3>. DEFINE row == <<"disc", writeOff[req[r].id].disc>>
    <3>1. pc[r] = "discrepancy" /\ req[r].kind = "APPROVE" /\ Free(row, r) /\ Moves(r, "line", {row})
      BY <2>8, LockDiscrepancyEffect
    <3>2. pc'[r] = "line" /\ held'[r] = held[r] \cup {row} /\ req'[r] = req[r] /\ load' = load
      BY <3>1, MovedSession
    <3>3. \A x \in held[r] : x = <<x[1], x[2]>> /\ x[1] = "writeoff"
      BY <3>1, <2>00 DEF Tagged, TablesAt
    <3>4. Tagged(r)'
      BY <3>2, <3>3 DEF Tagged, TablesAt
    <3>5. Served(r)' /\ Ascending(r)'
      BY <3>1, <3>2, <2>00 DEF Served, Ascending, Pending, KindsAt
    <3>6. "line" \in Labels
      BY DEF Labels
    <3>. HIDE DEF row
    <3>. QED  BY <3>1, <3>4, <3>5, <3>6, OneMoves
  <2>. QED  BY <2>0, <2>1, <2>2, <2>3, <2>4, <2>5, <2>6, <2>7, <2>8, <2>9, <1>0, Cases DEF Ends
<1>. QED  BY <1>1, <1>2

(* Spec => []LockInv.                                                      *)
LEMMA LockAlways == Spec => []LockInv
  BY LockInit, LockKept, PTL DEF Spec

-----------------------------------------------------------------------------
(* No circular wait.                                                       *)

(* Whom a session waits for, by the label it is at: nobody ever holds a    *)
(* line across a step, only a creation holds a share, and from every other *)
(* label the way leads to a session that is locking products.              *)
LEMMA WaitsOnly ==
    ASSUME LockInv, NEW r \in Requests, NEW o \in WaitsFor(r), pc[r] # "keys", pc[o] # "keys"
    PROVE  /\ o \in Requests
           /\ \/ pc[r] = "products" /\ <<"product", NextProduct(req[r], Left(r))>> \in held[o] /\ pc[o] \in {"products", "write"}
              \/ pc[r] \in {"header", "insert"} /\ pc[o] \in {"products", "write"}
              \/ pc[r] = "discrepancy" /\ pc[o] \in {"insert", "line"}
              \/ pc[r] = "writeoff" /\ pc[o] \in {"discrepancy", "line"}
<1>1. \A h \in Requests : Tagged(h)
  BY DEF LockInv
<1>2. ASSUME NEW h \in Requests, NEW x, <<"line", x>> \in held[h] PROVE FALSE
  BY <1>1, <1>2 DEF Tagged, TablesAt
<1>3. ASSUME NEW h \in Requests, NEW x, <<"transfer", x>> \in held[h] \/ <<"product", x>> \in held[h]
      PROVE  pc[h] \in {"products", "write"}
  BY <1>1, <1>3 DEF Tagged, TablesAt
<1>4. ASSUME NEW h \in Requests, NEW x, <<"disc", x>> \in held[h] PROVE pc[h] \in {"insert", "line"}
  BY <1>1, <1>4 DEF Tagged, TablesAt
<1>5. ASSUME NEW h \in Requests, NEW x, <<"writeoff", x>> \in held[h] PROVE pc[h] \in {"discrepancy", "line"}
  BY <1>1, <1>5 DEF Tagged, TablesAt
<1>6. CASE pc[r] = "header"
  BY <1>3, <1>6 DEF WaitsFor, Holders
<1>14. ASSUME NEW h \in Requests, NEW x, <<"share", x>> \in held[h] PROVE pc[h] = "keys"
  BY <1>1, <1>14 DEF Tagged, TablesAt
<1>7. CASE pc[r] = "products"
  <2>1. o \in Holders(<<"product", NextProduct(req[r], Left(r))>>) \cup Holders(<<"share", NextProduct(req[r], Left(r))>>)
    BY <1>7 DEF WaitsFor
  <2>. QED  BY <1>3, <1>7, <1>14, <2>1 DEF Holders
<1>8. CASE pc[r] = "write"
  BY <1>2, <1>8 DEF WaitsFor, Holders
<1>9. CASE pc[r] = "discrepancy"
  BY <1>4, <1>9 DEF WaitsFor, Holders
<1>10. CASE pc[r] = "insert"
  BY <1>2, <1>3, <1>10 DEF WaitsFor, Holders
<1>11. CASE pc[r] = "writeoff"
  BY <1>5, <1>11 DEF WaitsFor, Holders
<1>12. CASE pc[r] = "line"
  BY <1>2, <1>12 DEF WaitsFor, Holders
<1>13. CASE pc[r] \in {"new", "begin", "done"}
  BY <1>13 DEF WaitsFor
<1>. QED  BY <1>6, <1>7, <1>8, <1>9, <1>10, <1>11, <1>12, <1>13 DEF LockInv, Shape, Labels

(* The session of a set that locks the greatest product waits for none.    *)
LEMMA NoCircle == LockInv => NoCircularWait
<1>. SUFFICES ASSUME LockInv, NEW S \in (SUBSET (Requests \ Creating)) \ {{}}, \A r \in S : WaitsFor(r) \cap S # {}
              PROVE  FALSE
  BY DEF NoCircularWait
<1>1. ASSUME NEW r \in S
      PROVE  \E o \in S : /\ o \in Requests
                          /\ \/ pc[r] = "products" /\ <<"product", NextProduct(req[r], Left(r))>> \in held[o] /\ pc[o] \in {"products", "write"}
                             \/ pc[r] \in {"header", "insert"} /\ pc[o] \in {"products", "write"}
                             \/ pc[r] = "discrepancy" /\ pc[o] \in {"insert", "line"}
                             \/ pc[r] = "writeoff" /\ pc[o] \in {"discrepancy", "line"}
  <2>1. PICK o \in S : o \in WaitsFor(r)
    OBVIOUS
  <2>2. r \in Requests /\ pc[r] # "keys" /\ o \in Requests /\ pc[o] # "keys"
    BY DEF Creating
  <2>. QED  BY <2>1, <2>2, WaitsOnly
<1>2. \A r \in S : pc[r] \notin {"write", "line"}
  BY <1>1
<1>3. \E r \in S : pc[r] = "products"
  <2>1. PICK a \in S : TRUE
    OBVIOUS
  <2>2. PICK b \in S : pc[b] \in {"products", "insert", "discrepancy"}
    BY <1>1, <1>2, <2>1
  <2>3. PICK c \in S : pc[c] \in {"products", "insert"}
    BY <1>1, <1>2, <2>2
  <2>. QED  BY <1>1, <1>2, <2>3
<1>. DEFINE P == {r \in S : pc[r] = "products"}
            N(r) == NextProduct(req[r], Left(r))
            M == {N(r) : r \in P}
<1>4. ASSUME NEW r \in P
      PROVE  N(r) \in Int /\ N(r) \in ProductsOf(req[r]) /\ N(r) \in Left(r) /\ Ascending(r) /\ pc[r] = "products"
  <2>1. r \in Requests /\ pc[r] = "products" /\ Ascending(r) /\ Shape
    BY DEF LockInv
  <2>2. Left(r) # {}
    BY <2>1 DEF Ascending
  <2>. QED  BY <2>1, <2>2, LeastLeft
<1>5. IsFiniteSet(P)
  BY TransfersAssumption, FS_Subset
<1>6. \E m \in M : \A n \in M : n <= m
  <2>. DEFINE f == [r \in P |-> N(r)]
  <2>1. f \in Surjection(P, M)
    BY DEF Surjection
  <2>2. IsFiniteSet(M)
    <3>. HIDE DEF f, P, M
    <3>. QED  BY <1>5, <2>1, FS_Surjection
  <2>3. M \subseteq Int /\ M # {}
    BY <1>3, <1>4
  <2>. HIDE DEF M
  <2>. QED  BY <2>2, <2>3, FiniteMax
<1>7. PICK r \in P : \A o \in P : N(o) <= N(r)
  BY <1>6
<1>8. PICK o \in S : o \in Requests /\ <<"product", N(r)>> \in held[o] /\ pc[o] \in {"products", "write"}
  BY <1>1
<1>9. o \in P
  BY <1>2, <1>8
<1>10. N(r) \in Int /\ N(o) \in Int /\ N(o) \in Left(o) /\ Ascending(o) /\ pc[o] = "products" /\ N(o) <= N(r)
  BY <1>4, <1>7, <1>9
<1>11. N(r) < N(o)
  <2>. HIDE DEF N
  <2>. QED  BY <1>8, <1>10 DEF Ascending
<1>. HIDE DEF N
<1>. QED  BY <1>10, <1>11

(* Shipments, receipts, discrepancies and write-offs never wait for each   *)
(* other in a circle: the "deadlock-safe pattern" of ship_transfer holds   *)
(* for any number of sessions, lines and products.                         *)
THEOREM TransfersDeadlockFree == Spec => []NoCircularWait
  BY LockAlways, NoCircle, PTL

-----------------------------------------------------------------------------
(* Decisions.                                                              *)

IsWriteOff(w) ==
    w = [disc |-> w.disc, qty |-> w.qty, amount |-> w.amount, role |-> w.role, by |-> w.by, key |-> w.key, status |-> w.status]
IsDisc(d) == d = [line |-> d.line, lost |-> d.lost, cost |-> d.cost, status |-> d.status, finding |-> d.finding]

(* A row's id is the request that wrote it, and that is over.              *)
Fresh ==
    /\ \A w \in DOMAIN writeOff : w \in Requests /\ pc[w] = "done"
    /\ \A d \in DOMAIN disc : d = <<d[1], d[2]>> /\ d[1] \in Requests /\ pc[d[1]] = "done"

(* Foreign keys, and the shape of the rows.                                *)
Referenced ==
    /\ writeOff = [w \in DOMAIN writeOff |-> writeOff[w]] /\ disc = [d \in DOMAIN disc |-> disc[d]]
    /\ \A w \in DOMAIN writeOff : IsWriteOff(writeOff[w]) /\ writeOff[w].disc \in DOMAIN disc
    /\ \A d \in DOMAIN disc : IsDisc(disc[d])
    /\ \A d \in decisions : d.writeOff \in DOMAIN writeOff
    /\ \A e \in entries : e.source \in {"WRITE_OFF", "WRITE_OFF_REVERSAL"} => e.id \in DOMAIN writeOff

(* w waits for a decision on discrepancy d.                                *)
PendingOn(w, d) == w \in DOMAIN writeOff /\ writeOff[w].disc = d /\ writeOff[w].status = "PENDING_APPROVAL"
Posted(source, w) == \E e \in entries : e.source = source /\ e.id = w
Open(d) == disc[d].status = "RESOLVED" /\ disc[d].finding # "VENDOR_CAUSED"

(* The status, the decision and the books agree; an amount that was posted *)
(* is one the journal accepts.                                             *)
Settled(w) ==
    /\ \A d \in decisions : d.writeOff = w => d.by # writeOff[w].by
    /\ writeOff[w].status = "PENDING_APPROVAL" <=> \A d \in decisions : d.writeOff # w
    /\ Posted("WRITE_OFF", w) <=> writeOff[w].status \in {"POSTED", "REVERSED"}
    /\ Posted("WRITE_OFF_REVERSAL", w) <=> writeOff[w].status = "REVERSED"
    /\ writeOff[w].status \in {"POSTED", "REVERSED"} => ~(writeOff[w].amount <= 0)

OneDecision == \A a, b \in decisions : a.writeOff = b.writeOff => a = b
OnePending == \A v, w, d : PendingOn(v, d) /\ PendingOn(w, d) => v = w
Rests == \A w, d : PendingOn(w, d) => Open(d)

Rows ==
    /\ Fresh /\ Referenced /\ OneDecision /\ OnePending /\ Rests
    /\ \A w \in DOMAIN writeOff : Settled(w)

(* What a session found under the locks it holds is still so.              *)
AtInsert(r) ==
    pc[r] = "insert" =>
        LET d == req[r].disc IN
        <<"disc", d>> \in held[r] /\ d \in DOMAIN disc /\ Open(d) /\ \A w : ~PendingOn(w, d)
AtDecide(r) ==
    pc[r] \in {"discrepancy", "line"} /\ req[r].kind \in {"APPROVE", "DENY"} =>
        LET w == req[r].id IN
        /\ <<"writeoff", w>> \in held[r] /\ w \in DOMAIN writeOff /\ writeOff[w].status = "PENDING_APPROVAL"
        /\ req[r].by # writeOff[w].by
AtReverse(r) ==
    pc[r] = "line" /\ req[r].kind = "REVERSE" =>
        LET w == req[r].id IN
        <<"writeoff", w>> \in held[r] /\ w \in DOMAIN writeOff /\ writeOff[w].status = "POSTED"
Sees(r) == AtInsert(r) /\ AtDecide(r) /\ AtReverse(r)

DecisionInv == LockInv /\ Rows /\ \A r \in Requests : Sees(r)

(* Nothing is written off before the first request.                        *)
LEMMA DecisionInit == Init => DecisionInv
<1>. SUFFICES ASSUME Init PROVE DecisionInv
  OBVIOUS
<1>1. LockInv
  BY LockInit
<1>2. DOMAIN writeOff = {} /\ DOMAIN disc = {} /\ decisions = {} /\ entries = {}
  BY DEF Init
<1>3. writeOff = <<>> /\ disc = <<>> /\ <<>> = [x \in {} |-> <<>>[x]]
  BY DEF Init
<1>4. Rows
  BY <1>2, <1>3 DEF Rows, Fresh, Referenced, OneDecision, OnePending, Rests, PendingOn
<1>5. \A r \in Requests : pc[r] = "new"
  BY DEF Init
<1>. QED  BY <1>1, <1>4, <1>5 DEF DecisionInv, Sees, AtInsert, AtDecide, AtReverse

(* The invariant implies the property the run checks.                      *)
LEMMA DecisionImplies == DecisionInv => DecidedOnce
<1>. SUFFICES ASSUME DecisionInv PROVE DecidedOnce
  OBVIOUS
<1>1. ASSUME NEW d \in DOMAIN disc, NEW W, W = WriteOffsOf(d, {"PENDING_APPROVAL"})
      PROVE  Cardinality(W) <= 1 /\ (W # {} => Open(d))
  <2>1. \A w : w \in W <=> PendingOn(w, d)
    BY <1>1 DEF WriteOffsOf, PendingOn
  <2>2. CASE W = {}
    <3>1. Cardinality(W) = 0
      BY <2>2, FS_EmptySet
    <3>. QED  BY <2>2, <3>1
  <2>3. CASE W # {}
    <3>1. PICK w : PendingOn(w, d)
      BY <2>1, <2>3
    <3>2. W = {w}
      BY <2>1, <3>1 DEF DecisionInv, Rows, OnePending
    <3>3. Cardinality(W) = 1
      BY <3>2, FS_Singleton
    <3>4. Open(d)
      BY <3>1 DEF DecisionInv, Rows, Rests
    <3>. QED  BY <3>3, <3>4
  <2>. QED  BY <2>2, <2>3
<1>2. PendingStaysResolved
  BY <1>1 DEF PendingStaysResolved, Open
<1>3. \A a, b \in decisions : a.writeOff = b.writeOff => a = b
  BY DEF DecisionInv, Rows, OneDecision
<1>4. ASSUME NEW w \in DOMAIN writeOff, NEW mine, mine = {d \in decisions : d.writeOff = w}
      PROVE  /\ \A d \in mine : d.by # writeOff[w].by
             /\ (writeOff[w].status = "PENDING_APPROVAL") = (mine = {})
             /\ (\E e \in entries : e.source = "WRITE_OFF" /\ e.id = w) = (writeOff[w].status \in {"POSTED", "REVERSED"})
             /\ (\E e \in entries : e.source = "WRITE_OFF_REVERSAL" /\ e.id = w) = (writeOff[w].status = "REVERSED")
  <2>1. Settled(w)
    BY DEF DecisionInv, Rows
  <2>2. mine = {} <=> \A d \in decisions : d.writeOff # w
    BY <1>4
  <2>3. \A d \in mine : d.by # writeOff[w].by
    BY <2>1, <1>4 DEF Settled
  <2>4. (writeOff[w].status = "PENDING_APPROVAL") = (mine = {})
    BY <2>1, <2>2 DEF Settled
  <2>5. (\E e \in entries : e.source = "WRITE_OFF" /\ e.id = w) = (writeOff[w].status \in {"POSTED", "REVERSED"})
    <3>. DEFINE up == writeOff[w].status \in {"POSTED", "REVERSED"}
    <3>1. Posted("WRITE_OFF", w) <=> up
      BY <2>1 DEF Settled
    <3>2. up \in BOOLEAN
      OBVIOUS
    <3>. HIDE DEF up
    <3>3. (\E e \in entries : e.source = "WRITE_OFF" /\ e.id = w) = up
      BY <3>1, <3>2 DEF Posted
    <3>. QED  BY <3>3 DEF up
  <2>6. (\E e \in entries : e.source = "WRITE_OFF_REVERSAL" /\ e.id = w) = (writeOff[w].status = "REVERSED")
    BY <2>1 DEF Settled, Posted
  <2>. QED  BY <2>3, <2>4, <2>5, <2>6
<1>. QED  BY <1>2, <1>3, <1>4 DEF DecidedOnce

(* The entries of write-offs and of their reversals are those there were.  *)
SameBooks ==
    \A e : e.source \in {"WRITE_OFF", "WRITE_OFF_REVERSAL"} => (e \in entries' <=> e \in entries)
(* A request that is over stays so.                                        *)
StaysDone == \A o \in Requests : pc[o] = "done" => pc'[o] = "done"

(* An entry is of its own source.                                          *)
LEMMA EntrySource ==
    ASSUME NEW source, NEW id, NEW store, NEW debit, NEW credit, NEW amount, NEW e \in Entry(source, id, store, debit, credit, amount)
    PROVE  e.source = source /\ e.id = id /\ ~(amount <= 0)
  BY DEF Entry

(* An accepted amount is posted.                                           *)
LEMMA EntryPosted ==
    ASSUME NEW source, NEW id, NEW store, NEW debit, NEW credit, NEW amount, ~(amount <= 0)
    PROVE  \E e \in Entry(source, id, store, debit, credit, amount) : e.source = source /\ e.id = id
  BY DEF Entry

(* Shipments, cancellations, new transfers and rules leave discrepancies,  *)
(* write-offs and their books alone.                                       *)
LEMMA QuietWrites ==
    ASSUME NEW r \in Requests, CommitTransfer(r) \/ CancelTransfer(r) \/ WriteShip(r) \/ AddRule(r)
    PROVE  UNCHANGED <<disc, writeOff, decisions>> /\ SameBooks
<1>1. CASE CommitTransfer(r)
  BY <1>1 DEF CommitTransfer, SameBooks
<1>2. CASE CancelTransfer(r)
  BY <1>2 DEF CancelTransfer, Return, tables, SameBooks
<1>3. CASE AddRule(r)
  BY <1>3 DEF AddRule, SameBooks
<1>4. CASE WriteShip(r)
  <2>1. UNCHANGED <<disc, writeOff, decisions>>
    BY <1>4, ZenonT(40) DEF WriteShip, Return, tables
  <2>2. PICK v : entries' = entries \/ entries' = entries \cup Entry("SHIP", req[r].transfer, FromStore[req[r].transfer], "IN_TRANSIT", "INVENTORY", v)
    BY <1>4 DEF WriteShip, Return, tables
  <2>3. \A e \in Entry("SHIP", req[r].transfer, FromStore[req[r].transfer], "IN_TRANSIT", "INVENTORY", v) : e.source = "SHIP"
    BY EntrySource
  <2>. QED  BY <2>1, <2>2, <2>3, SMTT(40) DEF SameBooks
<1>. QED  BY <1>1, <1>2, <1>3, <1>4

(* A receipt adds discrepancies of its own and changes no other.           *)
LEMMA ReceiptEffect ==
    ASSUME NEW r \in Requests, WriteReceipt(r), ~Ends(r), Rows
    PROVE  /\ UNCHANGED <<writeOff, decisions>> /\ SameBooks
           /\ disc' = [d \in DOMAIN disc' |-> disc'[d]]
           /\ \A d \in DOMAIN disc : d \in DOMAIN disc' /\ disc'[d] = disc[d]
           /\ \A d \in DOMAIN disc' \ DOMAIN disc : d = <<d[1], d[2]>> /\ d[1] = r
           /\ \A d \in DOMAIN disc' : IsDisc(disc'[d])
<1>. DEFINE new == NewDiscrepancies(r)
            books(v) == Entry("RECEIVE", r, NoOne, "INVENTORY", "IN_TRANSIT", v)
<1>1. UNCHANGED <<writeOff, decisions>> /\ pc[r] = "write"
  BY ReturnEnds DEF WriteReceipt, Is
<1>2. disc' = [d \in DOMAIN disc \cup DOMAIN new |-> IF d \in DOMAIN new THEN new[d] ELSE disc[d]]
  BY ReturnEnds DEF WriteReceipt
<1>3. \E v : entries' = entries \cup books(v)
  BY ReturnEnds DEF WriteReceipt
<1>4. SameBooks
  <2>1. PICK v : entries' = entries \cup books(v)
    BY <1>3
  <2>2. \A e \in books(v) : e.source = "RECEIVE"
    BY EntrySource
  <2>. HIDE DEF books
  <2>. QED  BY <2>1, <2>2 DEF SameBooks
<1>5. \A d \in DOMAIN new : d = <<d[1], d[2]>> /\ d[1] = r
  BY SMTT(40) DEF NewDiscrepancies
<1>6. \A d \in DOMAIN new : IsDisc(new[d])
  BY DEF NewDiscrepancies, IsDisc
<1>7. \A d \in DOMAIN disc : d \notin DOMAIN new /\ IsDisc(disc[d])
  BY <1>1, <1>5 DEF Rows, Fresh, Referenced
<1>. HIDE DEF new
<1>. QED  BY <1>1, <1>2, <1>4, <1>5, <1>6, <1>7, SMTT(40)

(* Updating columns of a row gives a row.                                  *)
LEMMA DiscUpdate ==
    ASSUME NEW x, IsDisc(x), NEW s, NEW f, NEW z, z = [x EXCEPT !.status = s, !.finding = f]
    PROVE  IsDisc(z) /\ z.status = s /\ z.finding = f /\ z.line = x.line
<1>1. z = [line |-> x.line, lost |-> x.lost, cost |-> x.cost, status |-> s, finding |-> f]
  BY DEF IsDisc
<1>. QED  BY <1>1 DEF IsDisc

(* The same for a write-off's status.                                      *)
LEMMA WriteOffUpdate ==
    ASSUME NEW x, IsWriteOff(x), NEW s, NEW z, z = [x EXCEPT !.status = s]
    PROVE  IsWriteOff(z) /\ z.status = s /\ z.disc = x.disc /\ z.by = x.by /\ z.amount = x.amount
<1>1. z = [disc |-> x.disc, qty |-> x.qty, amount |-> x.amount, role |-> x.role, by |-> x.by, key |-> x.key, status |-> s]
  BY DEF IsWriteOff
<1>. QED  BY <1>1 DEF IsWriteOff

(* Investigating or resolving moves one discrepancy that is not resolved   *)
(* and that nobody holds.                                                  *)
LEMMA MoveDiscrepancyEffect ==
    ASSUME NEW r \in Requests, MoveDiscrepancy(r), ~Ends(r), Rows
    PROVE  /\ UNCHANGED <<writeOff, decisions, entries>>
           /\ DOMAIN disc' = DOMAIN disc /\ disc' = [d \in DOMAIN disc' |-> disc'[d]]
           /\ \A d \in DOMAIN disc : IsDisc(disc'[d]) /\ (disc'[d] = disc[d] \/ (Free(<<"disc", d>>, r) /\ ~Open(d)))
<1>. DEFINE q == req[r]
<1>1. /\ Free(<<"disc", q.disc>>, r) /\ UNCHANGED <<writeOff, decisions, entries>>
      /\ q.disc \in DOMAIN disc /\ disc[q.disc].status \in {"RECORDED", "INVESTIGATING"}
  BY ReturnEnds DEF MoveDiscrepancy
<1>2. \E status, finding : SetDisc(q.disc, status, finding)
  BY ReturnEnds DEF MoveDiscrepancy
<1>3. PICK status, finding : disc' = [disc EXCEPT ![q.disc] = [disc[q.disc] EXCEPT !.status = status, !.finding = finding]]
  BY <1>2 DEF SetDisc
<1>4. IsDisc(disc[q.disc]) /\ \A d \in DOMAIN disc : IsDisc(disc[d])
  BY <1>1 DEF Rows, Referenced
<1>5. IsDisc([disc[q.disc] EXCEPT !.status = status, !.finding = finding])
  BY <1>4, DiscUpdate, ZenonT(40)
<1>6. ~Open(q.disc)
  BY <1>1 DEF Open
<1>. HIDE DEF q
<1>. QED  BY <1>1, <1>3, <1>4, <1>5, <1>6

(* A new write-off waits for a decision.                                   *)
LEMMA InsertEffect ==
    ASSUME NEW r \in Requests, InsertWriteOff(r), ~Ends(r), Rows
    PROVE  /\ pc[r] = "insert" /\ r \notin DOMAIN writeOff /\ UNCHANGED <<disc, decisions, entries>>
           /\ DOMAIN writeOff' = DOMAIN writeOff \cup {r} /\ writeOff' = [w \in DOMAIN writeOff' |-> writeOff'[w]]
           /\ \A w \in DOMAIN writeOff : writeOff'[w] = writeOff[w]
           /\ IsWriteOff(writeOff'[r]) /\ writeOff'[r].disc = req[r].disc /\ writeOff'[r].status = "PENDING_APPROVAL"
<1>. DEFINE q == req[r]
            row == [disc |-> q.disc, qty |-> q.qty, amount |-> Value(q.qty, disc[q.disc].cost), role |-> tx[r].role, by |-> q.by,
                    key |-> q.key, status |-> "PENDING_APPROVAL"]
<1>1. pc[r] = "insert" /\ UNCHANGED <<disc, decisions, entries>> /\ writeOff' = With(writeOff, r, row)
  BY ReturnEnds DEF InsertWriteOff, Is
<1>2. r \notin DOMAIN writeOff
  BY <1>1 DEF Rows, Fresh
<1>3. IsWriteOff(row) /\ row.disc = q.disc /\ row.status = "PENDING_APPROVAL"
  BY DEF IsWriteOff
<1>. HIDE DEF row
<1>4. writeOff' = [w \in DOMAIN writeOff \cup {r} |-> IF w = r THEN row ELSE writeOff[w]]
  BY <1>1 DEF With
<1>5. /\ DOMAIN writeOff' = DOMAIN writeOff \cup {r} /\ writeOff' = [w \in DOMAIN writeOff' |-> writeOff'[w]]
      /\ writeOff'[r] = row /\ \A w \in DOMAIN writeOff : writeOff'[w] = writeOff[w]
  BY <1>2, <1>4
<1>. QED  BY <1>1, <1>2, <1>3, <1>5

(* A decision changes the status of one write-off and nothing else of it.  *)
LEMMA DecideEffect ==
    ASSUME Rows, NEW w \in DOMAIN writeOff, NEW s, Decide(w, s)
    PROVE  /\ DOMAIN writeOff' = DOMAIN writeOff /\ writeOff' = [v \in DOMAIN writeOff' |-> writeOff'[v]]
           /\ \A v \in DOMAIN writeOff \ {w} : writeOff'[v] = writeOff[v]
           /\ \A v \in DOMAIN writeOff : IsWriteOff(writeOff'[v]) /\ writeOff'[v].disc = writeOff[v].disc
           /\ writeOff'[w].status = s /\ writeOff'[w].by = writeOff[w].by /\ writeOff'[w].amount = writeOff[w].amount
<1>1. IsWriteOff(writeOff[w]) /\ \A v \in DOMAIN writeOff : IsWriteOff(writeOff[v])
  BY DEF Rows, Referenced
<1>2. PICK z : z = [writeOff[w] EXCEPT !.status = s]
  OBVIOUS
<1>3. IsWriteOff(z) /\ z.status = s /\ z.disc = writeOff[w].disc /\ z.by = writeOff[w].by /\ z.amount = writeOff[w].amount
  BY <1>1, <1>2, WriteOffUpdate
<1>4. writeOff' = [writeOff EXCEPT ![w] = z]
  BY <1>2 DEF Decide
<1>. QED  BY <1>1, <1>3, <1>4 DEF Rows, Referenced

(* What the rows say of a write-off that a step does not concern.          *)
LEMMA OtherSettled ==
    ASSUME NEW v, Settled(v), writeOff'[v] = writeOff[v],
           \A d : d.writeOff = v => (d \in decisions' <=> d \in decisions),
           \A e : e.id = v /\ e.source \in {"WRITE_OFF", "WRITE_OFF_REVERSAL"} => (e \in entries' <=> e \in entries)
    PROVE  Settled(v)'
<1>1. Posted("WRITE_OFF", v)' <=> Posted("WRITE_OFF", v)
  BY DEF Posted
<1>2. Posted("WRITE_OFF_REVERSAL", v)' <=> Posted("WRITE_OFF_REVERSAL", v)
  BY DEF Posted
<1>3. (\A d \in decisions' : d.writeOff # v) <=> (\A d \in decisions : d.writeOff # v)
  OBVIOUS
<1>4. \A d \in decisions' : d.writeOff = v => d \in decisions
  OBVIOUS
<1>. QED  BY <1>1, <1>2, <1>3, <1>4 DEF Settled

(* A session that does not step still sees what it saw, if the rows it     *)
(* holds are the same and no write-off was requested on a discrepancy it   *)
(* holds.                                                                  *)
LEMMA OtherSees ==
    ASSUME NEW o \in Requests, Sees(o), pc'[o] = pc[o], req'[o] = req[o], held'[o] = held[o],
           \A d \in DOMAIN disc : <<"disc", d>> \in held[o] =>
               /\ d \in DOMAIN disc' /\ disc'[d] = disc[d]
               /\ \A w : PendingOn(w, d)' => PendingOn(w, d),
           \A w \in DOMAIN writeOff : <<"writeoff", w>> \in held[o] => w \in DOMAIN writeOff' /\ writeOff'[w] = writeOff[w]
    PROVE  Sees(o)'
<1>1. AtInsert(o)'
  <2>. SUFFICES ASSUME pc[o] = "insert"
                PROVE  /\ <<"disc", req[o].disc>> \in held[o] /\ req[o].disc \in DOMAIN disc'
                       /\ disc'[req[o].disc].status = "RESOLVED" /\ disc'[req[o].disc].finding # "VENDOR_CAUSED"
                       /\ \A w : ~PendingOn(w, req[o].disc)'
    BY DEF AtInsert, Open, PendingOn
  <2>1. /\ <<"disc", req[o].disc>> \in held[o] /\ req[o].disc \in DOMAIN disc /\ Open(req[o].disc)
        /\ \A w : ~PendingOn(w, req[o].disc)
    BY DEF Sees, AtInsert
  <2>2. \A w : ~PendingOn(w, req[o].disc)'
    BY <2>1 DEF PendingOn
  <2>. QED  BY <2>1, <2>2 DEF Open
<1>2. AtDecide(o)'
  BY DEF Sees, AtDecide
<1>3. AtReverse(o)'
  BY DEF Sees, AtReverse
<1>. QED  BY <1>1, <1>2, <1>3 DEF Sees

(* Rows that no write-off depends on may change; new discrepancies may     *)
(* come, and one that is open for write-offs stays as it is.               *)
LEMMA RowsSame ==
    ASSUME Rows, StaysDone, UNCHANGED <<writeOff, decisions>>, SameBooks,
           disc' = [d \in DOMAIN disc' |-> disc'[d]], DOMAIN disc \subseteq DOMAIN disc',
           \A d \in DOMAIN disc' : IsDisc(disc'[d]),
           \A d \in DOMAIN disc' \ DOMAIN disc : d = <<d[1], d[2]>> /\ d[1] \in Requests /\ pc'[d[1]] = "done",
           \A d \in DOMAIN disc : Open(d) => disc'[d] = disc[d]
    PROVE  Rows'
<1>1. \A w, d : PendingOn(w, d)' <=> PendingOn(w, d)
  BY DEF PendingOn
<1>2. Fresh'
  BY DEF Rows, Fresh, StaysDone
<1>3. Referenced'
  BY DEF Rows, Referenced, SameBooks
<1>4. OneDecision' /\ OnePending'
  BY <1>1 DEF Rows, OneDecision, OnePending
<1>5. Rests'
  <2>. SUFFICES ASSUME NEW w, NEW d, PendingOn(w, d) PROVE Open(d)'
    BY <1>1 DEF Rests
  <2>1. Open(d) /\ d \in DOMAIN disc
    BY DEF Rows, Rests, PendingOn, Referenced
  <2>. QED  BY <2>1 DEF Open
<1>6. \A w \in DOMAIN writeOff' : Settled(w)'
  BY OtherSettled DEF Rows, SameBooks
<1>. QED  BY <1>2, <1>3, <1>4, <1>5, <1>6 DEF Rows

(* A new write-off on an open discrepancy without a pending one.           *)
LEMMA RowsInsert ==
    ASSUME Rows, StaysDone, NEW r \in Requests, InsertWriteOff(r), ~Ends(r), AtInsert(r), pc'[r] = "done"
    PROVE  Rows'
<1>1. /\ pc[r] = "insert" /\ r \notin DOMAIN writeOff /\ UNCHANGED <<disc, decisions, entries>>
      /\ DOMAIN writeOff' = DOMAIN writeOff \cup {r} /\ writeOff' = [w \in DOMAIN writeOff' |-> writeOff'[w]]
      /\ \A w \in DOMAIN writeOff : writeOff'[w] = writeOff[w]
      /\ IsWriteOff(writeOff'[r]) /\ writeOff'[r].disc = req[r].disc /\ writeOff'[r].status = "PENDING_APPROVAL"
  BY InsertEffect
<1>2. req[r].disc \in DOMAIN disc /\ Open(req[r].disc) /\ \A w : ~PendingOn(w, req[r].disc)
  BY <1>1 DEF AtInsert
<1>3. \A w, d : PendingOn(w, d)' <=> PendingOn(w, d) \/ (w = r /\ d = req[r].disc)
  BY <1>1 DEF PendingOn
<1>4. Fresh'
  BY <1>1 DEF Rows, Fresh, StaysDone
<1>5. Referenced'
  BY <1>1, <1>2 DEF Rows, Referenced
<1>6. OneDecision' /\ OnePending'
  BY <1>1, <1>2, <1>3 DEF Rows, OneDecision, OnePending
<1>7. Rests'
  BY <1>1, <1>2, <1>3 DEF Rows, Rests, Open
<1>8. ASSUME NEW w \in DOMAIN writeOff' PROVE Settled(w)'
  <2>1. CASE w = r
    <3>1. \A d \in decisions : d.writeOff # r
      BY <1>1 DEF Rows, Referenced
    <3>2. \A e \in entries : e.source \in {"WRITE_OFF", "WRITE_OFF_REVERSAL"} => e.id # r
      BY <1>1 DEF Rows, Referenced
    <3>. QED  BY <1>1, <2>1, <3>1, <3>2 DEF Settled, Posted
  <2>2. CASE w # r
    BY <1>1, <2>2, OtherSettled DEF Rows
  <2>. QED  BY <2>1, <2>2
<1>. QED  BY <1>4, <1>5, <1>6, <1>7, <1>8 DEF Rows

(* A denial takes the pending write-off of a discrepancy and reopens it.   *)
LEMMA RowsDeny ==
    ASSUME Rows, StaysDone, NEW r \in Requests, DenyWriteOff(r), ~Ends(r), AtDecide(r)
    PROVE  /\ Rows' /\ DOMAIN disc' = DOMAIN disc /\ DOMAIN writeOff' = DOMAIN writeOff
           /\ Free(<<"disc", writeOff[req[r].id].disc>>, r)
           /\ \A d \in DOMAIN disc : d # writeOff[req[r].id].disc => disc'[d] = disc[d]
           /\ \A w, d : PendingOn(w, d)' => PendingOn(w, d)
           /\ \A w \in DOMAIN writeOff : w # req[r].id => writeOff'[w] = writeOff[w]
<1>. DEFINE w == req[r].id
            d == writeOff[w].disc
            new == [writeOff |-> w, by |-> req[r].by, decision |-> "DENIED"]
<1>1. /\ pc[r] = "discrepancy" /\ req[r].kind = "DENY" /\ Free(<<"disc", d>>, r)
      /\ Decide(w, "DENIED") /\ decisions' = decisions \cup {new} /\ UNCHANGED entries
      /\ SetDisc(d, "INVESTIGATING", NoOne)
  BY ReturnEnds DEF DenyWriteOff, Is, Decision
<1>2. w \in DOMAIN writeOff /\ writeOff[w].status = "PENDING_APPROVAL" /\ req[r].by # writeOff[w].by
  BY <1>1 DEF AtDecide
<1>3. /\ DOMAIN writeOff' = DOMAIN writeOff /\ writeOff' = [v \in DOMAIN writeOff' |-> writeOff'[v]]
      /\ \A v \in DOMAIN writeOff \ {w} : writeOff'[v] = writeOff[v]
      /\ \A v \in DOMAIN writeOff : IsWriteOff(writeOff'[v]) /\ writeOff'[v].disc = writeOff[v].disc
      /\ writeOff'[w].status = "DENIED" /\ writeOff'[w].by = writeOff[w].by /\ writeOff'[w].amount = writeOff[w].amount
  <2>. HIDE DEF w
  <2>. QED  BY <1>1, <1>2, DecideEffect
<1>4. d \in DOMAIN disc /\ IsDisc(disc[d]) /\ PendingOn(w, d)
  BY <1>2 DEF Rows, Referenced, PendingOn
<1>5. /\ DOMAIN disc' = DOMAIN disc /\ disc' = [x \in DOMAIN disc' |-> disc'[x]] /\ \A x \in DOMAIN disc : IsDisc(disc'[x])
      /\ \A x \in DOMAIN disc : x # d => disc'[x] = disc[x]
  <2>0. PICK y, s : y = disc[d] /\ s = "INVESTIGATING"
    OBVIOUS
  <2>1. PICK z : z = [y EXCEPT !.status = s, !.finding = NoOne]
    OBVIOUS
  <2>2. IsDisc(z)
    <3>1. IsDisc(y)
      BY <1>4, <2>0
    <3>. QED  BY ONLY <2>1, <3>1, DiscUpdate
  <2>3. disc' = [disc EXCEPT ![d] = z]
    BY <1>1, <2>0, <2>1 DEF SetDisc
  <2>4. \A x \in DOMAIN disc : IsDisc(disc[x])
    BY DEF Rows, Referenced
  <2>. HIDE DEF d
  <2>. QED  BY <2>2, <2>3, <2>4 DEF Rows, Referenced
<1>6. \A d0 \in decisions : d0.writeOff # w
  BY <1>2 DEF Rows, Settled
<1>7. new.writeOff = w /\ new.by = req[r].by
  OBVIOUS
<1>. HIDE DEF w, d, new
<1>8. \A v, x : PendingOn(v, x)' <=> PendingOn(v, x) /\ v # w
  BY <1>2, <1>3 DEF PendingOn
<1>9. \A v, x : PendingOn(v, x)' => x # d
  BY <1>4, <1>8 DEF Rows, OnePending
<1>10. Fresh'
  BY <1>3, <1>5 DEF Rows, Fresh, StaysDone
<1>11. Referenced'
  BY <1>1, <1>2, <1>3, <1>5, <1>7 DEF Rows, Referenced
<1>12. OneDecision'
  BY <1>1, <1>6, <1>7 DEF Rows, OneDecision
<1>13. OnePending'
  BY <1>8 DEF Rows, OnePending
<1>14. Rests'
  <2>. SUFFICES ASSUME NEW v, NEW x, PendingOn(v, x)' PROVE Open(x)'
    BY DEF Rests
  <2>1. x # d /\ PendingOn(v, x)
    BY <1>8, <1>9
  <2>2. x \in DOMAIN disc /\ Open(x)
    BY <2>1 DEF Rows, Rests, Referenced, PendingOn
  <2>. QED  BY <1>5, <2>1, <2>2 DEF Open
<1>15. ASSUME NEW v \in DOMAIN writeOff' PROVE Settled(v)'
  <2>0. Settled(v)
    BY <1>3 DEF Rows
  <2>1. CASE v = w
    <3>1. ~Posted("WRITE_OFF", w) /\ ~Posted("WRITE_OFF_REVERSAL", w)
      BY <1>2, <2>0, <2>1 DEF Settled
    <3>. QED  BY <1>1, <1>2, <1>3, <1>6, <1>7, <2>1, <3>1 DEF Settled, Posted
  <2>2. CASE v # w
    BY <1>1, <1>3, <1>7, <2>0, <2>2, OtherSettled
  <2>. QED  BY <2>1, <2>2
<1>16. Rows'
  BY <1>10, <1>11, <1>12, <1>13, <1>14, <1>15 DEF Rows
<1>. QED  BY <1>1, <1>3, <1>5, <1>8, <1>16 DEF w, d

(* An approval or a reversal of a write-off: its status, its entry and, of *)
(* an approval, its decision.                                              *)
LEMMA RowsPost ==
    ASSUME Rows, StaysDone, UNCHANGED disc, NEW w \in DOMAIN writeOff,
           NEW source, NEW s, NEW more,
           Decide(w, s), ~(writeOff[w].amount <= 0),
           \/ /\ source = "WRITE_OFF" /\ s = "POSTED" /\ writeOff[w].status = "PENDING_APPROVAL"
              /\ \E d : decisions' = decisions \cup {d} /\ d.writeOff = w /\ d.by # writeOff[w].by
           \/ source = "WRITE_OFF_REVERSAL" /\ s = "REVERSED" /\ writeOff[w].status = "POSTED" /\ decisions' = decisions,
           entries' = entries \cup more,
           \A e \in more : e.source = source /\ e.id = w, \E e \in more : e.source = source /\ e.id = w
    PROVE  /\ Rows' /\ DOMAIN writeOff' = DOMAIN writeOff
           /\ \A v, x : PendingOn(v, x)' => PendingOn(v, x)
           /\ \A v \in DOMAIN writeOff : v # w => writeOff'[v] = writeOff[v]
<1>1. /\ DOMAIN writeOff' = DOMAIN writeOff /\ writeOff' = [v \in DOMAIN writeOff' |-> writeOff'[v]]
      /\ \A v \in DOMAIN writeOff \ {w} : writeOff'[v] = writeOff[v]
      /\ \A v \in DOMAIN writeOff : IsWriteOff(writeOff'[v]) /\ writeOff'[v].disc = writeOff[v].disc
      /\ writeOff'[w].status = s /\ writeOff'[w].by = writeOff[w].by /\ writeOff'[w].amount = writeOff[w].amount
  BY DecideEffect
<1>2. s \in {"POSTED", "REVERSED"} /\ source \in {"WRITE_OFF", "WRITE_OFF_REVERSAL"}
  OBVIOUS
<1>3. \A v, x : PendingOn(v, x)' => PendingOn(v, x)
  BY <1>1, <1>2 DEF PendingOn
<1>4. Settled(w)
  BY DEF Rows
<1>5. Fresh'
  BY <1>1 DEF Rows, Fresh, StaysDone
<1>6. \A d \in decisions' : d \in decisions \/ d.writeOff = w
  OBVIOUS
<1>7. Referenced'
  BY <1>1, <1>6 DEF Rows, Referenced
<1>8. OneDecision'
  BY <1>4 DEF Rows, OneDecision, Settled
<1>9. OnePending' /\ Rests'
  BY <1>3 DEF Rows, OnePending, Rests, Open
<1>10. ASSUME NEW v \in DOMAIN writeOff' PROVE Settled(v)'
  <2>0. Settled(v)
    BY <1>1 DEF Rows
  <2>1. CASE v # w
    <3>1. \A d : d.writeOff = v => (d \in decisions' <=> d \in decisions)
      BY <1>6, <2>1
    <3>2. \A e : e.id = v => (e \in entries' <=> e \in entries)
      BY <2>1
    <3>. QED  BY <1>1, <2>0, <2>1, <3>1, <3>2, OtherSettled
  <2>2. CASE v = w /\ s = "POSTED"
    <3>1. PICK d : decisions' = decisions \cup {d} /\ d.writeOff = w /\ d.by # writeOff[w].by
      BY <2>2
    <3>2. source = "WRITE_OFF" /\ writeOff[w].status = "PENDING_APPROVAL"
      BY <2>2
    <3>3. \A x \in decisions : x.writeOff # w
      BY <1>4, <3>2 DEF Settled
    <3>4. Posted("WRITE_OFF", w)'
      BY <3>2 DEF Posted
    <3>5. ~Posted("WRITE_OFF_REVERSAL", w)'
      BY <1>4, <3>2 DEF Settled, Posted
    <3>. QED  BY <1>1, <2>2, <3>1, <3>3, <3>4, <3>5 DEF Settled
  <2>3. CASE v = w /\ s = "REVERSED"
    <3>1. source = "WRITE_OFF_REVERSAL" /\ writeOff[w].status = "POSTED" /\ decisions' = decisions
      BY <2>3
    <3>2. Posted("WRITE_OFF_REVERSAL", w)'
      BY <3>1 DEF Posted
    <3>3. Posted("WRITE_OFF", w)'
      BY <1>4, <3>1 DEF Settled, Posted
    <3>. QED  BY <1>1, <1>4, <2>3, <3>1, <3>2, <3>3 DEF Settled
  <2>. QED  BY <1>2, <2>1, <2>2, <2>3
<1>. QED  BY <1>1, <1>3, <1>5, <1>7, <1>8, <1>9, <1>10 DEF Rows

(* approve_write_off.                                                      *)
LEMMA RowsApprove ==
    ASSUME Rows, StaysDone, NEW r \in Requests, ApproveWriteOff(r), ~Ends(r), AtDecide(r)
    PROVE  /\ Rows' /\ UNCHANGED disc /\ DOMAIN writeOff' = DOMAIN writeOff
           /\ \A v, x : PendingOn(v, x)' => PendingOn(v, x)
           /\ \A v \in DOMAIN writeOff : v # req[r].id => writeOff'[v] = writeOff[v]
<1>. DEFINE w == req[r].id
            l == disc[writeOff[w].disc].line
            new == [writeOff |-> w, by |-> req[r].by, decision |-> "APPROVED"]
            more == Entry("WRITE_OFF", w, FromStore[LineTransfer[l]], "SHRINKAGE", "IN_TRANSIT", writeOff[w].amount)
<1>1. /\ pc[r] = "line" /\ req[r].kind = "APPROVE" /\ UNCHANGED disc /\ ~(writeOff[w].amount <= 0)
      /\ Decide(w, "POSTED") /\ decisions' = decisions \cup {new} /\ entries' = entries \cup more
  BY ReturnEnds DEF ApproveWriteOff, Is, Decision
<1>2. w \in DOMAIN writeOff /\ writeOff[w].status = "PENDING_APPROVAL" /\ req[r].by # writeOff[w].by
  BY <1>1 DEF AtDecide
<1>3. new.writeOff = w /\ new.by # writeOff[w].by
  BY <1>2, SMTT(40)
<1>4. (\A e \in more : e.source = "WRITE_OFF" /\ e.id = w) /\ (\E e \in more : e.source = "WRITE_OFF" /\ e.id = w)
  <2>. DEFINE n == writeOff[w].amount
  <2>0. ~(n <= 0)
    BY <1>1
  <2>. HIDE DEF n, w
  <2>1. \A e \in more : e.source = "WRITE_OFF" /\ e.id = w
    BY ONLY EntrySource DEF more
  <2>2. \E e \in more : e.source = "WRITE_OFF" /\ e.id = w
    BY ONLY <2>0, EntryPosted DEF more, n
  <2>. QED  BY <2>1, <2>2
<1>. HIDE DEF w, new, more
<1>5. /\ Rows' /\ DOMAIN writeOff' = DOMAIN writeOff
      /\ \A v, x : PendingOn(v, x)' => PendingOn(v, x)
      /\ \A v \in DOMAIN writeOff : v # w => writeOff'[v] = writeOff[v]
  BY <1>1, <1>2, <1>3, <1>4, RowsPost, SMTT(40)
<1>. QED  BY <1>1, <1>5, SMTT(40) DEF w

(* reverse_write_off.                                                      *)
LEMMA RowsReverse ==
    ASSUME Rows, StaysDone, NEW r \in Requests, ReverseWriteOff(r), ~Ends(r), AtReverse(r)
    PROVE  /\ Rows' /\ UNCHANGED disc /\ DOMAIN writeOff' = DOMAIN writeOff
           /\ \A v, x : PendingOn(v, x)' => PendingOn(v, x)
           /\ \A v \in DOMAIN writeOff : v # req[r].id => writeOff'[v] = writeOff[v]
<1>. DEFINE w == req[r].id
            l == disc[writeOff[w].disc].line
            more == Entry("WRITE_OFF_REVERSAL", w, FromStore[LineTransfer[l]], "IN_TRANSIT", "SHRINKAGE", writeOff[w].amount)
<1>1. /\ pc[r] = "line" /\ req[r].kind = "REVERSE" /\ UNCHANGED <<disc, decisions>>
      /\ Decide(w, "REVERSED") /\ entries' = entries \cup more
  BY ReturnEnds DEF ReverseWriteOff, Is
<1>2. w \in DOMAIN writeOff /\ writeOff[w].status = "POSTED" /\ ~(writeOff[w].amount <= 0)
  BY <1>1, SMTT(40) DEF AtReverse, Rows, Settled
<1>4. (\A e \in more : e.source = "WRITE_OFF_REVERSAL" /\ e.id = w) /\ (\E e \in more : e.source = "WRITE_OFF_REVERSAL" /\ e.id = w)
  <2>. DEFINE n == writeOff[w].amount
  <2>0. ~(n <= 0)
    BY <1>2
  <2>. HIDE DEF n, w
  <2>1. \A e \in more : e.source = "WRITE_OFF_REVERSAL" /\ e.id = w
    BY ONLY EntrySource DEF more
  <2>2. \E e \in more : e.source = "WRITE_OFF_REVERSAL" /\ e.id = w
    BY ONLY <2>0, EntryPosted DEF more, n
  <2>. QED  BY <2>1, <2>2
<1>. HIDE DEF w, more
<1>5. /\ Rows' /\ DOMAIN writeOff' = DOMAIN writeOff
      /\ \A v, x : PendingOn(v, x)' => PendingOn(v, x)
      /\ \A v \in DOMAIN writeOff : v # w => writeOff'[v] = writeOff[v]
  BY <1>1, <1>2, <1>4, RowsPost
<1>. QED  BY <1>1, <1>5 DEF w

(* The sessions other than r are as they were.                             *)
Aside(r) == \A o \in Requests \ {r} : pc'[o] = pc[o] /\ req'[o] = req[o] /\ held'[o] = held[o]

(* A step begins a session, ends it, or moves it on, and no other session. *)
LEMMA Frame ==
    ASSUME LockInv, NEW r \in Requests, Submit(r) \/ Step(r) \/ Fail(r)
    PROVE  Aside(r) /\ StaysDone
<1>0. Shape
  BY DEF LockInv
<1>1. CASE Submit(r)
  BY <1>0, <1>1 DEF Submit, Aside, StaysDone, Shape
<1>2. CASE Over(r)
  BY <1>0, <1>2 DEF Over, Aside, StaysDone, Shape
<1>3. ASSUME NEW label, NEW rows, Moves(r, label, rows), pc[r] # "done" PROVE Aside(r) /\ StaysDone
  BY <1>0, <1>3 DEF Moves, Aside, StaysDone, Shape
<1>4. CASE Begins(r)
  BY <1>3, <1>4 DEF Begins
<1>5. CASE LockTransfer(r) /\ ~Ends(r)
  BY <1>3, <1>5, LockTransferEffect
<1>6. CASE LockProduct(r)
  <2>1. \E label, rows : Moves(r, label, rows) /\ pc[r] = "products"
    BY <1>6 DEF LockProduct, Is, Take, Goto, Moves
  <2>. QED  BY <1>3, <2>1
<1>10. CASE ShareProduct(r)
  BY <1>3, <1>10, ShareEffect
<1>7. CASE RequestWriteOff(r) /\ ~Ends(r)
  BY <1>3, <1>7, RequestEffect
<1>8. CASE LockWriteOff(r) /\ ~Ends(r)
  BY <1>3, <1>8, LockWriteOffEffect
<1>9. CASE LockDiscrepancy(r) /\ ~Ends(r)
  BY <1>3, <1>9, LockDiscrepancyEffect
<1>. QED  BY <1>0, <1>1, <1>2, <1>4, <1>5, <1>6, <1>7, <1>8, <1>9, <1>10, Cases DEF Ends

(* A step that writes nothing keeps the invariant if r sees what it found. *)
LEMMA QuietKeeps ==
    ASSUME DecisionInv, LockInv', NEW r \in Requests, Aside(r), StaysDone, UNCHANGED tables, Sees(r)'
    PROVE  DecisionInv'
<1>1. UNCHANGED <<writeOff, disc, decisions, entries>>
  BY DEF tables
<1>2. Rows'
  <2>1. /\ SameBooks /\ disc' = [d \in DOMAIN disc' |-> disc'[d]]
        /\ \A d \in DOMAIN disc' : IsDisc(disc'[d])
    BY <1>1 DEF SameBooks, DecisionInv, Rows, Referenced
  <2>. QED  BY <1>1, <2>1, RowsSame DEF DecisionInv
<1>3. ASSUME NEW o \in Requests \ {r} PROVE Sees(o)'
  <2>1. \A w, d : PendingOn(w, d)' <=> PendingOn(w, d)
    BY <1>1 DEF PendingOn
  <2>2. Sees(o) /\ pc'[o] = pc[o] /\ req'[o] = req[o] /\ held'[o] = held[o]
    BY DEF DecisionInv, Aside
  <2>. QED  BY <1>1, <2>1, <2>2, OtherSees
<1>. QED  BY <1>2, <1>3 DEF DecisionInv

(* The steps that lock: what a session sees under its new lock.            *)
LEMMA LocksSee ==
    ASSUME DecisionInv, NEW r \in Requests,
           \/ Submit(r) \/ Ends(r) \/ Begins(r) \/ (LockTransfer(r) /\ ~Ends(r)) \/ LockProduct(r) \/ ShareProduct(r)
           \/ (RequestWriteOff(r) /\ ~Ends(r)) \/ (LockWriteOff(r) /\ ~Ends(r)) \/ (LockDiscrepancy(r) /\ ~Ends(r))
    PROVE  UNCHANGED tables /\ Sees(r)'
<1>0. Shape /\ LockInv /\ Sees(r)
  BY DEF DecisionInv, LockInv
<1>1. ASSUME pc'[r] \in {"begin", "keys", "done", "header", "products", "write", "writeoff"} \/ (pc'[r] = "discrepancy" /\ req'[r].kind = "WRITEOFF")
      PROVE  Sees(r)'
  BY <1>1 DEF Sees, AtInsert, AtDecide, AtReverse
<1>2. CASE Submit(r)
  BY <1>0, <1>1, <1>2 DEF Submit, Shape
<1>3. CASE Ends(r)
  BY <1>0, <1>1, <1>3 DEF Ends, Over, Shape
<1>4. ASSUME NEW label, NEW rows, Moves(r, label, rows)
      PROVE  /\ UNCHANGED tables /\ UNCHANGED <<writeOff, disc>>
             /\ pc'[r] = label /\ req'[r] = req[r] /\ held'[r] = held[r] \cup rows
  BY <1>0, <1>4, MovedSession DEF Moves, tables
<1>5. CASE Begins(r)
  BY <1>1, <1>4, <1>5 DEF Begins
<1>6. CASE LockTransfer(r) /\ ~Ends(r)
  BY <1>1, <1>4, <1>6, LockTransferEffect
<1>7. CASE LockProduct(r)
  <2>1. \E label, rows : Moves(r, label, rows) /\ label \in {"write", "products"}
    BY <1>7 DEF LockProduct, Is, Take, Goto, Moves
  <2>. QED  BY <1>1, <1>4, <2>1
<1>11. CASE ShareProduct(r)
  BY <1>1, <1>4, <1>11, ShareEffect
<1>8. CASE RequestWriteOff(r) /\ ~Ends(r)
  <2>. DEFINE d == req[r].disc
  <2>1. /\ Moves(r, "insert", {<<"disc", d>>})
        /\ d \in DOMAIN disc /\ disc[d].status = "RESOLVED" /\ disc[d].finding # "VENDOR_CAUSED"
        /\ WriteOffsOf(d, {"PENDING_APPROVAL"}) = {}
    BY <1>8, RequestEffect
  <2>2. /\ UNCHANGED tables /\ UNCHANGED <<writeOff, disc>>
        /\ pc'[r] = "insert" /\ req'[r] = req[r] /\ held'[r] = held[r] \cup {<<"disc", d>>}
    BY <2>1, <1>4
  <2>3. \A w : ~PendingOn(w, d)
    BY <2>1 DEF WriteOffsOf, PendingOn
  <2>4. \A w : ~PendingOn(w, d)'
    BY <2>2, <2>3 DEF PendingOn
  <2>5. AtInsert(r)'
    BY <2>1, <2>2, <2>4 DEF AtInsert, Open
  <2>. QED  BY <2>2, <2>5 DEF Sees, AtDecide, AtReverse
<1>9. CASE LockWriteOff(r) /\ ~Ends(r)
  <2>. DEFINE w == req[r].id
  <2>1. /\ req[r].kind \in {"APPROVE", "DENY", "REVERSE"} /\ w \in DOMAIN writeOff
        /\ req[r].kind = "REVERSE" => writeOff[w].status = "POSTED" /\ Moves(r, "line", {<<"writeoff", w>>})
        /\ req[r].kind # "REVERSE" => /\ writeOff[w].status = "PENDING_APPROVAL" /\ MayDecide(req[r].by, w)
                                      /\ Moves(r, "discrepancy", {<<"writeoff", w>>})
    BY <1>9, LockWriteOffEffect
  <2>2. CASE req[r].kind = "REVERSE"
    <3>1. /\ UNCHANGED tables /\ UNCHANGED <<writeOff, disc>>
          /\ pc'[r] = "line" /\ req'[r] = req[r] /\ held'[r] = held[r] \cup {<<"writeoff", w>>}
      BY <2>1, <2>2, <1>4
    <3>. QED  BY <2>1, <2>2, <3>1 DEF Sees, AtInsert, AtDecide, AtReverse
  <2>3. CASE req[r].kind # "REVERSE"
    <3>1. /\ UNCHANGED tables /\ UNCHANGED <<writeOff, disc>>
          /\ pc'[r] = "discrepancy" /\ req'[r] = req[r] /\ held'[r] = held[r] \cup {<<"writeoff", w>>}
      BY <2>1, <2>3, <1>4
    <3>. QED  BY <2>1, <2>3, <3>1 DEF Sees, AtInsert, AtDecide, AtReverse, MayDecide
  <2>. QED  BY <2>2, <2>3
<1>10. CASE LockDiscrepancy(r) /\ ~Ends(r)
  <2>1. /\ pc[r] = "discrepancy" /\ req[r].kind = "APPROVE"
        /\ Moves(r, "line", {<<"disc", writeOff[req[r].id].disc>>})
    BY <1>10, LockDiscrepancyEffect
  <2>2. /\ UNCHANGED tables /\ UNCHANGED <<writeOff, disc>>
        /\ pc'[r] = "line" /\ req'[r] = req[r] /\ held'[r] = held[r] \cup {<<"disc", writeOff[req[r].id].disc>>}
    BY <2>1, <1>4
  <2>. QED  BY <1>0, <2>1, <2>2 DEF Sees, AtInsert, AtDecide, AtReverse
<1>. QED  BY <1>2, <1>3, <1>5, <1>6, <1>7, <1>8, <1>9, <1>10, <1>11

(* The steps that write: what the others see is locked, so it stays.       *)
LEMMA WritesKeep ==
    ASSUME DecisionInv, LockInv', NEW r \in Requests, Aside(r), StaysDone, Writes(r), ~Ends(r), Over(r)
    PROVE  DecisionInv'
<1>0. Rows /\ Exclusive /\ Sees(r) /\ pc'[r] = "done" /\ \A o \in Requests \ {r} : Sees(o)
  BY DEF DecisionInv, LockInv, Shape, Over
<1>1. Sees(r)'
  BY <1>0 DEF Sees, AtInsert, AtDecide, AtReverse
<1>2. ASSUME Rows',
             \A o \in Requests \ {r} : \A d \in DOMAIN disc : <<"disc", d>> \in held[o] =>
                 d \in DOMAIN disc' /\ disc'[d] = disc[d] /\ \A w : PendingOn(w, d)' => PendingOn(w, d),
             \A o \in Requests \ {r} : \A w \in DOMAIN writeOff : <<"writeoff", w>> \in held[o] =>
                 w \in DOMAIN writeOff' /\ writeOff'[w] = writeOff[w]
      PROVE  DecisionInv'
  <2>1. ASSUME NEW o \in Requests \ {r} PROVE Sees(o)'
    <3>1. Sees(o) /\ pc'[o] = pc[o] /\ req'[o] = req[o] /\ held'[o] = held[o]
      BY <1>0 DEF Aside
    <3>. QED  BY <1>2, <3>1, OtherSees
  <2>. QED  BY <1>1, <1>2, <2>1 DEF DecisionInv
<1>3. ASSUME UNCHANGED writeOff PROVE \A w, d : PendingOn(w, d)' <=> PendingOn(w, d)
  BY <1>3 DEF PendingOn
<1>4. ASSUME NEW row, row \in held[r], row[1] # "share", NEW o \in Requests \ {r} PROVE row \notin held[o]
  BY <1>0, <1>4 DEF Exclusive, Shared
<1>5. ASSUME NEW row, Free(row, r), NEW o \in Requests \ {r} PROVE row \notin held[o]
  BY <1>5 DEF Free
<1>6. CASE CommitTransfer(r) \/ CancelTransfer(r) \/ WriteShip(r) \/ AddRule(r)
  <2>1. UNCHANGED <<disc, writeOff, decisions>> /\ SameBooks
    BY <1>6, QuietWrites
  <2>2. disc' = [d \in DOMAIN disc' |-> disc'[d]] /\ \A d \in DOMAIN disc' : IsDisc(disc'[d])
    BY <1>0, <2>1 DEF Rows, Referenced
  <2>3. Rows'
    BY <1>0, <2>1, <2>2, RowsSame
  <2>. QED  BY <1>2, <1>3, <2>1, <2>3
<1>7. CASE WriteReceipt(r)
  <2>1. /\ UNCHANGED <<writeOff, decisions>> /\ SameBooks
        /\ disc' = [d \in DOMAIN disc' |-> disc'[d]]
        /\ \A d \in DOMAIN disc : d \in DOMAIN disc' /\ disc'[d] = disc[d]
        /\ \A d \in DOMAIN disc' \ DOMAIN disc : d = <<d[1], d[2]>> /\ d[1] = r
        /\ \A d \in DOMAIN disc' : IsDisc(disc'[d])
    BY <1>0, <1>7, ReceiptEffect
  <2>2. \A d \in DOMAIN disc' \ DOMAIN disc : d = <<d[1], d[2]>> /\ d[1] \in Requests /\ pc'[d[1]] = "done"
    BY <1>0, <2>1
  <2>3. Rows'
    BY <1>0, <2>1, <2>2, RowsSame
  <2>. QED  BY <1>2, <1>3, <2>1, <2>3
<1>8. CASE MoveDiscrepancy(r)
  <2>1. /\ UNCHANGED <<writeOff, decisions, entries>>
        /\ DOMAIN disc' = DOMAIN disc /\ disc' = [d \in DOMAIN disc' |-> disc'[d]]
        /\ \A d \in DOMAIN disc : IsDisc(disc'[d]) /\ (disc'[d] = disc[d] \/ (Free(<<"disc", d>>, r) /\ ~Open(d)))
    BY <1>0, <1>8, MoveDiscrepancyEffect
  <2>2. SameBooks
    BY <2>1 DEF SameBooks
  <2>3. Rows'
    BY <1>0, <2>1, <2>2, RowsSame
  <2>4. \A o \in Requests \ {r} : \A d \in DOMAIN disc : <<"disc", d>> \in held[o] => disc'[d] = disc[d]
    BY <1>5, <2>1
  <2>. QED  BY <1>2, <1>3, <2>1, <2>3, <2>4
<1>9. CASE InsertWriteOff(r)
  <2>1. /\ pc[r] = "insert" /\ r \notin DOMAIN writeOff /\ UNCHANGED <<disc, decisions, entries>>
        /\ DOMAIN writeOff' = DOMAIN writeOff \cup {r}
        /\ \A w \in DOMAIN writeOff : writeOff'[w] = writeOff[w]
        /\ writeOff'[r].disc = req[r].disc
    BY <1>0, <1>9, InsertEffect
  <2>2. AtInsert(r)
    BY <1>0 DEF Sees
  <2>3. Rows'
    BY <1>0, <1>9, <2>2, RowsInsert
  <2>4. <<"disc", req[r].disc>> \in held[r]
    BY <2>1, <2>2 DEF AtInsert
  <2>5. \A w, d : PendingOn(w, d)' => PendingOn(w, d) \/ d = req[r].disc
    BY <2>1 DEF PendingOn
  <2>6. \A o \in Requests \ {r} : \A d \in DOMAIN disc : <<"disc", d>> \in held[o] => \A w : PendingOn(w, d)' => PendingOn(w, d)
    BY <1>4, <2>4, <2>5
  <2>. QED  BY <1>2, <2>1, <2>3, <2>6
<1>10. CASE DenyWriteOff(r)
  <2>1. AtDecide(r) /\ pc[r] = "discrepancy" /\ req[r].kind = "DENY"
    BY <1>0, <1>10 DEF Sees, DenyWriteOff, Is
  <2>2. /\ Rows' /\ DOMAIN disc' = DOMAIN disc /\ DOMAIN writeOff' = DOMAIN writeOff
        /\ Free(<<"disc", writeOff[req[r].id].disc>>, r)
        /\ \A d \in DOMAIN disc : d # writeOff[req[r].id].disc => disc'[d] = disc[d]
        /\ \A w, d : PendingOn(w, d)' => PendingOn(w, d)
        /\ \A w \in DOMAIN writeOff : w # req[r].id => writeOff'[w] = writeOff[w]
    BY <1>0, <1>10, <2>1, RowsDeny
  <2>3. <<"writeoff", req[r].id>> \in held[r]
    BY <2>1 DEF AtDecide
  <2>4. \A o \in Requests \ {r} : \A d \in DOMAIN disc : <<"disc", d>> \in held[o] => disc'[d] = disc[d]
    BY <1>5, <2>2
  <2>5. \A o \in Requests \ {r} : \A w \in DOMAIN writeOff : <<"writeoff", w>> \in held[o] => writeOff'[w] = writeOff[w]
    BY <1>4, <2>2, <2>3
  <2>. QED  BY <1>2, <2>2, <2>4, <2>5
<1>11. ASSUME Rows', UNCHANGED disc, DOMAIN writeOff' = DOMAIN writeOff, <<"writeoff", req[r].id>> \in held[r],
              \A v, x : PendingOn(v, x)' => PendingOn(v, x),
              \A v \in DOMAIN writeOff : v # req[r].id => writeOff'[v] = writeOff[v]
       PROVE  DecisionInv'
  <2>1. \A o \in Requests \ {r} : \A w \in DOMAIN writeOff : <<"writeoff", w>> \in held[o] => writeOff'[w] = writeOff[w]
    BY <1>4, <1>11
  <2>. QED  BY <1>2, <1>11, <2>1
<1>12. CASE ApproveWriteOff(r)
  <2>1. AtDecide(r) /\ pc[r] = "line" /\ req[r].kind = "APPROVE"
    BY <1>0, <1>12 DEF Sees, ApproveWriteOff, Is
  <2>2. <<"writeoff", req[r].id>> \in held[r]
    BY <2>1 DEF AtDecide
  <2>. QED  BY <1>0, <1>11, <1>12, <2>1, <2>2, RowsApprove, SMTT(40)
<1>13. CASE ReverseWriteOff(r)
  <2>1. AtReverse(r) /\ pc[r] = "line" /\ req[r].kind = "REVERSE"
    BY <1>0, <1>13 DEF Sees, ReverseWriteOff, Is
  <2>2. <<"writeoff", req[r].id>> \in held[r]
    BY <2>1 DEF AtReverse
  <2>. QED  BY <1>0, <1>11, <1>13, <2>1, <2>2, RowsReverse, SMTT(40)
<1>. QED  BY <1>6, <1>7, <1>8, <1>9, <1>10, <1>12, <1>13 DEF Writes

(* Every step keeps decisions, statuses and books in agreement.            *)
LEMMA DecisionKept == DecisionInv /\ [Next]_vars => DecisionInv'
<1>. SUFFICES ASSUME DecisionInv, [Next]_vars PROVE DecisionInv'
  OBVIOUS
<1>0. LockInv /\ LockInv' /\ Shape
  BY LockKept DEF DecisionInv, LockInv
<1>1. CASE UNCHANGED vars
  <2>1. UNCHANGED <<pc, req, held, writeOff, disc, decisions, entries>>
    BY <1>1 DEF vars, session, tables
  <2>2. Rows'
    <3>1. /\ SameBooks /\ StaysDone /\ disc' = [d \in DOMAIN disc' |-> disc'[d]]
          /\ \A d \in DOMAIN disc' : IsDisc(disc'[d])
      BY <2>1 DEF SameBooks, StaysDone, DecisionInv, Rows, Referenced
    <3>. QED  BY <2>1, <3>1, RowsSame DEF DecisionInv
  <2>3. \A w, d : PendingOn(w, d)' <=> PendingOn(w, d)
    BY <2>1 DEF PendingOn
  <2>4. ASSUME NEW o \in Requests PROVE Sees(o)'
    <3>1. Sees(o)
      BY DEF DecisionInv
    <3>. QED  BY <2>1, <2>3, <3>1, OtherSees
  <2>. QED  BY <1>0, <2>2, <2>4 DEF DecisionInv
<1>2. CASE Next
  <2>1. PICK r \in Requests : Submit(r) \/ Step(r) \/ Fail(r)
    BY <1>2 DEF Next
  <2>2. Aside(r) /\ StaysDone
    BY <1>0, <2>1, Frame
  <2>3. CASE Writes(r) /\ ~Ends(r) /\ Over(r)
    BY <1>0, <2>2, <2>3, WritesKeep
  <2>4. CASE ~(Writes(r) /\ ~Ends(r) /\ Over(r))
    <3>1. UNCHANGED tables /\ Sees(r)'
      BY <1>0, <2>1, <2>4, Cases, LocksSee
    <3>. QED  BY <1>0, <2>2, <3>1, QuietKeeps
  <2>. QED  BY <2>3, <2>4
<1>. QED  BY <1>1, <1>2

(* A write-off is decided at most once, by somebody else than its          *)
(* initiator; its status and the books say what was decided, and what is   *)
(* pending rests on a finished investigation, however approvals, denials,  *)
(* reversals and new requests interleave and wherever they fail.           *)
THEOREM DecisionsCorrect == Spec => []DecidedOnce
<1>1. Spec => []DecisionInv
  BY DecisionInit, DecisionKept, PTL DEF Spec
<1>. QED  BY <1>1, DecisionImplies, PTL

=============================================================================
