--------------------------- MODULE StockRoomProofs ---------------------------
(***************************************************************************)
(* Proofs about StockRoom: requests on counts never wait in a circle, a    *)
(* posted count corrects exactly what its lines say, counts keep cache and *)
(* ledger together, drift is reported only where stock moved, and an       *)
(* adjustment is one row, one movement and one entry.                      *)
(***************************************************************************)
EXTENDS StockRoom, Sums, TLAPS

-----------------------------------------------------------------------------
(* Sessions and locks.                                                     *)

Adjusts == {"insert", "lock", "commit"}
Labels == {"idle", "begin", "products"} \cup Adjusts
IsTx(x) == x = [held |-> x.held, qty |-> x.qty] /\ x.held \subseteq Products

(* A worker that is not idle serves a request that may arrive and has not  *)
(* answered it.                                                            *)
Served(w) ==
    /\ pc[w] = "idle" => req[w] = NoOne
    /\ pc[w] # "idle" => req[w] \in load.sent /\ answer[w] = NoOne
    /\ pc[w] \in Adjusts => req[w].kind = "ADJUST"
    /\ pc[w] = "products" => req[w].kind \in HeaderKinds
    /\ pc[w] # "products" => tx[w].held = {}

Shape ==
    /\ load \in Workloads
    /\ pc \in [Workers -> Labels]
    /\ req = [w \in Workers |-> req[w]] /\ answer = [w \in Workers |-> answer[w]]
    /\ tx = [w \in Workers |-> tx[w]] /\ \A w \in Workers : IsTx(tx[w]) /\ Served(w)
    /\ headerLock \in [Counts -> Workers \cup {NoOne}]
    /\ productLock \in [Products -> Workers \cup {NoOne}]
    /\ keyShare \in [Products -> SUBSET Workers]

(* The header and products a worker holds are those of its request.        *)
HoldsHeader(w, c) == pc[w] = "products" /\ req[w].count = c
HoldsProduct(w, p) == (pc[w] = "products" /\ p \in tx[w].held) \/ (pc[w] = "commit" /\ p = req[w].product)
Held ==
    /\ \A w \in Workers, c \in Counts : headerLock[c] = w <=> HoldsHeader(w, c)
    /\ \A w \in Workers, p \in Products : productLock[p] = w <=> HoldsProduct(w, p)
    /\ \A w \in Workers, p \in Products : w \in keyShare[p] => pc[w] \in {"lock", "commit"}

(* Products are locked in ascending order, in a status that admits it.     *)
Ascending(w) ==
    pc[w] = "products" =>
        /\ tx[w].held \subseteq ToLock(req[w])
        /\ \A p \in tx[w].held, o \in ToLock(req[w]) \ tx[w].held : p < o
        /\ count[req[w].count].status \in Accepted[req[w].kind]

(* A count that is being created is not there yet.                         *)
Creates(w, c) == pc[w] = "begin" /\ req[w].kind = "CREATE" /\ req[w].inStore /\ req[w].count = c
Created ==
    /\ \A w \in Workers, c \in Counts : Creates(w, c) => count[c].status = "NONE"
    /\ \A w, o \in Workers, c \in Counts : Creates(w, c) /\ Creates(o, c) => w = o

IsCount(z) == z = [status |-> z.status, expected |-> z.expected, counted |-> z.counted]
CountTable == count = [c \in Counts |-> count[c]] /\ \A c \in Counts : IsCount(count[c])

LockInv == Shape /\ CountTable /\ Held /\ Created /\ \A w \in Workers : Ascending(w)

-----------------------------------------------------------------------------
(* Stock and adjustments.                                                  *)

Adjustment == [id : Nat \ {0}, product : Products, delta : Int \ {0}, key : Keys \cup {NoOne}, count : Counts \cup {NoOne}]
LedgerRow == [delta : Int, result : Int, ref : Nat \cup {NoOne}]

(* The products a count holds are still what it has loaded.                *)
Working(w) ==
    tx[w].qty \in [Products -> Int] /\ (pc[w] = "products" => \A p \in tx[w].held : tx[w].qty[p] = qty[p])

(* Adjustments are numbered without gaps.                                  *)
Numbered ==
    /\ IsFiniteSet(adjustments) /\ Cardinality(adjustments) <= load.adjustments
    /\ \A a \in adjustments : a.id \in 1 .. Cardinality(adjustments)
    /\ \A a, b \in adjustments : a.id = b.id => a = b

(* Each has its movement and its entry, and there is nothing else.         *)
HasMovement(a) ==
    \E i \in DOMAIN ledger[a.product] : ledger[a.product][i].delta = a.delta /\ Moves(a) = {i}
Booked ==
    /\ \A a \in adjustments : HasMovement(a)
    /\ entries = Post(adjustments)
    /\ \A p \in Products : \A i \in DOMAIN ledger[p] :
          ledger[p][i].ref # NoOne => \E a \in adjustments : a.id = ledger[p][i].ref /\ a.product = p

(* Of the adjustments in flight under a key there is one, and none yet in  *)
(* the table.                                                              *)
KeyFresh(w) ==
    pc[w] \in {"lock", "commit"} /\ req[w].key # NoOne =>
        /\ AdjustmentsWithKey(req[w].key) = {}
        /\ \A o \in Workers : pc[o] \in {"lock", "commit"} /\ req[o].key = req[w].key => o = w

Stocked ==
    /\ qty \in [Products -> Int] /\ ledger \in [Products -> Seq(LedgerRow)] /\ adjustments \subseteq Adjustment
    /\ Numbered /\ Booked

StockInv ==
    /\ LockInv /\ count \in [Counts -> StockCount] /\ Stocked /\ OneAdjustmentPerKey /\ CountsKeepTheLedger
    /\ \A w \in Workers : Working(w) /\ KeyFresh(w)

-----------------------------------------------------------------------------
(* Counts.                                                                 *)

(* Unless its product has moved since, a line's snapshot is the quantity.  *)
Snapped(c) ==
    count[c].status \in {"OPEN", "COUNTED", "REVIEWED"} =>
        \A p \in load.scope[c] :
            /\ touched[c][p] <= Len(ledger[p])
            /\ touched[c][p] = Len(ledger[p]) => count[c].expected[p] = qty[p]

CountInv ==
    /\ StockInv /\ PostingIsWhole
    /\ touched \in [Counts -> [Products -> Nat]] /\ \A c \in Counts : Snapped(c)

-----------------------------------------------------------------------------
(* Requests.                                                               *)

(* What a body says, by its kind.                                          *)
LEMMA Bodies ==
    ASSUME Shape, NEW w \in Workers, pc[w] # "idle"
    PROVE  /\ req[w] \in Submission
           /\ req[w].kind \in HeaderKinds \cup {"CREATE"} => req[w].count \in Counts
           /\ req[w].kind = "ADJUST" => /\ req[w].product \in Products /\ req[w].delta \in Int \ {0}
                                        /\ req[w].key \in Keys \cup {NoOne}
           /\ req[w].kind = "ENTER" => req[w].product \in Products /\ req[w].qty \in Nat
<1>1. req[w] \in load.sent /\ load \in Workload
  BY StockRoomAssumption DEF Shape, Served
<1>2. req[w] \in Submission
  BY <1>1 DEF Workload
<1>. QED  BY <1>2 DEF Submission, HeaderKinds

(* The products of a count, and those a request locks, are products.       *)
LEMMA Scopes ==
    ASSUME Shape
    PROVE  /\ load.scope \in [Counts -> SUBSET Products]
           /\ \A c \in Counts : load.scope[c] \subseteq Products /\ CountedLines(c) \subseteq Products
<1>1. load.scope \in [Counts -> SUBSET Products]
  BY StockRoomAssumption DEF Shape, Workload
<1>. QED  BY <1>1 DEF CountedLines

(* Requests lock products.                                                 *)
LEMMA ToLockIn ==
    ASSUME Shape, NEW w \in Workers, pc[w] # "idle"
    PROVE  ToLock(req[w]) \subseteq Products
<1>1. \A c \in Counts : load.scope[c] \subseteq Products /\ CountedLines(c) \subseteq Products
  BY Scopes
<1>2. req[w].kind \in HeaderKinds \cup {"CREATE"} => req[w].count \in Counts
  BY Bodies
<1>. QED  BY <1>1, <1>2 DEF ToLock, HeaderKinds

(* Of some integers that are finitely many, one is the least.              *)
LEMMA LeastOf ==
    ASSUME NEW S, S \subseteq Products, S # {}
    PROVE  /\ (CHOOSE m \in S : \A o \in S : m <= o) \in S
           /\ \A o \in S : (CHOOSE m \in S : \A o1 \in S : m <= o1) <= o
           /\ Min(S) \in S /\ \A o \in S : Min(S) <= o
<1>1. IsFiniteSet(S) /\ S \subseteq Int
  BY StockRoomAssumption, FS_Subset
<1>2. \E m \in S : \A o \in S : m <= o
  BY <1>1, FiniteMin
<1>. QED  BY <1>2 DEF Min

(* The statuses in which a request goes on to the products.                *)
LEMMA AcceptedIs ==
    /\ Accepted["OPEN"] = {"DRAFT"} /\ Accepted["ENTER"] = {"OPEN", "COUNTED"} /\ Accepted["MARK"] = {"OPEN"}
    /\ Accepted["REVIEW"] = {"COUNTED"} /\ Accepted["REOPEN"] = {"REVIEWED"} /\ Accepted["POST"] = {"REVIEWED"}
    /\ Accepted["CANCEL"] = {"DRAFT", "OPEN", "COUNTED", "REVIEWED"}
  BY DEF Accepted, Cancellable

(* No request goes on to the products of a count that is not there or that *)
(* is posted.                                                              *)
LEMMA AcceptedIn == ASSUME NEW kind \in HeaderKinds PROVE Accepted[kind] \subseteq {"DRAFT", "OPEN", "COUNTED", "REVIEWED"}
  BY AcceptedIs DEF HeaderKinds

(* What a step of w leaves of the other workers.                           *)
Alone(w) == \A o \in Workers : o # w => pc'[o] = pc[o] /\ req'[o] = req[o] /\ tx'[o] = tx[o] /\ answer'[o] = answer[o]

(* The end of a request frees its locks.                                   *)
LEMMA FinishStep ==
    ASSUME Shape, Held, NEW w \in Workers, NEW code, Finish(w, code), load' = load
    PROVE  Shape' /\ Held' /\ Alone(w) /\ pc'[w] = "idle" /\ answer'[w] = code
<1>1. pc'[w] = "idle" /\ req'[w] = NoOne /\ tx'[w] = EmptyTx /\ answer'[w] = code
  BY DEF Finish, Shape
<1>2. Alone(w)
  BY DEF Finish, Shape, Alone
<1>3. IsTx(EmptyTx) /\ EmptyTx.held = {}
  BY DEF IsTx, EmptyTx
<1>4. \A o \in Workers : IsTx(tx'[o]) /\ Served(o)'
  <2>1. ASSUME NEW o \in Workers, o # w PROVE IsTx(tx'[o]) /\ Served(o)'
    BY <1>2, <2>1 DEF Alone, Shape, Served
  <2>2. IsTx(tx'[w]) /\ Served(w)'
    BY <1>1, <1>3 DEF Served, Adjusts
  <2>. QED  BY <2>1, <2>2
<1>5. Shape'
  <2>1. "idle" \in Labels
    BY DEF Labels
  <2>2. pc' \in [Workers -> Labels]
    BY <2>1 DEF Finish, Shape
  <2>3. /\ req' = [o \in Workers |-> req'[o]] /\ answer' = [o \in Workers |-> answer'[o]]
        /\ tx' = [o \in Workers |-> tx'[o]]
    BY DEF Finish, Shape
  <2>4. headerLock' \in [Counts -> Workers \cup {NoOne}] /\ productLock' \in [Products -> Workers \cup {NoOne}]
    BY DEF Finish, Free, Shape
  <2>5. keyShare' \in [Products -> SUBSET Workers]
    BY DEF Finish, Shape
  <2>. QED  BY <1>4, <2>2, <2>3, <2>4, <2>5 DEF Shape
<1>6. Held'
  <2>1. /\ \A c \in Counts : headerLock'[c] = IF headerLock[c] = w THEN NoOne ELSE headerLock[c]
        /\ \A p \in Products : productLock'[p] = IF productLock[p] = w THEN NoOne ELSE productLock[p]
        /\ \A p \in Products : keyShare'[p] = keyShare[p] \ {w}
    BY DEF Finish, Free, Shape
  <2>2. NoOne \notin Workers
    BY StockRoomAssumption
  <2>3. ASSUME NEW o \in Workers, NEW c \in Counts PROVE headerLock'[c] = o <=> HoldsHeader(o, c)'
    BY <1>1, <1>2, <2>1, <2>2 DEF Held, HoldsHeader, Alone
  <2>4. ASSUME NEW o \in Workers, NEW p \in Products PROVE productLock'[p] = o <=> HoldsProduct(o, p)'
    BY <1>1, <1>2, <2>1, <2>2 DEF Held, HoldsProduct, Alone
  <2>5. ASSUME NEW o \in Workers, NEW p \in Products, o \in keyShare'[p] PROVE pc'[o] \in {"lock", "commit"}
    BY <1>2, <2>1, <2>5 DEF Held, Alone
  <2>. QED  BY <2>3, <2>4, <2>5 DEF Held
<1>. QED  BY <1>1, <1>2, <1>5, <1>6

(* What the updates of a count's row make of it.                           *)
LEMMA OneCount ==
    ASSUME NEW a, NEW b, NEW c, NEW z \in [status : {a}, expected : {b}, counted : {c}]
    PROVE  z = [status |-> a, expected |-> b, counted |-> c]
  OBVIOUS

(* A count's row after some of its fields are written is a row again.      *)
LEMMA CountRow ==
    ASSUME NEW y, IsCount(y), NEW s, NEW e, NEW k
    PROVE  /\ [y EXCEPT !.status = s] = [status |-> s, expected |-> y.expected, counted |-> y.counted]
           /\ IsCount([y EXCEPT !.status = s]) /\ IsCount([y EXCEPT !.status = s, !.expected = e])
           /\ IsCount([y EXCEPT !.expected = e, !.counted = k])
<1>1. PICK y1, y2, y3 : y = [status |-> y1, expected |-> y2, counted |-> y3]
  BY DEF IsCount
<1>2. y \in [status : {y1}, expected : {y2}, counted : {y3}] /\ y.status = y1 /\ y.expected = y2 /\ y.counted = y3
  BY ONLY <1>1
<1>3. [y EXCEPT !.status = s] = [status |-> s, expected |-> y2, counted |-> y3]
  BY ONLY <1>1
<1>4. [y EXCEPT !.status = s, !.expected = e] \in [status : {s}, expected : {e}, counted : {y3}]
  BY ONLY <1>2
<1>5. [y EXCEPT !.status = s, !.expected = e] = [status |-> s, expected |-> e, counted |-> y3]
  BY ONLY <1>4, OneCount
<1>6. [y EXCEPT !.expected = e, !.counted = k] \in [status : {y1}, expected : {e}, counted : {k}]
  BY ONLY <1>2
<1>7. [y EXCEPT !.expected = e, !.counted = k] = [status |-> y1, expected |-> e, counted |-> k]
  BY ONLY <1>6, OneCount
<1>8. \A z, a, b, c : z = [status |-> a, expected |-> b, counted |-> c] => IsCount(z)
  BY DEF IsCount
<1>9. /\ IsCount([y EXCEPT !.status = s]) /\ IsCount([y EXCEPT !.status = s, !.expected = e])
      /\ IsCount([y EXCEPT !.expected = e, !.counted = k])
  BY ONLY <1>3, <1>5, <1>7, <1>8, Zenon
<1>. QED  BY <1>2, <1>3, <1>9

(* The count's table is written row by row.                                *)
LEMMA SameTable == ASSUME CountTable, count' = count PROVE CountTable'
  BY DEF CountTable, IsCount

(* Writing one count's row leaves the other counts as they are.            *)
LEMMA CountWrite ==
    ASSUME CountTable, NEW c \in Counts, NEW z, IsCount(z), count' = [count EXCEPT ![c] = z]
    PROVE  CountTable' /\ count'[c] = z /\ \A d \in Counts : d # c => count'[d] = count[d]
<1>1. count'[c] = z /\ count' = [d \in Counts |-> count'[d]] /\ \A d \in Counts : d # c => count'[d] = count[d]
  BY DEF CountTable
<1>2. ASSUME NEW d \in Counts PROVE IsCount(count'[d])
  BY <1>1 DEF CountTable
<1>3. \A d \in Counts : IsCount(count[d])'
  BY <1>2 DEF IsCount
<1>. QED  BY <1>1, <1>3 DEF CountTable

(* What w does to the counts no other worker holds or creates keeps the    *)
(* locking discipline of the others.                                       *)
LEMMA LockStep ==
    ASSUME LockInv, NEW w \in Workers, Shape', Held', Alone(w), load' = load, CountTable',
           \A o \in Workers, c \in Counts : o # w /\ (HoldsHeader(o, c) \/ Creates(o, c)) => count'[c] = count[c],
           Ascending(w)',
           \A c \in Counts : Creates(w, c)' => count'[c].status = "NONE" /\ \A o \in Workers : o # w => ~Creates(o, c)
    PROVE  LockInv'
<1>1. ASSUME NEW o \in Workers, o # w PROVE Ascending(o)'
  <2>. SUFFICES ASSUME pc[o] = "products" PROVE Ascending(o)'
    BY <1>1 DEF Alone, Ascending
  <2>. PICK q : q = req[o]
    OBVIOUS
  <2>1. q.count \in Counts /\ q.kind \in HeaderKinds
    BY Bodies DEF LockInv, Shape, Served
  <2>2. count'[q.count] = count[q.count]
    BY <1>1, <2>1 DEF HoldsHeader
  <2>3. ToLock(q)' = ToLock(q)
    BY <2>2 DEF ToLock, CountedLines
  <2>4. req'[o] = q /\ tx'[o] = tx[o]
    BY <1>1 DEF Alone
  <2>5. ToLock(req[o])' = ToLock(q)
    BY <2>3, <2>4 DEF ToLock, CountedLines
  <2>. QED  BY <2>2, <2>4, <2>5 DEF LockInv, Ascending
<1>2. Created'
  <2>1. \A o \in Workers, c \in Counts : o # w => (Creates(o, c)' <=> Creates(o, c))
    BY DEF Creates, Alone
  <2>2. Created
    BY DEF LockInv
  <2>3. ASSUME NEW o \in Workers, NEW c \in Counts, Creates(o, c)' PROVE count'[c].status = "NONE"
    BY <2>1, <2>2, <2>3 DEF Created
  <2>4. ASSUME NEW o \in Workers, NEW u \in Workers, NEW c \in Counts, Creates(o, c)', Creates(u, c)' PROVE o = u
    BY <2>1, <2>2, <2>4 DEF Created
  <2>. QED  BY <2>3, <2>4 DEF Created
<1>3. \A o \in Workers : Ascending(o)'
  BY <1>1
<1>. QED  BY <1>2, <1>3 DEF LockInv

(* The sessions after w has gone on to another statement.                  *)
LEMMA GoStep ==
    ASSUME Shape, NEW w \in Workers, load' = load, NEW label \in Labels, pc' = [pc EXCEPT ![w] = label],
           NEW q, req' = [req EXCEPT ![w] = q], NEW v, answer' = [answer EXCEPT ![w] = v],
           NEW x, tx' = [tx EXCEPT ![w] = x], IsTx(x), Served(w)',
           headerLock' \in [Counts -> Workers \cup {NoOne}], productLock' \in [Products -> Workers \cup {NoOne}],
           keyShare' \in [Products -> SUBSET Workers]
    PROVE  Shape' /\ Alone(w) /\ pc'[w] = label /\ tx'[w] = x /\ req'[w] = q
<1>1. pc'[w] = label /\ req'[w] = q /\ tx'[w] = x
  BY DEF Shape
<1>2. Alone(w)
  BY DEF Shape, Alone
<1>3. \A o \in Workers : IsTx(tx'[o]) /\ Served(o)'
  <2>1. ASSUME NEW o \in Workers, o # w PROVE IsTx(tx'[o]) /\ Served(o)'
    BY <1>2, <2>1 DEF Alone, Shape, Served
  <2>. QED  BY <1>1, <2>1
<1>4. pc' \in [Workers -> Labels]
  BY DEF Shape
<1>5. /\ req' = [o \in Workers |-> req'[o]] /\ answer' = [o \in Workers |-> answer'[o]]
      /\ tx' = [o \in Workers |-> tx'[o]]
  BY DEF Shape
<1>. QED  BY <1>1, <1>2, <1>3, <1>4, <1>5 DEF Shape

(* A step that goes on to a label and leaves the body alone.               *)
LEMMA GotoStep ==
    ASSUME Shape, NEW w \in Workers, load' = load, NEW label \in Labels, Goto(w, label),
           NEW x, tx' = [tx EXCEPT ![w] = x], IsTx(x), x.held = tx[w].held, pc[w] # "idle",
           label # "idle", label \in Adjusts => req[w].kind = "ADJUST", label = "products" => req[w].kind \in HeaderKinds,
           label # "products" => tx[w].held = {},
           headerLock' \in [Counts -> Workers \cup {NoOne}], productLock' \in [Products -> Workers \cup {NoOne}],
           keyShare' \in [Products -> SUBSET Workers]
    PROVE  Shape' /\ Alone(w) /\ pc'[w] = label /\ tx'[w] = x /\ req'[w] = req[w]
<1>1. /\ pc' = [pc EXCEPT ![w] = label] /\ req' = [req EXCEPT ![w] = req[w]] /\ answer' = [answer EXCEPT ![w] = answer[w]]
  BY DEF Goto, Shape
<1>2. pc'[w] = label /\ req'[w] = req[w] /\ tx'[w] = x /\ answer'[w] = answer[w]
  BY <1>1 DEF Shape
<1>3. Served(w)'
  BY <1>2 DEF Served, Shape
<1>. QED  BY <1>1, <1>3, GoStep

(* The end of a request that wrote at most counts of its own keeps the     *)
(* locking discipline.                                                     *)
LEMMA FinishLock ==
    ASSUME LockInv, NEW w \in Workers, NEW code, Finish(w, code), load' = load, CountTable',
           \A o \in Workers, c \in Counts : o # w /\ (HoldsHeader(o, c) \/ Creates(o, c)) => count'[c] = count[c]
    PROVE  LockInv' /\ Alone(w) /\ pc'[w] = "idle" /\ answer'[w] = code
<1>1. Shape' /\ Held' /\ Alone(w) /\ pc'[w] = "idle" /\ answer'[w] = code
  BY FinishStep DEF LockInv
<1>2. Ascending(w)' /\ \A c \in Counts : ~Creates(w, c)'
  BY <1>1 DEF Ascending, Creates
<1>. QED  BY <1>1, <1>2, LockStep

(* So does the end of a request that wrote none.                           *)
LEMMA ReturnLock ==
    ASSUME LockInv, NEW w \in Workers, NEW code, Finish(w, code), load' = load, count' = count
    PROVE  LockInv' /\ Alone(w) /\ pc'[w] = "idle" /\ answer'[w] = code
<1>1. CountTable'
  BY SameTable DEF LockInv
<1>. QED  BY <1>1, FinishLock

(* A count whose header a request holds is held and created by nobody else. *)
LEMMA OwnCount ==
    ASSUME LockInv, NEW w \in Workers, pc[w] = "products"
    PROVE  /\ req[w].count \in Counts /\ req[w].kind \in HeaderKinds
           /\ count[req[w].count].status \in {"DRAFT", "OPEN", "COUNTED", "REVIEWED"}
           /\ \A o \in Workers : o # w => ~HoldsHeader(o, req[w].count) /\ ~Creates(o, req[w].count)
<1>1. req[w].count \in Counts /\ req[w].kind \in HeaderKinds
  BY Bodies DEF LockInv, Shape, Served
<1>2. count[req[w].count].status \in Accepted[req[w].kind]
  BY DEF LockInv, Ascending
<1>3. count[req[w].count].status \in {"DRAFT", "OPEN", "COUNTED", "REVIEWED"}
  BY <1>1, <1>2, AcceptedIn
<1>4. headerLock[req[w].count] = w
  BY <1>1 DEF LockInv, Held, HoldsHeader
<1>5. ASSUME NEW o \in Workers, o # w PROVE ~HoldsHeader(o, req[w].count) /\ ~Creates(o, req[w].count)
  BY <1>1, <1>3, <1>4, <1>5 DEF LockInv, Held, Created
<1>. QED  BY <1>1, <1>3, <1>5

(* A request changes the count whose header it holds.                      *)
LEMMA OwnCountLock ==
    ASSUME LockInv, NEW w \in Workers, pc[w] = "products", NEW code, Finish(w, code), load' = load,
           NEW z, IsCount(z), count' = [count EXCEPT ![req[w].count] = z]
    PROVE  LockInv' /\ Alone(w) /\ pc'[w] = "idle" /\ answer'[w] = code
<1>1. req[w].count \in Counts /\ \A o \in Workers : o # w => ~HoldsHeader(o, req[w].count) /\ ~Creates(o, req[w].count)
  BY OwnCount
<1>2. CountTable
  BY DEF LockInv
<1>3. CountTable' /\ \A c \in Counts : c # req[w].count => count'[c] = count[c]
  BY <1>1, <1>2, CountWrite
<1>4. \A o \in Workers, c \in Counts : o # w /\ (HoldsHeader(o, c) \/ Creates(o, c)) => count'[c] = count[c]
  BY <1>1, <1>3
<1>. QED  BY <1>3, <1>4, FinishLock

-----------------------------------------------------------------------------
(* Every step keeps the locking discipline.                                *)

(* A new request: of several that would create one count, one arrives.     *)
LEMMA SubmitLock ==
    ASSUME LockInv, NEW w \in Workers, Submit(w)
    PROVE  LockInv' /\ Alone(w) /\ pc'[w] = "begin"
<1>1. PICK q \in load.sent : MayArrive(q) /\ req' = [req EXCEPT ![w] = q]
  BY DEF Submit
<1>2. pc[w] = "idle" /\ Shape /\ Held /\ UNCHANGED <<load, count, headerLock, productLock, keyShare, tx>>
  BY DEF Submit, tables, locks, LockInv
<1>3. tx[w].held = {} /\ IsTx(tx[w])
  BY <1>2 DEF Shape, Served
<1>4. pc'[w] = "begin" /\ req'[w] = q /\ answer'[w] = NoOne /\ tx'[w] = tx[w]
  BY <1>1, <1>2 DEF Submit, Shape
<1>5. Served(w)'
  BY <1>2, <1>3, <1>4 DEF Served, Adjusts
<1>6. Shape' /\ Alone(w)
  <2>1. "begin" \in Labels
    BY DEF Labels
  <2>2. tx' = [tx EXCEPT ![w] = tx[w]]
    BY <1>2 DEF Shape
  <2>3. /\ headerLock' \in [Counts -> Workers \cup {NoOne}] /\ productLock' \in [Products -> Workers \cup {NoOne}]
        /\ keyShare' \in [Products -> SUBSET Workers]
    BY <1>2 DEF Shape
  <2>4. pc' = [pc EXCEPT ![w] = "begin"] /\ answer' = [answer EXCEPT ![w] = NoOne]
    BY DEF Submit
  <2>. QED  BY <1>1, <1>2, <1>3, <1>5, <2>1, <2>2, <2>3, <2>4, GoStep
<1>7. Held'
  <2>1. ASSUME NEW o \in Workers, NEW c \in Counts PROVE headerLock'[c] = o <=> HoldsHeader(o, c)'
    BY <1>2, <1>4, <1>6 DEF Held, HoldsHeader, Alone
  <2>2. ASSUME NEW o \in Workers, NEW p \in Products PROVE productLock'[p] = o <=> HoldsProduct(o, p)'
    BY <1>2, <1>4, <1>6 DEF Held, HoldsProduct, Alone
  <2>3. ASSUME NEW o \in Workers, NEW p \in Products, o \in keyShare'[p] PROVE pc'[o] \in {"lock", "commit"}
    BY <1>2, <1>4, <1>6, <2>3 DEF Held, Alone
  <2>. QED  BY <2>1, <2>2, <2>3 DEF Held
<1>8. ASSUME NEW c \in Counts, Creates(w, c)'
      PROVE  count'[c].status = "NONE" /\ \A o \in Workers : o # w => ~Creates(o, c)
  <2>1. q.kind = "CREATE" /\ q.inStore /\ q.count = c
    BY <1>4, <1>8 DEF Creates
  <2>2. count[c].status = "NONE" /\ \A o \in Workers : pc[o] = "begin" => req[o] # q
    BY <1>1, <2>1 DEF MayArrive
  <2>3. ASSUME NEW o \in Workers, Creates(o, c) PROVE FALSE
    <3>1. req[o] \in Submission /\ q \in Submission
      BY <1>1, <1>2, <2>3, Bodies, StockRoomAssumption DEF Creates, Workload, Shape
    <3>2. \A x \in Submission : x.kind = "CREATE" => x = [kind |-> x.kind, count |-> x.count, inStore |-> x.inStore]
                                                     /\ x.inStore \in BOOLEAN
      BY DEF Submission, HeaderKinds
    <3>3. req[o] = q
      BY <2>1, <2>3, <3>1, <3>2 DEF Creates
    <3>. QED  BY <2>2, <2>3, <3>3 DEF Creates
  <2>. QED  BY <1>2, <2>2, <2>3
<1>9. Ascending(w)' /\ CountTable'
  BY <1>2, <1>4, SameTable DEF Ascending, LockInv
<1>. QED  BY <1>2, <1>4, <1>6, <1>7, <1>8, <1>9, LockStep

(* A step of an adjustment leaves the counts alone.                        *)
LEMMA AdjustLock ==
    ASSUME LockInv, NEW w \in Workers, NEW label \in Adjusts, pc'[w] = label, Shape', Held', Alone(w),
           load' = load, count' = count
    PROVE  LockInv'
<1>1. Ascending(w)' /\ (\A c \in Counts : ~Creates(w, c)') /\ CountTable'
  BY SameTable DEF Ascending, Creates, Adjusts, LockInv
<1>. QED  BY <1>1, LockStep

(* The endpoint's read.                                                    *)
LEMMA BeginAdjustLock ==
    ASSUME LockInv, NEW w \in Workers, BeginAdjust(w)
    PROVE  LockInv' /\ Alone(w)
<1>1. CASE \E code : Return(w, code)
  BY <1>1, ReturnLock DEF Return, tables
<1>2. CASE ~\E code : Return(w, code)
  <2>. DEFINE x == [tx[w] EXCEPT !.qty = [tx[w].qty EXCEPT ![req[w].product] = qty[req[w].product]]]
  <2>1. /\ pc[w] = "begin" /\ req[w].kind = "ADJUST" /\ tx' = [tx EXCEPT ![w] = x]
        /\ Goto(w, "insert") /\ UNCHANGED <<load, count, headerLock, productLock, keyShare>>
    BY <1>2 DEF BeginAdjust, Is, tables, locks
  <2>2. IsTx(x) /\ x.held = tx[w].held /\ tx[w].held = {} /\ Shape /\ Held
    <3>1. IsTx(tx[w]) /\ tx[w].held = {} /\ Shape /\ Held
      BY <2>1 DEF LockInv, Shape, Served
    <3>2. \A y : IsTx(y) => \A v : IsTx([y EXCEPT !.qty = v]) /\ [y EXCEPT !.qty = v].held = y.held
      <4>. SUFFICES ASSUME NEW y, IsTx(y), NEW v PROVE IsTx([y EXCEPT !.qty = v]) /\ [y EXCEPT !.qty = v].held = y.held
        OBVIOUS
      <4>1. [y EXCEPT !.qty = v] = [held |-> y.held, qty |-> v] /\ y.held \subseteq Products
        BY DEF IsTx
      <4>. QED  BY <4>1 DEF IsTx
    <3>. QED  BY <3>1, <3>2
  <2>3. "insert" \in Labels /\ "insert" \in Adjusts
    BY DEF Labels, Adjusts
  <2>4. /\ headerLock' \in [Counts -> Workers \cup {NoOne}] /\ productLock' \in [Products -> Workers \cup {NoOne}]
        /\ keyShare' \in [Products -> SUBSET Workers]
    BY <2>1, <2>2 DEF Shape
  <2>. HIDE DEF x
  <2>5. Shape' /\ Alone(w) /\ pc'[w] = "insert" /\ tx'[w] = x /\ req'[w] = req[w]
    BY <2>1, <2>2, <2>3, <2>4, GotoStep
  <2>6. Held'
    <3>1. ASSUME NEW o \in Workers, NEW c \in Counts PROVE headerLock'[c] = o <=> HoldsHeader(o, c)'
      BY <2>1, <2>2, <2>5 DEF Held, HoldsHeader, Alone
    <3>2. ASSUME NEW o \in Workers, NEW p \in Products PROVE productLock'[p] = o <=> HoldsProduct(o, p)'
      BY <2>1, <2>2, <2>5 DEF Held, HoldsProduct, Alone
    <3>3. ASSUME NEW o \in Workers, NEW p \in Products, o \in keyShare'[p] PROVE pc'[o] \in {"lock", "commit"}
      BY <2>1, <2>2, <2>5, <3>3 DEF Held, Alone
    <3>. QED  BY <3>1, <3>2, <3>3 DEF Held
  <2>. QED  BY <2>1, <2>3, <2>5, <2>6, AdjustLock
<1>. QED  BY <1>1, <1>2

(* The insert takes the key share of its product.                          *)
LEMMA InsertLock ==
    ASSUME LockInv, NEW w \in Workers, InsertAdjustment(w)
    PROVE  LockInv' /\ Alone(w)
<1>1. CASE \E code : Return(w, code)
  BY <1>1, ReturnLock DEF Return, tables
<1>2. CASE ~\E code : Return(w, code)
  <2>. PICK p : p = req[w].product
    OBVIOUS
  <2>. PICK x : x = tx[w]
    OBVIOUS
  <2>1. /\ pc[w] = "insert" /\ req[w].kind = "ADJUST" /\ keyShare' = [keyShare EXCEPT ![p] = @ \cup {w}]
        /\ Goto(w, "lock") /\ UNCHANGED <<tx, load, count, headerLock, productLock>>
    BY <1>2 DEF InsertAdjustment, Is, tables
  <2>2. IsTx(x) /\ x.held = tx[w].held /\ tx[w].held = {} /\ tx' = [tx EXCEPT ![w] = x] /\ Shape /\ Held
    BY <2>1 DEF LockInv, Shape, Served
  <2>3. "lock" \in Labels /\ "lock" \in Adjusts
    BY DEF Labels, Adjusts
  <2>4. p \in Products
    BY <2>1, <2>2, Bodies
  <2>5. /\ headerLock' \in [Counts -> Workers \cup {NoOne}] /\ productLock' \in [Products -> Workers \cup {NoOne}]
        /\ keyShare' \in [Products -> SUBSET Workers] /\ \A r \in Products : keyShare'[r] \subseteq keyShare[r] \cup {w}
    BY <2>1, <2>2, <2>4 DEF Shape
  <2>6. Shape' /\ Alone(w) /\ pc'[w] = "lock" /\ tx'[w] = x /\ req'[w] = req[w]
    <3>. PICK label : label = "lock"
      OBVIOUS
    <3>1. /\ w \in Workers /\ pc[w] # "idle" /\ req[w].kind = "ADJUST" /\ load' = load /\ Goto(w, label)
          /\ label \in Labels /\ label # "idle" /\ label # "products"
      BY <2>1, <2>3
    <3>2. Shape' /\ Alone(w) /\ pc'[w] = label /\ tx'[w] = x /\ req'[w] = req[w]
      BY ONLY <2>2, <2>5, <3>1, GotoStep
    <3>. QED  BY <3>2
  <2>7. Held'
    <3>1. ASSUME NEW o \in Workers, NEW c \in Counts PROVE headerLock'[c] = o <=> HoldsHeader(o, c)'
      BY <2>1, <2>2, <2>6 DEF Held, HoldsHeader, Alone
    <3>2. ASSUME NEW o \in Workers, NEW r \in Products PROVE productLock'[r] = o <=> HoldsProduct(o, r)'
      BY <2>1, <2>2, <2>6 DEF Held, HoldsProduct, Alone
    <3>3. ASSUME NEW o \in Workers, NEW r \in Products, o \in keyShare'[r] PROVE pc'[o] \in {"lock", "commit"}
      BY <2>1, <2>2, <2>5, <2>6, <3>3 DEF Held, Alone
    <3>. QED  BY <3>1, <3>2, <3>3 DEF Held
  <2>. QED  BY <2>1, <2>3, <2>6, <2>7, AdjustLock
<1>. QED  BY <1>1, <1>2

(* The adjustment locks its product.                                       *)
LEMMA LockAdjustedLock ==
    ASSUME LockInv, NEW w \in Workers, LockAdjusted(w)
    PROVE  LockInv' /\ Alone(w)
<1>. PICK p : p = req[w].product
  OBVIOUS
<1>. PICK x : x = tx[w]
  OBVIOUS
<1>1. /\ pc[w] = "lock" /\ req[w].kind = "ADJUST" /\ productLock' = [productLock EXCEPT ![p] = w]
      /\ productLock[p] = NoOne
      /\ Goto(w, "commit") /\ UNCHANGED <<tx, load, count, headerLock, keyShare>>
  BY DEF LockAdjusted, Is, tables, MayLock
<1>2. IsTx(x) /\ x.held = tx[w].held /\ tx[w].held = {} /\ tx' = [tx EXCEPT ![w] = x] /\ Shape /\ Held
  BY <1>1 DEF LockInv, Shape, Served
<1>3. "commit" \in Labels /\ "commit" \in Adjusts
  BY DEF Labels, Adjusts
<1>4. p \in Products /\ NoOne \notin Workers
  BY <1>1, <1>2, Bodies, StockRoomAssumption
<1>5. /\ headerLock' \in [Counts -> Workers \cup {NoOne}] /\ productLock' \in [Products -> Workers \cup {NoOne}]
      /\ keyShare' \in [Products -> SUBSET Workers]
      /\ \A r \in Products : productLock'[r] = IF r = p THEN w ELSE productLock[r]
  BY <1>1, <1>2, <1>4 DEF Shape
<1>6. Shape' /\ Alone(w) /\ pc'[w] = "commit" /\ tx'[w] = x /\ req'[w] = req[w]
  <2>1. w \in Workers /\ pc[w] # "idle" /\ req[w].kind = "ADJUST" /\ load' = load /\ Goto(w, "commit")
    BY <1>1
  <2>. QED  BY ONLY <1>2, <1>3, <1>5, <2>1, GotoStep
<1>7. Held'
  <2>1. ASSUME NEW o \in Workers, NEW c \in Counts PROVE headerLock'[c] = o <=> HoldsHeader(o, c)'
    BY <1>1, <1>2, <1>6 DEF Held, HoldsHeader, Alone
  <2>2. ASSUME NEW o \in Workers, NEW r \in Products PROVE productLock'[r] = o <=> HoldsProduct(o, r)'
    BY <1>1, <1>2, <1>4, <1>5, <1>6 DEF Held, HoldsProduct, Alone
  <2>3. ASSUME NEW o \in Workers, NEW r \in Products, o \in keyShare'[r] PROVE pc'[o] \in {"lock", "commit"}
    BY <1>1, <1>2, <1>6, <2>3 DEF Held, Alone
  <2>. QED  BY <2>1, <2>2, <2>3 DEF Held
<1>. QED  BY <1>1, <1>3, <1>6, <1>7, AdjustLock

(* An adjustment is committed or refused.                                  *)
LEMMA CommitLock ==
    ASSUME LockInv, NEW w \in Workers, CommitAdjustment(w)
    PROVE  LockInv' /\ Alone(w)
<1>1. \E code : Finish(w, code) /\ load' = load /\ count' = count
  BY DEF CommitAdjustment, Return, tables
<1>. QED  BY <1>1, ReturnLock

(* A count is created: nobody else creates it or holds its header.         *)
LEMMA CreateLock ==
    ASSUME LockInv, NEW w \in Workers, CreateCount(w)
    PROVE  LockInv' /\ Alone(w)
<1>1. CASE \E code : Return(w, code)
  BY <1>1, ReturnLock DEF Return, tables
<1>2. CASE ~\E code : Return(w, code)
  <2>. PICK c : c = req[w].count
    OBVIOUS
  <2>. PICK z : z = [count[c] EXCEPT !.status = "DRAFT"]
    OBVIOUS
  <2>1. /\ pc[w] = "begin" /\ req[w].kind = "CREATE" /\ req[w].inStore /\ count' = [count EXCEPT ![c] = z]
        /\ Finish(w, "OK") /\ load' = load
    BY <1>2 DEF CreateCount, Is, SetStatus, OnlyCounts
  <2>2. c \in Counts /\ CountTable
    BY <2>1, Bodies DEF LockInv
  <2>3. IsCount(z)
    BY <2>2 DEF CountTable, IsCount
  <2>4. CountTable' /\ \A d \in Counts : d # c => count'[d] = count[d]
    BY <2>1, <2>2, <2>3, CountWrite
  <2>5. Creates(w, c) /\ Created
    BY <2>1 DEF Creates, LockInv
  <2>6. \A o \in Workers : o # w => ~Creates(o, c)
    BY <2>2, <2>5 DEF Created
  <2>7. ASSUME NEW o \in Workers, HoldsHeader(o, c) PROVE FALSE
    BY <2>2, <2>5, <2>7, OwnCount DEF HoldsHeader, Created
  <2>8. \A o \in Workers, d \in Counts : o # w /\ (HoldsHeader(o, d) \/ Creates(o, d)) => count'[d] = count[d]
    BY <2>4, <2>6, <2>7
  <2>. QED  BY <2>1, <2>4, <2>8, FinishLock
<1>. QED  BY <1>1, <1>2

(* A request takes the header.                                             *)
LEMMA HeaderLock ==
    ASSUME LockInv, NEW w \in Workers, LockHeader(w)
    PROVE  LockInv' /\ Alone(w)
<1>1. CASE \E code : Return(w, code)
  BY <1>1, ReturnLock DEF Return, tables
<1>2. CASE ~\E code : Return(w, code)
  <2>. PICK c : c = req[w].count
    OBVIOUS
  <2>. PICK x : x = tx[w]
    OBVIOUS
  <2>1. /\ pc[w] = "begin" /\ req[w].kind \in HeaderKinds /\ headerLock' = [headerLock EXCEPT ![c] = w]
        /\ headerLock[c] = NoOne /\ count[c].status \in Accepted[req[w].kind]
        /\ Goto(w, "products") /\ UNCHANGED <<tx, load, count, productLock, keyShare>>
    BY <1>2 DEF LockHeader, Is, tables
  <2>2. /\ IsTx(x) /\ x.held = tx[w].held /\ tx[w].held = {} /\ tx' = [tx EXCEPT ![w] = x] /\ Shape /\ Held
        /\ CountTable
    BY <2>1 DEF LockInv, Shape, Served
  <2>3. "products" \in Labels /\ "products" \notin Adjusts
    BY DEF Labels, Adjusts
  <2>4. c \in Counts /\ NoOne \notin Workers
    BY <2>1, <2>2, Bodies, StockRoomAssumption
  <2>5. /\ headerLock' \in [Counts -> Workers \cup {NoOne}] /\ productLock' \in [Products -> Workers \cup {NoOne}]
        /\ keyShare' \in [Products -> SUBSET Workers]
        /\ \A d \in Counts : headerLock'[d] = IF d = c THEN w ELSE headerLock[d]
    BY <2>1, <2>2, <2>4 DEF Shape
  <2>6. Shape' /\ Alone(w) /\ pc'[w] = "products" /\ tx'[w] = x /\ req'[w] = req[w]
    BY <2>1, <2>2, <2>3, <2>5, GotoStep
  <2>7. Held'
    <3>1. ASSUME NEW o \in Workers, NEW d \in Counts PROVE headerLock'[d] = o <=> HoldsHeader(o, d)'
      BY <2>1, <2>2, <2>4, <2>5, <2>6 DEF Held, HoldsHeader, Alone
    <3>2. ASSUME NEW o \in Workers, NEW r \in Products PROVE productLock'[r] = o <=> HoldsProduct(o, r)'
      BY <2>1, <2>2, <2>6 DEF Held, HoldsProduct, Alone
    <3>3. ASSUME NEW o \in Workers, NEW r \in Products, o \in keyShare'[r] PROVE pc'[o] \in {"lock", "commit"}
      BY <2>1, <2>2, <2>6, <3>3 DEF Held, Alone
    <3>. QED  BY <3>1, <3>2, <3>3 DEF Held
  <2>8. Ascending(w)'
    BY <2>1, <2>2, <2>6 DEF Ascending
  <2>9. \A d \in Counts : ~Creates(w, d)'
    BY <2>6 DEF Creates
  <2>. QED  BY <2>1, <2>2, <2>6, <2>7, <2>8, <2>9, SameTable, LockStep
<1>. QED  BY <1>1, <1>2

(* A request takes the next product, the lowest of those left.             *)
LEMMA ProductLock ==
    ASSUME LockInv, NEW w \in Workers, LockProduct(w)
    PROVE  /\ LockInv' /\ Alone(w) /\ pc[w] = "products" /\ pc'[w] = "products" /\ req'[w] = req[w]
           /\ \E p \in Products : tx'[w] = [held |-> tx[w].held \cup {p}, qty |-> [tx[w].qty EXCEPT ![p] = qty[p]]]
           /\ UNCHANGED <<tables, req, answer>>
<1>. PICK left : left = ToLock(req[w]) \ tx[w].held
  OBVIOUS
<1>. PICK p : p = CHOOSE m \in left : \A o \in left : m <= o
  OBVIOUS
<1>. PICK x : x = [held |-> tx[w].held \cup {p}, qty |-> [tx[w].qty EXCEPT ![p] = qty[p]]]
  OBVIOUS
<1>1. /\ pc[w] = "products" /\ req[w].kind \in HeaderKinds /\ left # {} /\ productLock[p] = NoOne
      /\ productLock' = [productLock EXCEPT ![p] = w] /\ tx' = [tx EXCEPT ![w] = x]
      /\ UNCHANGED <<pc, req, answer, tables, headerLock, keyShare>>
  BY DEF LockProduct, Is, MayLock
<1>2. UNCHANGED <<count, load>>
  BY <1>1 DEF tables
<1>3. Shape /\ Held /\ CountTable /\ NoOne \notin Workers /\ Ascending(w) /\ Served(w) /\ IsTx(tx[w])
  BY StockRoomAssumption DEF LockInv, Shape
<1>4. left \subseteq Products
  BY <1>1, <1>3, ToLockIn
<1>5. p \in left /\ p \in Products /\ \A o \in left : p <= o
  BY <1>1, <1>4, LeastOf
<1>6. IsTx(x) /\ x.held = tx[w].held \cup {p}
  BY <1>3, <1>5 DEF IsTx
<1>7. /\ pc' = [pc EXCEPT ![w] = "products"] /\ req' = [req EXCEPT ![w] = req[w]]
      /\ answer' = [answer EXCEPT ![w] = answer[w]]
      /\ headerLock' \in [Counts -> Workers \cup {NoOne}] /\ productLock' \in [Products -> Workers \cup {NoOne}]
      /\ keyShare' \in [Products -> SUBSET Workers]
      /\ \A r \in Products : productLock'[r] = IF r = p THEN w ELSE productLock[r]
  BY <1>1, <1>3, <1>5 DEF Shape
<1>8. "products" \in Labels /\ "products" \notin Adjusts
  BY DEF Labels, Adjusts
<1>9. Served(w)'
  BY <1>1, <1>2, <1>3, <1>8 DEF Served
<1>10. Shape' /\ Alone(w) /\ pc'[w] = "products" /\ tx'[w] = x /\ req'[w] = req[w]
  <2>1. w \in Workers /\ load' = load /\ tx' = [tx EXCEPT ![w] = x]
    BY <1>1, <1>2
  <2>. QED  BY ONLY <1>3, <1>6, <1>7, <1>8, <1>9, <2>1, GoStep
<1>11. Held'
  <2>1. ASSUME NEW o \in Workers, NEW d \in Counts PROVE headerLock'[d] = o <=> HoldsHeader(o, d)'
    BY <1>1, <1>3 DEF Held, HoldsHeader
  <2>2. ASSUME NEW o \in Workers, NEW r \in Products PROVE productLock'[r] = o <=> HoldsProduct(o, r)'
    <3>1. w \in Workers /\ p \in Products /\ pc[w] = "products" /\ productLock[p] = NoOne
      BY <1>1, <1>5
    <3>2. CASE o = w
      BY ONLY <1>3, <1>6, <1>7, <1>10, <2>2, <3>1, <3>2 DEF Held, HoldsProduct
    <3>3. CASE o # w
      BY ONLY <1>3, <1>7, <1>10, <2>2, <3>1, <3>3 DEF Held, HoldsProduct, Alone
    <3>. QED  BY <3>2, <3>3
  <2>3. ASSUME NEW o \in Workers, NEW r \in Products, o \in keyShare'[r] PROVE pc'[o] \in {"lock", "commit"}
    BY <1>1, <1>3, <2>3, SMTT(40) DEF Held
  <2>. QED  BY <2>1, <2>2, <2>3 DEF Held
<1>12. Ascending(w)'
  <2>1. ToLock(req[w])' = ToLock(req[w])
    BY <1>2, <1>10 DEF ToLock, CountedLines
  <2>2. tx[w].held \cup {p} \subseteq ToLock(req[w])
    BY <1>1, <1>3, <1>5 DEF Ascending
  <2>3. ASSUME NEW r \in tx[w].held \cup {p}, NEW o \in ToLock(req[w]) \ (tx[w].held \cup {p}) PROVE r < o
    <3>1. CASE r = p
      <4>1. p \in Int /\ o \in Int /\ p <= o /\ o # p
        BY <1>4, <1>5, <2>3, StockRoomAssumption
      <4>. QED  BY <3>1, <4>1
    <3>2. CASE r \in tx[w].held
      BY <1>1, <1>3, <3>2 DEF Ascending
    <3>. QED  BY <3>1, <3>2
  <2>. QED  BY <1>1, <1>2, <1>3, <1>6, <1>10, <2>1, <2>2, <2>3 DEF Ascending
<1>13. \A d \in Counts : ~Creates(w, d)'
  BY <1>10 DEF Creates
<1>14. LockInv'
  BY <1>2, <1>3, <1>10, <1>11, <1>12, <1>13, SameTable, LockStep
<1>. QED  BY <1>1, <1>5, <1>10, <1>14

(* A request that holds its header changes the count and ends.             *)
LEMMA CountsLock ==
    ASSUME LockInv, NEW w \in Workers, OpenCount(w) \/ EnterCount(w) \/ MoveCount(w) \/ PostCount(w) \/ RefuseNegative(w)
    PROVE  LockInv' /\ Alone(w) /\ pc[w] = "products" /\ pc'[w] = "idle"
<1>. PICK c : c = req[w].count
  OBVIOUS
<1>1. pc[w] = "products"
  BY DEF OpenCount, EnterCount, MoveCount, PostCount, RefuseNegative, AllLocked, Is
<1>2. c \in Counts /\ IsCount(count[c])
  BY <1>1, OwnCount DEF LockInv, CountTable
<1>3. CASE \E code : Return(w, code)
  BY <1>1, <1>3, ReturnLock DEF Return, tables
<1>4. CASE ~\E code : Return(w, code)
  <2>1. \A y : IsCount(y) => \A s, e, k : /\ IsCount([y EXCEPT !.status = s])
                                          /\ IsCount([y EXCEPT !.status = s, !.expected = e])
                                          /\ IsCount([y EXCEPT !.expected = e, !.counted = k])
    <3>. SUFFICES ASSUME NEW y, IsCount(y), NEW s, NEW e, NEW k
                  PROVE  /\ IsCount([y EXCEPT !.status = s]) /\ IsCount([y EXCEPT !.status = s, !.expected = e])
                         /\ IsCount([y EXCEPT !.expected = e, !.counted = k])
      OBVIOUS
    <3>. QED  BY CountRow, Zenon
  <2>2. Finish(w, "OK") /\ load' = load /\ \E z : IsCount(z) /\ count' = [count EXCEPT ![c] = z]
    <3>1. CASE OpenCount(w)
      BY <1>2, <2>1, <3>1 DEF OpenCount, OnlyCounts
    <3>2. CASE EnterCount(w)
      BY <1>2, <2>1, <3>2 DEF EnterCount, OnlyCounts
    <3>3. CASE MoveCount(w)
      BY <1>2, <2>1, <3>3 DEF MoveCount, SetStatus, OnlyCounts
    <3>4. CASE PostCount(w)
      BY <1>2, <1>4, <2>1, <3>4 DEF PostCount, SetStatus
    <3>5. CASE RefuseNegative(w)
      BY <1>4, <3>5 DEF RefuseNegative
    <3>. QED  BY <3>1, <3>2, <3>3, <3>4, <3>5, SMTT(40)
  <2>. QED  BY <1>1, <2>2, OwnCountLock
<1>. QED  BY <1>3, <1>4

(* A step that leaves sessions, locks and counts alone.                    *)
LEMMA FrameLock ==
    ASSUME LockInv, UNCHANGED <<count, load, locks, session>>
    PROVE  LockInv'
<1>1. UNCHANGED <<headerLock, productLock, keyShare, pc, req, tx, answer>>
  BY DEF locks, session
<1>2. Shape'
  BY <1>1 DEF LockInv, Shape, Served
<1>3. Held'
  BY <1>1 DEF LockInv, Held, HoldsHeader, HoldsProduct
<1>4. Created'
  BY <1>1 DEF LockInv, Created, Creates
<1>5. ASSUME NEW w \in Workers PROVE Ascending(w)'
  <2>1. ToLock(req[w])' = ToLock(req[w])
    BY <1>1 DEF ToLock, CountedLines
  <2>. QED  BY <1>1, <2>1 DEF LockInv, Ascending
<1>. QED  BY <1>2, <1>3, <1>4, <1>5, SameTable DEF LockInv

(* The start.                                                              *)
LEMMA InitLock == Init => LockInv
<1>. SUFFICES ASSUME Init PROVE LockInv
  OBVIOUS
<1>1. IsTx(EmptyTx) /\ EmptyTx.held = {} /\ "idle" \in Labels /\ "idle" \notin Adjusts
  BY DEF IsTx, EmptyTx, Labels, Adjusts
<1>2. \A w \in Workers : pc[w] = "idle" /\ req[w] = NoOne /\ tx[w] = EmptyTx
  BY DEF Init
<1>3. Shape
  <2>1. \A w \in Workers : IsTx(tx[w]) /\ Served(w)
    BY <1>1, <1>2 DEF Served
  <2>. QED  BY <1>1, <2>1 DEF Init, Shape
<1>4. NoOne \notin Workers
  BY StockRoomAssumption
<1>5. Held
  BY <1>2, <1>4 DEF Init, Held, HoldsHeader, HoldsProduct
<1>6. Created /\ \A w \in Workers : Ascending(w)
  BY <1>2 DEF Created, Creates, Ascending
<1>7. CountTable
  <2>1. count \in [Counts -> StockCount]
    BY StockRoomAssumption DEF Init, Workload
  <2>. QED  BY <2>1 DEF CountTable, IsCount, StockCount
<1>. QED  BY <1>3, <1>5, <1>6, <1>7 DEF LockInv

(* Every step.                                                             *)
LEMMA NextLock == LockInv /\ [Next]_vars => LockInv'
<1>. SUFFICES ASSUME LockInv, [Next]_vars PROVE LockInv'
  OBVIOUS
<1>1. ASSUME NEW w \in Workers, Step(w) PROVE LockInv'
  BY <1>1, BeginAdjustLock, InsertLock, LockAdjustedLock, CommitLock, CreateLock, HeaderLock, ProductLock, CountsLock
     DEF Step
<1>2. ASSUME NEW w \in Workers, Fail(w) PROVE LockInv'
  BY <1>2, ReturnLock DEF Fail, Return, tables
<1>3. ASSUME NEW p \in Products, NEW delta \in {-1, 1}, OtherMovement(p, delta) PROVE LockInv'
  BY <1>3, FrameLock DEF OtherMovement
<1>4. CASE ClosePeriod
  BY <1>4, FrameLock DEF ClosePeriod
<1>5. CASE UNCHANGED vars
  BY <1>5, FrameLock DEF vars, tables
<1>. QED  BY <1>1, <1>2, <1>3, <1>4, <1>5, SubmitLock DEF Next

-----------------------------------------------------------------------------
(* Deadlock freedom of the counts.                                         *)

(* Who is waited for: a worker that holds a header or products, or that    *)
(* has inserted an adjustment.                                             *)
LEMMA Waiting ==
    ASSUME LockInv, NEW w \in Workers, NEW o \in WaitsFor(w)
    PROVE  /\ o \in Workers /\ pc[o] \in {"products", "lock", "commit"} /\ pc[w] \in {"begin", "products"}
           /\ pc[w] = "products" => /\ o # w /\ ToLock(req[w]) \ tx[w].held # {}
                                    /\ pc[o] = "products" => Min(ToLock(req[w]) \ tx[w].held) \in tx[o].held
<1>. PICK left : left = ToLock(req[w]) \ tx[w].held
  OBVIOUS
<1>1. Shape /\ Held /\ NoOne \notin Workers
  BY StockRoomAssumption DEF LockInv
<1>2. CASE Is(w, HeaderKinds, "begin")
  <2>1. req[w].count \in Counts
    BY <1>1, <1>2, Bodies DEF Is
  <2>2. o = headerLock[req[w].count] /\ o # NoOne
    <3>1. WaitsFor(w) = {headerLock[req[w].count]} \ {NoOne}
      BY <1>2 DEF WaitsFor, Is, HeaderKinds
    <3>. QED  BY <3>1
  <2>3. o \in Workers /\ HoldsHeader(o, req[w].count)
    BY <1>1, <2>1, <2>2 DEF Shape, Held
  <2>. QED  BY <1>2, <2>3 DEF HoldsHeader, Is
<1>3. CASE Is(w, HeaderKinds, "products") /\ ToLock(req[w]) # tx[w].held
  <2>1. left \subseteq Products /\ left # {} /\ pc[w] = "products"
    BY <1>1, <1>3, ToLockIn DEF LockInv, Ascending, Is
  <2>2. Min(left) \in Products
    BY <2>1, LeastOf
  <2>3. WaitsFor(w) = HoldersOf(w, Min(left))
    BY <1>3 DEF WaitsFor, Is
  <2>4. o # w /\ (o = productLock[Min(left)] \/ o \in keyShare[Min(left)]) /\ o # NoOne
    BY <2>3 DEF HoldersOf
  <2>5. o \in Workers
    BY <1>1, <2>2, <2>4 DEF Shape
  <2>6. pc[o] \in {"products", "lock", "commit"} /\ (pc[o] = "products" => Min(left) \in tx[o].held)
    BY <1>1, <2>2, <2>4, <2>5 DEF Held, HoldsProduct
  <2>. QED  BY <2>1, <2>4, <2>5, <2>6
<1>4. CASE Is(w, {"CREATE"}, "begin")
  <2>1. req[w].count \in Counts
    BY <1>1, <1>4, Bodies DEF Is
  <2>2. load.scope[req[w].count] \subseteq Products
    BY <1>1, <2>1, Scopes
  <2>3. PICK p \in load.scope[req[w].count] : o = productLock[p] /\ o # NoOne
    BY <1>4 DEF WaitsFor, Is, HeaderKinds
  <2>4. o \in Workers /\ HoldsProduct(o, p)
    BY <1>1, <2>2, <2>3 DEF Shape, Held
  <2>. QED  BY <1>4, <2>4 DEF HoldsProduct, Is
<1>. QED  BY <1>2, <1>3, <1>4 DEF WaitsFor

(* In a circle all would hold products and wait for a higher one: the one  *)
(* that waits for the highest is waited for by nobody it waits for.        *)
LEMMA NoCircle == LockInv => CountsNeverDeadlock
<1>. SUFFICES ASSUME LockInv, NEW S \in (SUBSET Workers) \ {{}}, \A w \in S : WaitsFor(w) \cap S # {}
              PROVE  FALSE
  BY DEF CountsNeverDeadlock
<1>. DEFINE left(w) == ToLock(req[w]) \ tx[w].held
            Next1(w) == Min(left(w))
            P == {w \in S : pc[w] = "products"}
<1>1. ASSUME NEW w \in S PROVE \E o \in P : o \in WaitsFor(w)
  <2>1. PICK o \in S : o \in WaitsFor(w)
    OBVIOUS
  <2>2. PICK u \in S : u \in WaitsFor(o)
    OBVIOUS
  <2>3. pc[o] \in {"products", "lock", "commit"} /\ pc[o] \in {"begin", "products"}
    BY <2>1, <2>2, Waiting
  <2>. QED  BY <2>1, <2>3
<1>2. P # {}
  BY <1>1
<1>3. \A w \in P : left(w) \subseteq Products /\ left(w) # {} /\ Next1(w) \in left(w) /\ \A r \in left(w) : Next1(w) <= r
  <2>. SUFFICES ASSUME NEW w \in P
                PROVE  left(w) \subseteq Products /\ left(w) # {} /\ Next1(w) \in left(w) /\ \A r \in left(w) : Next1(w) <= r
    OBVIOUS
  <2>1. left(w) \subseteq Products
    BY ToLockIn DEF LockInv
  <2>2. left(w) # {}
    BY <1>1, Waiting
  <2>. QED  BY <2>1, <2>2, LeastOf
<1>. DEFINE M == {Next1(w) : w \in P}
<1>4. IsFiniteSet(M) /\ M # {} /\ M \subseteq Int
  <2>1. M \subseteq Products /\ M # {}
    <3>1. ASSUME NEW x \in M PROVE x \in Products
      <4>1. PICK w \in P : x = Next1(w)
        OBVIOUS
      <4>. HIDE DEF P, left, Next1
      <4>. QED  BY <1>3, <4>1
    <3>. HIDE DEF P, left, Next1
    <3>2. M # {}
      BY <1>2
    <3>. QED  BY <3>1, <3>2
  <2>2. IsFiniteSet(Products) /\ Products \subseteq Int
    BY StockRoomAssumption
  <2>. QED  BY ONLY <2>1, <2>2, FS_Subset
<1>5. PICK m \in M : \A x \in M : x <= m
  BY ONLY <1>4, FiniteMax
<1>6. PICK w \in P : m = Next1(w)
  OBVIOUS
<1>7. PICK o \in P : o \in WaitsFor(w)
  BY <1>1
<1>8. Next1(w) \in tx[o].held
  BY <1>7, Waiting
<1>9. Next1(w) < Next1(o)
  BY <1>3, <1>8 DEF LockInv, Ascending
<1>10. Next1(o) <= m /\ m \in Int /\ Next1(o) \in Int
  BY <1>4, <1>5
<1>. QED  BY <1>6, <1>9, <1>10

(* Requests on counts never wait for each other in a circle: post, open    *)
(* and enter take the header and then products in ascending order, and a   *)
(* manual adjustment waits holding nothing they wait behind.               *)
THEOREM CountsDeadlockFree == Spec => []CountsNeverDeadlock
<1>1. Spec => []LockInv
  BY InitLock, NextLock, PTL DEF Spec
<1>. QED  BY <1>1, NoCircle, PTL

-----------------------------------------------------------------------------
(* Sets as sequences, and rows appended to a ledger.                       *)

(* SetToSeq lists every element of a finite set once.                      *)
LEMMA Listed ==
    ASSUME NEW S, IsFiniteSet(S)
    PROVE  /\ Cardinality(S) \in Nat /\ SetToSeq(S) \in [1 .. Cardinality(S) -> S]
           /\ \A i, j \in 1 .. Cardinality(S) : SetToSeq(S)[i] = SetToSeq(S)[j] => i = j
           /\ \A x \in S : \E i \in 1 .. Cardinality(S) : SetToSeq(S)[i] = x
<1>. DEFINE n == Cardinality(S)
            f == SetToSeq(S)
<1>1. n \in Nat /\ ExistsBijection(1 .. n, S)
  BY FS_CardinalityType
<1>2. \E g \in [1 .. n -> S] : IsInjective(g)
  BY <1>1 DEF ExistsBijection, Bijection, Injection
<1>3. f \in [1 .. n -> S] /\ IsInjective(f)
  BY <1>2 DEF SetToSeq
<1>. HIDE DEF f
<1>4. f \in Injection(1 .. n, S)
  BY <1>3 DEF Injection
<1>5. Cardinality(1 .. n) = n
  BY <1>1, FS_Interval
<1>6. f \in Surjection(1 .. n, S)
  BY <1>4, <1>5, FS_Injection
<1>7. \A x \in S : \E i \in 1 .. n : f[i] = x
  BY <1>6 DEF Surjection
<1>8. \A i, j \in 1 .. n : f[i] = f[j] => i = j
  BY <1>3 DEF IsInjective
<1>. QED  BY <1>1, <1>3, <1>7, <1>8 DEF f

(* One element is one row, none is none.                                   *)
LEMMA ListedOne == ASSUME NEW x PROVE SetToSeq({x}) = <<x>>
<1>1. IsFiniteSet({x}) /\ Cardinality({x}) = 1
  BY FS_Singleton
<1>2. SetToSeq({x}) \in [1 .. 1 -> {x}]
  BY <1>1, Listed
<1>3. \A f \in [1 .. 1 -> {x}] : f = <<x>>
  OBVIOUS
<1>. QED  BY <1>2, <1>3

(* Nothing to list: the empty sequence.                                    *)
LEMMA ListedNone == SetToSeq({}) = <<>>
<1>1. IsFiniteSet({}) /\ Cardinality({}) = 0
  BY FS_EmptySet
<1>2. SetToSeq({}) \in [1 .. 0 -> {}]
  BY <1>1, Listed
<1>3. \A f \in [1 .. 0 -> {}] : f = <<>>
  OBVIOUS
<1>. QED  BY <1>2, <1>3

(* A row is added at the end.                                              *)
LEMMA RowAdded ==
    ASSUME NEW rows \in Seq(LedgerRow), NEW m \in LedgerRow, NEW new, new = rows \o <<m>>
    PROVE  /\ new \in Seq(LedgerRow) /\ Len(rows) \in Nat /\ Len(new) = Len(rows) + 1 /\ new[Len(rows) + 1] = m
           /\ DOMAIN new = DOMAIN rows \cup {Len(rows) + 1} /\ Len(rows) + 1 \notin DOMAIN rows
           /\ \A i \in DOMAIN rows : new[i] = rows[i]
  OBVIOUS

(* A row on top of the last keeps a ledger chained.                        *)
LEMMA ChainRow ==
    ASSUME NEW q \in Int, NEW w \in Int, NEW rows \in Seq(LedgerRow), Chained(q, rows, w),
           NEW m \in LedgerRow, m.result = w + m.delta
    PROVE  Chained(q, rows \o <<m>>, m.result)
<1>. PICK new : new = rows \o <<m>>
  OBVIOUS
<1>1. Len(new) = Len(rows) + 1 /\ new[Len(rows) + 1] = m /\ Len(rows) \in Nat /\ \A i \in 1 .. Len(rows) : new[i] = rows[i]
  BY RowAdded
<1>2. ASSUME NEW i \in 1 .. Len(new) PROVE new[i].result = Before(q, new, i) + new[i].delta
  <2>1. CASE i = Len(rows) + 1
    BY <1>1, <2>1 DEF Chained, Before
  <2>2. CASE i \in 1 .. Len(rows)
    BY <1>1, <2>2 DEF Chained, Before
  <2>. QED  BY <1>1, <2>1, <2>2
<1>3. m.result = Before(q, new, Len(new) + 1)
  BY <1>1 DEF Before
<1>. QED  BY <1>2, <1>3 DEF Chained

-----------------------------------------------------------------------------
(* What recording adjustments does.                                        *)

(* New rows, of one product each, with the ids that follow.                *)
NewRows(new) ==
    /\ new \subseteq Adjustment /\ IsFiniteSet(new)
    /\ \A a \in new : a.id \in NewId .. Cardinality(adjustments) + Cardinality(new)
    /\ \A a, b \in new : a.id = b.id \/ a.product = b.product => a = b

RowOf(a, on_hand) == [delta |-> a.delta, result |-> on_hand[a.product] + a.delta, ref |-> a.id]

(* A product of a new row moves by it, every other one stays.              *)
LEMMA RecordRows ==
    ASSUME Stocked, NEW new, NewRows(new), NEW on_hand \in [Products -> Int], Record(new, on_hand)
    PROVE  /\ \A p \in Products : (\A a \in new : a.product # p) => qty'[p] = qty[p] /\ ledger'[p] = ledger[p]
           /\ \A a \in new : /\ RowOf(a, on_hand) \in LedgerRow /\ qty'[a.product] = on_hand[a.product] + a.delta
                             /\ ledger'[a.product] = ledger[a.product] \o <<RowOf(a, on_hand)>>
           /\ qty' \in [Products -> Int] /\ ledger' \in [Products -> Seq(LedgerRow)]
<1>. DEFINE ofProduct(p) == {a \in new : a.product = p}
            After(p) == on_hand[p] + (CHOOSE a \in ofProduct(p) : TRUE).delta
            Rows(p) == {[delta |-> a.delta, result |-> After(p), ref |-> a.id] : a \in ofProduct(p)}
<1>1. /\ qty' = [p \in Products |-> IF ofProduct(p) = {} THEN qty[p] ELSE After(p)]
      /\ ledger' = [p \in Products |-> ledger[p] \o SetToSeq(Rows(p))]
  BY DEF Record
<1>2. ASSUME NEW p \in Products, \A a \in new : a.product # p PROVE qty'[p] = qty[p] /\ ledger'[p] = ledger[p]
  <2>1. ofProduct(p) = {}
    BY <1>2
  <2>2. Rows(p) = {}
    BY <2>1
  <2>3. ledger'[p] = ledger[p] \o SetToSeq(Rows(p)) /\ qty'[p] = qty[p]
    BY <1>1, <2>1
  <2>4. ledger'[p] = ledger[p] \o <<>>
    BY <2>2, <2>3, ListedNone
  <2>5. ledger[p] \in Seq(LedgerRow)
    BY DEF Stocked
  <2>6. \A s \in Seq(LedgerRow) : s \o <<>> = s
    OBVIOUS
  <2>. QED  BY <2>3, <2>4, <2>5, <2>6
<1>3. ASSUME NEW a \in new
      PROVE  /\ RowOf(a, on_hand) \in LedgerRow /\ qty'[a.product] = on_hand[a.product] + a.delta
             /\ ledger'[a.product] = ledger[a.product] \o <<RowOf(a, on_hand)>>
  <2>. PICK p : p = a.product
    OBVIOUS
  <2>1. a \in Adjustment
    BY DEF NewRows
  <2>2. p \in Products /\ a.delta \in Int /\ a.id \in Nat
    BY <2>1 DEF Adjustment
  <2>3. ofProduct(p) = {a}
    BY DEF NewRows
  <2>4. After(p) = on_hand[p] + a.delta
    <3>1. (CHOOSE b \in ofProduct(p) : TRUE) = a
      BY <2>3
    <3>. QED  BY <3>1
  <2>5. Rows(p) = {RowOf(a, on_hand)}
    <3>. HIDE DEF After
    <3>. QED  BY <2>3, <2>4 DEF RowOf
  <2>6. ledger'[p] = ledger[p] \o SetToSeq(Rows(p)) /\ qty'[p] = After(p)
    BY <1>1, <2>2, <2>3
  <2>7. SetToSeq({RowOf(a, on_hand)}) = <<RowOf(a, on_hand)>>
    BY ListedOne
  <2>8. RowOf(a, on_hand) \in LedgerRow
    BY <2>2 DEF RowOf, LedgerRow
  <2>. QED  BY <2>4, <2>5, <2>6, <2>7, <2>8
<1>4. ASSUME NEW p \in Products PROVE qty'[p] \in Int /\ ledger'[p] \in Seq(LedgerRow)
  <2>1. qty[p] \in Int /\ ledger[p] \in Seq(LedgerRow)
    BY DEF Stocked
  <2>2. CASE \A a \in new : a.product # p
    BY <1>2, <2>1, <2>2
  <2>3. ASSUME NEW a \in new, a.product = p PROVE qty'[p] \in Int /\ ledger'[p] \in Seq(LedgerRow)
    <3>1. a.delta \in Int
      BY DEF NewRows, Adjustment
    <3>2. RowOf(a, on_hand) \in LedgerRow /\ ledger'[p] = ledger[p] \o <<RowOf(a, on_hand)>>
      BY <1>3, <2>3
    <3>3. ledger'[p] \in Seq(LedgerRow)
      BY <2>1, <3>2, RowAdded
    <3>4. qty'[p] = on_hand[p] + a.delta
      BY <1>3, <2>3
    <3>5. on_hand[p] + a.delta \in Int
      BY <3>1
    <3>. QED  BY <3>3, <3>4, <3>5
  <2>. QED  BY <2>2, <2>3
<1>5. qty' \in [Products -> Int] /\ ledger' \in [Products -> Seq(LedgerRow)]
  <2>. HIDE DEF ofProduct, After, Rows
  <2>. QED  BY <1>1, <1>4
<1>. QED  BY <1>2, <1>3, <1>5

(* The ids of the new rows are new, and the ledger has no row of theirs.   *)
LEMMA NewIds ==
    ASSUME Stocked, NEW new, NewRows(new)
    PROVE  /\ Cardinality(adjustments) \in Nat /\ Cardinality(new) \in Nat
           /\ IsFiniteSet(adjustments \cup new)
           /\ Cardinality(adjustments \cup new) = Cardinality(adjustments) + Cardinality(new)
           /\ \A a \in adjustments, b \in new : a.id < b.id
           /\ \A b \in new, p \in Products : \A i \in DOMAIN ledger[p] : ledger[p][i].ref # b.id
<1>1. IsFiniteSet(adjustments) /\ IsFiniteSet(new)
  BY DEF Stocked, Numbered, NewRows
<1>2. Cardinality(adjustments) \in Nat /\ Cardinality(new) \in Nat
  BY <1>1, FS_CardinalityType
<1>3. ASSUME NEW a \in adjustments, NEW b \in new PROVE a.id < b.id
  <2>1. a.id \in 1 .. Cardinality(adjustments)
    BY DEF Stocked, Numbered
  <2>2. b.id \in Cardinality(adjustments) + 1 .. Cardinality(adjustments) + Cardinality(new)
    BY DEF NewRows, NewId
  <2>. QED  BY <1>2, <2>1, <2>2
<1>4. adjustments \cap new = {}
  <2>. SUFFICES ASSUME NEW a \in adjustments, a \in new PROVE FALSE
    OBVIOUS
  <2>1. a.id < a.id /\ a.id \in Nat
    BY <1>3 DEF NewRows, Adjustment
  <2>. QED  BY <2>1
<1>5. IsFiniteSet(adjustments \cup new) /\ Cardinality(adjustments \cup new) = Cardinality(adjustments) + Cardinality(new)
  <2>1. /\ IsFiniteSet(adjustments \cup new)
        /\ Cardinality(adjustments \cup new)
             = Cardinality(adjustments) + Cardinality(new) - Cardinality(adjustments \cap new)
    BY <1>1, FS_Union
  <2>2. Cardinality(adjustments \cap new) = 0
    BY <1>4, FS_EmptySet
  <2>. QED  BY <1>2, <2>1, <2>2
<1>6. ASSUME NEW b \in new, NEW p \in Products, NEW i \in DOMAIN ledger[p], ledger[p][i].ref = b.id PROVE FALSE
  <2>1. b.id \in Nat
    BY DEF NewRows, Adjustment
  <2>2. b.id # NoOne
    BY <2>1, StockRoomAssumption
  <2>3. PICK a \in adjustments : a.id = ledger[p][i].ref
    BY <1>6, <2>2 DEF Stocked, Booked
  <2>4. a.id < b.id
    BY <1>3
  <2>. QED  BY <1>6, <2>1, <2>3, <2>4
<1>. QED  BY <1>2, <1>3, <1>5, <1>6

(* Recording keeps rows, movements and entries together.                   *)
LEMMA Recorded ==
    ASSUME Stocked, NEW new, NewRows(new), NEW on_hand \in [Products -> Int], Record(new, on_hand), load' = load,
           Cardinality(adjustments \cup new) <= load.adjustments
    PROVE  Stocked'
<1>1. /\ \A p \in Products : (\A a \in new : a.product # p) => qty'[p] = qty[p] /\ ledger'[p] = ledger[p]
      /\ \A a \in new : /\ RowOf(a, on_hand) \in LedgerRow /\ qty'[a.product] = on_hand[a.product] + a.delta
                        /\ ledger'[a.product] = ledger[a.product] \o <<RowOf(a, on_hand)>>
      /\ qty' \in [Products -> Int] /\ ledger' \in [Products -> Seq(LedgerRow)]
  BY RecordRows
<1>2. adjustments' = adjustments \cup new /\ entries' = entries \cup Post(new)
  BY DEF Record
<1>3. /\ Cardinality(adjustments) \in Nat /\ Cardinality(new) \in Nat
      /\ IsFiniteSet(adjustments') /\ Cardinality(adjustments') = Cardinality(adjustments) + Cardinality(new)
      /\ \A a \in adjustments, b \in new : a.id < b.id
      /\ \A b \in new, p \in Products : \A i \in DOMAIN ledger[p] : ledger[p][i].ref # b.id
  BY <1>2, NewIds
<1>4. adjustments' \subseteq Adjustment
  BY <1>2 DEF Stocked, NewRows
<1>5. Numbered'
  <2>1. ASSUME NEW a \in adjustments' PROVE a.id \in 1 .. Cardinality(adjustments')
    <3>1. CASE a \in adjustments
      BY <1>3, <3>1 DEF Stocked, Numbered
    <3>2. CASE a \in new
      BY <1>3, <3>2 DEF NewRows, NewId
    <3>. QED  BY <1>2, <3>1, <3>2
  <2>2. ASSUME NEW a \in adjustments', NEW b \in adjustments', a.id = b.id PROVE a = b
    <3>0. a.id \in Nat
      BY <1>4 DEF Adjustment
    <3>1. CASE a \in adjustments /\ b \in adjustments
      BY <2>2, <3>1 DEF Stocked, Numbered
    <3>2. CASE a \in new /\ b \in new
      BY <2>2, <3>2 DEF NewRows
    <3>3. CASE a \in adjustments /\ b \in new
      <4>1. a.id < b.id
        BY <1>3, <3>3
      <4>. QED  BY <2>2, <3>0, <4>1
    <3>4. CASE a \in new /\ b \in adjustments
      <4>1. b.id < a.id
        BY <1>3, <3>4
      <4>. QED  BY <2>2, <3>0, <4>1
    <3>. QED  BY <1>2, <3>1, <3>2, <3>3, <3>4
  <2>. QED  BY <1>2, <1>3, <2>1, <2>2 DEF Numbered
<1>6. ASSUME NEW a \in adjustments PROVE HasMovement(a)'
  <2>1. a \in Adjustment
    BY DEF Stocked
  <2>2. a.product \in Products /\ ledger[a.product] \in Seq(LedgerRow)
    BY <2>1 DEF Adjustment, Stocked
  <2>3. PICK i \in DOMAIN ledger[a.product] : ledger[a.product][i].delta = a.delta /\ Moves(a) = {i}
    BY DEF Stocked, Booked, HasMovement
  <2>4. CASE \A b \in new : b.product # a.product
    <3>1. ledger'[a.product] = ledger[a.product]
      BY <1>1, <2>2, <2>4
    <3>2. Moves(a)' = Moves(a)
      BY <3>1 DEF Moves
    <3>. QED  BY <2>3, <3>1, <3>2 DEF HasMovement
  <2>5. ASSUME NEW b \in new, b.product = a.product PROVE HasMovement(a)'
    <3>. PICK rows, row : rows = ledger[a.product] /\ row = RowOf(b, on_hand)
      OBVIOUS
    <3>1. ledger'[a.product] = rows \o <<row>> /\ row \in LedgerRow /\ row.ref = b.id
      BY <1>1, <2>5 DEF RowOf
    <3>2. /\ DOMAIN ledger'[a.product] = DOMAIN rows \cup {Len(rows) + 1} /\ ledger'[a.product][Len(rows) + 1] = row
          /\ \A j \in DOMAIN rows : ledger'[a.product][j] = rows[j]
      BY <2>2, <3>1, RowAdded
    <3>3. a.id # b.id
      <4>1. a.id < b.id /\ a.id \in Nat
        BY <1>3, <2>1 DEF Adjustment
      <4>. QED  BY <4>1
    <3>4. Moves(a)' = Moves(a)
      BY <3>1, <3>2, <3>3 DEF Moves
    <3>. QED  BY <2>3, <3>2, <3>4 DEF HasMovement
  <2>. QED  BY <2>4, <2>5
<1>7. ASSUME NEW b \in new PROVE HasMovement(b)'
  <2>. PICK rows, row : rows = ledger[b.product] /\ row = RowOf(b, on_hand)
    OBVIOUS
  <2>1. b.product \in Products /\ rows \in Seq(LedgerRow)
    BY DEF NewRows, Adjustment, Stocked
  <2>2. ledger'[b.product] = rows \o <<row>> /\ row \in LedgerRow /\ row.ref = b.id /\ row.delta = b.delta
    BY <1>1 DEF RowOf
  <2>3. /\ DOMAIN ledger'[b.product] = DOMAIN rows \cup {Len(rows) + 1} /\ ledger'[b.product][Len(rows) + 1] = row
        /\ \A j \in DOMAIN rows : ledger'[b.product][j] = rows[j]
    BY <2>1, <2>2, RowAdded
  <2>4. \A j \in DOMAIN rows : rows[j].ref # b.id
    BY <1>3, <2>1
  <2>5. Moves(b)' = {Len(rows) + 1}
    BY <2>2, <2>3, <2>4 DEF Moves
  <2>. QED  BY <2>2, <2>3, <2>5 DEF HasMovement
<1>8. entries' = Post(adjustments')
  <2>1. entries = Post(adjustments)
    BY DEF Stocked, Booked
  <2>2. \A A, B : Post(A \cup B) = Post(A) \cup Post(B)
    BY DEF Post
  <2>. QED  BY <1>2, <2>1, <2>2
<1>9. ASSUME NEW p \in Products, NEW i \in DOMAIN ledger'[p], ledger'[p][i].ref # NoOne
      PROVE  \E a \in adjustments' : a.id = ledger'[p][i].ref /\ a.product = p
  <2>0. ledger[p] \in Seq(LedgerRow)
    BY DEF Stocked
  <2>1. CASE \A b \in new : b.product # p
    <3>1. ledger'[p] = ledger[p]
      BY <1>1, <2>1
    <3>2. \E a \in adjustments : a.id = ledger[p][i].ref /\ a.product = p
      BY <1>9, <3>1 DEF Stocked, Booked
    <3>. QED  BY <1>2, <3>1, <3>2
  <2>2. ASSUME NEW b \in new, b.product = p PROVE \E a \in adjustments' : a.id = ledger'[p][i].ref /\ a.product = p
    <3>. PICK rows, row : rows = ledger[p] /\ row = RowOf(b, on_hand)
      OBVIOUS
    <3>1. ledger'[p] = rows \o <<row>> /\ row \in LedgerRow /\ row.ref = b.id
      BY <1>1, <2>2 DEF RowOf
    <3>2. /\ DOMAIN ledger'[p] = DOMAIN rows \cup {Len(rows) + 1} /\ ledger'[p][Len(rows) + 1] = row
          /\ \A j \in DOMAIN rows : ledger'[p][j] = rows[j]
      BY <2>0, <3>1, RowAdded
    <3>3. CASE i \in DOMAIN rows
      BY <1>2, <1>9, <3>2, <3>3 DEF Stocked, Booked
    <3>4. CASE i = Len(rows) + 1
      BY <1>2, <2>2, <3>1, <3>2, <3>4
    <3>. QED  BY <3>2, <3>3, <3>4
  <2>. QED  BY <2>1, <2>2
<1>10. Booked'
  <2>1. \A a \in adjustments' : HasMovement(a)'
    BY <1>2, <1>6, <1>7
  <2>2. \A p \in Products : \A i \in DOMAIN ledger'[p] :
            ledger'[p][i].ref # NoOne => \E a \in adjustments' : a.id = ledger'[p][i].ref /\ a.product = p
    BY <1>9
  <2>3. entries' = Post(adjustments)'
    BY <1>8 DEF Post
  <2>. QED  BY <2>1, <2>2, <2>3 DEF Booked
<1>. QED  BY <1>1, <1>4, <1>5, <1>10 DEF Stocked

(* A manual adjustment is one new row.                                     *)
LEMMA OneRow ==
    ASSUME Stocked, NEW a \in Adjustment, a.id = NewId
    PROVE  NewRows({a})
<1>1. IsFiniteSet({a}) /\ Cardinality({a}) = 1
  BY FS_Singleton
<1>2. Cardinality(adjustments) \in Nat
  BY FS_CardinalityType DEF Stocked, Numbered
<1>3. a.id \in NewId .. Cardinality(adjustments) + Cardinality({a})
  BY <1>1, <1>2 DEF NewId
<1>. QED  BY <1>1, <1>3 DEF NewRows

(* A posting has one new row for each counted line off its quantity.       *)
LEMMA CorrectionRows ==
    ASSUME Stocked, NEW w \in Workers, NEW c \in Counts, tx[w].qty \in [Products -> Int], CountedLines(c) \subseteq Products,
           count \in [Counts -> StockCount]
    PROVE  /\ NewRows(Corrections(w, c))
           /\ \A a \in Corrections(w, c) : /\ a.product \in CountedLines(c) /\ a.delta = Variance(w, c, a.product)
                                           /\ a.key = NoOne /\ a.count = c
           /\ \A p \in CountedLines(c) : Variance(w, c, p) # 0 => \E a \in Corrections(w, c) : a.product = p
<1>. DEFINE D == {p \in CountedLines(c) : Variance(w, c, p) # 0}
            moved == SetToSeq(D)
            n == Cardinality(D)
            m == Cardinality(adjustments)
            Row(i) == [id |-> NewId + i - 1, product |-> moved[i], delta |-> Variance(w, c, moved[i]), key |-> NoOne, count |-> c]
            new == Corrections(w, c)
<1>1. IsFiniteSet(D)
  BY StockRoomAssumption, FS_Subset
<1>2. /\ n \in Nat /\ moved \in [1 .. n -> D]
      /\ \A i, j \in 1 .. n : moved[i] = moved[j] => i = j
      /\ \A x \in D : \E i \in 1 .. n : moved[i] = x
  BY <1>1, Listed
<1>3. m \in Nat
  BY FS_CardinalityType DEF Stocked, Numbered
<1>4. \A p \in D : p \in Products /\ p \in CountedLines(c) /\ Variance(w, c, p) \in Int \ {0}
  <2>. SUFFICES ASSUME NEW p \in D PROVE p \in Products /\ p \in CountedLines(c) /\ Variance(w, c, p) \in Int \ {0}
    OBVIOUS
  <2>1. p \in Products /\ p \in CountedLines(c) /\ Variance(w, c, p) # 0
    OBVIOUS
  <2>2. count[c].counted \in [Products -> Nat \cup {NoOne}]
    BY DEF StockCount
  <2>3. count[c].counted[p] \in Nat
    BY <2>1, <2>2 DEF CountedLines
  <2>. QED  BY <2>1, <2>3 DEF Variance
<1>5. new = {Row(i) : i \in 1 .. n}
  <2>1. DOMAIN moved = 1 .. n
    BY <1>2
  <2>. QED  BY <2>1 DEF Corrections
<1>. HIDE DEF D, moved, n, m, new
<1>6. ASSUME NEW i \in 1 .. n PROVE /\ Row(i) \in Adjustment /\ Row(i).id = m + i /\ Row(i).product = moved[i]
                                    /\ moved[i] \in D
  <2>1. moved[i] \in D /\ i \in Nat \ {0}
    BY <1>2
  <2>2. moved[i] \in Products /\ Variance(w, c, moved[i]) \in Int \ {0}
    BY <1>4, <2>1
  <2>3. NewId + i - 1 = m + i /\ m + i \in Nat \ {0}
    BY <1>3, <2>1 DEF NewId, m
  <2>. QED  BY <2>1, <2>2, <2>3 DEF Adjustment
<1>7. IsFiniteSet(new) /\ Cardinality(new) = n
  <2>. DEFINE f == [i \in 1 .. n |-> Row(i)]
  <2>1. f \in [1 .. n -> new] /\ \A i \in 1 .. n : f[i] = Row(i)
    BY <1>5
  <2>2. ASSUME NEW i \in 1 .. n, NEW j \in 1 .. n, Row(i) = Row(j) PROVE i = j
    <3>1. moved[i] = moved[j]
      BY <1>6, <2>2
    <3>. QED  BY <1>2, <3>1
  <2>3. \A x \in new : \E i \in 1 .. n : f[i] = x
    BY <1>5, <2>1
  <2>4. f \in Injection(1 .. n, new)
    <3>. HIDE DEF Row
    <3>. QED  BY <2>1, <2>2 DEF Injection, IsInjective
  <2>. HIDE DEF f, Row
  <2>5. f \in Surjection(1 .. n, new)
    BY <2>1, <2>3 DEF Surjection
  <2>6. ExistsBijection(1 .. n, new)
    BY <2>4, <2>5 DEF ExistsBijection, Bijection
  <2>7. IsFiniteSet(1 .. n) /\ Cardinality(1 .. n) = n
    BY <1>2, FS_Interval
  <2>. QED  BY <2>6, <2>7, FS_Bijection
<1>8. \A a \in new : a \in Adjustment /\ a.id \in NewId .. m + n
  <2>. SUFFICES ASSUME NEW i \in 1 .. n PROVE Row(i) \in Adjustment /\ Row(i).id \in NewId .. m + n
    BY <1>5
  <2>1. Row(i).id = m + i /\ Row(i) \in Adjustment
    BY <1>6
  <2>2. m + i \in m + 1 .. m + n
    BY <1>2, <1>3
  <2>. QED  BY <2>1, <2>2 DEF NewId, m
<1>9. ASSUME NEW a \in new, NEW b \in new, a.id = b.id \/ a.product = b.product PROVE a = b
  <2>1. PICK i \in 1 .. n, j \in 1 .. n : a = Row(i) /\ b = Row(j)
    BY <1>5
  <2>. HIDE DEF Row
  <2>2. a.id = m + i /\ b.id = m + j /\ a.product = moved[i] /\ b.product = moved[j]
    BY <1>6, <2>1
  <2>3. i = j
    <3>1. CASE a.id = b.id
      BY <1>2, <1>3, <2>2, <3>1
    <3>2. CASE a.product = b.product
      BY <1>2, <2>2, <3>2
    <3>. QED  BY <1>9, <3>1, <3>2
  <2>. QED  BY <2>1, <2>3
<1>10. NewRows(new)
  BY <1>7, <1>8, <1>9 DEF NewRows, m
<1>11. \A a \in new : a.product \in CountedLines(c) /\ a.delta = Variance(w, c, a.product) /\ a.key = NoOne /\ a.count = c
  <2>. SUFFICES ASSUME NEW i \in 1 .. n
                PROVE  /\ Row(i).product \in CountedLines(c) /\ Row(i).delta = Variance(w, c, Row(i).product)
                       /\ Row(i).key = NoOne /\ Row(i).count = c
    BY <1>5
  <2>. QED  BY <1>4, <1>6
<1>12. ASSUME NEW p \in CountedLines(c), Variance(w, c, p) # 0 PROVE \E a \in new : a.product = p
  <2>1. p \in D
    BY <1>12 DEF D
  <2>2. PICK i \in 1 .. n : moved[i] = p
    BY <1>2, <2>1
  <2>. QED  BY <1>5, <1>6, <2>2
<1>. QED  BY <1>10, <1>11, <1>12 DEF new

-----------------------------------------------------------------------------
(* Every step keeps stock, ledger, adjustments and entries together.       *)

(* Nothing recorded, nothing disturbed.                                    *)
LEMMA SameStock == ASSUME Stocked, UNCHANGED <<qty, ledger, adjustments, entries, load>> PROVE Stocked'
<1>1. Numbered'
  BY DEF Stocked, Numbered
<1>2. Booked'
  <2>1. Booked /\ ledger' = ledger /\ adjustments' = adjustments /\ entries' = entries
    BY DEF Stocked
  <2>2. \A a : HasMovement(a)' <=> HasMovement(a)
    BY ONLY <2>1 DEF HasMovement, Moves
  <2>3. Post(adjustments)' = Post(adjustments)
    BY ONLY <2>1 DEF Post
  <2>. QED  BY ONLY <2>1, <2>2, <2>3 DEF Booked
<1>. QED  BY <1>1, <1>2 DEF Stocked

(* The products other workers hold are still what they loaded, when w      *)
(* changes only products it holds itself.                                  *)
LEMMA OthersWork ==
    ASSUME StockInv, NEW w \in Workers, Alone(w),
           \A p \in Products : qty'[p] # qty[p] => productLock[p] = w
    PROVE  \A o \in Workers : o # w => Working(o)'
<1>. SUFFICES ASSUME NEW o \in Workers, o # w PROVE Working(o)'
  OBVIOUS
<1>1. Working(o) /\ pc'[o] = pc[o] /\ tx'[o] = tx[o]
  BY DEF StockInv, Alone
<1>2. ASSUME pc[o] = "products", NEW p \in tx[o].held PROVE qty'[p] = qty[p]
  <2>1. p \in Products
    BY DEF StockInv, LockInv, Shape, IsTx
  <2>2. productLock[p] = o
    BY <1>2, <2>1 DEF StockInv, LockInv, Held, HoldsProduct
  <2>. QED  BY <2>1, <2>2
<1>. QED  BY <1>1, <1>2 DEF Working

(* A step of w that records nothing.                                       *)
LEMMA StockSame ==
    ASSUME StockInv, NEW w \in Workers, LockInv', Alone(w), UNCHANGED <<qty, ledger, adjustments, entries, load>>,
           count' \in [Counts -> StockCount], Working(w)',
           pc'[w] \in {"lock", "commit"} => pc[w] \in {"lock", "commit"} /\ req'[w] = req[w]
    PROVE  StockInv'
<1>1. Stocked'
  BY SameStock DEF StockInv
<1>2. OneAdjustmentPerKey' /\ CountsKeepTheLedger'
  BY DEF StockInv, OneAdjustmentPerKey, CountsKeepTheLedger, QtyMatchesLedger
<1>3. \A o \in Workers : Working(o)'
  BY OthersWork
<1>4. ASSUME NEW o \in Workers PROVE KeyFresh(o)'
  <2>1. \A u \in Workers : pc'[u] \in {"lock", "commit"} => pc[u] \in {"lock", "commit"} /\ req'[u] = req[u]
    BY DEF Alone
  <2>2. KeyFresh(o)
    BY DEF StockInv
  <2>3. AdjustmentsWithKey(req[o].key)' = {a \in adjustments : a.key # NoOne /\ a.key = req'[o].key}
    BY DEF AdjustmentsWithKey
  <2>. QED  BY <2>1, <2>2, <2>3 DEF KeyFresh, AdjustmentsWithKey
<1>. QED  BY <1>1, <1>2, <1>3, <1>4 DEF StockInv

(* A request that ends without having recorded anything.                   *)
LEMMA StockEnd ==
    ASSUME StockInv, NEW w \in Workers, LockInv', Alone(w), pc'[w] = "idle", tx'[w] = EmptyTx,
           UNCHANGED <<qty, ledger, adjustments, entries, load>>, count' \in [Counts -> StockCount]
    PROVE  StockInv'
<1>1. Working(w)'
  BY DEF Working, EmptyTx
<1>. QED  BY <1>1, StockSame

(* A request that ends without committing leaves the stock invariant.      *)
LEMMA StockReturn ==
    ASSUME StockInv, NEW w \in Workers, NEW code, Return(w, code)
    PROVE  StockInv' /\ Alone(w) /\ pc'[w] = "idle" /\ answer'[w] = code
<1>1. LockInv' /\ Alone(w) /\ pc'[w] = "idle" /\ answer'[w] = code
  BY ReturnLock DEF Return, tables, StockInv
<1>2. tx'[w] = EmptyTx
  BY DEF Return, Finish, StockInv, LockInv, Shape
<1>3. UNCHANGED <<qty, ledger, adjustments, entries, load>> /\ count' \in [Counts -> StockCount]
  BY DEF Return, tables, stock, StockInv
<1>. QED  BY <1>1, <1>2, <1>3, StockEnd

(* A new request.                                                          *)
LEMMA SubmitStock == ASSUME StockInv, NEW w \in Workers, Submit(w) PROVE StockInv'
<1>1. LockInv' /\ Alone(w) /\ pc'[w] = "begin"
  BY SubmitLock DEF StockInv
<1>2. UNCHANGED <<qty, ledger, adjustments, entries, load, tx>> /\ count' \in [Counts -> StockCount]
  BY DEF Submit, tables, stock, StockInv
<1>3. Working(w)'
  BY <1>1, <1>2 DEF Working, StockInv
<1>. QED  BY <1>1, <1>2, <1>3, StockSame

(* The adjustment reads its product.                                       *)
LEMMA BeginStock == ASSUME StockInv, NEW w \in Workers, BeginAdjust(w) PROVE StockInv'
<1>1. CASE \E code : Return(w, code)
  BY <1>1, StockReturn
<1>2. CASE ~\E code : Return(w, code)
  <2>. PICK p, x : p = req[w].product /\ x = [tx[w] EXCEPT !.qty = [tx[w].qty EXCEPT ![p] = qty[p]]]
    OBVIOUS
  <2>1. pc[w] = "begin" /\ req[w].kind = "ADJUST" /\ tx' = [tx EXCEPT ![w] = x] /\ Goto(w, "insert") /\ UNCHANGED tables
    BY <1>2 DEF BeginAdjust, Is
  <2>2. LockInv' /\ Alone(w)
    BY BeginAdjustLock DEF StockInv
  <2>3. pc'[w] = "insert" /\ tx'[w] = x /\ IsTx(tx[w]) /\ tx[w].qty \in [Products -> Int] /\ qty \in [Products -> Int]
    BY <2>1 DEF Goto, StockInv, LockInv, Shape, Working, Stocked
  <2>4. p \in Products
    BY <2>1, Bodies DEF StockInv, LockInv
  <2>5. x.qty \in [Products -> Int]
    BY <2>3, <2>4 DEF IsTx
  <2>6. Working(w)'
    BY <2>3, <2>5 DEF Working
  <2>7. UNCHANGED <<qty, ledger, adjustments, entries, load>> /\ count' \in [Counts -> StockCount]
    BY <2>1 DEF tables, stock, StockInv
  <2>. QED  BY <2>2, <2>3, <2>6, <2>7, StockSame
<1>. QED  BY <1>1, <1>2

(* The insert waits for whoever has inserted its key.                      *)
LEMMA InsertStock == ASSUME StockInv, NEW w \in Workers, InsertAdjustment(w) PROVE StockInv'
<1>1. CASE \E code : Return(w, code)
  BY <1>1, StockReturn
<1>2. CASE ~\E code : Return(w, code)
  <2>1. /\ pc[w] = "insert" /\ req[w].kind = "ADJUST" /\ ~KeyInFlight(w) /\ ~KeyTaken(w)
        /\ Goto(w, "lock") /\ UNCHANGED <<tables, tx>>
    BY <1>2 DEF InsertAdjustment, Is
  <2>2. LockInv' /\ Alone(w)
    BY InsertLock DEF StockInv
  <2>3. pc'[w] = "lock" /\ req' = req
    BY <2>1 DEF Goto, StockInv, LockInv, Shape
  <2>4. UNCHANGED <<qty, ledger, adjustments, entries, load, count>> /\ count' \in [Counts -> StockCount]
    BY <2>1 DEF tables, stock, StockInv
  <2>5. Stocked'
    BY <2>4, SameStock DEF StockInv
  <2>6. OneAdjustmentPerKey' /\ CountsKeepTheLedger'
    BY <2>4 DEF StockInv, OneAdjustmentPerKey, CountsKeepTheLedger, QtyMatchesLedger
  <2>7. \A o \in Workers : Working(o)'
    <3>1. Working(w)'
      BY <2>1, <2>3 DEF Working, StockInv
    <3>. QED  BY <2>2, <2>4, <3>1, OthersWork
  <2>8. ASSUME NEW o \in Workers PROVE KeyFresh(o)'
    <3>1. \A u \in Workers : u # w => (pc'[u] \in {"lock", "commit"} <=> pc[u] \in {"lock", "commit"})
      BY <2>2 DEF Alone
    <3>2. \A u \in Workers : u # w /\ pc[u] \in {"lock", "commit"} /\ req[w].key # NoOne => req[u].key # req[w].key
      <4>1. \A u \in Workers : pc[u] \in {"lock", "commit"} => req[u].kind = "ADJUST"
        BY DEF StockInv, LockInv, Shape, Served, Adjusts
      <4>. QED  BY <2>1, <4>1 DEF KeyInFlight, Is
    <3>3. \A u \in Workers : KeyFresh(u)
      BY DEF StockInv
    <3>4. AdjustmentsWithKey(req[o].key)' = AdjustmentsWithKey(req[o].key)
      BY <2>3, <2>4 DEF AdjustmentsWithKey
    <3>6. CASE o = w
      BY <2>1, <2>3, <3>1, <3>2, <3>4, <3>6 DEF KeyFresh, KeyTaken
    <3>7. CASE o # w
      BY <2>3, <3>1, <3>2, <3>3, <3>4, <3>7 DEF KeyFresh
    <3>. QED  BY <3>6, <3>7
  <2>. QED  BY <2>2, <2>4, <2>5, <2>6, <2>7, <2>8 DEF StockInv
<1>. QED  BY <1>1, <1>2

(* The adjustment's product is locked; what was loaded stays.              *)
LEMMA LockAdjustedStock == ASSUME StockInv, NEW w \in Workers, LockAdjusted(w) PROVE StockInv'
<1>1. LockInv' /\ Alone(w)
  BY LockAdjustedLock DEF StockInv
<1>2. pc[w] = "lock" /\ pc'[w] = "commit" /\ req' = req /\ tx' = tx /\ UNCHANGED tables
  BY DEF LockAdjusted, Is, Goto, StockInv, LockInv, Shape
<1>3. UNCHANGED <<qty, ledger, adjustments, entries, load>> /\ count' \in [Counts -> StockCount]
  BY <1>2 DEF tables, stock, StockInv
<1>4. Working(w)'
  BY <1>2 DEF Working, StockInv
<1>. QED  BY <1>1, <1>2, <1>3, <1>4, StockSame

(* A request records new rows of products it holds, under keys that no     *)
(* adjustment in flight has, and ends.                                     *)
LEMMA StockRecord ==
    ASSUME StockInv, NEW w \in Workers, LockInv', Alone(w), pc'[w] = "idle", tx'[w] = EmptyTx, load' = load,
           count' \in [Counts -> StockCount], NEW new, NewRows(new), Record(new, tx[w].qty),
           Cardinality(adjustments \cup new) <= load.adjustments,
           \A a \in new : productLock[a.product] = w,
           \A o \in Workers, a \in new : o # w /\ pc[o] \in {"lock", "commit"} => a.key = NoOne \/ a.key # req[o].key,
           OneAdjustmentPerKey', CountsKeepTheLedger'
    PROVE  StockInv'
<1>1. tx[w].qty \in [Products -> Int] /\ Stocked
  BY DEF StockInv, Working
<1>2. Stocked'
  BY <1>1, Recorded
<1>3. \A p \in Products : (\A a \in new : a.product # p) => qty'[p] = qty[p]
  BY <1>1, RecordRows
<1>4. Working(w)'
  BY DEF Working, EmptyTx
<1>5. \A o \in Workers : Working(o)'
  BY <1>3, <1>4, OthersWork
<1>6. ASSUME NEW o \in Workers PROVE KeyFresh(o)'
  <2>. SUFFICES ASSUME pc'[o] \in {"lock", "commit"}, req'[o].key # NoOne
                PROVE  /\ AdjustmentsWithKey(req[o].key)' = {}
                       /\ \A u \in Workers : pc'[u] \in {"lock", "commit"} /\ req'[u].key = req'[o].key => u = o
    BY DEF KeyFresh
  <2>1. o # w /\ pc'[o] = pc[o] /\ req'[o] = req[o]
    BY DEF Alone
  <2>2. /\ AdjustmentsWithKey(req[o].key) = {}
        /\ \A u \in Workers : pc[u] \in {"lock", "commit"} /\ req[u].key = req[o].key => u = o
    BY <2>1 DEF StockInv, KeyFresh
  <2>3. \A u \in Workers : pc'[u] \in {"lock", "commit"} => pc'[u] = pc[u] /\ req'[u] = req[u]
    BY DEF Alone
  <2>4. adjustments' = adjustments \cup new
    BY DEF Record
  <2>5. AdjustmentsWithKey(req[o].key)' = {}
    BY <2>1, <2>2, <2>4 DEF AdjustmentsWithKey
  <2>. QED  BY <2>1, <2>2, <2>3, <2>5
<1>. QED  BY <1>2, <1>5, <1>6 DEF StockInv

(* A manual adjustment is recorded under a key that is free.               *)
LEMMA CommitStock ==
    ASSUME StockInv, NEW w \in Workers, CommitAdjustment(w)
    PROVE  StockInv'
<1>1. CASE \E code : Return(w, code)
  BY <1>1, StockReturn
<1>2. CASE ~\E code : Return(w, code)
  <2>. PICK q : q = req[w]
    OBVIOUS
  <2>. PICK a : a = [id |-> NewId, product |-> q.product, delta |-> q.delta, key |-> q.key, count |-> NoOne]
    OBVIOUS
  <2>1. /\ pc[w] = "commit" /\ q.kind = "ADJUST" /\ Cardinality(adjustments) < load.adjustments
        /\ Record({a}, tx[w].qty) /\ Finish(w, "OK") /\ UNCHANGED <<count, touched, periodOpen, load>>
    BY <1>2 DEF CommitAdjustment, Is
  <2>2. LockInv' /\ Alone(w) /\ pc'[w] = "idle"
    BY <2>1, ReturnLock DEF StockInv
  <2>3. tx'[w] = EmptyTx
    BY <2>1 DEF Finish, StockInv, LockInv, Shape
  <2>4. Stocked /\ Held /\ KeyFresh(w) /\ OneAdjustmentPerKey
    BY DEF StockInv, LockInv
  <2>5. q.product \in Products /\ q.delta \in Int \ {0} /\ q.key \in Keys \cup {NoOne}
    BY <2>1, Bodies DEF StockInv, LockInv
  <2>6. Cardinality(adjustments) \in Nat
    BY <2>4, FS_CardinalityType DEF Stocked, Numbered
  <2>7. a \in Adjustment /\ a.id = NewId
    BY <2>5, <2>6 DEF Adjustment, NewId
  <2>8. NewRows({a})
    BY <2>4, <2>7, OneRow
  <2>9. Cardinality(adjustments \cup {a}) <= load.adjustments
    <3>1. Cardinality(adjustments \cup {a}) = Cardinality(adjustments) + Cardinality({a})
      BY <2>4, <2>8, NewIds
    <3>2. Cardinality({a}) = 1
      BY FS_Singleton
    <3>3. load.adjustments \in Nat
      BY StockRoomAssumption DEF StockInv, LockInv, Shape, Workload
    <3>. QED  BY <2>1, <2>6, <3>1, <3>2, <3>3
  <2>10. productLock[a.product] = w
    BY <2>1, <2>4, <2>5 DEF Held, HoldsProduct
  <2>11. adjustments' = adjustments \cup {a}
    BY <2>1 DEF Record
  <2>12. a.key # NoOne => AdjustmentsWithKey(a.key) = {}
    BY <2>1, <2>4 DEF KeyFresh
  <2>13. OneAdjustmentPerKey'
    BY <2>4, <2>11, <2>12 DEF OneAdjustmentPerKey, AdjustmentsWithKey
  <2>14. CountsKeepTheLedger'
    BY <2>11 DEF CountsKeepTheLedger
  <2>15. ASSUME NEW o \in Workers, o # w, pc[o] \in {"lock", "commit"} PROVE a.key = NoOne \/ a.key # req[o].key
    BY <2>1, <2>4, <2>15 DEF KeyFresh
  <2>16. count' \in [Counts -> StockCount]
    BY <2>1 DEF StockInv
  <2>17. load' = load
    BY <2>1
  <2>. QED  BY <2>1, <2>2, <2>3, <2>8, <2>9, <2>10, <2>13, <2>14, <2>15, <2>16, <2>17, StockRecord
<1>. QED  BY <1>1, <1>2

(* A count is created.                                                     *)
LEMMA CreateStock == ASSUME StockInv, NEW w \in Workers, CreateCount(w) PROVE StockInv'
<1>1. CASE \E code : Return(w, code)
  BY <1>1, StockReturn
<1>2. CASE ~\E code : Return(w, code)
  <2>. PICK c : c = req[w].count
    OBVIOUS
  <2>1. /\ pc[w] = "begin" /\ req[w].kind = "CREATE" /\ count' = [count EXCEPT ![c] = [count[c] EXCEPT !.status = "DRAFT"]]
        /\ Finish(w, "OK") /\ UNCHANGED <<stock, periodOpen, load>>
    BY <1>2 DEF CreateCount, Is, SetStatus, OnlyCounts
  <2>2. LockInv' /\ Alone(w)
    BY CreateLock DEF StockInv
  <2>3. tx'[w] = EmptyTx /\ pc'[w] = "idle"
    BY <2>1 DEF Finish, StockInv, LockInv, Shape
  <2>4. UNCHANGED <<qty, ledger, adjustments, entries, load>>
    BY <2>1 DEF stock
  <2>5. c \in Counts /\ count \in [Counts -> StockCount]
    BY <2>1, Bodies DEF StockInv, LockInv
  <2>6. [count[c] EXCEPT !.status = "DRAFT"] \in StockCount
    BY <2>5 DEF StockCount, Statuses
  <2>7. count' \in [Counts -> StockCount]
    BY <2>1, <2>5, <2>6
  <2>. QED  BY <2>2, <2>3, <2>4, <2>7, StockEnd
<1>. QED  BY <1>1, <1>2

(* A header is locked.                                                     *)
LEMMA HeaderStock == ASSUME StockInv, NEW w \in Workers, LockHeader(w) PROVE StockInv'
<1>1. CASE \E code : Return(w, code)
  BY <1>1, StockReturn
<1>2. CASE ~\E code : Return(w, code)
  <2>1. pc[w] = "begin" /\ Goto(w, "products") /\ UNCHANGED <<tx, tables>>
    BY <1>2 DEF LockHeader, Is
  <2>2. LockInv' /\ Alone(w)
    BY HeaderLock DEF StockInv
  <2>3. pc'[w] = "products" /\ tx[w].held = {}
    BY <2>1 DEF Goto, StockInv, LockInv, Shape, Served
  <2>4. UNCHANGED <<qty, ledger, adjustments, entries, load>> /\ count' \in [Counts -> StockCount]
    BY <2>1 DEF tables, stock, StockInv
  <2>5. Working(w)'
    BY <2>1, <2>3 DEF Working, StockInv
  <2>. QED  BY <2>2, <2>3, <2>4, <2>5, StockSame
<1>. QED  BY <1>1, <1>2

(* A product is locked and loaded.                                         *)
LEMMA ProductStock == ASSUME StockInv, NEW w \in Workers, LockProduct(w) PROVE StockInv'
<1>1. /\ LockInv' /\ Alone(w) /\ pc[w] = "products" /\ pc'[w] = "products"
      /\ \E p \in Products : tx'[w] = [held |-> tx[w].held \cup {p}, qty |-> [tx[w].qty EXCEPT ![p] = qty[p]]]
      /\ UNCHANGED tables
  BY ProductLock DEF StockInv
<1>2. PICK p \in Products : tx'[w] = [held |-> tx[w].held \cup {p}, qty |-> [tx[w].qty EXCEPT ![p] = qty[p]]]
  BY <1>1
<1>3. UNCHANGED <<qty, ledger, adjustments, entries, load>> /\ count' \in [Counts -> StockCount]
  BY <1>1 DEF tables, stock, StockInv
<1>4. tx[w].qty \in [Products -> Int] /\ qty \in [Products -> Int] /\ tx[w].held \subseteq Products
  BY DEF StockInv, Working, Stocked, LockInv, Shape, IsTx
<1>5. /\ tx'[w].held = tx[w].held \cup {p} /\ tx'[w].qty \in [Products -> Int] /\ tx'[w].qty[p] = qty[p]
      /\ \A r \in Products : r # p => tx'[w].qty[r] = tx[w].qty[r]
  BY <1>2, <1>4
<1>6. Working(w)'
  BY <1>1, <1>3, <1>4, <1>5 DEF Working, StockInv
<1>. QED  BY <1>1, <1>3, <1>6, StockSame

(* A request with all its products: it holds them, and they are what it    *)
(* has loaded.                                                             *)
LEMMA AllHeld ==
    ASSUME StockInv, NEW w \in Workers, AllLocked(w)
    PROVE  /\ pc[w] = "products" /\ req[w].kind \in HeaderKinds /\ req[w].count \in Counts
           /\ tx[w].held = ToLock(req[w]) /\ tx[w].held \subseteq Products /\ tx[w].qty \in [Products -> Int]
           /\ \A p \in tx[w].held : tx[w].qty[p] = qty[p] /\ productLock[p] = w
           /\ count[req[w].count].status \in Accepted[req[w].kind]
           /\ count[req[w].count] \in StockCount /\ IsCount(count[req[w].count])
           /\ CountedLines(req[w].count) \subseteq Products
<1>1. pc[w] = "products" /\ tx[w].held = ToLock(req[w])
  BY DEF AllLocked, Is
<1>2. req[w].count \in Counts /\ req[w].kind \in HeaderKinds
  BY <1>1, OwnCount DEF StockInv
<1>3. tx[w].held \subseteq Products /\ tx[w].qty \in [Products -> Int] /\ \A p \in tx[w].held : tx[w].qty[p] = qty[p]
  BY <1>1 DEF StockInv, LockInv, Shape, IsTx, Working
<1>4. \A p \in tx[w].held : productLock[p] = w
  BY <1>1, <1>3 DEF StockInv, LockInv, Held, HoldsProduct
<1>5. count[req[w].count].status \in Accepted[req[w].kind] /\ count[req[w].count] \in StockCount /\ IsCount(count[req[w].count])
  BY <1>1, <1>2 DEF StockInv, LockInv, Ascending, CountTable
<1>6. CountedLines(req[w].count) \subseteq Products
  BY <1>2, Scopes DEF StockInv, LockInv
<1>. QED  BY <1>1, <1>2, <1>3, <1>4, <1>5, <1>6

(* What opening, entering and moving a count make of its row.              *)
LEMMA CountAfter ==
    ASSUME StockInv, NEW w \in Workers, OpenCount(w) \/ EnterCount(w) \/ MoveCount(w), NEW c, c = req[w].count
    PROVE  /\ AllLocked(w) /\ Finish(w, "OK") /\ UNCHANGED <<qty, ledger, adjustments, entries, periodOpen, load>>
           /\ count' = [count EXCEPT ![c] = count'[c]] /\ count'[c] \in StockCount
           /\ \A d \in Counts : d # c => count'[d] = count[d]
           /\ OpenCount(w) => /\ count'[c].status = "OPEN" /\ count'[c].expected = Expected(w, c)
                              /\ count'[c].counted = count[c].counted
           /\ EnterCount(w) => count'[c].status = count[c].status /\ count'[c].expected = Expected(w, c)
           /\ MoveCount(w) => /\ count'[c].status = StatusAfter(req[w].kind) /\ count'[c].expected = count[c].expected
                              /\ count'[c].counted = count[c].counted
<1>1. AllLocked(w) /\ Finish(w, "OK") /\ UNCHANGED <<stock, periodOpen, load>>
  BY DEF OpenCount, EnterCount, MoveCount, OnlyCounts
<1>2. /\ c \in Counts /\ count[c] \in StockCount /\ IsCount(count[c]) /\ count \in [Counts -> StockCount]
      /\ tx[w].held \subseteq Products /\ tx[w].qty \in [Products -> Int] /\ pc[w] = "products"
  BY <1>1, AllHeld DEF StockInv
<1>. PICK s, e, k : s = count[c].status /\ e = count[c].expected /\ k = count[c].counted
  OBVIOUS
<1>3. s \in Statuses /\ e \in [Products -> Nat \cup {NoOne}] /\ k \in [Products -> Nat \cup {NoOne}]
  BY <1>2 DEF StockCount
<1>4. ASSUME \A p \in tx[w].held : tx[w].qty[p] >= 0 PROVE Expected(w, c) \in [Products -> Nat \cup {NoOne}]
  BY <1>2, <1>3, <1>4 DEF Expected
<1>5. ASSUME NEW z, z \in StockCount, count' = [count EXCEPT ![c] = z]
      PROVE  /\ count'[c] = z /\ count' = [count EXCEPT ![c] = count'[c]] /\ count'[c] \in StockCount
             /\ \A d \in Counts : d # c => count'[d] = count[d]
  BY <1>2, <1>5
<1>6. CASE OpenCount(w)
  <2>0. PICK y, e1, z : y = count[c] /\ e1 = Expected(w, c) /\ z = [y EXCEPT !.status = "OPEN", !.expected = e1]
    OBVIOUS
  <2>1. z = [status |-> "OPEN", expected |-> Expected(w, c), counted |-> k]
    <3>1. y \in [status : {s}, expected : {e}, counted : {k}]
      BY <1>2, <2>0 DEF IsCount
    <3>2. [y EXCEPT !.status = "OPEN", !.expected = e1] \in [status : {"OPEN"}, expected : {e1}, counted : {k}]
      BY ONLY <3>1
    <3>. QED  BY <2>0, <3>2, OneCount
  <2>2. count' = [count EXCEPT ![c] = z] /\ \A p \in tx[w].held : tx[w].qty[p] >= 0
    BY <1>6, <2>0 DEF OpenCount, Snapshot
  <2>3. z \in StockCount /\ z.status = "OPEN" /\ z.expected = Expected(w, c) /\ z.counted = k
    BY <1>3, <1>4, <2>1, <2>2 DEF StockCount, Statuses
  <2>4. ~EnterCount(w) /\ ~MoveCount(w)
    BY <1>6 DEF OpenCount, EnterCount, MoveCount
  <2>5. /\ count'[c] = z /\ count' = [count EXCEPT ![c] = count'[c]] /\ count'[c] \in StockCount
        /\ \A d \in Counts : d # c => count'[d] = count[d]
    BY <1>5, <2>2, <2>3
  <2>. QED  BY <1>1, <2>3, <2>4, <2>5 DEF stock
<1>7. CASE EnterCount(w)
  <2>. PICK k1 : k1 = [k EXCEPT ![req[w].product] = req[w].qty]
    OBVIOUS
  <2>0. PICK y, e1, z : y = count[c] /\ e1 = Expected(w, c) /\ z = [y EXCEPT !.expected = e1, !.counted = k1]
    OBVIOUS
  <2>1. z = [status |-> s, expected |-> Expected(w, c), counted |-> k1]
    <3>1. y \in [status : {s}, expected : {e}, counted : {k}]
      BY <1>2, <2>0 DEF IsCount
    <3>2. [y EXCEPT !.expected = e1, !.counted = k1] \in [status : {s}, expected : {e1}, counted : {k1}]
      BY ONLY <3>1
    <3>. QED  BY <2>0, <3>2, OneCount
  <2>2. /\ count' = [count EXCEPT ![c] = z] /\ (\A p \in tx[w].held : tx[w].qty[p] >= 0) /\ req[w].kind = "ENTER"
    BY <1>7, <2>0 DEF EnterCount, Snapshot
  <2>3. req[w].product \in Products /\ req[w].qty \in Nat
    BY <1>2, <2>2, Bodies DEF StockInv, LockInv
  <2>4. k1 \in [Products -> Nat \cup {NoOne}]
    BY <1>3, <2>3
  <2>5. z \in StockCount /\ z.status = s /\ z.expected = Expected(w, c)
    BY <1>3, <1>4, <2>1, <2>2, <2>4 DEF StockCount
  <2>6. ~OpenCount(w) /\ ~MoveCount(w)
    BY <2>2 DEF OpenCount, MoveCount
  <2>7. /\ count'[c] = z /\ count' = [count EXCEPT ![c] = count'[c]] /\ count'[c] \in StockCount
        /\ \A d \in Counts : d # c => count'[d] = count[d]
    BY <1>5, <2>2, <2>5
  <2>. QED  BY <1>1, <2>5, <2>6, <2>7 DEF stock
<1>8. CASE MoveCount(w)
  <2>0. PICK y, s1, z : y = count[c] /\ s1 = StatusAfter(req[w].kind) /\ z = [y EXCEPT !.status = s1]
    OBVIOUS
  <2>1. z = [status |-> StatusAfter(req[w].kind), expected |-> e, counted |-> k]
    <3>1. IsCount(y) /\ y.expected = e /\ y.counted = k
      BY <1>2, <2>0
    <3>2. [y EXCEPT !.status = s1] = [status |-> s1, expected |-> y.expected, counted |-> y.counted]
      BY ONLY <3>1, CountRow
    <3>. QED  BY <2>0, <3>1, <3>2
  <2>2. count' = [count EXCEPT ![c] = z] /\ req[w].kind \in {"MARK", "REVIEW", "REOPEN", "CANCEL"}
    BY <1>8, <2>0 DEF MoveCount, SetStatus
  <2>3. StatusAfter(req[w].kind) \in Statuses
    BY <2>2 DEF StatusAfter, Statuses
  <2>4. z \in StockCount /\ z.status = StatusAfter(req[w].kind) /\ z.expected = e /\ z.counted = k
    BY <1>3, <2>1, <2>3 DEF StockCount
  <2>5. ~OpenCount(w) /\ ~EnterCount(w)
    BY <2>2 DEF OpenCount, EnterCount
  <2>6. /\ count'[c] = z /\ count' = [count EXCEPT ![c] = count'[c]] /\ count'[c] \in StockCount
        /\ \A d \in Counts : d # c => count'[d] = count[d]
    BY <1>5, <2>2, <2>4
  <2>. QED  BY <1>1, <2>4, <2>5, <2>6 DEF stock
<1>. QED  BY <1>6, <1>7, <1>8

(* So the stock is left alone.                                             *)
LEMMA CountsStock ==
    ASSUME StockInv, NEW w \in Workers, OpenCount(w) \/ EnterCount(w) \/ MoveCount(w)
    PROVE  StockInv'
<1>. PICK c : c = req[w].count
  OBVIOUS
<1>1. /\ AllLocked(w) /\ Finish(w, "OK") /\ UNCHANGED <<qty, ledger, adjustments, entries, periodOpen, load>>
      /\ count' = [count EXCEPT ![c] = count'[c]] /\ count'[c] \in StockCount
  BY CountAfter
<1>2. LockInv' /\ Alone(w) /\ pc'[w] = "idle"
  BY CountsLock DEF StockInv
<1>3. tx'[w] = EmptyTx
  BY <1>1 DEF Finish, StockInv, LockInv, Shape
<1>4. count' \in [Counts -> StockCount]
  <2>. PICK z : z = count'[c]
    OBVIOUS
  <2>. QED  BY <1>1 DEF StockInv
<1>. QED  BY <1>1, <1>2, <1>3, <1>4, StockEnd

(* What posting count c with the corrections new does.                     *)
PostsAs(w, c, new) ==
    /\ AllLocked(w) /\ req[w].kind = "POST" /\ c \in Counts /\ ~Drifted(w, c) /\ Finish(w, "OK")
    /\ UNCHANGED <<touched, periodOpen, load>>
    /\ Record(new, tx[w].qty) /\ Cardinality(adjustments \cup new) <= load.adjustments /\ NewRows(new)
    /\ tx[w].held = CountedLines(c)
    /\ \A a \in new : a.product \in CountedLines(c) /\ a.delta = Variance(w, c, a.product) /\ a.key = NoOne /\ a.count = c
    /\ \A p \in CountedLines(c) : Variance(w, c, p) # 0 => \E a \in new : a.product = p
    /\ count' \in [Counts -> StockCount] /\ \A d \in Counts : d # c => count'[d] = count[d]
    /\ count'[c].status = "POSTED" /\ count'[c].expected = count[c].expected /\ count'[c].counted = count[c].counted

(* What a posting that is not refused leaves behind.                       *)
LEMMA PostAfter ==
    ASSUME StockInv, NEW w \in Workers, PostCount(w), ~\E code : Return(w, code), NEW c, c = req[w].count
    PROVE  PostsAs(w, c, Corrections(w, c))
<1>. PICK z : z = [count[c] EXCEPT !.status = "POSTED"]
  OBVIOUS
<1>1. /\ AllLocked(w) /\ req[w].kind = "POST" /\ ~Drifted(w, c) /\ Finish(w, "OK") /\ UNCHANGED <<touched, periodOpen, load>>
      /\ Record(Corrections(w, c), tx[w].qty) /\ Cardinality(adjustments \cup Corrections(w, c)) <= load.adjustments
      /\ count' = [count EXCEPT ![c] = z]
  BY DEF PostCount, SetStatus
<1>2. /\ c \in Counts /\ tx[w].held = ToLock(req[w]) /\ tx[w].qty \in [Products -> Int] /\ IsCount(count[c])
      /\ count[c] \in StockCount /\ CountedLines(c) \subseteq Products /\ count \in [Counts -> StockCount] /\ Stocked
  BY <1>1, AllHeld DEF StockInv
<1>3. tx[w].held = CountedLines(c)
  BY <1>1, <1>2 DEF ToLock
<1>4. z = [status |-> "POSTED", expected |-> count[c].expected, counted |-> count[c].counted]
  BY <1>2, CountRow
<1>5. z \in StockCount /\ z.status = "POSTED" /\ z.expected = count[c].expected /\ z.counted = count[c].counted
  BY <1>2, <1>4 DEF StockCount, Statuses
<1>6. count' \in [Counts -> StockCount] /\ count'[c] = z /\ \A d \in Counts : d # c => count'[d] = count[d]
  BY <1>1, <1>2, <1>5
<1>7. /\ NewRows(Corrections(w, c))
      /\ \A a \in Corrections(w, c) : /\ a.product \in CountedLines(c) /\ a.delta = Variance(w, c, a.product)
                                      /\ a.key = NoOne /\ a.count = c
      /\ \A p \in CountedLines(c) : Variance(w, c, p) # 0 => \E a \in Corrections(w, c) : a.product = p
  BY <1>2, CorrectionRows
<1>. QED  BY <1>1, <1>2, <1>3, <1>5, <1>6, <1>7 DEF PostsAs

(* A posting corrects products it holds and has loaded under their locks,  *)
(* so that the ledger goes on from the cached quantity.                    *)
LEMMA PostStock == ASSUME StockInv, NEW w \in Workers, PostCount(w) PROVE StockInv'
<1>1. CASE \E code : Return(w, code)
  BY <1>1, StockReturn
<1>2. CASE ~\E code : Return(w, code)
  <2>. PICK c, new : c = req[w].count /\ new = Corrections(w, c)
    OBVIOUS
  <2>1. /\ AllLocked(w) /\ c \in Counts /\ Finish(w, "OK") /\ load' = load
        /\ Record(new, tx[w].qty) /\ Cardinality(adjustments \cup new) <= load.adjustments /\ NewRows(new)
        /\ tx[w].held = CountedLines(c) /\ (\A a \in new : a.product \in CountedLines(c) /\ a.key = NoOne /\ a.count = c)
        /\ count' \in [Counts -> StockCount]
    <3>1. PostsAs(w, c, new)
      BY <1>2, PostAfter
    <3>. QED  BY <3>1 DEF PostsAs
  <2>2. LockInv' /\ Alone(w) /\ pc'[w] = "idle"
    BY CountsLock DEF StockInv
  <2>3. tx'[w] = EmptyTx
    BY <2>1 DEF Finish, StockInv, LockInv, Shape
  <2>4. /\ \A p \in tx[w].held : tx[w].qty[p] = qty[p] /\ productLock[p] = w
        /\ tx[w].qty \in [Products -> Int] /\ tx[w].held \subseteq Products /\ Stocked /\ OneAdjustmentPerKey
    BY <2>1, AllHeld DEF StockInv
  <2>5. adjustments' = adjustments \cup new
    BY <2>1 DEF Record
  <2>6. OneAdjustmentPerKey'
    BY <2>1, <2>4, <2>5 DEF OneAdjustmentPerKey
  <2>7. /\ \A p \in Products : (\A a \in new : a.product # p) => qty'[p] = qty[p] /\ ledger'[p] = ledger[p]
        /\ \A a \in new : /\ RowOf(a, tx[w].qty) \in LedgerRow /\ qty'[a.product] = tx[w].qty[a.product] + a.delta
                          /\ ledger'[a.product] = ledger[a.product] \o <<RowOf(a, tx[w].qty)>>
    BY <2>1, <2>4, RecordRows
  <2>8. ASSUME \A a \in adjustments' : a.count # NoOne, NEW p \in Products
        PROVE  Chained(InitialQty[p], ledger'[p], qty'[p])
    <3>1. Chained(InitialQty[p], ledger[p], qty[p])
      BY <2>5, <2>8 DEF StockInv, CountsKeepTheLedger, QtyMatchesLedger
    <3>2. CASE \A a \in new : a.product # p
      BY <2>7, <3>1, <3>2
    <3>3. ASSUME NEW a \in new, a.product = p PROVE Chained(InitialQty[p], ledger'[p], qty'[p])
      <4>. PICK row : row = RowOf(a, tx[w].qty)
        OBVIOUS
      <4>1. tx[w].qty[p] = qty[p]
        BY <2>1, <2>4, <3>3
      <4>2. row \in LedgerRow /\ row.delta = a.delta /\ row.result = qty[p] + a.delta
        BY <2>7, <3>3, <4>1 DEF RowOf
      <4>3. ledger'[p] = ledger[p] \o <<row>> /\ qty'[p] = row.result
        BY <2>7, <3>3, <4>1, <4>2
      <4>4. InitialQty[p] \in Int /\ qty[p] \in Int /\ ledger[p] \in Seq(LedgerRow)
        BY <2>4, StockRoomAssumption DEF Stocked
      <4>. QED  BY <3>1, <4>2, <4>3, <4>4, ChainRow
    <3>. QED  BY <3>2, <3>3
  <2>9. CountsKeepTheLedger'
    BY <2>8 DEF CountsKeepTheLedger, QtyMatchesLedger
  <2>10. /\ \A a \in new : productLock[a.product] = w
         /\ \A o \in Workers, a \in new : o # w /\ pc[o] \in {"lock", "commit"} => a.key = NoOne \/ a.key # req[o].key
    BY <2>1, <2>4
  <2>. QED  BY <2>1, <2>2, <2>3, <2>6, <2>9, <2>10, StockRecord
<1>. QED  BY <1>1, <1>2

(* A sale, receipt or return moves a product that nobody holds.            *)
LEMMA OtherStock ==
    ASSUME StockInv, NEW p \in Products, NEW delta \in {-1, 1}, OtherMovement(p, delta)
    PROVE  StockInv' /\ qty'[p] = qty[p] + delta /\ Len(ledger'[p]) = Len(ledger[p]) + 1
           /\ \A r \in Products : r # p => qty'[r] = qty[r] /\ ledger'[r] = ledger[r]
<1>. PICK row : row = [delta |-> delta, result |-> qty[p] + delta, ref |-> NoOne]
  OBVIOUS
<1>1. /\ productLock[p] = NoOne /\ qty' = [qty EXCEPT ![p] = @ + delta] /\ ledger' = [ledger EXCEPT ![p] = Append(@, row)]
      /\ UNCHANGED <<adjustments, entries, count, load, locks, session>>
  BY DEF OtherMovement
<1>2. LockInv' /\ count' \in [Counts -> StockCount]
  BY <1>1, FrameLock DEF StockInv
<1>3. Stocked /\ qty[p] \in Int /\ ledger[p] \in Seq(LedgerRow)
  BY DEF StockInv, Stocked
<1>4. row \in LedgerRow /\ row.ref = NoOne /\ row.delta = delta /\ row.result = qty[p] + delta
  BY <1>3 DEF LedgerRow
<1>5. /\ qty'[p] = qty[p] + delta /\ ledger'[p] = ledger[p] \o <<row>> /\ qty' \in [Products -> Int]
      /\ \A r \in Products : r # p => qty'[r] = qty[r] /\ ledger'[r] = ledger[r]
  <2>1. \A rows \in Seq(LedgerRow) : Append(rows, row) = rows \o <<row>>
    BY <1>4
  <2>2. ledger'[p] = Append(ledger[p], row) /\ \A r \in Products : r # p => ledger'[r] = ledger[r]
    BY <1>1, <1>3 DEF Stocked
  <2>3. qty \in [Products -> Int] /\ qty[p] + delta \in Int
    BY <1>3 DEF Stocked
  <2>4. qty'[p] = qty[p] + delta /\ qty' \in [Products -> Int] /\ \A r \in Products : r # p => qty'[r] = qty[r]
    BY <1>1, <2>3
  <2>. QED  BY <1>3, <2>1, <2>2, <2>4
<1>6. /\ ledger'[p] \in Seq(LedgerRow) /\ Len(ledger'[p]) = Len(ledger[p]) + 1 /\ ledger'[p][Len(ledger[p]) + 1] = row
      /\ DOMAIN ledger'[p] = DOMAIN ledger[p] \cup {Len(ledger[p]) + 1}
      /\ \A i \in DOMAIN ledger[p] : ledger'[p][i] = ledger[p][i]
  BY <1>3, <1>4, <1>5, RowAdded
<1>7. Stocked'
  <2>1. ledger' \in [Products -> Seq(LedgerRow)]
    BY <1>1, <1>3, <1>5, <1>6 DEF Stocked
  <2>2. Numbered'
    BY <1>1, <1>3 DEF Stocked, Numbered
  <2>3. ASSUME NEW a \in adjustments PROVE HasMovement(a)'
    <3>1. a.id # NoOne /\ a.product \in Products
      BY <1>3, StockRoomAssumption DEF Stocked, Adjustment
    <3>2. PICK i \in DOMAIN ledger[a.product] : ledger[a.product][i].delta = a.delta /\ Moves(a) = {i}
      BY <1>3 DEF Stocked, Booked, HasMovement
    <3>3. CASE a.product # p
      <4>1. ledger'[a.product] = ledger[a.product]
        BY <1>5, <3>1, <3>3
      <4>2. Moves(a)' = Moves(a)
        BY <4>1 DEF Moves
      <4>. QED  BY <3>2, <4>1, <4>2 DEF HasMovement
    <3>4. CASE a.product = p
      <4>1. Moves(a)' = Moves(a)
        BY <1>4, <1>6, <3>1, <3>4 DEF Moves
      <4>. QED  BY <1>6, <3>2, <3>4, <4>1 DEF HasMovement
    <3>. QED  BY <3>3, <3>4
  <2>4. ASSUME NEW r \in Products, NEW i \in DOMAIN ledger'[r], ledger'[r][i].ref # NoOne
        PROVE  \E a \in adjustments : a.id = ledger'[r][i].ref /\ a.product = r
    <3>1. i \in DOMAIN ledger[r] /\ ledger'[r][i] = ledger[r][i]
      BY <1>4, <1>5, <1>6, <2>4
    <3>. QED  BY <1>3, <2>4, <3>1 DEF Stocked, Booked
  <2>5. entries' = Post(adjustments)'
    BY <1>1, <1>3 DEF Stocked, Booked, Post
  <2>6. Booked'
    BY <1>1, <2>3, <2>4, <2>5 DEF Booked
  <2>. QED  BY <1>1, <1>3, <1>5, <2>1, <2>2, <2>6 DEF Stocked
<1>8. OneAdjustmentPerKey'
  BY <1>1 DEF StockInv, OneAdjustmentPerKey
<1>9. CountsKeepTheLedger'
  <2>1. ASSUME \A a \in adjustments : a.count # NoOne, NEW r \in Products PROVE Chained(InitialQty[r], ledger'[r], qty'[r])
    <3>1. Chained(InitialQty[r], ledger[r], qty[r]) /\ InitialQty[r] \in Int
      BY <2>1, StockRoomAssumption DEF StockInv, CountsKeepTheLedger, QtyMatchesLedger
    <3>2. CASE r = p
      BY <1>3, <1>4, <1>5, <3>1, <3>2, ChainRow
    <3>3. CASE r # p
      BY <1>5, <3>1, <3>3
    <3>. QED  BY <3>2, <3>3
  <2>. QED  BY <1>1, <2>1 DEF CountsKeepTheLedger, QtyMatchesLedger
<1>10. UNCHANGED <<pc, req, tx>> /\ NoOne \notin Workers
  BY <1>1, StockRoomAssumption DEF session
<1>11. ASSUME NEW o \in Workers PROVE Working(o)' /\ KeyFresh(o)'
  <2>1. Working(o) /\ KeyFresh(o)
    BY DEF StockInv
  <2>2. ASSUME pc[o] = "products", NEW r \in tx[o].held PROVE qty'[r] = qty[r]
    <3>1. r \in Products
      BY DEF StockInv, LockInv, Shape, IsTx
    <3>2. productLock[r] = o
      BY <2>2, <3>1 DEF StockInv, LockInv, Held, HoldsProduct
    <3>. QED  BY <1>1, <1>5, <1>10, <3>1, <3>2
  <2>3. Working(o)'
    BY <1>10, <2>1, <2>2 DEF Working
  <2>. QED  BY <1>1, <1>10, <2>1, <2>3 DEF KeyFresh, AdjustmentsWithKey
<1>. QED  BY <1>2, <1>5, <1>6, <1>7, <1>8, <1>9, <1>11 DEF StockInv

(* The period is closed, or nothing happens.                               *)
LEMMA FrameStock ==
    ASSUME StockInv, UNCHANGED <<stock, count, load, locks, session>>
    PROVE  StockInv'
<1>1. LockInv' /\ UNCHANGED <<qty, ledger, adjustments, entries, pc, req, tx>>
  BY FrameLock DEF StockInv, stock, session
<1>2. Stocked'
  BY <1>1, SameStock DEF StockInv
<1>3. OneAdjustmentPerKey' /\ CountsKeepTheLedger'
  BY <1>1 DEF StockInv, OneAdjustmentPerKey, CountsKeepTheLedger, QtyMatchesLedger
<1>4. \A o \in Workers : Working(o)' /\ KeyFresh(o)'
  BY <1>1 DEF StockInv, Working, KeyFresh, AdjustmentsWithKey
<1>. QED  BY <1>1, <1>2, <1>3, <1>4 DEF StockInv

(* The start.                                                              *)
LEMMA InitStock == Init => StockInv
<1>. SUFFICES ASSUME Init PROVE StockInv
  OBVIOUS
<1>1. LockInv
  BY InitLock
<1>2. count \in [Counts -> StockCount] /\ load.adjustments \in Nat
  BY StockRoomAssumption DEF Init, Workload
<1>3. IsFiniteSet({}) /\ Cardinality({}) = 0
  BY FS_EmptySet
<1>4. Numbered
  BY <1>2, <1>3 DEF Init, Numbered
<1>5. Booked
  BY DEF Init, Booked, Post
<1>6. Stocked
  BY <1>4, <1>5, StockRoomAssumption DEF Init, Stocked
<1>7. QtyMatchesLedger
  BY StockRoomAssumption DEF Init, QtyMatchesLedger, Chained, Before
<1>8. \A o \in Workers : Working(o) /\ KeyFresh(o)
  BY DEF Init, Working, KeyFresh, EmptyTx
<1>. QED  BY <1>1, <1>2, <1>6, <1>7, <1>8 DEF StockInv, Init, OneAdjustmentPerKey, CountsKeepTheLedger

(* Every step.                                                             *)
LEMMA NextStock == StockInv /\ [Next]_vars => StockInv'
<1>. SUFFICES ASSUME StockInv, [Next]_vars PROVE StockInv'
  OBVIOUS
<1>1. ASSUME NEW w \in Workers, Step(w) PROVE StockInv'
  <2>1. RefuseNegative(w) => StockInv'
    BY StockReturn DEF RefuseNegative
  <2>. QED  BY <1>1, <2>1, BeginStock, InsertStock, LockAdjustedStock, CommitStock, CreateStock, HeaderStock, ProductStock,
               CountsStock, PostStock DEF Step
<1>2. ASSUME NEW w \in Workers, Fail(w) PROVE StockInv'
  BY <1>2, StockReturn DEF Fail
<1>3. CASE ClosePeriod
  BY <1>3, FrameStock DEF ClosePeriod
<1>4. CASE UNCHANGED vars
  BY <1>4, FrameStock DEF vars, tables
<1>. QED  BY <1>1, <1>2, <1>3, <1>4, SubmitStock, OtherStock DEF Next

(* The stock invariant holds in every reachable state.                     *)
LEMMA AlwaysStock == Spec => []StockInv
  BY InitStock, NextStock, PTL DEF Spec

(* Without manual adjustments, the stock counts and the sales, receipts    *)
(* and returns beside them keep every product's cached quantity equal to   *)
(* the end of its ledger.                                                  *)
THEOREM LedgerCorrect == Spec => []CountsKeepTheLedger
<1>1. StockInv => CountsKeepTheLedger
  BY DEF StockInv
<1>. QED  BY <1>1, AlwaysStock, PTL

-----------------------------------------------------------------------------
(* An adjustment is whole.                                                 *)

(* The journal entry's amount is a whole number of cents.                  *)
LEMMA AmountInt == ASSUME NEW p \in Products, NEW delta \in Int PROVE Amount(p, delta) \in Int
<1>1. Magnitude(delta) \in Int /\ Cost[p] \in Int /\ QtyScale \in Nat \ {0}
  BY StockRoomAssumption DEF Magnitude
<1>2. \A n \in Int, d \in Nat \ {0} : RoundHalfUp(n, d) \in Int
  BY DEF RoundHalfUp
<1>. QED  BY <1>1, <1>2 DEF Amount

(* Of the entries, one at most is an adjustment's: its own.                *)
LEMMA WholeAdjustment ==
    ASSUME Stocked, NEW a \in adjustments
    PROVE  /\ Cardinality(Moves(a)) = 1 /\ \A i \in Moves(a) : ledger[a.product][i].delta = a.delta
           /\ {e \in entries : e.adjustment = a.id} = {e \in {EntryOf(a)} : e.amount > 0}
<1>1. PICK i \in DOMAIN ledger[a.product] : ledger[a.product][i].delta = a.delta /\ Moves(a) = {i}
  BY DEF Stocked, Booked, HasMovement
<1>2. Cardinality({i}) = 1
  BY FS_Singleton
<1>3. \A b \in adjustments : EntryOf(b).adjustment = b.id /\ EntryOf(b).amount = Amount(b.product, b.delta)
  BY DEF EntryOf
<1>4. entries = {EntryOf(b) : b \in {d \in adjustments : Amount(d.product, d.delta) > 0}}
  BY DEF Stocked, Booked, Post
<1>5. \A b \in adjustments : a.id = b.id => a = b
  BY DEF Stocked, Numbered
<1>6. ASSUME NEW e \in entries, e.adjustment = a.id PROVE e = EntryOf(a) /\ e.amount > 0
  BY <1>3, <1>4, <1>5, <1>6
<1>7. ASSUME EntryOf(a).amount > 0 PROVE EntryOf(a) \in entries /\ EntryOf(a).adjustment = a.id
  BY <1>3, <1>4, <1>7
<1>8. {e \in entries : e.adjustment = a.id} = {e \in {EntryOf(a)} : e.amount > 0}
  BY <1>6, <1>7
<1>. QED  BY <1>1, <1>2, <1>8

(* The stock invariant includes the declared shapes of all tables.         *)
LEMMA StockTypes == StockInv => TypeOK
<1>. SUFFICES ASSUME StockInv PROVE TypeOK
  OBVIOUS
<1>1. Stocked /\ Shape /\ count \in [Counts -> StockCount]
  BY DEF StockInv, LockInv
<1>2. load.adjustments \in Nat
  BY <1>1, StockRoomAssumption DEF Shape, Workload
<1>3. ASSUME NEW a \in adjustments
      PROVE  /\ a.id \in 1 .. load.adjustments /\ a.product \in Products /\ a.delta \in Int \ {0}
             /\ a.key \in Keys \cup {NoOne} /\ a.count \in Counts \cup {NoOne}
  <2>1. a \in Adjustment
    BY <1>1 DEF Stocked
  <2>2. a.id \in 1 .. Cardinality(adjustments) /\ Cardinality(adjustments) <= load.adjustments /\ IsFiniteSet(adjustments)
    BY <1>1 DEF Stocked, Numbered
  <2>3. Cardinality(adjustments) \in Nat
    BY <2>2, FS_CardinalityType
  <2>4. a.id \in 1 .. load.adjustments
    BY <1>2, <2>2, <2>3
  <2>. QED  BY <2>1, <2>4 DEF Adjustment
<1>4. ASSUME NEW e \in entries PROVE e.amount \in Nat \ {0}
  <2>1. PICK a \in adjustments : e = EntryOf(a) /\ Amount(a.product, a.delta) > 0
    BY <1>1 DEF Stocked, Booked, Post
  <2>2. Amount(a.product, a.delta) \in Int
    BY <1>3, AmountInt
  <2>3. e.amount = Amount(a.product, a.delta)
    BY <2>1 DEF EntryOf
  <2>. QED  BY <2>1, <2>2, <2>3
<1>5. \A w \in Workers : req[w] \in load.sent \cup {NoOne}
  BY <1>1 DEF Shape, Served
<1>. QED  BY <1>1, <1>3, <1>4, <1>5 DEF TypeOK, Stocked, Shape

(* Every adjustment, manual or of a posted count, is one row for its key,  *)
(* one movement of its quantity and, when it has a value, one journal      *)
(* entry; nothing is moved or posted without one.                          *)
THEOREM AdjustmentsCorrect == Spec => []AdjustmentIsWhole
<1>1. StockInv => AdjustmentIsWhole
  <2>. SUFFICES ASSUME StockInv PROVE AdjustmentIsWhole
    OBVIOUS
  <2>1. TypeOK /\ OneAdjustmentPerKey /\ Stocked
    BY StockTypes DEF StockInv
  <2>2. \A a \in adjustments : /\ Cardinality(Moves(a)) = 1 /\ \A i \in Moves(a) : ledger[a.product][i].delta = a.delta
                               /\ {e \in entries : e.adjustment = a.id} = {e \in {EntryOf(a)} : e.amount > 0}
    BY <2>1, WholeAdjustment
  <2>3. \A e \in entries : \E a \in adjustments : a.id = e.adjustment
    BY <2>1 DEF Stocked, Booked, Post, EntryOf
  <2>4. \A p \in Products : \A i \in DOMAIN ledger[p] :
            ledger[p][i].ref # NoOne => \E a \in adjustments : a.id = ledger[p][i].ref /\ a.product = p
    BY <2>1 DEF Stocked, Booked
  <2>. QED  BY <2>1, <2>2, <2>3, <2>4 DEF AdjustmentIsWhole
<1>. QED  BY <1>1, AlwaysStock, PTL

-----------------------------------------------------------------------------
(* Every step keeps postings whole and snapshots honest.                   *)

(* Each product stays as it is or gets one more row.                       *)
Grows == \A p \in Products : (qty'[p] = qty[p] /\ ledger'[p] = ledger[p]) \/ Len(ledger'[p]) = Len(ledger[p]) + 1

(* Recording adjustments adds at most one row to a product's ledger.       *)
LEMMA RecordGrows ==
    ASSUME Stocked, NEW new, NewRows(new), NEW on_hand \in [Products -> Int], Record(new, on_hand)
    PROVE  Grows
<1>. SUFFICES ASSUME NEW p \in Products
              PROVE  (qty'[p] = qty[p] /\ ledger'[p] = ledger[p]) \/ Len(ledger'[p]) = Len(ledger[p]) + 1
  BY DEF Grows
<1>1. /\ (\A a \in new : a.product # p) => qty'[p] = qty[p] /\ ledger'[p] = ledger[p]
      /\ \A a \in new : /\ RowOf(a, on_hand) \in LedgerRow
                        /\ ledger'[a.product] = ledger[a.product] \o <<RowOf(a, on_hand)>>
  BY RecordRows
<1>2. ASSUME NEW a \in new, a.product = p PROVE Len(ledger'[p]) = Len(ledger[p]) + 1
  <2>1. PICK rows, row, more : rows = ledger[p] /\ row = RowOf(a, on_hand) /\ more = ledger'[p]
    OBVIOUS
  <2>2. rows \in Seq(LedgerRow) /\ row \in LedgerRow /\ more = rows \o <<row>>
    BY <1>1, <1>2, <2>1 DEF Stocked
  <2>3. Len(more) = Len(rows) + 1
    BY ONLY <2>2, RowAdded
  <2>. QED  BY <2>1, <2>3
<1>. QED  BY <1>1, <1>2

(* The snapshots of a count that is not written.                           *)
LEMMA SnappedStep ==
    ASSUME Stocked, NEW c \in Counts, load.scope[c] \subseteq Products, Snapped(c), Grows, load' = load,
           touched \in [Counts -> [Products -> Nat]], touched'[c] = touched[c],
           count'[c].expected = count[c].expected,
           count'[c].status \in {"OPEN", "COUNTED", "REVIEWED"} => count[c].status \in {"OPEN", "COUNTED", "REVIEWED"}
    PROVE  Snapped(c)'
<1>. SUFFICES ASSUME count'[c].status \in {"OPEN", "COUNTED", "REVIEWED"}, NEW p \in load.scope[c]
              PROVE  /\ touched'[c][p] <= Len(ledger'[p])
                     /\ touched'[c][p] = Len(ledger'[p]) => count'[c].expected[p] = qty'[p]
  BY DEF Snapped
<1>1. touched[c][p] <= Len(ledger[p]) /\ (touched[c][p] = Len(ledger[p]) => count[c].expected[p] = qty[p])
  BY DEF Snapped
<1>2. touched[c][p] \in Nat /\ p \in Products
  OBVIOUS
<1>3. Len(ledger[p]) \in Nat
  BY <1>2 DEF Stocked
<1>. QED  BY <1>1, <1>2, <1>3 DEF Grows

(* The corrections of counts that nobody posts.                            *)
LEMMA PostingSame ==
    ASSUME PostingIsWhole, load' = load, NEW new, adjustments' = adjustments \cup new, \A a \in new : a.count = NoOne,
           \A c \in Counts : count'[c] = count[c] \/ (count[c].status # "POSTED" /\ count'[c].status # "POSTED")
    PROVE  PostingIsWhole'
<1>. SUFFICES ASSUME NEW c \in Counts
              PROVE  LET done == {a \in adjustments' : a.count = c}
                         due  == {p \in CountedLines(c)' : count'[c].counted[p] # count'[c].expected[p]}
                     IN  IF count'[c].status # "POSTED" THEN done = {}
                         ELSE /\ {a.product : a \in done} = due
                              /\ \A a \in done : a.delta = count'[c].counted[a.product] - count'[c].expected[a.product]
                              /\ \A a, b \in done : a.product = b.product => a = b
  BY DEF PostingIsWhole, CountedLines
<1>1. {a \in adjustments' : a.count = c} = {a \in adjustments : a.count = c}
  BY StockRoomAssumption
<1>2. CASE count'[c] = count[c]
  <2>1. CountedLines(c)' = CountedLines(c)
    BY <1>2 DEF CountedLines
  <2>. QED  BY <1>1, <1>2, <2>1 DEF PostingIsWhole
<1>3. CASE count[c].status # "POSTED" /\ count'[c].status # "POSTED"
  BY <1>1, <1>3 DEF PostingIsWhole
<1>. QED  BY <1>2, <1>3

(* A step that records nothing and leaves the counts alone.                *)
LEMMA SameCounts ==
    ASSUME CountInv, StockInv', UNCHANGED <<qty, ledger, adjustments, count, touched, load>>
    PROVE  CountInv'
<1>1. PostingIsWhole'
  BY DEF CountInv, PostingIsWhole, CountedLines
<1>2. \A c \in Counts : Snapped(c)'
  BY DEF CountInv, Snapped
<1>. QED  BY <1>1, <1>2 DEF CountInv

(* A request that ends without committing leaves the counts as they are.   *)
LEMMA ReturnCounts == ASSUME CountInv, NEW w \in Workers, NEW code, Return(w, code) PROVE CountInv'
<1>1. StockInv'
  BY StockReturn DEF CountInv
<1>. QED  BY <1>1, SameCounts DEF Return, tables, stock

(* Recording a manual adjustment.                                          *)
LEMMA CommitCounts == ASSUME CountInv, NEW w \in Workers, CommitAdjustment(w) PROVE CountInv'
<1>1. CASE \E code : Return(w, code)
  BY <1>1, ReturnCounts
<1>2. CASE ~\E code : Return(w, code)
  <2>. PICK q : q = req[w]
    OBVIOUS
  <2>. PICK a : a = [id |-> NewId, product |-> q.product, delta |-> q.delta, key |-> q.key, count |-> NoOne]
    OBVIOUS
  <2>1. pc[w] = "commit" /\ q.kind = "ADJUST" /\ Record({a}, tx[w].qty) /\ UNCHANGED <<count, touched, periodOpen, load>>
    BY <1>2 DEF CommitAdjustment, Is
  <2>2. StockInv' /\ StockInv
    BY CommitStock DEF CountInv
  <2>3. q.product \in Products /\ q.delta \in Int \ {0} /\ q.key \in Keys \cup {NoOne}
    BY <2>1, <2>2, Bodies DEF StockInv, LockInv
  <2>4. Stocked /\ tx[w].qty \in [Products -> Int]
    BY <2>2 DEF StockInv, Working
  <2>5. Cardinality(adjustments) \in Nat
    BY <2>4, FS_CardinalityType DEF Stocked, Numbered
  <2>6. a \in Adjustment /\ a.id = NewId /\ a.count = NoOne
    BY <2>3, <2>5 DEF Adjustment, NewId
  <2>7. Grows
    BY <2>1, <2>4, <2>6, OneRow, RecordGrows
  <2>8. adjustments' = adjustments \cup {a}
    BY <2>1 DEF Record
  <2>9. PostingIsWhole'
    <3>1. PICK new : new = {a}
      OBVIOUS
    <3>2. /\ adjustments' = adjustments \cup new /\ (\A b \in new : b.count = NoOne) /\ load' = load /\ PostingIsWhole
          /\ \A c \in Counts : count'[c] = count[c]
      BY <2>1, <2>6, <2>8, <3>1 DEF CountInv
    <3>. QED  BY ONLY <3>2, PostingSame
  <2>10. \A c \in Counts : load.scope[c] \subseteq Products
    BY <2>2, Scopes DEF StockInv, LockInv
  <2>11. \A c \in Counts : Snapped(c)'
    BY <2>1, <2>4, <2>7, <2>10, SnappedStep DEF CountInv
  <2>. QED  BY <2>1, <2>2, <2>9, <2>11 DEF CountInv
<1>. QED  BY <1>1, <1>2

(* A sale, receipt or return.                                              *)
LEMMA OtherCounts ==
    ASSUME CountInv, NEW p \in Products, NEW delta \in {-1, 1}, OtherMovement(p, delta)
    PROVE  CountInv'
<1>1. /\ StockInv' /\ Len(ledger'[p]) = Len(ledger[p]) + 1
      /\ \A r \in Products : r # p => qty'[r] = qty[r] /\ ledger'[r] = ledger[r]
  BY OtherStock DEF CountInv
<1>2. UNCHANGED <<adjustments, count, touched, load>>
  BY DEF OtherMovement
<1>3. Grows
  BY <1>1 DEF Grows
<1>4. PostingIsWhole'
  BY <1>2 DEF CountInv, PostingIsWhole, CountedLines
<1>5. \A c \in Counts : load.scope[c] \subseteq Products
  BY Scopes DEF CountInv, StockInv, LockInv
<1>6. \A c \in Counts : Snapped(c)'
  BY <1>2, <1>3, <1>5, SnappedStep DEF CountInv, StockInv
<1>. QED  BY <1>1, <1>2, <1>4, <1>6 DEF CountInv

(* A count is created.                                                     *)
LEMMA CreateCounts == ASSUME CountInv, NEW w \in Workers, CreateCount(w) PROVE CountInv'
<1>1. CASE \E code : Return(w, code)
  BY <1>1, ReturnCounts
<1>2. CASE ~\E code : Return(w, code)
  <2>. PICK c : c = req[w].count
    OBVIOUS
  <2>1. /\ pc[w] = "begin" /\ req[w].kind = "CREATE" /\ req[w].inStore
        /\ count' = [count EXCEPT ![c] = [count[c] EXCEPT !.status = "DRAFT"]]
        /\ UNCHANGED <<stock, periodOpen, load, touched>>
    BY <1>2 DEF CreateCount, Is, SetStatus, OnlyCounts
  <2>2. StockInv' /\ StockInv
    BY CreateStock DEF CountInv
  <2>3. c \in Counts /\ count[c] \in StockCount /\ count \in [Counts -> StockCount]
    BY <2>1, <2>2, Bodies DEF StockInv, LockInv
  <2>4. count'[c].status = "DRAFT" /\ \A d \in Counts : d # c => count'[d] = count[d]
    BY <2>1, <2>3 DEF StockCount
  <2>5. count[c].status = "NONE"
    BY <2>1, <2>2, <2>3 DEF StockInv, LockInv, Created, Creates
  <2>6. UNCHANGED <<qty, ledger, adjustments, touched, load>>
    BY <2>1 DEF stock
  <2>7. PostingIsWhole'
    <3>1. PICK new : new = {}
      OBVIOUS
    <3>2. /\ adjustments' = adjustments \cup new /\ (\A b \in new : b.count = NoOne) /\ load' = load /\ PostingIsWhole
          /\ \A d \in Counts : count'[d] = count[d] \/ (count[d].status # "POSTED" /\ count'[d].status # "POSTED")
      BY <2>4, <2>5, <2>6, <3>1 DEF CountInv
    <3>. QED  BY ONLY <3>2, PostingSame
  <2>8. \A d \in Counts : Snapped(d)'
    BY <2>4, <2>6 DEF CountInv, Snapped
  <2>. QED  BY <2>2, <2>6, <2>7, <2>8 DEF CountInv
<1>. QED  BY <1>1, <1>2

(* A snapshot is taken under the products' locks.                          *)
LEMMA SnapshotStep ==
    ASSUME CountInv, NEW w \in Workers, AllLocked(w), NEW c, c = req[w].count, Snapshot(w, c),
           UNCHANGED <<qty, ledger, load>>, count'[c].expected = Expected(w, c),
           load.scope[c] \subseteq tx[w].held \/ count[c].status \in {"OPEN", "COUNTED", "REVIEWED"}
    PROVE  /\ touched' \in [Counts -> [Products -> Nat]] /\ (\A d \in Counts : d # c => touched'[d] = touched[d])
           /\ Snapped(c)'
<1>1. /\ c \in Counts /\ tx[w].held \subseteq Products
      /\ \A p \in tx[w].held : tx[w].qty[p] = qty[p]
  BY AllHeld DEF CountInv
<1>2. load.scope[c] \subseteq Products
  BY <1>1, Scopes DEF CountInv, StockInv, LockInv
<1>3. \A p \in Products : Len(ledger[p]) \in Nat
  BY DEF CountInv, StockInv, Stocked
<1>. PICK t : t = [p \in Products |-> IF p \in tx[w].held THEN Len(ledger[p]) ELSE touched[c][p]]
  OBVIOUS
<1>4. touched \in [Counts -> [Products -> Nat]] /\ touched' = [touched EXCEPT ![c] = t]
  BY DEF CountInv, Snapshot
<1>5. t \in [Products -> Nat]
  BY <1>1, <1>3, <1>4
<1>6. /\ touched' \in [Counts -> [Products -> Nat]] /\ touched'[c] = t
      /\ \A d \in Counts : d # c => touched'[d] = touched[d]
  BY <1>1, <1>4, <1>5
<1>7. ASSUME NEW p \in load.scope[c]
      PROVE  t[p] <= Len(ledger[p]) /\ (t[p] = Len(ledger[p]) => count'[c].expected[p] = qty[p])
  <2>1. p \in Products
    BY <1>2
  <2>2. CASE p \in tx[w].held
    <3>1. t[p] = Len(ledger[p]) /\ count'[c].expected[p] = tx[w].qty[p]
      BY <2>1, <2>2 DEF Expected
    <3>. QED  BY <1>1, <1>3, <2>1, <2>2, <3>1
  <2>3. CASE p \notin tx[w].held
    <3>1. t[p] = touched[c][p] /\ count'[c].expected[p] = count[c].expected[p]
      BY <2>1, <2>3 DEF Expected
    <3>2. Snapped(c) /\ count[c].status \in {"OPEN", "COUNTED", "REVIEWED"}
      BY <1>1, <2>3 DEF CountInv
    <3>. QED  BY <3>1, <3>2 DEF Snapped
  <2>. QED  BY <2>2, <2>3
<1>8. Snapped(c)'
  BY <1>6, <1>7 DEF Snapped
<1>. QED  BY <1>6, <1>8

(* A count is opened, a line entered, or the count moved on.               *)
LEMMA CountsCounts ==
    ASSUME CountInv, NEW w \in Workers, OpenCount(w) \/ EnterCount(w) \/ MoveCount(w)
    PROVE  CountInv'
<1>0. PICK c : c = req[w].count
  OBVIOUS
<1>1. StockInv /\ StockInv' /\ PostingIsWhole /\ touched \in [Counts -> [Products -> Nat]]
  BY CountsStock DEF CountInv
<1>2. /\ AllLocked(w) /\ UNCHANGED <<qty, ledger, adjustments, entries, periodOpen, load>>
      /\ \A d \in Counts : d # c => count'[d] = count[d]
  BY <1>0, <1>1, CountAfter
<1>3. /\ c \in Counts /\ req[w].kind \in HeaderKinds /\ tx[w].held = ToLock(req[w])
      /\ count[c].status \in Accepted[req[w].kind]
  BY <1>0, <1>1, <1>2, AllHeld
<1>4. count[c].status \in {"DRAFT", "OPEN", "COUNTED", "REVIEWED"}
  BY <1>3, AcceptedIn
<1>5. /\ count'[c].status # "POSTED" /\ touched' \in [Counts -> [Products -> Nat]] /\ Snapped(c)'
      /\ \A d \in Counts : d # c => touched'[d] = touched[d]
  <2>1. CASE OpenCount(w)
    <3>1. Snapshot(w, c) /\ req[w].kind = "OPEN" /\ count'[c].status = "OPEN" /\ count'[c].expected = Expected(w, c)
      <4>1. Snapshot(w, c) /\ req[w].kind = "OPEN"
        BY <1>0, <2>1 DEF OpenCount
      <4>2. count'[c].status = "OPEN" /\ count'[c].expected = Expected(w, c)
        BY <1>0, <1>1, <2>1, CountAfter
      <4>. QED  BY <4>1, <4>2
    <3>2. load.scope[c] \subseteq tx[w].held
      BY <1>0, <1>3, <3>1 DEF ToLock
    <3>. QED  BY <1>0, <1>2, <3>1, <3>2, SnapshotStep
  <2>2. CASE EnterCount(w)
    <3>1. Snapshot(w, c) /\ req[w].kind = "ENTER" /\ count'[c].status = count[c].status /\ count'[c].expected = Expected(w, c)
      <4>1. Snapshot(w, c) /\ req[w].kind = "ENTER"
        BY <1>0, <2>2 DEF EnterCount
      <4>2. count'[c].status = count[c].status /\ count'[c].expected = Expected(w, c)
        BY <1>0, <1>1, <2>2, CountAfter
      <4>. QED  BY <4>1, <4>2
    <3>2. count[c].status \in {"OPEN", "COUNTED"}
      BY <1>3, <3>1, AcceptedIs
    <3>. QED  BY <1>0, <1>2, <3>1, <3>2, SnapshotStep
  <2>3. CASE MoveCount(w)
    <3>1. /\ req[w].kind \in {"MARK", "REVIEW", "REOPEN", "CANCEL"} /\ count'[c].status = StatusAfter(req[w].kind)
          /\ count'[c].expected = count[c].expected /\ touched' = touched
      BY <1>0, <1>1, <2>3, CountAfter DEF MoveCount
    <3>2. /\ count'[c].status # "POSTED"
          /\ count'[c].status \in {"OPEN", "COUNTED", "REVIEWED"} => count[c].status \in {"OPEN", "COUNTED", "REVIEWED"}
      BY <1>3, <3>1, AcceptedIs DEF StatusAfter
    <3>3. Snapped(c)'
      BY <1>2, <1>3, <3>1, <3>2 DEF CountInv, Snapped
    <3>. QED  BY <1>1, <3>1, <3>2, <3>3
  <2>. QED  BY <2>1, <2>2, <2>3
<1>6. ASSUME NEW d \in Counts PROVE Snapped(d)'
  <2>1. CASE d = c
    BY <1>5, <2>1
  <2>2. CASE d # c
    <3>1. Snapped(d) /\ count'[d] = count[d] /\ touched'[d] = touched[d] /\ qty' = qty /\ ledger' = ledger /\ load' = load
      BY <1>2, <1>5, <2>2 DEF CountInv
    <3>. QED  BY ONLY <3>1 DEF Snapped
  <2>. QED  BY <2>1, <2>2
<1>7. PostingIsWhole'
  <2>1. PICK new : new = {}
    OBVIOUS
  <2>2. /\ adjustments' = adjustments \cup new /\ (\A b \in new : b.count = NoOne) /\ load' = load /\ PostingIsWhole
        /\ \A d \in Counts : count'[d] = count[d] \/ (count[d].status # "POSTED" /\ count'[d].status # "POSTED")
    BY <1>1, <1>2, <1>4, <1>5, <2>1
  <2>. QED  BY ONLY <2>2, PostingSame
<1>. QED  BY <1>1, <1>5, <1>6, <1>7 DEF CountInv

(* A posting corrects every counted line by what its lines say.            *)
LEMMA PostCounts == ASSUME CountInv, NEW w \in Workers, PostCount(w) PROVE CountInv'
<1>1. CASE \E code : Return(w, code)
  BY <1>1, ReturnCounts
<1>2. CASE ~\E code : Return(w, code)
  <2>0. PICK c, new : c = req[w].count /\ new = Corrections(w, c)
    OBVIOUS
  <2>1. /\ StockInv /\ StockInv' /\ PostingIsWhole /\ Stocked /\ tx[w].qty \in [Products -> Int]
        /\ touched \in [Counts -> [Products -> Nat]] /\ \A d \in Counts : load.scope[d] \subseteq Products
    BY PostStock, Scopes DEF CountInv, StockInv, LockInv, Working
  <2>2. /\ AllLocked(w) /\ req[w].kind = "POST" /\ c \in Counts /\ ~Drifted(w, c)
        /\ UNCHANGED <<touched, periodOpen, load>> /\ Record(new, tx[w].qty) /\ NewRows(new) /\ tx[w].held = CountedLines(c)
        /\ (\A a \in new : a.product \in CountedLines(c) /\ a.delta = Variance(w, c, a.product) /\ a.count = c)
        /\ (\A p \in CountedLines(c) : Variance(w, c, p) # 0 => \E a \in new : a.product = p)
        /\ \A d \in Counts : d # c => count'[d] = count[d]
    <3>1. PostsAs(w, c, new)
      BY <1>2, <2>0, <2>1, PostAfter
    <3>. QED  BY <3>1 DEF PostsAs
  <2>3. count'[c].status = "POSTED" /\ count'[c].expected = count[c].expected /\ count'[c].counted = count[c].counted
    <3>1. PostsAs(w, c, new)
      BY <1>2, <2>0, <2>1, PostAfter
    <3>. QED  BY <3>1 DEF PostsAs
  <2>4. count[c].status # "POSTED"
    <3>1. count[c].status \in Accepted["POST"]
      BY <2>0, <2>1, <2>2, AllHeld
    <3>. QED  BY <3>1, AcceptedIs
  <2>5. adjustments' = adjustments \cup new
    BY <2>2 DEF Record
  <2>6. Grows
    BY <2>1, <2>2, RecordGrows
  <2>7. ASSUME NEW d \in Counts PROVE Snapped(d)'
    <3>1. CASE d = c
      BY <2>3, <3>1 DEF Snapped
    <3>2. CASE d # c
      BY <2>1, <2>2, <2>6, <3>2, SnappedStep DEF CountInv
    <3>. QED  BY <3>1, <3>2
  <2>8. \A p \in CountedLines(c) : Variance(w, c, p) = count[c].counted[p] - count[c].expected[p]
    BY <2>2 DEF Drifted, Variance
  <2>9. CountedLines(c)' = CountedLines(c)
    BY <2>2, <2>3 DEF CountedLines
  <2>10. {a \in adjustments : a.count = c} = {}
    BY <2>1, <2>2, <2>4 DEF PostingIsWhole
  <2>11. {a \in adjustments' : a.count = c} = new
    BY <2>2, <2>5, <2>10
  <2>12. \A a \in new : a \in Adjustment /\ a.delta # 0
    BY <2>2 DEF NewRows, Adjustment
  <2>13. \A p \in CountedLines(c) : count[c].counted[p] \in Int /\ count[c].expected[p] \in Int
    <3>. SUFFICES ASSUME NEW p \in CountedLines(c) PROVE count[c].counted[p] \in Int /\ count[c].expected[p] \in Int
      OBVIOUS
    <3>1. p \in Products /\ p \in tx[w].held
      BY <2>1, <2>2 DEF CountedLines
    <3>2. tx[w].qty[p] \in Int /\ count[c].expected[p] = tx[w].qty[p]
      BY <2>1, <2>2, <3>1 DEF Drifted
    <3>3. count[c].counted \in [Products -> Nat \cup {NoOne}]
      BY <2>1, <2>2 DEF StockInv, StockCount
    <3>4. count[c].counted[p] \in Nat
      BY <3>1, <3>3 DEF CountedLines
    <3>. QED  BY <3>2, <3>4
  <2>14. {a.product : a \in new} = {p \in CountedLines(c) : count[c].counted[p] # count[c].expected[p]}
    <3>1. ASSUME NEW a \in new PROVE a.product \in CountedLines(c) /\ count[c].counted[a.product] # count[c].expected[a.product]
      BY <2>2, <2>8, <2>12, <2>13
    <3>2. ASSUME NEW p \in CountedLines(c), count[c].counted[p] # count[c].expected[p] PROVE \E a \in new : a.product = p
      <4>1. Variance(w, c, p) # 0
        BY <2>8, <2>13, <3>2
      <4>. QED  BY <2>2, <4>1
    <3>. QED  BY <3>1, <3>2
  <2>15. /\ \A a \in new : a.delta = count[c].counted[a.product] - count[c].expected[a.product]
         /\ \A a, b \in new : a.product = b.product => a = b
    BY <2>2, <2>8 DEF NewRows
  <2>16. ASSUME NEW d \in Counts
         PROVE  LET done == {a \in adjustments' : a.count = d}
                    due  == {p \in CountedLines(d)' : count'[d].counted[p] # count'[d].expected[p]}
                IN  IF count'[d].status # "POSTED" THEN done = {}
                    ELSE /\ {a.product : a \in done} = due
                         /\ \A a \in done : a.delta = count'[d].counted[a.product] - count'[d].expected[a.product]
                         /\ \A a, b \in done : a.product = b.product => a = b
    <3>1. CASE d = c
      BY <2>3, <2>9, <2>11, <2>14, <2>15, <3>1
    <3>2. CASE d # c
      <4>1. count'[d] = count[d] /\ {a \in adjustments' : a.count = d} = {a \in adjustments : a.count = d}
        BY <2>2, <2>5, <3>2
      <4>2. CountedLines(d)' = CountedLines(d)
        BY <2>2, <4>1 DEF CountedLines
      <4>. QED  BY <2>1, <4>1, <4>2 DEF PostingIsWhole
    <3>. QED  BY <3>1, <3>2
  <2>17. PostingIsWhole'
    BY <2>16 DEF PostingIsWhole, CountedLines
  <2>. QED  BY <2>1, <2>2, <2>7, <2>17 DEF CountInv
<1>. QED  BY <1>1, <1>2

(* The start: no count is posted, and those under way have just been       *)
(* opened.                                                                 *)
LEMMA InitCounts == Init => CountInv
<1>. SUFFICES ASSUME Init PROVE CountInv
  OBVIOUS
<1>1. StockInv
  BY InitStock
<1>2. \A c \in Counts : count[c].status # "POSTED"
  BY StockRoomAssumption DEF Init
<1>3. PostingIsWhole
  BY <1>2 DEF Init, PostingIsWhole
<1>4. \A c \in Counts : load.scope[c] \subseteq Products
  BY <1>1, Scopes DEF StockInv, LockInv
<1>5. ASSUME NEW c \in Counts PROVE Snapped(c)
  <2>. SUFFICES ASSUME count[c].status \in {"OPEN", "COUNTED", "REVIEWED"}, NEW p \in load.scope[c]
                PROVE  touched[c][p] <= Len(ledger[p]) /\ (touched[c][p] = Len(ledger[p]) => count[c].expected[p] = qty[p])
    BY DEF Snapped
  <2>1. p \in Products
    BY <1>4
  <2>2. touched[c][p] = 0 /\ ledger[p] = <<>> /\ qty[p] = InitialQty[p]
    BY <2>1 DEF Init
  <2>3. Len(ledger[p]) = 0
    BY <2>2
  <2>4. load \in Workloads /\ count = load.counts
    BY DEF Init
  <2>5. count[c].expected[p] = InitialQty[p]
    BY <2>4, StockRoomAssumption
  <2>. QED  BY <2>2, <2>3, <2>5
<1>6. touched \in [Counts -> [Products -> Nat]]
  BY DEF Init
<1>. QED  BY <1>1, <1>3, <1>5, <1>6 DEF CountInv

(* Every step.                                                             *)
LEMMA NextCounts == CountInv /\ [Next]_vars => CountInv'
<1>. SUFFICES ASSUME CountInv, [Next]_vars PROVE CountInv'
  OBVIOUS
<1>1. StockInv'
  BY NextStock DEF CountInv
<1>2. ASSUME NEW w \in Workers, Step(w) PROVE CountInv'
  <2>1. ASSUME \/ BeginAdjust(w) \/ InsertAdjustment(w) \/ LockAdjusted(w) \/ LockHeader(w) \/ LockProduct(w)
               \/ RefuseNegative(w)
        PROVE  CountInv'
    <3>1. UNCHANGED tables
      BY <2>1 DEF BeginAdjust, InsertAdjustment, LockAdjusted, LockHeader, LockProduct, RefuseNegative, Return
    <3>. QED  BY <1>1, <3>1, SameCounts DEF tables, stock
  <2>. QED  BY <1>2, <2>1, CommitCounts, CreateCounts, CountsCounts, PostCounts DEF Step
<1>3. ASSUME NEW w \in Workers, Fail(w) PROVE CountInv'
  BY <1>3, ReturnCounts DEF Fail
<1>4. ASSUME NEW w \in Workers, Submit(w) PROVE CountInv'
  BY <1>1, <1>4, SameCounts DEF Submit, tables, stock
<1>5. CASE ClosePeriod
  BY <1>1, <1>5, SameCounts DEF ClosePeriod, stock
<1>6. CASE UNCHANGED vars
  BY <1>1, <1>6, SameCounts DEF vars, tables, stock
<1>. QED  BY <1>2, <1>3, <1>4, <1>5, <1>6, OtherCounts DEF Next

(* The invariant of the counts holds in every reachable state.             *)
LEMMA AlwaysCounts == Spec => []CountInv
  BY InitCounts, NextCounts, PTL DEF Spec

(* What a posted count corrected is counted minus expected, for every      *)
(* counted line at once, and a count that is not posted has corrected      *)
(* nothing: no lock, crash, concurrent sale or manual adjustment between   *)
(* snapshot and posting makes it otherwise.                                *)
THEOREM PostingsCorrect == Spec => []PostingIsWhole
<1>1. CountInv => PostingIsWhole
  BY DEF CountInv
<1>. QED  BY <1>1, AlwaysCounts, PTL

-----------------------------------------------------------------------------
(* Drift.                                                                  *)

(* Only the posting itself answers that stock has drifted.                 *)
LEMMA DriftAnswered ==
    ASSUME CountInv, [Next]_vars, NEW w \in Workers, pc[w] = "products", req[w].kind = "POST",
           answer'[w] = "STOCK_COUNT_DRIFT_DETECTED"
    PROVE  PostCount(w) /\ Return(w, "STOCK_COUNT_DRIFT_DETECTED")
<1>1. answer[w] # "STOCK_COUNT_DRIFT_DETECTED"
  BY StockRoomAssumption DEF CountInv, StockInv, LockInv, Shape, Served
<1>2. ASSUME NEW o \in Workers, o # w, Submit(o) \/ Step(o) \/ Fail(o) PROVE FALSE
  <2>1. Alone(o)
    <3>1. LockInv
      BY DEF CountInv, StockInv
    <3>2. Fail(o) => Alone(o)
      BY <3>1, ReturnLock DEF Fail, Return, tables
    <3>. QED  BY <1>2, <3>1, <3>2, SubmitLock, BeginAdjustLock, InsertLock, LockAdjustedLock, CommitLock, CreateLock, HeaderLock,
                 ProductLock, CountsLock DEF Step
  <2>. QED  BY <1>1, <1>2, <2>1 DEF Alone
<1>3. ~Fail(w) /\ ~Submit(w)
  <2>1. \A code : Finish(w, code) => answer'[w] = code
    BY DEF Finish, CountInv, StockInv, LockInv, Shape
  <2>. QED  BY <2>1 DEF Fail, Return, Submit
<1>4. ~LockProduct(w)
  BY <1>1 DEF LockProduct
<1>5. answer' # answer
  BY <1>1
<1>6. PICK o \in Workers : Submit(o) \/ Step(o) \/ Fail(o)
  BY <1>5 DEF Next, vars, session, OtherMovement, ClosePeriod
<1>7. Step(w)
  BY <1>2, <1>3, <1>6
<1>8. PostCount(w)
  BY <1>4, <1>7 DEF Step, BeginAdjust, InsertAdjustment, LockAdjusted, CommitAdjustment, CreateCount, LockHeader,
                    RefuseNegative, OpenCount, EnterCount, MoveCount, Is
<1>9. \A code : Finish(w, code) => answer'[w] = code
  BY DEF Finish, CountInv, StockInv, LockInv, Shape
<1>. QED  BY <1>8, <1>9 DEF PostCount, Return

(* A posting refused for drift: a product of a counted line has moved      *)
(* since its last snapshot, so a recount always moves the basis forward.   *)
THEOREM DriftCorrect == Spec => DriftIsReal
<1>1. CountInv /\ [Next]_vars =>
        \A c \in Counts, w \in Workers :
          /\ pc[w] = "products" /\ req[w].kind = "POST" /\ req[w].count = c
          /\ answer'[w] = "STOCK_COUNT_DRIFT_DETECTED"
          => \E p \in CountedLines(c) : Len(ledger[p]) > touched[c][p]
  <2>. SUFFICES ASSUME CountInv, [Next]_vars, NEW c \in Counts, NEW w \in Workers, pc[w] = "products", req[w].kind = "POST",
                       req[w].count = c, answer'[w] = "STOCK_COUNT_DRIFT_DETECTED"
                PROVE  \E p \in CountedLines(c) : Len(ledger[p]) > touched[c][p]
    OBVIOUS
  <2>1. PostCount(w) /\ Return(w, "STOCK_COUNT_DRIFT_DETECTED")
    BY DriftAnswered
  <2>2. AllLocked(w) /\ Drifted(w, c)
    <3>1. \A code : Finish(w, code) => answer'[w] = code
      BY DEF Finish, CountInv, StockInv, LockInv, Shape
    <3>. QED  BY <2>1, <3>1 DEF PostCount, Return
  <2>3. /\ tx[w].held = ToLock(req[w]) /\ tx[w].held \subseteq Products /\ (\A p \in tx[w].held : tx[w].qty[p] = qty[p])
        /\ count[c].status \in Accepted["POST"]
    BY <2>2, AllHeld DEF CountInv
  <2>4. tx[w].held = CountedLines(c) /\ count[c].status = "REVIEWED"
    BY <2>3, AcceptedIs DEF ToLock
  <2>5. PICK p \in CountedLines(c) : tx[w].qty[p] # count[c].expected[p]
    BY <2>2 DEF Drifted
  <2>6. p \in load.scope[c] /\ p \in Products /\ qty[p] # count[c].expected[p]
    BY <2>3, <2>4, <2>5 DEF CountedLines
  <2>7. touched[c][p] <= Len(ledger[p]) /\ touched[c][p] # Len(ledger[p])
    BY <2>4, <2>6 DEF CountInv, Snapped
  <2>8. touched[c][p] \in Nat /\ Len(ledger[p]) \in Nat
    BY <2>6 DEF CountInv, StockInv, Stocked
  <2>. QED  BY <2>7, <2>8
<1>. QED  BY <1>1, AlwaysCounts, PTL DEF Spec, DriftIsReal

=============================================================================
