---------------------------- MODULE ReturnsProofs ----------------------------
(***************************************************************************)
(* Theorems about SaleReturns, for every set of sales, items, users and    *)
(* concurrent requests.                                                    *)
(***************************************************************************)
EXTENDS SaleReturns, Sums, TLAPS

-----------------------------------------------------------------------------
(* What the proofs use of the shapes of the variables.                     *)

Labels   == {"idle", "lock", "check", "products", "hold", "insert", "post", "commit", "done"}
Statuses == {"COMPLETED", "PARTIALLY_REFUNDED", "REFUNDED"}

IsSession(t) ==
    /\ t = [lines |-> t.lines, seen |-> t.seen, approver |-> t.approver, held |-> t.held,
            qty |-> t.qty, cost |-> t.cost, moved |-> t.moved, rows |-> t.rows,
            shift |-> t.shift, basis |-> t.basis]
    /\ t.lines \in Seq(ReturnLine) /\ t.seen \in [Items -> Nat]
    /\ t.held \subseteq Products /\ t.shift \in Users \cup {NoOne}

(* What a session has done to the stock so far, in its copies.             *)
Work(t) == <<t.qty, t.cost, t.moved, t.rows>>

Shape ==
    /\ returned \in [Items -> Nat]
    /\ status \in [Sales -> Statuses]
    /\ IsFiniteSet(returns)
    /\ shift \in [Users -> {"NONE", "OPEN", "CLOSED"}]
    /\ counted = [u \in Users |-> counted[u]]
    /\ saleLock \in [Sales -> Requests \cup {NoOne}]
    /\ productLock \in [Products -> Requests \cup {NoOne}]
    /\ shiftLock \in [Users -> Requests \cup {NoOne}]
    /\ pc \in [Requests -> Labels]
    /\ req \in [Requests -> Submissions]
    /\ tx = [r \in Requests |-> tx[r]]
    /\ \A r \in Requests : IsSession(tx[r])

(* The fields of a request's body.                                         *)
LEMMA BodyFields ==
    ASSUME Shape, NEW r \in Requests
    PROVE  /\ req[r].kind \in {"RETURN", "VOID", "CLOSE"} /\ req[r].user \in Users
           /\ req[r].sale \in Sales \cup {NoOne} /\ req[r].lines \in Seq(ReturnLine)
           /\ req[r].key \in Keys /\ req[r].store \in Stores
  BY ReturnsAssumption DEF Shape, Submission

(* An idle session is a session, and holds nothing.                        *)
LEMMA EmptySession ==
    /\ IsSession(EmptyTx) /\ EmptyTx.shift = NoOne /\ EmptyTx.held = {}
    /\ EmptyTx.qty = [p \in Products |-> 0] /\ EmptyTx.cost = [p \in Products |-> 0]
    /\ EmptyTx.moved = {} /\ EmptyTx.rows = [p \in Products |-> <<>>]
  <1>1. <<>> \in Seq(ReturnLine)
    OBVIOUS
  <1> QED BY <1>1 DEF IsSession, EmptyTx

(* Sessions are well formed before the first request.                      *)
LEMMA InitShape == Init => Shape /\ (\A r \in Requests : pc[r] \in {"idle", "done"})
  <1> SUFFICES ASSUME Init PROVE Shape /\ (\A r \in Requests : pc[r] \in {"idle", "done"})
    OBVIOUS
  <1>1. PICK w \in Workloads :
           /\ req = w.body
           /\ pc = [r \in Requests |-> IF r \in w.sent THEN "idle" ELSE "done"]
    BY DEF Init
  <1>2. w \in [sent : SUBSET Requests, body : [Requests -> Submissions]]
    BY ReturnsAssumption
  <1>3. req \in [Requests -> Submissions] /\ pc \in [Requests -> {"idle", "done"}]
    BY <1>1, <1>2
  <1>4. IsFiniteSet(returns)
    BY FS_EmptySet DEF Init
  <1>5. tx = [r \in Requests |-> EmptyTx] /\ \A r \in Requests : IsSession(tx[r])
    BY EmptySession DEF Init
  <1> QED BY <1>3, <1>4, <1>5 DEF Init, Shape, Labels, Statuses

(* The session of r ends with nothing committed, or goes to its next       *)
(* statement having only read.                                             *)
Flow == {<<"idle", "lock">>, <<"products", "hold">>, <<"products", "insert">>,
         <<"insert", "post">>, <<"post", "commit">>}

(* What has been found when a refund leaves its locks, its INSERT and its  *)
(* loop behind.                                                            *)
Gate(r) ==
    /\ pc[r] = "products" => Restocked(tx[r].lines) \subseteq tx[r].held
    /\ pc[r] = "insert" => ~KeyInFlight(r) /\ ReturnsWithKey(req[r].key) = {}
    /\ pc[r] = "post" => /\ ToRestock(tx[r].lines) \subseteq tx[r].moved
                         /\ ~(RefundOf(tx[r].lines, tx[r].seen) < 0)

Ends(r)  == \E code, row : Return(r, code, row)
Moves(r) == /\ Refunds(r) /\ Private /\ UNCHANGED <<locks, tx>> /\ Gate(r)
            /\ \E label \in Labels : <<pc[r], label>> \in Flow /\ Goto(r, label)

(* Most steps of a refund end its session or move it on.                   *)
LEMMA QuietSteps ==
    ASSUME NEW r \in Requests
    PROVE  /\ BeginReturn(r) => Ends(r) \/ Moves(r)
           /\ BeginVoid(r) => Ends(r) \/ Moves(r)
           /\ FindShift(r) => Moves(r)
           /\ InsertReturn(r) => Ends(r) \/ Moves(r)
           /\ PostReturn(r) => Ends(r) \/ Moves(r)
           /\ Fail(r) => Ends(r)
  <1>1. BeginReturn(r) => Ends(r) \/ Moves(r)
    BY DEF BeginReturn, MatchOrReject, Ends, Moves, Gate, Labels, Flow, Refunds
  <1>2. BeginVoid(r) => Ends(r) \/ Moves(r)
    BY DEF BeginVoid, Ends, Moves, Gate, Labels, Flow, Refunds
  <1>3. FindShift(r) => Moves(r)
    BY DEF FindShift, Moves, Gate, Labels, Flow
  <1>4. InsertReturn(r) => Ends(r) \/ Moves(r)
    BY DEF InsertReturn, Ends, Moves, Gate, Labels, Flow
  <1>5. PostReturn(r) => Ends(r) \/ Moves(r)
    BY DEF PostReturn, Ends, Moves, Gate, Labels, Flow
  <1> QED BY <1>1, <1>2, <1>3, <1>4, <1>5 DEF Fail, Ends

(* What the steps that do more change, field by field.                     *)
LEMMA EndEffect ==
    ASSUME Shape, NEW r \in Requests, NEW code, NEW row, Finish(r, code, row)
    PROVE  /\ req' = req /\ pc' = [pc EXCEPT ![r] = "done"] /\ tx' = [tx EXCEPT ![r] = EmptyTx]
           /\ saleLock' = Free(saleLock, r) /\ productLock' = Free(productLock, r)
           /\ shiftLock' = Free(shiftLock, r)
           /\ pc'[r] = "done" /\ tx'[r] = EmptyTx
           /\ \A o \in Requests \ {r} : pc'[o] = pc[o] /\ tx'[o] = tx[o]
           /\ saleLock' \in [Sales -> Requests \cup {NoOne}]
           /\ productLock' \in [Products -> Requests \cup {NoOne}]
           /\ shiftLock' \in [Users -> Requests \cup {NoOne}]
           /\ pc' \in [Requests -> Labels] /\ req' \in [Requests -> Submissions]
           /\ tx' = [o \in Requests |-> tx'[o]] /\ \A o \in Requests : IsSession(tx'[o])
  <1>1. /\ req' = req /\ pc' = [pc EXCEPT ![r] = "done"] /\ tx' = [tx EXCEPT ![r] = EmptyTx]
        /\ saleLock' = Free(saleLock, r) /\ productLock' = Free(productLock, r)
        /\ shiftLock' = Free(shiftLock, r)
    BY DEF Finish
  <1>2. /\ saleLock' \in [Sales -> Requests \cup {NoOne}]
        /\ productLock' \in [Products -> Requests \cup {NoOne}]
        /\ shiftLock' \in [Users -> Requests \cup {NoOne}]
    BY <1>1 DEF Shape, Free
  <1>3. /\ pc' \in [Requests -> Labels] /\ req' \in [Requests -> Submissions] /\ pc'[r] = "done"
    BY <1>1 DEF Shape, Labels
  <1>4. tx' = [o \in Requests |-> tx'[o]] /\ tx'[r] = EmptyTx
    BY <1>1 DEF Shape
  <1>5. \A o \in Requests \ {r} : pc'[o] = pc[o] /\ tx'[o] = tx[o]
    BY <1>1 DEF Shape
  <1>6. \A o \in Requests : IsSession(tx'[o])
    BY <1>4, <1>5, EmptySession DEF Shape
  <1> QED BY <1>1, <1>2, <1>3, <1>4, <1>5, <1>6

(* What a step that only moves a refund on changes: its label, along Flow. *)
LEMMA MoveEffect ==
    ASSUME Shape, NEW r \in Requests, Moves(r)
    PROVE  /\ req' = req /\ tx' = tx /\ UNCHANGED <<tables, locks>> /\ Refunds(r) /\ Gate(r)
           /\ <<pc[r], pc'[r]>> \in Flow
           /\ \A o \in Requests \ {r} : pc'[o] = pc[o]
           /\ pc' \in [Requests -> Labels]
  BY DEF Moves, Goto, Private, Shape

(* The rows remaining of a sale, as return lines.                          *)
LEMMA RemainingLines ==
    ASSUME Shape, NEW s \in Sales
    PROVE  Remaining(s) \in Seq(ReturnLine)
  <1> DEFINE left == {i \in ItemsOf(s) : Item[i].qty > returned[i]}
             rows == {[item |-> i, qty |-> Item[i].qty - returned[i], restock |-> TRUE] : i \in left}
  <1>1. rows \subseteq ReturnLine
    <2>1. ASSUME NEW i \in left
          PROVE  [item |-> i, qty |-> Item[i].qty - returned[i], restock |-> TRUE] \in ReturnLine
      <3>1. i \in Items /\ Item[i].qty \in Nat /\ returned[i] \in Nat /\ Item[i].qty > returned[i]
        BY ReturnsAssumption DEF Shape, ItemsOf
      <3>2. Item[i].qty - returned[i] \in Nat \ {0}
        BY <3>1
      <3> QED BY <3>1, <3>2 DEF ReturnLine
    <2> QED BY <2>1
  <1>2. IsFiniteSet(left)
    BY ReturnsAssumption, FS_Subset DEF ItemsOf
  <1>3. IsFiniteSet(rows)
    <2> DEFINE f == [i \in left |-> [item |-> i, qty |-> Item[i].qty - returned[i], restock |-> TRUE]]
    <2>1. rows = {f[i] : i \in left}
      OBVIOUS
    <2>2. f \in Surjection(left, rows)
      BY <2>1 DEF Surjection
    <2> HIDE DEF f, rows, left
    <2> QED BY <1>2, <2>2, FS_Surjection
  <1>4. Remaining(s) = SetToSeq(rows)
    BY DEF Remaining
  <1> HIDE DEF rows, left
  <1>5. SetToSeq(rows) \in [1 .. Cardinality(rows) -> rows]
    <2>1. \E f \in [1 .. Cardinality(rows) -> rows] : IsInjective(f)
      <3>1. ExistsBijection(1 .. Cardinality(rows), rows)
        BY <1>3, FS_CardinalityType
      <3> QED BY <3>1 DEF ExistsBijection, Bijection, Injection, Surjection, IsInjective
    <2> QED BY <2>1 DEF SetToSeq
  <1>6. Cardinality(rows) \in Nat
    BY <1>3, FS_CardinalityType
  <1> QED BY <1>1, <1>4, <1>5, <1>6

(* Taking the lock of a sale, of a product, or of a shift.                 *)
LEMMA LockSaleEffect ==
    ASSUME Shape, NEW r \in Requests, LockSale(r), ~Ends(r)
    PROVE  /\ Refunds(r) /\ pc[r] = "lock" /\ req' = req /\ UNCHANGED <<tables, productLock, shiftLock>>
           /\ req[r].sale \in Sales /\ saleLock[req[r].sale] = NoOne
           /\ saleLock' = [saleLock EXCEPT ![req[r].sale] = r]
           /\ pc'[r] = "check" /\ pc' \in [Requests -> Labels]
           /\ tx' = [o \in Requests |-> tx'[o]] /\ IsSession(tx'[r])
           /\ tx'[r].seen = returned /\ tx'[r].shift = tx[r].shift /\ tx'[r].held = tx[r].held
           /\ Work(tx'[r]) = Work(tx[r])
           /\ \A o \in Requests \ {r} : pc'[o] = pc[o] /\ tx'[o] = tx[o]
  <1> DEFINE lines == IF req[r].kind = "VOID" THEN Remaining(req[r].sale) ELSE req[r].lines
  <1>1. /\ Refunds(r) /\ pc[r] = "lock" /\ req[r].sale # NoOne
        /\ saleLock[req[r].sale] = NoOne
        /\ saleLock' = [saleLock EXCEPT ![req[r].sale] = r]
        /\ tx' = [tx EXCEPT ![r] = [tx[r] EXCEPT !.lines = lines, !.seen = returned]]
        /\ Goto(r, "check") /\ Private /\ UNCHANGED <<productLock, shiftLock>>
    BY DEF LockSale, Ends
  <1>2. req[r].sale \in Sales /\ lines \in Seq(ReturnLine)
    BY <1>1, BodyFields, RemainingLines
  <1> HIDE DEF lines
  <1>3. IsSession(tx[r]) /\ returned \in [Items -> Nat] /\ tx = [o \in Requests |-> tx[o]]
    BY DEF Shape
  <1>4. tx'[r] = [tx[r] EXCEPT !.lines = lines, !.seen = returned]
        /\ tx' = [o \in Requests |-> tx'[o]] /\ \A o \in Requests \ {r} : tx'[o] = tx[o]
    BY <1>1, <1>3
  <1>5. IsSession(tx'[r]) /\ tx'[r].seen = returned /\ tx'[r].shift = tx[r].shift
        /\ tx'[r].held = tx[r].held /\ Work(tx'[r]) = Work(tx[r])
    BY <1>2, <1>3, <1>4 DEF IsSession, Work
  <1>6. pc' \in [Requests -> Labels] /\ pc'[r] = "check" /\ \A o \in Requests \ {r} : pc'[o] = pc[o]
    BY <1>1 DEF Goto, Shape, Labels
  <1> QED BY <1>1, <1>2, <1>4, <1>5, <1>6 DEF Private

(* Who is noted as the approver of a return that passes its checks.        *)
Approver(r) ==
    IF NeedsApproval(req[r].store, RefundOf(tx[r].lines, tx[r].seen)) THEN req[r].approver ELSE NoOne

(* What _check_return's step leaves: the lines were admitted, nothing is   *)
(* written.                                                                *)
LEMMA CheckEffect ==
    ASSUME Shape, NEW r \in Requests, CheckReturn(r), ~Ends(r)
    PROVE  /\ Refunds(r) /\ pc[r] = "check" /\ req' = req /\ UNCHANGED <<tables, locks>>
           /\ tx[r].lines # <<>> /\ Verdict(r) = "OK"
           /\ pc'[r] = "products" /\ pc' \in [Requests -> Labels]
           /\ tx' = [o \in Requests |-> tx'[o]] /\ IsSession(tx'[r])
           /\ tx'[r].lines = tx[r].lines /\ tx'[r].seen = tx[r].seen
           /\ tx'[r].shift = tx[r].shift /\ tx'[r].held = tx[r].held /\ Work(tx'[r]) = Work(tx[r])
           /\ tx'[r].approver = Approver(r)
           /\ \A o \in Requests \ {r} : pc'[o] = pc[o] /\ tx'[o] = tx[o]
  <1>. DEFINE a == Approver(r)
  <1>1. /\ Refunds(r) /\ pc[r] = "check" /\ tx[r].lines # <<>> /\ Verdict(r) = "OK"
        /\ tx' = [tx EXCEPT ![r].approver = a]
        /\ Goto(r, "products") /\ Private /\ UNCHANGED locks
    BY DEF CheckReturn, MatchOrReject, Ends, Approver
  <1>2. PICK b : b = a
    OBVIOUS
  <1>. HIDE DEF a
  <1>3. IsSession(tx[r]) /\ tx = [o \in Requests |-> tx[o]]
    BY DEF Shape
  <1>4. tx'[r] = [tx[r] EXCEPT !.approver = b]
        /\ tx' = [o \in Requests |-> tx'[o]] /\ \A o \in Requests \ {r} : tx'[o] = tx[o]
    BY <1>1, <1>2, <1>3
  <1>5. /\ IsSession(tx'[r]) /\ tx'[r].lines = tx[r].lines /\ tx'[r].seen = tx[r].seen
        /\ tx'[r].shift = tx[r].shift /\ tx'[r].held = tx[r].held
        /\ tx'[r].approver = b /\ Work(tx'[r]) = Work(tx[r])
    BY <1>3, <1>4 DEF IsSession, Work
  <1>6. pc' \in [Requests -> Labels] /\ pc'[r] = "products" /\ \A o \in Requests \ {r} : pc'[o] = pc[o]
    BY <1>1 DEF Goto, Shape, Labels
  <1>7. tx'[r].approver = Approver(r)
    BY <1>2, <1>5 DEF a
  <1> QED BY <1>1, <1>4, <1>5, <1>6, <1>7 DEF Private

(* The product to lock next.                                               *)
Wanted(r) == Restocked(tx[r].lines) \ tx[r].held

(* A refund that has products left to lock has a smallest one.             *)
LEMMA WantedLeast ==
    ASSUME Shape, NEW r \in Requests, Wanted(r) # {}
    PROVE  /\ Wanted(r) \subseteq Products
           /\ \E m \in Wanted(r) : \A o \in Wanted(r) : m <= o
  <1> DEFINE lines == tx[r].lines
  <1>1. lines \in Seq(ReturnLine)
    BY DEF Shape, IsSession
  <1>2. ItemsIn(lines) \subseteq Items /\ Restocked(lines) \subseteq Products
    <2>1. \A n \in DOMAIN lines : lines[n] \in ReturnLine
      BY <1>1
    <2>2. ItemsIn(lines) \subseteq Items
      BY <2>1 DEF ItemsIn, ToSet, ReturnLine
    <2>3. \A i \in Items : Item[i].product \in Products
      BY ReturnsAssumption
    <2> QED BY <2>2, <2>3 DEF Restocked, ToRestock
  <1>3. IsFiniteSet(ItemsIn(lines))
    BY <1>2, ReturnsAssumption, FS_Subset
  <1>4. IsFiniteSet(Restocked(lines))
    <2> DEFINE J == {j \in ItemsIn(lines) : RestockOf(lines, j)}
               f == [i \in J |-> Item[i].product]
    <2>1. IsFiniteSet(J)
      BY <1>3, FS_Subset
    <2>2. Restocked(lines) = {f[i] : i \in J}
      BY DEF Restocked, ToRestock
    <2>3. f \in Surjection(J, Restocked(lines))
      BY <2>2 DEF Surjection
    <2> HIDE DEF J, f
    <2> QED BY <2>1, <2>3, FS_Surjection
  <1>5. IsFiniteSet(Wanted(r)) /\ Wanted(r) \subseteq Products /\ Wanted(r) \subseteq Int
    BY <1>2, <1>4, FS_Subset, ReturnsAssumption DEF Wanted
  <1> QED BY <1>5, FiniteMin

(* What locking the next product changes: one lock, and the session's      *)
(* copies of its quantity and cost.                                        *)
LEMMA LockProductEffect ==
    ASSUME Shape, NEW r \in Requests, LockProduct(r)
    PROVE  /\ Refunds(r) /\ pc[r] = "products" /\ req' = req
           /\ UNCHANGED <<tables, saleLock, shiftLock, pc>>
           /\ tx' = [o \in Requests |-> tx'[o]] /\ IsSession(tx'[r])
           /\ tx'[r].lines = tx[r].lines /\ tx'[r].seen = tx[r].seen /\ tx'[r].shift = tx[r].shift
           /\ tx'[r].approver = tx[r].approver /\ tx'[r].moved = tx[r].moved /\ tx'[r].rows = tx[r].rows
           /\ \A o \in Requests \ {r} : tx'[o] = tx[o]
           /\ \E p \in Wanted(r) : /\ \A o \in Wanted(r) : p <= o
                                   /\ p \in Products /\ productLock[p] = NoOne
                                   /\ productLock' = [productLock EXCEPT ![p] = r]
                                   /\ tx'[r].held = tx[r].held \cup {p}
                                   /\ tx'[r].qty = [tx[r].qty EXCEPT ![p] = qty[p]]
                                   /\ tx'[r].cost = [tx[r].cost EXCEPT ![p] = cost[p]]
  <1> DEFINE p == CHOOSE m \in Wanted(r) : \A o \in Wanted(r) : m <= o
  <1>1. /\ Refunds(r) /\ pc[r] = "products" /\ Wanted(r) # {}
        /\ productLock[p] = NoOne /\ productLock' = [productLock EXCEPT ![p] = r]
        /\ tx' = [tx EXCEPT ![r] = [tx[r] EXCEPT !.held = tx[r].held \cup {p},
                                                 !.qty = [tx[r].qty EXCEPT ![p] = qty[p]],
                                                 !.cost = [tx[r].cost EXCEPT ![p] = cost[p]]]]
        /\ Private /\ UNCHANGED <<pc, saleLock, shiftLock>>
    BY DEF LockProduct, Wanted
  <1>2. p \in Wanted(r) /\ p \in Products /\ \A o \in Wanted(r) : p <= o
    BY <1>1, WantedLeast
  <1> HIDE DEF p
  <1> DEFINE a == [tx[r].qty EXCEPT ![p] = qty[p]]
             b == [tx[r].cost EXCEPT ![p] = cost[p]]
  <1>3. tx' = [tx EXCEPT ![r] = [tx[r] EXCEPT !.held = tx[r].held \cup {p}, !.qty = a, !.cost = b]]
    BY <1>1
  <1> HIDE DEF a, b
  <1>4. IsSession(tx[r]) /\ tx = [o \in Requests |-> tx[o]]
    BY DEF Shape
  <1>5. /\ tx'[r] = [tx[r] EXCEPT !.held = tx[r].held \cup {p}, !.qty = a, !.cost = b]
        /\ tx' = [o \in Requests |-> tx'[o]] /\ \A o \in Requests \ {r} : tx'[o] = tx[o]
    BY <1>3, <1>4
  <1>6. /\ IsSession(tx'[r]) /\ tx'[r].lines = tx[r].lines /\ tx'[r].seen = tx[r].seen
        /\ tx'[r].shift = tx[r].shift /\ tx'[r].held = tx[r].held \cup {p}
        /\ tx'[r].approver = tx[r].approver /\ tx'[r].moved = tx[r].moved /\ tx'[r].rows = tx[r].rows
        /\ tx'[r].qty = a /\ tx'[r].cost = b
    <2>1. tx'[r] = [lines |-> tx[r].lines, seen |-> tx[r].seen, approver |-> tx[r].approver,
                    held |-> tx[r].held \cup {p}, qty |-> a, cost |-> b,
                    moved |-> tx[r].moved, rows |-> tx[r].rows,
                    shift |-> tx[r].shift, basis |-> tx[r].basis]
      BY <1>4, <1>5 DEF IsSession
    <2>2. tx[r].held \cup {p} \subseteq Products
      BY <1>2, <1>4 DEF IsSession
    <2>3. /\ tx'[r].lines = tx[r].lines /\ tx'[r].seen = tx[r].seen
          /\ tx'[r].shift = tx[r].shift /\ tx'[r].held = tx[r].held \cup {p}
          /\ tx'[r].approver = tx[r].approver /\ tx'[r].moved = tx[r].moved /\ tx'[r].rows = tx[r].rows
          /\ tx'[r].qty = a /\ tx'[r].cost = b
      BY <2>1
    <2> QED BY <1>4, <2>1, <2>2, <2>3 DEF IsSession
  <1>7. tx'[r].qty = [tx[r].qty EXCEPT ![p] = qty[p]] /\ tx'[r].cost = [tx[r].cost EXCEPT ![p] = cost[p]]
    BY <1>6 DEF a, b
  <1> QED BY <1>1, <1>2, <1>5, <1>6, <1>7 DEF Private

(* What locking the shift of the refund changes.                           *)
LEMMA HoldShiftEffect ==
    ASSUME Shape, NEW r \in Requests, HoldShift(r)
    PROVE  /\ Refunds(r) /\ pc[r] = "hold" /\ req' = req /\ UNCHANGED <<tables, saleLock, productLock>>
           /\ pc'[r] = "insert" /\ pc' \in [Requests -> Labels]
           /\ tx' = [o \in Requests |-> tx'[o]] /\ IsSession(tx'[r])
           /\ tx'[r].lines = tx[r].lines /\ tx'[r].seen = tx[r].seen /\ tx'[r].held = tx[r].held
           /\ tx'[r].approver = tx[r].approver /\ Work(tx'[r]) = Work(tx[r])
           /\ \A o \in Requests \ {r} : pc'[o] = pc[o] /\ tx'[o] = tx[o]
           /\ shiftLock[req[r].user] = NoOne
           /\ \/ /\ shift[req[r].user] = "OPEN" /\ tx'[r].shift = req[r].user
                 /\ shiftLock' = [shiftLock EXCEPT ![req[r].user] = r]
              \/ tx'[r].shift = tx[r].shift /\ shiftLock' = shiftLock
  <1>1. /\ Refunds(r) /\ pc[r] = "hold" /\ Goto(r, "insert") /\ Private
        /\ UNCHANGED <<saleLock, productLock>> /\ shiftLock[req[r].user] = NoOne
    BY DEF HoldShift
  <1>2. IsSession(tx[r]) /\ tx = [o \in Requests |-> tx[o]] /\ req[r].user \in Users
    BY BodyFields DEF Shape
  <1>3. pc' \in [Requests -> Labels] /\ pc'[r] = "insert" /\ \A o \in Requests \ {r} : pc'[o] = pc[o]
    BY <1>1 DEF Goto, Shape, Labels
  <1>4. CASE shift[req[r].user] = "OPEN"
    <2>1. /\ shiftLock' = [shiftLock EXCEPT ![req[r].user] = r]
          /\ tx' = [tx EXCEPT ![r].shift = req[r].user]
      BY <1>4 DEF HoldShift
    <2>2. /\ tx'[r] = [tx[r] EXCEPT !.shift = req[r].user]
          /\ tx' = [o \in Requests |-> tx'[o]] /\ \A o \in Requests \ {r} : tx'[o] = tx[o]
      BY <1>2, <2>1
    <2>3. /\ IsSession(tx'[r]) /\ tx'[r].lines = tx[r].lines /\ tx'[r].seen = tx[r].seen
          /\ tx'[r].shift = req[r].user /\ tx'[r].held = tx[r].held
          /\ tx'[r].approver = tx[r].approver /\ Work(tx'[r]) = Work(tx[r])
      BY <1>2, <2>2 DEF IsSession, Work
    <2> QED BY <1>1, <1>3, <1>4, <2>1, <2>2, <2>3 DEF Private
  <1>5. CASE shift[req[r].user] # "OPEN"
    <2>1. shiftLock' = shiftLock /\ tx' = tx
      BY <1>5 DEF HoldShift
    <2> QED BY <1>1, <1>2, <1>3, <2>1 DEF Private
  <1> QED BY <1>4, <1>5

(* The item the loop takes next is one of those left.                      *)
LEMMA NextItemIn ==
    ASSUME NEW lines \in Seq(ReturnLine), NEW left, NEW j \in left, j \in ItemsIn(lines)
    PROVE  NextItem(lines, left) \in left
<1>1. PICK S : S = {n \in DOMAIN lines : lines[n].item \in left}
  OBVIOUS
<1>2. DOMAIN lines = 1 .. Len(lines) /\ Len(lines) \in Nat
  OBVIOUS
<1>3. IsFiniteSet(1 .. Len(lines))
  BY <1>2, FS_Interval
<1>4. IsFiniteSet(S) /\ S \subseteq Int
  BY <1>1, <1>2, <1>3, FS_Subset
<1>5. S # {}
  <2>1. PICK m \in DOMAIN lines : lines[m].item = j
    BY DEF ItemsIn, ToSet
  <2>. QED  BY <1>1, <2>1
<1>6. \E m \in S : \A x \in S : m <= x
  BY ONLY <1>4, <1>5, FiniteMin
<1>7. PICK m : m = Min(S)
  OBVIOUS
<1>8. m \in S
  BY <1>6, <1>7 DEF Min
<1>9. NextItem(lines, left) = lines[m].item
  BY <1>1, <1>7, Zenon DEF NextItem
<1>. QED  BY <1>1, <1>8, <1>9

(* What restocking item i makes of the session's copies.                   *)
Restocks(r, i) ==
    LET p == Item[i].product
        n == QtyOf(tx[r].lines, i)
        w == compute_new_wac(tx[r].qty[p], tx[r].cost[p], n, Item[i].cost)
    IN  /\ ~(w < 0) /\ tx'[r].moved = tx[r].moved \cup {i}
        /\ tx'[r].qty = [tx[r].qty EXCEPT ![p] = tx[r].qty[p] + n]
        /\ tx'[r].cost = [tx[r].cost EXCEPT ![p] = w]
        /\ tx'[r].rows = [tx[r].rows EXCEPT ![p] =
              Append(tx[r].rows[p], [delta |-> n, result |-> tx[r].qty[p] + n, ret |-> r])]

(* A session with four of its fields written.                              *)
Written(t, m, a, b, c) == [t EXCEPT !.moved = m, !.qty = a, !.cost = b, !.rows = c]

(* The other fields stay.                                                  *)
LEMMA WorkWritten ==
    ASSUME NEW t, IsSession(t), NEW m, NEW a, NEW b, NEW c
    PROVE  Written(t, m, a, b, c) =
               [lines |-> t.lines, seen |-> t.seen, approver |-> t.approver, held |-> t.held,
                qty |-> a, cost |-> b, moved |-> m, rows |-> c, shift |-> t.shift, basis |-> t.basis]
<1>1. PICK l, s, p, h, q, k, d, w, f, g :
         /\ t = [lines |-> l, seen |-> s, approver |-> p, held |-> h, qty |-> q, cost |-> k,
                 moved |-> d, rows |-> w, shift |-> f, basis |-> g]
         /\ t.lines = l /\ t.seen = s /\ t.approver = p /\ t.held = h /\ t.shift = f /\ t.basis = g
  BY DEF IsSession
<1>2. [t EXCEPT !.moved = m] = [lines |-> l, seen |-> s, approver |-> p, held |-> h, qty |-> q, cost |-> k,
                                moved |-> m, rows |-> w, shift |-> f, basis |-> g]
  BY ONLY <1>1
<1>3. [[t EXCEPT !.moved = m] EXCEPT !.qty = a]
        = [lines |-> l, seen |-> s, approver |-> p, held |-> h, qty |-> a, cost |-> k,
           moved |-> m, rows |-> w, shift |-> f, basis |-> g]
  <2>1. PICK u : u = [t EXCEPT !.moved = m]
    OBVIOUS
  <2>3. u = [lines |-> l, seen |-> s, approver |-> p, held |-> h, qty |-> q, cost |-> k,
             moved |-> m, rows |-> w, shift |-> f, basis |-> g]
    BY ONLY <1>2, <2>1, Zenon
  <2>2. [u EXCEPT !.qty = a] = [lines |-> l, seen |-> s, approver |-> p, held |-> h, qty |-> a, cost |-> k,
                                moved |-> m, rows |-> w, shift |-> f, basis |-> g]
    BY ONLY <2>3
  <2>. QED  BY ONLY <2>1, <2>2, Zenon
<1>4. [[[t EXCEPT !.moved = m] EXCEPT !.qty = a] EXCEPT !.cost = b]
        = [lines |-> l, seen |-> s, approver |-> p, held |-> h, qty |-> a, cost |-> b,
           moved |-> m, rows |-> w, shift |-> f, basis |-> g]
  <2>1. PICK u : u = [[t EXCEPT !.moved = m] EXCEPT !.qty = a]
    OBVIOUS
  <2>3. u = [lines |-> l, seen |-> s, approver |-> p, held |-> h, qty |-> a, cost |-> k,
             moved |-> m, rows |-> w, shift |-> f, basis |-> g]
    BY ONLY <1>3, <2>1, Zenon
  <2>2. [u EXCEPT !.cost = b] = [lines |-> l, seen |-> s, approver |-> p, held |-> h, qty |-> a, cost |-> b,
                                 moved |-> m, rows |-> w, shift |-> f, basis |-> g]
    BY ONLY <2>3
  <2>. QED  BY ONLY <2>1, <2>2, Zenon
<1>5. [[[[t EXCEPT !.moved = m] EXCEPT !.qty = a] EXCEPT !.cost = b] EXCEPT !.rows = c]
        = [lines |-> l, seen |-> s, approver |-> p, held |-> h, qty |-> a, cost |-> b,
           moved |-> m, rows |-> c, shift |-> f, basis |-> g]
  <2>1. PICK u : u = [[[t EXCEPT !.moved = m] EXCEPT !.qty = a] EXCEPT !.cost = b]
    OBVIOUS
  <2>3. u = [lines |-> l, seen |-> s, approver |-> p, held |-> h, qty |-> a, cost |-> b,
             moved |-> m, rows |-> w, shift |-> f, basis |-> g]
    BY ONLY <1>4, <2>1, Zenon
  <2>2. [u EXCEPT !.rows = c] = [lines |-> l, seen |-> s, approver |-> p, held |-> h, qty |-> a, cost |-> b,
                                 moved |-> m, rows |-> c, shift |-> f, basis |-> g]
    BY ONLY <2>3
  <2>. QED  BY ONLY <2>1, <2>2, Zenon
<1>6. Written(t, m, a, b, c) = [lines |-> l, seen |-> s, approver |-> p, held |-> h, qty |-> a, cost |-> b,
                                moved |-> m, rows |-> c, shift |-> f, basis |-> g]
  BY ONLY <1>5, Zenon DEF Written
<1>. QED  BY ONLY <1>1, <1>6, Zenon

(* What restocking an item changes: the session's copies of one product.   *)
LEMMA RestockEffect ==
    ASSUME Shape, NEW r \in Requests, RestockItem(r), ~Ends(r)
    PROVE  /\ Refunds(r) /\ pc[r] = "post" /\ req' = req /\ UNCHANGED <<tables, locks, pc>>
           /\ tx' = [o \in Requests |-> tx'[o]] /\ IsSession(tx'[r])
           /\ tx'[r].lines = tx[r].lines /\ tx'[r].seen = tx[r].seen /\ tx'[r].held = tx[r].held
           /\ tx'[r].shift = tx[r].shift /\ tx'[r].approver = tx[r].approver
           /\ \A o \in Requests \ {r} : tx'[o] = tx[o]
           /\ \E i \in ToRestock(tx[r].lines) \ tx[r].moved : Restocks(r, i)
<1>. DEFINE left == ToRestock(tx[r].lines) \ tx[r].moved
<1>1. Refunds(r) /\ pc[r] = "post" /\ left # {}
  BY DEF RestockItem
<1>2. PICK i : i = NextItem(tx[r].lines, left)
  OBVIOUS
<1>3. Restock(r, i)
  BY <1>2 DEF RestockItem
<1>4. i \in left
  <2>1. PICK lines : lines = tx[r].lines
    OBVIOUS
  <2>2. lines \in Seq(ReturnLine)
    BY <2>1 DEF Shape, IsSession
  <2>3. i \in left
    <3>1. PICK j : j \in left
      BY <1>1
    <3>2. j \in ItemsIn(lines)
      BY <2>1, <3>1 DEF ToRestock
    <3>. HIDE DEF left
    <3>. QED  BY <1>2, <2>1, <2>2, <3>1, <3>2, NextItemIn
  <2>. QED  BY <2>3
<1>5. i \in ToRestock(tx[r].lines) \ tx[r].moved
  BY <1>4
<1>. HIDE DEF left
<1>. DEFINE p == Item[i].product
            n == QtyOf(tx[r].lines, i)
            w == compute_new_wac(tx[r].qty[p], tx[r].cost[p], n, Item[i].cost)
            a == [tx[r].qty EXCEPT ![p] = tx[r].qty[p] + n]
            b == [tx[r].cost EXCEPT ![p] = w]
            c == [tx[r].rows EXCEPT ![p] =
                    Append(tx[r].rows[p], [delta |-> n, result |-> tx[r].qty[p] + n, ret |-> r])]
            t == [tx[r] EXCEPT !.moved = tx[r].moved \cup {i}, !.qty = a, !.cost = b, !.rows = c]
<1>6. ~(w < 0) /\ tx' = [tx EXCEPT ![r] = t] /\ Private /\ UNCHANGED <<pc, locks>>
  BY <1>3 DEF Restock, Ends
<1>. HIDE DEF w, a, b, c
<1>7. IsSession(tx[r]) /\ tx = [o \in Requests |-> tx[o]]
  BY DEF Shape
<1>8. t = [lines |-> tx[r].lines, seen |-> tx[r].seen, approver |-> tx[r].approver, held |-> tx[r].held,
           qty |-> a, cost |-> b, moved |-> tx[r].moved \cup {i}, rows |-> c,
           shift |-> tx[r].shift, basis |-> tx[r].basis]
  <2>1. t = Written(tx[r], tx[r].moved \cup {i}, a, b, c)
    BY DEF Written
  <2>. HIDE DEF t
  <2>2. PICK v, m, aa, bb, cc : v = tx[r] /\ m = tx[r].moved \cup {i} /\ aa = a /\ bb = b /\ cc = c
    OBVIOUS
  <2>3. IsSession(v)
    BY <1>7, <2>2
  <2>4. Written(v, m, aa, bb, cc) =
           [lines |-> v.lines, seen |-> v.seen, approver |-> v.approver, held |-> v.held,
            qty |-> aa, cost |-> bb, moved |-> m, rows |-> cc, shift |-> v.shift, basis |-> v.basis]
    BY ONLY <2>3, WorkWritten
  <2>. QED  BY <2>1, <2>2, <2>4
<1>. HIDE DEF t
<1>9. tx'[r] = t /\ tx' = [o \in Requests |-> tx'[o]] /\ \A o \in Requests \ {r} : tx'[o] = tx[o]
  BY <1>6, <1>7
<1>10. /\ tx'[r].lines = tx[r].lines /\ tx'[r].seen = tx[r].seen /\ tx'[r].held = tx[r].held
       /\ tx'[r].shift = tx[r].shift /\ tx'[r].approver = tx[r].approver
       /\ tx'[r].moved = tx[r].moved \cup {i}
       /\ tx'[r].qty = a /\ tx'[r].cost = b /\ tx'[r].rows = c
  BY <1>8, <1>9
<1>11. IsSession(tx'[r])
  BY <1>7, <1>8, <1>9, <1>10 DEF IsSession
<1>12. req' = req /\ UNCHANGED <<tables, locks, pc>>
  BY <1>6 DEF Private
<1>13. Restocks(r, i)
  <2>1. /\ ~(w < 0) /\ tx'[r].moved = tx[r].moved \cup {i}
        /\ tx'[r].qty = a /\ tx'[r].cost = b /\ tx'[r].rows = c
    BY <1>6, <1>10
  <2>. QED  BY <2>1 DEF Restocks, w, a, b, c
<1>. QED  BY <1>1, <1>5, <1>9, <1>10, <1>11, <1>12, <1>13

(* What the commit of a return changes.                                    *)
LEMMA CommitEffect ==
    ASSUME Shape, NEW r \in Requests, CommitReturn(r)
    PROVE  /\ Refunds(r) /\ pc[r] = "commit" /\ Finish(r, "OK", r) /\ UNCHANGED <<shift, counted>>
           /\ returns' = returns \cup {ReturnRow(r)}
           /\ journal' = journal \cup {e \in {ReturnEntry(r)} : HasLines(e)}
           /\ qty' = [p \in Products |-> IF p \in tx[r].held THEN tx[r].qty[p] ELSE qty[p]]
           /\ cost' = [p \in Products |-> IF p \in tx[r].held THEN tx[r].cost[p] ELSE cost[p]]
           /\ ledger' = [p \in Products |-> ledger[p] \o tx[r].rows[p]]
           /\ returned' = [i \in Items |-> IF i \in ItemsIn(tx[r].lines)
                                           THEN tx[r].seen[i] + QtyOf(tx[r].lines, i) ELSE returned[i]]
           /\ status' = [status EXCEPT ![req[r].sale] =
                           StatusAfter(req[r].sale, tx[r].seen,
                                       [i \in Items |-> tx[r].seen[i] + QtyOf(tx[r].lines, i)])]
  <1> DEFINE after == [i \in Items |-> tx[r].seen[i] + QtyOf(tx[r].lines, i)]
  <1>1. /\ returned' = [i \in Items |-> IF i \in ItemsIn(tx[r].lines) THEN after[i] ELSE returned[i]]
        /\ status' = [status EXCEPT ![req[r].sale] = StatusAfter(req[r].sale, tx[r].seen, after)]
    BY DEF CommitReturn
  <1>2. \A i \in Items : after[i] = tx[r].seen[i] + QtyOf(tx[r].lines, i)
    OBVIOUS
  <1>3. returned' = [i \in Items |-> IF i \in ItemsIn(tx[r].lines)
                                     THEN tx[r].seen[i] + QtyOf(tx[r].lines, i) ELSE returned[i]]
    <2> HIDE DEF after
    <2> QED BY <1>1, <1>2
  <1> QED BY <1>1, <1>3 DEF CommitReturn

(* The ids of the returns attributed to the shift of u.                    *)
IdsOn(u) == {x.id : x \in {y \in returns : y.shift = u}}

(* What a closing that takes its shift changes.                            *)
LEMMA BeginCloseEffect ==
    ASSUME Shape, NEW r \in Requests, BeginClose(r), ~Ends(r)
    PROVE  /\ req[r].kind = "CLOSE" /\ pc[r] = "idle" /\ req' = req
           /\ UNCHANGED <<tables, saleLock, productLock>>
           /\ req[r].user \in Users /\ shiftLock[req[r].user] = NoOne /\ shift[req[r].user] = "OPEN"
           /\ shiftLock' = [shiftLock EXCEPT ![req[r].user] = r]
           /\ pc'[r] = "commit" /\ pc' \in [Requests -> Labels]
           /\ tx' = [o \in Requests |-> tx'[o]] /\ IsSession(tx'[r])
           /\ tx'[r].held = tx[r].held /\ tx'[r].shift = tx[r].shift /\ Work(tx'[r]) = Work(tx[r])
           /\ tx'[r].basis = IdsOn(req[r].user)
           /\ \A o \in Requests \ {r} : pc'[o] = pc[o] /\ tx'[o] = tx[o]
  <1>1. req[r].user \in Users /\ shift[req[r].user] \in {"NONE", "OPEN", "CLOSED"}
    BY BodyFields DEF Shape
  <1>2. /\ req[r].kind = "CLOSE" /\ pc[r] = "idle" /\ shiftLock[req[r].user] = NoOne
        /\ shift[req[r].user] = "OPEN" /\ shiftLock' = [shiftLock EXCEPT ![req[r].user] = r]
        /\ tx' = [tx EXCEPT ![r].basis = IdsOn(req[r].user)]
        /\ Goto(r, "commit") /\ Private /\ UNCHANGED <<saleLock, productLock>>
    BY DEF BeginClose, Ends, IdsOn
  <1>3. IsSession(tx[r]) /\ tx = [o \in Requests |-> tx[o]]
    BY DEF Shape
  <1>4. /\ tx'[r] = [tx[r] EXCEPT !.basis = IdsOn(req[r].user)]
        /\ tx' = [o \in Requests |-> tx'[o]] /\ \A o \in Requests \ {r} : tx'[o] = tx[o]
    BY <1>2, <1>3
  <1>5. /\ IsSession(tx'[r]) /\ tx'[r].held = tx[r].held /\ tx'[r].shift = tx[r].shift
        /\ tx'[r].basis = IdsOn(req[r].user) /\ Work(tx'[r]) = Work(tx[r])
    BY <1>3, <1>4 DEF IsSession, Work
  <1>6. pc' \in [Requests -> Labels] /\ pc'[r] = "commit" /\ \A o \in Requests \ {r} : pc'[o] = pc[o]
    BY <1>2 DEF Goto, Shape, Labels
  <1> QED BY <1>1, <1>2, <1>4, <1>5, <1>6 DEF Private

(* A step of the system, sorted by what it changes.                        *)
LEMMA Cases ==
    ASSUME Shape, [Next]_vars
    PROVE  \/ \E r \in Requests :
                \/ Ends(r) \/ Moves(r) \/ (LockSale(r) /\ ~Ends(r)) \/ (CheckReturn(r) /\ ~Ends(r))
                \/ LockProduct(r) \/ HoldShift(r) \/ (RestockItem(r) /\ ~Ends(r)) \/ CommitReturn(r)
                \/ (BeginClose(r) /\ ~Ends(r)) \/ CommitClose(r)
           \/ \E p \in Products : OtherSale(p)
           \/ UNCHANGED vars
  BY QuietSteps DEF Next, Step, AllAnswered

-----------------------------------------------------------------------------
(* Quantities of a return.                                                 *)

(* The lines of a return are finitely many.                                *)
LEMMA LinesFinite ==
    ASSUME NEW lines \in Seq(ReturnLine)
    PROVE  /\ IsFiniteSet(DOMAIN lines)
           /\ \A n \in DOMAIN lines : lines[n] \in ReturnLine
           /\ ItemsIn(lines) \subseteq Items
  <1>1. DOMAIN lines = 1 .. Len(lines) /\ Len(lines) \in Nat
    OBVIOUS
  <1>2. IsFiniteSet(DOMAIN lines)
    BY <1>1, FS_Interval
  <1>3. \A n \in DOMAIN lines : lines[n] \in ReturnLine
    OBVIOUS
  <1> QED BY <1>2, <1>3 DEF ItemsIn, ToSet, ReturnLine

(* The quantity of an item is positive when it is on a line, and zero when *)
(* it is not.                                                              *)
LEMMA QtyOfItem ==
    ASSUME NEW lines \in Seq(ReturnLine), NEW i
    PROVE  /\ QtyOf(lines, i) \in Nat
           /\ i \in ItemsIn(lines) => QtyOf(lines, i) > 0
           /\ i \notin ItemsIn(lines) => QtyOf(lines, i) = 0
  <1> DEFINE f == [n \in DOMAIN lines |-> IF lines[n].item = i THEN lines[n].qty ELSE 0]
  <1>1. QtyOf(lines, i) = SumFunctionOnSet(f, DOMAIN lines)
    BY DEF QtyOf, SumLines
  <1>2. ASSUME NEW n \in DOMAIN lines
        PROVE  f[n] \in Nat /\ (lines[n].item = i => f[n] > 0)
    <2>1. lines[n].qty \in Nat \ {0}
      BY LinesFinite DEF ReturnLine
    <2> QED BY <2>1
  <1>3. \A n \in DOMAIN lines : lines[n].item # i => f[n] = 0
    OBVIOUS
  <1>4. IsFiniteSet(DOMAIN lines)
    BY LinesFinite
  <1> HIDE DEF f
  <1>5. QtyOf(lines, i) \in Nat
    BY <1>1, <1>2, <1>4, SumNat
  <1>6. ASSUME i \in ItemsIn(lines) PROVE QtyOf(lines, i) > 0
    <2>1. PICK n \in DOMAIN lines : lines[n].item = i
      BY <1>6 DEF ItemsIn, ToSet
    <2>2. SumFunctionOnSet(f, DOMAIN lines) >= f[n]
      BY <1>2, <1>4, SumAtLeast
    <2> QED BY <1>1, <1>2, <1>5, <2>1, <2>2
  <1>7. ASSUME i \notin ItemsIn(lines) PROVE QtyOf(lines, i) = 0
    <2>1. \A n \in DOMAIN lines : f[n] = 0
      BY <1>3, <1>7 DEF ItemsIn, ToSet
    <2> QED BY <1>1, <1>4, <2>1, SumZero
  <1> QED BY <1>5, <1>6, <1>7

-----------------------------------------------------------------------------
(* The shapes are kept.                                                    *)

(* Every step keeps the sessions well formed.                              *)
LEMMA ShapeKept == Shape /\ [Next]_vars => Shape'
  <1> SUFFICES ASSUME Shape, [Next]_vars PROVE Shape'
    OBVIOUS
  <1>1. ASSUME NEW r \in Requests, Ends(r) PROVE Shape'
    <2>1. PICK code, row : Finish(r, code, row) /\ UNCHANGED tables
      BY <1>1 DEF Ends, Return
    <2> QED BY <2>1, EndEffect DEF Shape, tables
  <1>2. ASSUME NEW r \in Requests, Moves(r) PROVE Shape'
    BY <1>2, MoveEffect DEF Shape, tables, locks
  <1>3. ASSUME NEW r \in Requests, LockSale(r), ~Ends(r) PROVE Shape'
    <2>1. saleLock' \in [Sales -> Requests \cup {NoOne}]
      BY <1>3, LockSaleEffect DEF Shape
    <2>2. \A o \in Requests : IsSession(tx'[o])
      BY <1>3, LockSaleEffect DEF Shape
    <2> QED BY <1>3, <2>1, <2>2, LockSaleEffect DEF Shape, tables
  <1>4. ASSUME NEW r \in Requests, CheckReturn(r), ~Ends(r) PROVE Shape'
    <2>1. \A o \in Requests : IsSession(tx'[o])
      BY <1>4, CheckEffect DEF Shape
    <2> QED BY <1>4, <2>1, CheckEffect DEF Shape, tables, locks
  <1>5. ASSUME NEW r \in Requests, LockProduct(r) PROVE Shape'
    <2>1. productLock' \in [Products -> Requests \cup {NoOne}]
      <3>1. \E p : productLock' = [productLock EXCEPT ![p] = r]
        BY <1>5, LockProductEffect
      <3> QED BY <3>1 DEF Shape
    <2>2. \A o \in Requests : IsSession(tx'[o])
      BY <1>5, LockProductEffect DEF Shape
    <2> QED BY <1>5, <2>1, <2>2, LockProductEffect DEF Shape, tables
  <1>6. ASSUME NEW r \in Requests, HoldShift(r) PROVE Shape'
    <2>1. shiftLock' \in [Users -> Requests \cup {NoOne}]
      BY <1>6, HoldShiftEffect DEF Shape
    <2>2. \A o \in Requests : IsSession(tx'[o])
      BY <1>6, HoldShiftEffect DEF Shape
    <2> QED BY <1>6, <2>1, <2>2, HoldShiftEffect DEF Shape, tables
  <1>7. ASSUME NEW r \in Requests, CommitReturn(r) PROVE Shape'
    <2>1. returned' \in [Items -> Nat]
      <3>1. \A i \in Items : tx[r].seen[i] + QtyOf(tx[r].lines, i) \in Nat /\ returned[i] \in Nat
        BY QtyOfItem DEF Shape, IsSession
      <3> QED BY <1>7, <3>1, CommitEffect
    <2>2. status' \in [Sales -> Statuses]
      <3>1. \A after : StatusAfter(req[r].sale, tx[r].seen, after) \in Statuses \cup {status[req[r].sale]}
        BY DEF StatusAfter, Statuses
      <3>2. PICK v : /\ v \in Statuses \cup {status[req[r].sale]}
                     /\ status' = [status EXCEPT ![req[r].sale] = v]
        BY <1>7, <3>1, CommitEffect
      <3> QED BY <3>2 DEF Shape
    <2>3. IsFiniteSet(returns')
      <3>1. PICK x : returns' = returns \cup {x}
        BY <1>7, CommitEffect
      <3> QED BY <3>1, FS_AddElement DEF Shape
    <2>4. Finish(r, "OK", r) /\ UNCHANGED <<shift, counted>>
      BY <1>7, CommitEffect
    <2> QED BY <2>1, <2>2, <2>3, <2>4, EndEffect DEF Shape
  <1>8. ASSUME NEW r \in Requests, BeginClose(r), ~Ends(r) PROVE Shape'
    <2>1. shiftLock' \in [Users -> Requests \cup {NoOne}]
      BY <1>8, BeginCloseEffect DEF Shape
    <2>2. \A o \in Requests : IsSession(tx'[o])
      BY <1>8, BeginCloseEffect DEF Shape
    <2> QED BY <1>8, <2>1, <2>2, BeginCloseEffect DEF Shape, tables
  <1>9. ASSUME NEW r \in Requests, CommitClose(r) PROVE Shape'
    <2>1. /\ Finish(r, "OK", NoOne) /\ UNCHANGED <<returned, status, returns>>
          /\ shift' = [shift EXCEPT ![req[r].user] = "CLOSED"]
          /\ counted' = [counted EXCEPT ![req[r].user] = tx[r].basis]
      BY <1>9 DEF CommitClose
    <2>2. shift' \in [Users -> {"NONE", "OPEN", "CLOSED"}] /\ counted' = [u \in Users |-> counted'[u]]
      BY <2>1 DEF Shape
    <2> QED BY <2>1, <2>2, EndEffect DEF Shape
  <1>10. ASSUME NEW p \in Products, OtherSale(p) PROVE Shape'
    BY <1>10 DEF OtherSale, Shape, locks, session
  <1>11. ASSUME UNCHANGED vars PROVE Shape'
    BY <1>11 DEF Shape, vars, tables, locks, session
  <1>12. ASSUME NEW r \in Requests, RestockItem(r), ~Ends(r) PROVE Shape'
    <2>1. \A o \in Requests : IsSession(tx'[o])
      BY <1>12, RestockEffect DEF Shape
    <2> QED BY <1>12, <2>1, RestockEffect DEF Shape, tables, locks
  <1> QED BY <1>1, <1>2, <1>3, <1>4, <1>5, <1>6, <1>7, <1>8, <1>9, <1>10, <1>11, <1>12, Cases

-----------------------------------------------------------------------------
(* What a refund knows of its sale.  From LockSale to its commit it holds  *)
(* the row of the sale, so what it has loaded of the items is what the     *)
(* table says; once checked, its lines are items of the sale and ask for   *)
(* no more than remains.                                                   *)

Past    == {"check", "products", "hold", "insert", "post", "commit"}
Checked == Past \ {"check"}

SaleHeld(r) ==
    Refunds(r) /\ pc[r] \in Past =>
        /\ req[r].sale \in Sales /\ saleLock[req[r].sale] = r
        /\ \A i \in ItemsOf(req[r].sale) : tx[r].seen[i] = returned[i]

Fits(lines, seen, s) ==
    /\ lines # <<>> /\ ItemsIn(lines) \subseteq ItemsOf(s)
    /\ \A i \in ItemsIn(lines) : QtyOf(lines, i) <= Item[i].qty - seen[i]

Admitted(r) ==
    Refunds(r) /\ pc[r] \in Checked => Fits(tx[r].lines, tx[r].seen, req[r].sale)

SaleInv == Shape /\ \A r \in Requests : SaleHeld(r) /\ Admitted(r)

(* What the OK verdict on a return's lines means: they belong to the sale  *)
(* and fit what is left.                                                   *)
LEMMA Admits ==
    ASSUME NEW r \in Requests, Verdict(r) = "OK"
    PROVE  /\ ItemsIn(tx[r].lines) \subseteq ItemsOf(req[r].sale)
           /\ ~\E i \in ItemsIn(tx[r].lines) : QtyOf(tx[r].lines, i) > Item[i].qty - tx[r].seen[i]
  BY DEF Verdict

(* The other sessions keep what they know while the table of items and     *)
(* their lock stay.                                                        *)
LEMMA OtherKnows ==
    ASSUME NEW o \in Requests, SaleHeld(o), Admitted(o), req' = req, pc'[o] = pc[o], tx'[o] = tx[o],
           Refunds(o) /\ pc[o] \in Past => /\ saleLock'[req[o].sale] = o
                                           /\ \A i \in ItemsOf(req[o].sale) : returned'[i] = returned[i]
    PROVE  SaleHeld(o)' /\ Admitted(o)'
  <1>1. Refunds(o)' <=> Refunds(o)
    BY DEF Refunds
  <1>2. SaleHeld(o)'
    BY <1>1 DEF SaleHeld, ItemsOf
  <1>3. Admitted(o)'
    BY <1>1 DEF Admitted
  <1> QED BY <1>2, <1>3

(* No session is past its checks before the first request.                 *)
LEMMA SaleInit == Init => SaleInv
  BY InitShape DEF SaleInv, SaleHeld, Admitted, Past, Checked

(* Every step keeps the sale of an admitted refund locked, so that what    *)
(* was checked stays true.                                                 *)
LEMMA SaleKept == SaleInv /\ [Next]_vars => SaleInv'
  <1> SUFFICES ASSUME SaleInv, [Next]_vars PROVE \A o \in Requests : SaleHeld(o)' /\ Admitted(o)'
    BY ShapeKept DEF SaleInv
  <1>0. Shape /\ (\A o \in Requests : SaleHeld(o) /\ Admitted(o))
    BY DEF SaleInv
  <1>a. ASSUME NEW o \in Requests, Refunds(o), pc[o] \in Past
        PROVE  req[o].sale \in Sales /\ saleLock[req[o].sale] = o
    BY <1>0, <1>a DEF SaleHeld
  <1>1. ASSUME NEW r \in Requests, NEW code, NEW row, Finish(r, code, row), returned' = returned,
               NEW o \in Requests
        PROVE  SaleHeld(o)' /\ Admitted(o)'
    <2>1. /\ req' = req /\ saleLock' = Free(saleLock, r) /\ pc'[r] = "done"
          /\ \A u \in Requests \ {r} : pc'[u] = pc[u] /\ tx'[u] = tx[u]
      BY <1>0, <1>1, EndEffect
    <2>2. CASE o = r
      BY <2>1, <2>2 DEF SaleHeld, Admitted, Past, Checked
    <2>3. CASE o # r
      <3>1. Refunds(o) /\ pc[o] \in Past => saleLock'[req[o].sale] = o
        <4>1. DOMAIN saleLock = Sales
          BY <1>0 DEF Shape
        <4> QED BY <1>a, <2>1, <2>3, <4>1 DEF Free
      <3> QED BY <1>0, <1>1, <2>1, <2>3, <3>1, OtherKnows
    <2> QED BY <2>2, <2>3
  <1>2. ASSUME NEW r \in Requests, Ends(r), NEW o \in Requests PROVE SaleHeld(o)' /\ Admitted(o)'
    <2>1. PICK code, row : Finish(r, code, row) /\ UNCHANGED tables
      BY <1>2 DEF Ends, Return
    <2>2. returned' = returned
      BY <2>1 DEF tables
    <2> QED BY <1>1, <2>1, <2>2
  <1>3. ASSUME NEW r \in Requests, Moves(r), NEW o \in Requests PROVE SaleHeld(o)' /\ Admitted(o)'
    <2>1. /\ req' = req /\ tx' = tx /\ saleLock' = saleLock /\ returned' = returned /\ Refunds(r)
          /\ <<pc[r], pc'[r]>> \in Flow /\ \A u \in Requests \ {r} : pc'[u] = pc[u]
      BY <1>0, <1>3, MoveEffect DEF tables, locks
    <2>2. /\ pc'[o] \in Past => pc[o] \in Past \/ ~Refunds(o)
          /\ pc'[o] \in Checked => pc[o] \in Checked \/ ~Refunds(o)
      BY <2>1 DEF Flow, Past, Checked
    <2>3. SaleHeld(o)'
      BY <1>0, <2>1, <2>2 DEF SaleHeld, ItemsOf, Refunds
    <2>4. Admitted(o)'
      BY <1>0, <2>1, <2>2 DEF Admitted, Refunds
    <2> QED BY <2>3, <2>4
  <1>4. ASSUME NEW r \in Requests, LockSale(r), ~Ends(r), NEW o \in Requests
        PROVE  SaleHeld(o)' /\ Admitted(o)'
    <2>1. /\ req' = req /\ returned' = returned /\ pc'[r] = "check" /\ tx'[r].seen = returned
          /\ req[r].sale \in Sales /\ saleLock[req[r].sale] = NoOne
          /\ saleLock' = [saleLock EXCEPT ![req[r].sale] = r]
          /\ \A u \in Requests \ {r} : pc'[u] = pc[u] /\ tx'[u] = tx[u]
      BY <1>0, <1>4, LockSaleEffect DEF tables
    <2>2. CASE o = r
      <3>1. saleLock'[req[r].sale] = r
        BY <1>0, <2>1 DEF Shape
      <3> QED BY <2>1, <2>2, <3>1 DEF SaleHeld, Admitted, Checked, ItemsOf
    <2>3. CASE o # r
      <3>1. Refunds(o) /\ pc[o] \in Past => saleLock'[req[o].sale] = o
        BY <1>0, <1>a, <2>1, <2>3, ReturnsAssumption DEF Shape
      <3> QED BY <1>0, <2>1, <2>3, <3>1, OtherKnows
    <2> QED BY <2>2, <2>3
  <1>5. ASSUME NEW r \in Requests, CheckReturn(r), ~Ends(r), NEW o \in Requests
        PROVE  SaleHeld(o)' /\ Admitted(o)'
    <2>1. /\ Refunds(r) /\ pc[r] = "check" /\ req' = req /\ returned' = returned /\ saleLock' = saleLock
          /\ tx[r].lines # <<>> /\ Verdict(r) = "OK" /\ pc'[r] = "products"
          /\ tx'[r].lines = tx[r].lines /\ tx'[r].seen = tx[r].seen
          /\ \A u \in Requests \ {r} : pc'[u] = pc[u] /\ tx'[u] = tx[u]
      BY <1>0, <1>5, CheckEffect DEF tables, locks
    <2>2. CASE o = r
      <3>1. SaleHeld(r)'
        BY <1>0, <2>1 DEF SaleHeld, ItemsOf, Past
      <3>2. \A i \in ItemsIn(tx[r].lines) : QtyOf(tx[r].lines, i) <= Item[i].qty - tx[r].seen[i]
        <4>1. ASSUME NEW i \in ItemsIn(tx[r].lines)
              PROVE  QtyOf(tx[r].lines, i) \in Int /\ Item[i].qty - tx[r].seen[i] \in Int
          <5>1. tx[r].lines \in Seq(ReturnLine) /\ tx[r].seen \in [Items -> Nat]
            BY <1>0 DEF Shape, IsSession
          <5>2. i \in Items /\ QtyOf(tx[r].lines, i) \in Nat
            BY <5>1, LinesFinite, QtyOfItem
          <5>3. tx[r].seen[i] \in Nat /\ Item[i].qty \in Nat
            BY <5>1, <5>2, ReturnsAssumption
          <5> QED BY <5>2, <5>3
        <4> QED BY <2>1, <4>1, Admits
      <3>3. Fits(tx[r].lines, tx[r].seen, req[r].sale)
        BY <2>1, <3>2, Admits DEF Fits
      <3>4. Admitted(r)'
        BY <2>1, <3>3 DEF Admitted
      <3> QED BY <2>2, <3>1, <3>4
    <2>3. CASE o # r
      BY <1>0, <2>1, <2>3, <1>a, OtherKnows
    <2> QED BY <2>2, <2>3
  <1>6. ASSUME NEW r \in Requests, req' = req, returned' = returned, saleLock' = saleLock,
               Refunds(r) => pc[r] \in Checked \/ pc'[r] \notin Past,
               tx'[r].lines = tx[r].lines, tx'[r].seen = tx[r].seen,
               \A u \in Requests \ {r} : pc'[u] = pc[u] /\ tx'[u] = tx[u], NEW o \in Requests
        PROVE  SaleHeld(o)' /\ Admitted(o)'
    <2>1. CASE o = r
      <3>1. SaleHeld(r)'
        BY <1>0, <1>6 DEF SaleHeld, ItemsOf, Past, Checked, Refunds
      <3>2. Admitted(r)'
        BY <1>0, <1>6 DEF Admitted, Past, Checked, Refunds
      <3> QED BY <2>1, <3>1, <3>2
    <2>2. CASE o # r
      BY <1>0, <1>6, <2>2, <1>a, OtherKnows
    <2> QED BY <2>1, <2>2
  <1>7. ASSUME NEW r \in Requests, LockProduct(r) PROVE \A o \in Requests : SaleHeld(o)' /\ Admitted(o)'
    <2>1. /\ pc[r] = "products" /\ req' = req /\ returned' = returned /\ saleLock' = saleLock /\ pc' = pc
          /\ tx'[r].lines = tx[r].lines /\ tx'[r].seen = tx[r].seen
          /\ \A u \in Requests \ {r} : tx'[u] = tx[u]
      BY <1>0, <1>7, LockProductEffect DEF tables
    <2> QED BY <1>6, <2>1 DEF Checked, Past
  <1>8. ASSUME NEW r \in Requests, HoldShift(r) PROVE \A o \in Requests : SaleHeld(o)' /\ Admitted(o)'
    <2>1. /\ pc[r] = "hold" /\ req' = req /\ returned' = returned /\ saleLock' = saleLock
          /\ tx'[r].lines = tx[r].lines /\ tx'[r].seen = tx[r].seen
          /\ \A u \in Requests \ {r} : pc'[u] = pc[u] /\ tx'[u] = tx[u]
      BY <1>0, <1>8, HoldShiftEffect DEF tables
    <2> QED BY <1>6, <2>1 DEF Checked, Past
  <1>9. ASSUME NEW r \in Requests, CommitReturn(r), NEW o \in Requests PROVE SaleHeld(o)' /\ Admitted(o)'
    <2>1. /\ Refunds(r) /\ pc[r] = "commit" /\ Finish(r, "OK", r)
          /\ returned' = [i \in Items |-> IF i \in ItemsIn(tx[r].lines)
                                          THEN tx[r].seen[i] + QtyOf(tx[r].lines, i) ELSE returned[i]]
      BY <1>0, <1>9, CommitEffect
    <2>2. /\ req' = req /\ saleLock' = Free(saleLock, r) /\ pc'[r] = "done"
          /\ \A u \in Requests \ {r} : pc'[u] = pc[u] /\ tx'[u] = tx[u]
      BY <1>0, <2>1, EndEffect
    <2>3. CASE o = r
      BY <2>2, <2>3 DEF SaleHeld, Admitted, Past, Checked
    <2>4. CASE o # r
      <3>1. ASSUME Refunds(o), pc[o] \in Past
            PROVE  /\ saleLock'[req[o].sale] = o
                   /\ \A i \in ItemsOf(req[o].sale) : returned'[i] = returned[i]
        <4>1. /\ req[o].sale \in Sales /\ saleLock[req[o].sale] = o
              /\ req[r].sale \in Sales /\ saleLock[req[r].sale] = r
          BY <1>a, <2>1, <3>1 DEF Past
        <4>2. saleLock'[req[o].sale] = o
          <5>1. DOMAIN saleLock = Sales
            BY <1>0 DEF Shape
          <5> QED BY <2>2, <2>4, <4>1, <5>1 DEF Free
        <4>3. ItemsIn(tx[r].lines) \subseteq ItemsOf(req[r].sale)
          BY <1>0, <2>1 DEF Admitted, Checked, Past, Fits
        <4>4. ASSUME NEW i \in ItemsOf(req[o].sale) PROVE i \in Items /\ i \notin ItemsIn(tx[r].lines)
          BY <2>4, <4>1, <4>3 DEF ItemsOf
        <4> QED BY <2>1, <4>2, <4>4
      <3> QED BY <1>0, <2>2, <2>4, <3>1, OtherKnows
    <2> QED BY <2>3, <2>4
  <1>10. ASSUME NEW r \in Requests, BeginClose(r), ~Ends(r), NEW o \in Requests
         PROVE  SaleHeld(o)' /\ Admitted(o)'
    <2>1. /\ req[r].kind = "CLOSE" /\ req' = req /\ returned' = returned /\ saleLock' = saleLock
          /\ \A u \in Requests \ {r} : pc'[u] = pc[u] /\ tx'[u] = tx[u]
      BY <1>0, <1>10, BeginCloseEffect DEF tables
    <2>2. CASE o = r
      BY <2>1, <2>2 DEF SaleHeld, Admitted, Refunds
    <2>3. CASE o # r
      BY <1>0, <2>1, <2>3, <1>a, OtherKnows
    <2> QED BY <2>2, <2>3
  <1>11. ASSUME NEW r \in Requests, CommitClose(r) PROVE \A o \in Requests : SaleHeld(o)' /\ Admitted(o)'
    BY <1>1, <1>11 DEF CommitClose
  <1>12. ASSUME NEW p \in Products, OtherSale(p), NEW o \in Requests PROVE SaleHeld(o)' /\ Admitted(o)'
    BY <1>0, <1>12, <1>a, OtherKnows DEF OtherSale, locks, session
  <1>13. ASSUME UNCHANGED vars, NEW o \in Requests PROVE SaleHeld(o)' /\ Admitted(o)'
    BY <1>0, <1>13, <1>a, OtherKnows DEF vars, tables, locks, session
  <1>14. ASSUME NEW r \in Requests, RestockItem(r), ~Ends(r)
         PROVE  \A o \in Requests : SaleHeld(o)' /\ Admitted(o)'
    <2>1. /\ pc[r] = "post" /\ req' = req /\ returned' = returned /\ saleLock' = saleLock /\ pc' = pc
          /\ tx'[r].lines = tx[r].lines /\ tx'[r].seen = tx[r].seen
          /\ \A u \in Requests \ {r} : tx'[u] = tx[u]
      BY <1>0, <1>14, RestockEffect DEF tables, locks
    <2> QED BY <1>6, <2>1 DEF Checked, Past
  <1> QED BY <1>0, <1>2, <1>3, <1>4, <1>5, <1>7, <1>8, <1>9, <1>10, <1>11, <1>12, <1>13, <1>14, Cases

-----------------------------------------------------------------------------
(* The arithmetic of shares.                                               *)

(* Multiplication by a natural number is monotone.                         *)
LEMMA ProductUp ==
    ASSUME NEW a \in Nat, NEW b \in Nat, NEW c \in Nat, b <= c
    PROVE  a * b <= a * c /\ a * b \in Nat /\ a * c \in Nat
  OBVIOUS

(* What n of q units are entitled to never exceeds the whole amount; none  *)
(* of them have nothing and all of them have all of it.                    *)
LEMMA EntitledBounds ==
    ASSUME NEW D \in Nat, NEW q \in Nat \ {0}, NEW n \in 0 .. q
    PROVE  /\ Entitled(D, n, q) \in Nat
           /\ Entitled(D, n, q) <= D
  <1> DEFINE m == D * n
             k == (2 * m + q) \div (2 * q)
  <1>1. m \in Nat /\ m <= D * q /\ D * q \in Nat
    BY ProductUp
  <1>2. 2 * m + q \in Nat /\ 2 * q \in Nat \ {0}
    BY <1>1
  <1>3. k \in Nat /\ (2 * q) * k <= 2 * m + q
    <2> HIDE DEF m
    <2> QED BY <1>2, DivBounds
  <1>4. Entitled(D, n, q) = k
    BY <1>1 DEF Entitled, RoundHalfUp
  <1> HIDE DEF k, m
  <1>5. k <= D
    <2> SUFFICES ASSUME k >= D + 1 PROVE FALSE
      BY <1>3
    <2>1. (2 * q) * (D + 1) <= (2 * q) * k
      BY <1>3, ProductUp
    <2>2. (2 * q) * (D + 1) = 2 * (D * q) + 2 * q
      OBVIOUS
    <2> QED BY <1>1, <1>3, <2>1, <2>2
  <1> QED BY <1>3, <1>4, <1>5

(* Nothing returned is entitled to nothing, everything to the whole        *)
(* (_proportional_share).                                                  *)
LEMMA EntitledEnds ==
    ASSUME NEW D \in Nat, NEW q \in Nat \ {0}
    PROVE  /\ Entitled(D, 0, q) = 0
           /\ Entitled(D, q, q) = D
  <1>1. Entitled(D, 0, q) = 0
    <2>1. Entitled(D, 0, q) = q \div (2 * q)
      BY DEF Entitled, RoundHalfUp
    <2>2. (2 * q) * (q \div (2 * q)) <= q /\ q \div (2 * q) \in Nat
      BY DivBounds
    <2> QED BY <2>1, <2>2
  <1>2. Entitled(D, q, q) = D
    <2> DEFINE k == (2 * (D * q) + q) \div (2 * q)
    <2>1. D * q \in Nat
      OBVIOUS
    <2>2. Entitled(D, q, q) = k
      BY <2>1 DEF Entitled, RoundHalfUp
    <2>3. k \in Nat /\ (2 * q) * k <= 2 * (D * q) + q /\ 2 * (D * q) + q < (2 * q) * k + 2 * q
      <3> DEFINE a == 2 * (D * q) + q
      <3>1. a \in Nat /\ 2 * q \in Nat \ {0} /\ k = a \div (2 * q)
        BY <2>1
      <3> HIDE DEF a, k
      <3>2. \A b \in Nat \ {0} : a \div b \in Nat /\ b * (a \div b) <= a /\ a < b * (a \div b) + b
        BY <3>1, DivBounds
      <3>3. k \in Nat /\ (2 * q) * k <= a /\ a < (2 * q) * k + 2 * q
        BY <3>1, <3>2
      <3> QED BY <3>3 DEF a
    <2> HIDE DEF k
    <2>4. ~(k >= D + 1)
      <3> SUFFICES ASSUME k >= D + 1 PROVE FALSE
        OBVIOUS
      <3>1. (2 * q) * (D + 1) <= (2 * q) * k /\ (2 * q) * (D + 1) = 2 * (D * q) + 2 * q
        BY <2>3, ProductUp
      <3> QED BY <2>1, <2>3, <3>1
    <2>5. ~(k + 1 <= D)
      <3> SUFFICES ASSUME k + 1 <= D PROVE FALSE
        OBVIOUS
      <3>1. (2 * q) * (k + 1) <= (2 * q) * D /\ (2 * q) * (k + 1) = (2 * q) * k + 2 * q
        BY <2>3, ProductUp
      <3>2. (2 * q) * D = 2 * (D * q)
        OBVIOUS
      <3> QED BY <2>1, <2>3, <3>1, <3>2
    <2> QED BY <2>2, <2>3, <2>4, <2>5
  <1> QED BY <1>1, <1>2

(* Shares of successive returns telescope: entitlement after the return    *)
(* minus entitlement before it, also for an amount of zero.                *)
LEMMA ShareStep ==
    ASSUME NEW D \in Nat, NEW q \in Nat \ {0}, NEW a \in Nat, NEW n \in Nat, a + n <= q
    PROVE  proportional_share(D, q, a, n) = Entitled(D, a + n, q) - Entitled(D, a, q)
  <1>1. CASE D = 0
    <2>1. /\ Entitled(0, a + n, q) \in Nat /\ Entitled(0, a + n, q) <= 0
          /\ Entitled(0, a, q) \in Nat /\ Entitled(0, a, q) <= 0
      BY EntitledBounds
    <2> QED BY <1>1, <2>1 DEF proportional_share
  <1>2. CASE D # 0
    BY <1>2 DEF proportional_share
  <1> QED BY <1>1, <1>2

-----------------------------------------------------------------------------
(* The committed rows.  A row belongs to a session that is over; the sums  *)
(* over the rows of an item are its quantity_returned and what that        *)
(* quantity is entitled to of the line's discount and tax.                 *)

RowOver(x) ==
    /\ x.id \in Requests /\ pc[x.id] = "done"
    /\ \A i \in DOMAIN x.refunded :
          /\ QtyIn(x, i) \in Int /\ x.refunded[i].discount \in Int /\ x.refunded[i].tax \in Int

Total(f) == SumFunctionOnSet(f, DOMAIN f)

AddsOn(rows, i, n) ==
    /\ n = Total([x \in rows |-> QtyIn(x, i)])
    /\ Total([x \in rows |-> x.refunded[i].discount]) = Entitled(Item[i].discount, n, Item[i].qty)
    /\ Total([x \in rows |-> x.refunded[i].tax]) = Entitled(Item[i].tax, n, Item[i].qty)

Adds(i) == AddsOn(LinesOn(i), i, returned[i])

RowsInv ==
    /\ SaleInv /\ StatusFollowsItems
    /\ \A x \in returns : RowOver(x)
    /\ \A i \in Items : Adds(i) /\ returned[i] <= Item[i].qty

(* The columns of the row that r commits.                                  *)
LEMMA NewRow ==
    ASSUME SaleInv, NEW r \in Requests, Refunds(r), pc[r] = "commit"
    PROVE  /\ ReturnRow(r).id = r /\ ReturnRow(r).shift = tx[r].shift
           /\ DOMAIN ReturnRow(r).refunded = ItemsIn(tx[r].lines)
           /\ \A i \in ItemsIn(tx[r].lines) :
                 /\ i \in Items /\ QtyIn(ReturnRow(r), i) = QtyOf(tx[r].lines, i)
                 /\ ReturnRow(r).refunded[i].discount
                      = Entitled(Item[i].discount, returned[i] + QtyOf(tx[r].lines, i), Item[i].qty)
                          - Entitled(Item[i].discount, returned[i], Item[i].qty)
                 /\ ReturnRow(r).refunded[i].tax
                      = Entitled(Item[i].tax, returned[i] + QtyOf(tx[r].lines, i), Item[i].qty)
                          - Entitled(Item[i].tax, returned[i], Item[i].qty)
                 /\ QtyOf(tx[r].lines, i) \in Nat \ {0}
                 /\ tx[r].seen[i] = returned[i] /\ returned[i] + QtyOf(tx[r].lines, i) <= Item[i].qty
  <1> DEFINE lines == tx[r].lines
             row   == ReturnRow(r)
  <1>1. /\ row.id = r /\ row.shift = tx[r].shift /\ row.refunded = LinesRefunded(r)
        /\ row.lines = {[item |-> i, qty |-> QtyOf(lines, i), restock |-> RestockOf(lines, i)] :
                        i \in ItemsIn(lines)}
    BY DEF ReturnRow
  <1>2. DOMAIN row.refunded = ItemsIn(lines)
    BY <1>1 DEF LinesRefunded
  <1>3. /\ Fits(lines, tx[r].seen, req[r].sale) /\ lines \in Seq(ReturnLine)
        /\ \A i \in ItemsOf(req[r].sale) : tx[r].seen[i] = returned[i]
        /\ returned \in [Items -> Nat]
    BY DEF SaleInv, Admitted, SaleHeld, Checked, Past, Shape, IsSession
  <1>4. ASSUME NEW i \in ItemsIn(lines)
        PROVE  /\ i \in Items /\ QtyIn(row, i) = QtyOf(lines, i)
               /\ row.refunded[i].discount
                    = Entitled(Item[i].discount, returned[i] + QtyOf(lines, i), Item[i].qty)
                        - Entitled(Item[i].discount, returned[i], Item[i].qty)
               /\ row.refunded[i].tax
                    = Entitled(Item[i].tax, returned[i] + QtyOf(lines, i), Item[i].qty)
                        - Entitled(Item[i].tax, returned[i], Item[i].qty)
               /\ QtyOf(lines, i) \in Nat \ {0}
               /\ tx[r].seen[i] = returned[i] /\ returned[i] + QtyOf(lines, i) <= Item[i].qty
    <2>1. i \in Items /\ tx[r].seen[i] = returned[i]
      BY <1>3 DEF Fits, ItemsOf
    <2>2. QtyOf(lines, i) \in Nat /\ QtyOf(lines, i) > 0
      BY <1>3, QtyOfItem
    <2>3. /\ Item[i].qty \in Nat \ {0} /\ Item[i].discount \in Nat /\ Item[i].tax \in Nat
          /\ returned[i] \in Nat
      BY <1>3, <2>1, ReturnsAssumption
    <2>4. returned[i] + QtyOf(lines, i) <= Item[i].qty
      <3>1. QtyOf(lines, i) <= Item[i].qty - returned[i]
        BY <1>3, <2>1 DEF Fits
      <3> QED BY <2>2, <2>3, <3>1
    <2>5. QtyIn(row, i) = QtyOf(lines, i)
      <3>1. \A l \in row.lines : l.item = i => l.qty = QtyOf(lines, i)
        BY <1>1
      <3>2. [item |-> i, qty |-> QtyOf(lines, i), restock |-> RestockOf(lines, i)] \in row.lines
        BY <1>1
      <3> HIDE DEF row
      <3> QED BY <3>1, <3>2 DEF QtyIn
    <2>6. /\ row.refunded[i].discount = proportional_share(Item[i].discount, Item[i].qty, returned[i], QtyOf(lines, i))
          /\ row.refunded[i].tax = proportional_share(Item[i].tax, Item[i].qty, returned[i], QtyOf(lines, i))
      BY <1>1, <2>1 DEF LinesRefunded, LineRefund
    <2> HIDE DEF row, lines
    <2> QED BY <2>1, <2>2, <2>3, <2>4, <2>5, <2>6, ShareStep
  <1> QED BY <1>1, <1>2, <1>4

(* One more row, one more term in each sum.                                *)
LEMMA AddsGrow ==
    ASSUME NEW L, IsFiniteSet(L), NEW row, row \notin L, NEW i \in Items, NEW n \in Nat, NEW k \in Nat,
           n + k <= Item[i].qty, QtyIn(row, i) = k,
           \A x \in L : QtyIn(x, i) \in Int /\ x.refunded[i].discount \in Int /\ x.refunded[i].tax \in Int,
           row.refunded[i].discount = Entitled(Item[i].discount, n + k, Item[i].qty)
                                        - Entitled(Item[i].discount, n, Item[i].qty),
           row.refunded[i].tax = Entitled(Item[i].tax, n + k, Item[i].qty)
                                   - Entitled(Item[i].tax, n, Item[i].qty),
           AddsOn(L, i, n)
    PROVE  AddsOn(L \cup {row}, i, n + k)
  <1> DEFINE T == L \cup {row}
  <1>1. /\ Item[i].qty \in Nat \ {0} /\ Item[i].discount \in Nat /\ Item[i].tax \in Nat
    BY ReturnsAssumption
  <1>2. /\ Entitled(Item[i].discount, n + k, Item[i].qty) \in Int
        /\ Entitled(Item[i].discount, n, Item[i].qty) \in Int
        /\ Entitled(Item[i].tax, n + k, Item[i].qty) \in Int
        /\ Entitled(Item[i].tax, n, Item[i].qty) \in Int
    <2>1. n \in 0 .. Item[i].qty /\ n + k \in 0 .. Item[i].qty
      BY <1>1
    <2>2. \A D, m \in Nat : m \in 0 .. Item[i].qty => Entitled(D, m, Item[i].qty) \in Nat
      BY <1>1, EntitledBounds
    <2> QED BY <1>1, <2>1, <2>2
  <1>3. Total([x \in T |-> QtyIn(x, i)]) = k + Total([x \in L |-> QtyIn(x, i)])
    <2> DEFINE f == [x \in T |-> QtyIn(x, i)]
               g == [x \in L |-> QtyIn(x, i)]
    <2>1. f[row] = QtyIn(row, i) /\ \A x \in L : f[x] = g[x] /\ g[x] \in Int
      OBVIOUS
    <2>i. f[row] \in Int
      OBVIOUS
    <2>2. /\ Total([x \in T |-> QtyIn(x, i)]) = SumFunctionOnSet(f, T)
          /\ Total([x \in L |-> QtyIn(x, i)]) = SumFunctionOnSet(g, L)
      BY DEF Total
    <2>h. T = L \cup {row}
      OBVIOUS
    <2> HIDE DEF f, g, T
    <2>3. SumFunctionOnSet(f, T) = f[row] + SumFunctionOnSet(g, L)
      BY ONLY IsFiniteSet(L), row \notin L, <2>1, <2>i, <2>h, SumGrow
    <2> QED BY <2>1, <2>2, <2>3
  <1>4. Total([x \in T |-> x.refunded[i].discount])
          = row.refunded[i].discount + Total([x \in L |-> x.refunded[i].discount])
    <2> DEFINE f == [x \in T |-> x.refunded[i].discount]
               g == [x \in L |-> x.refunded[i].discount]
    <2>1. f[row] = row.refunded[i].discount /\ \A x \in L : f[x] = g[x] /\ g[x] \in Int
      OBVIOUS
    <2>2. /\ Total([x \in T |-> x.refunded[i].discount]) = SumFunctionOnSet(f, T)
          /\ Total([x \in L |-> x.refunded[i].discount]) = SumFunctionOnSet(g, L)
      BY DEF Total
    <2>3. f[row] \in Int
      BY <1>2, <2>1
    <2>h. T = L \cup {row}
      OBVIOUS
    <2> HIDE DEF f, g, T
    <2>4. SumFunctionOnSet(f, T) = f[row] + SumFunctionOnSet(g, L)
      BY ONLY IsFiniteSet(L), row \notin L, <2>1, <2>3, <2>h, SumGrow
    <2> QED BY <2>1, <2>2, <2>4
  <1>5. Total([x \in T |-> x.refunded[i].tax])
          = row.refunded[i].tax + Total([x \in L |-> x.refunded[i].tax])
    <2> DEFINE f == [x \in T |-> x.refunded[i].tax]
               g == [x \in L |-> x.refunded[i].tax]
    <2>1. f[row] = row.refunded[i].tax /\ \A x \in L : f[x] = g[x] /\ g[x] \in Int
      OBVIOUS
    <2>2. /\ Total([x \in T |-> x.refunded[i].tax]) = SumFunctionOnSet(f, T)
          /\ Total([x \in L |-> x.refunded[i].tax]) = SumFunctionOnSet(g, L)
      BY DEF Total
    <2>3. f[row] \in Int
      BY <1>2, <2>1
    <2>h. T = L \cup {row}
      OBVIOUS
    <2> HIDE DEF f, g, T
    <2>4. SumFunctionOnSet(f, T) = f[row] + SumFunctionOnSet(g, L)
      BY ONLY IsFiniteSet(L), row \notin L, <2>1, <2>3, <2>h, SumGrow, SMTT(40)
    <2> QED BY <2>1, <2>2, <2>4
  <1>6. /\ n = Total([x \in L |-> QtyIn(x, i)])
        /\ Total([x \in L |-> x.refunded[i].discount]) = Entitled(Item[i].discount, n, Item[i].qty)
        /\ Total([x \in L |-> x.refunded[i].tax]) = Entitled(Item[i].tax, n, Item[i].qty)
    BY DEF AddsOn
  <1>7. /\ n + k = Total([x \in T |-> QtyIn(x, i)])
        /\ Total([x \in T |-> x.refunded[i].discount])
             = Entitled(Item[i].discount, n + k, Item[i].qty)
        /\ Total([x \in T |-> x.refunded[i].tax]) = Entitled(Item[i].tax, n + k, Item[i].qty)
    BY <1>2, <1>3, <1>4, <1>5, <1>6
  <1> QED BY <1>7 DEF AddsOn

(* Before the first return nothing is returned and every sale is           *)
(* completed.                                                              *)
LEMMA RowsInit == Init => RowsInv
  <1> SUFFICES ASSUME Init PROVE RowsInv
    OBVIOUS
  <1>1. SaleInv /\ returns = {} /\ returned = [i \in Items |-> 0] /\ status = [s \in Sales |-> "COMPLETED"]
    BY SaleInit DEF Init
  <1>2. StatusFollowsItems
    <2>1. ASSUME NEW s \in Sales PROVE \E i \in ItemsOf(s) : returned[i] # Item[i].qty
      BY <1>1, ReturnsAssumption DEF ItemsOf
    <2>2. ASSUME NEW s \in Sales PROVE status[s] = "COMPLETED" /\ \A i \in ItemsOf(s) : returned[i] = 0
      BY <1>1 DEF ItemsOf
    <2> QED BY <2>1, <2>2 DEF StatusFollowsItems
  <1>3. ASSUME NEW i \in Items PROVE Adds(i) /\ returned[i] <= Item[i].qty
    <2>1. /\ Item[i].qty \in Nat \ {0} /\ Item[i].discount \in Nat /\ Item[i].tax \in Nat
      BY ReturnsAssumption
    <2>2. returned[i] = 0 /\ LinesOn(i) = {}
      BY <1>1 DEF LinesOn
    <2>3. /\ Total([x \in {} |-> QtyIn(x, i)]) = 0
          /\ Total([x \in {} |-> x.refunded[i].discount]) = 0
          /\ Total([x \in {} |-> x.refunded[i].tax]) = 0
      BY SumEmpty DEF Total
    <2>4. AddsOn({}, i, 0)
      BY <2>1, <2>3, EntitledEnds DEF AddsOn
    <2> QED BY <2>1, <2>2, <2>4 DEF Adds
  <1> QED BY <1>1, <1>2, <1>3 DEF RowsInv

(* A session that is over stays over, and only a commit writes the rows of *)
(* sales and returns.                                                      *)
LEMMA DoneStays ==
    ASSUME Shape, [Next]_vars
    PROVE  /\ \A o \in Requests : pc[o] = "done" => pc'[o] = "done"
           /\ (\E r \in Requests : CommitReturn(r)) \/ UNCHANGED <<returned, status, returns>>
  <1> DEFINE Q == /\ \A o \in Requests : pc[o] = "done" => pc'[o] = "done"
                  /\ (\E r \in Requests : CommitReturn(r)) \/ UNCHANGED <<returned, status, returns>>
  <1>1. ASSUME NEW r \in Requests, Ends(r) PROVE Q
    <2>1. PICK code, row : Finish(r, code, row) /\ UNCHANGED tables
      BY <1>1 DEF Ends, Return
    <2>2. pc'[r] = "done" /\ \A o \in Requests \ {r} : pc'[o] = pc[o]
      BY <2>1, EndEffect
    <2> QED BY <2>1, <2>2 DEF tables
  <1>2. ASSUME NEW r \in Requests, Moves(r) PROVE Q
    BY <1>2, MoveEffect DEF Flow, tables
  <1>3. ASSUME NEW r \in Requests, LockSale(r), ~Ends(r) PROVE Q
    BY <1>3, LockSaleEffect DEF tables
  <1>4. ASSUME NEW r \in Requests, CheckReturn(r), ~Ends(r) PROVE Q
    BY <1>4, CheckEffect DEF tables
  <1>5. ASSUME NEW r \in Requests, LockProduct(r) PROVE Q
    BY <1>5, LockProductEffect DEF tables
  <1>6. ASSUME NEW r \in Requests, HoldShift(r) PROVE Q
    BY <1>6, HoldShiftEffect DEF tables
  <1>7. ASSUME NEW r \in Requests, CommitReturn(r) PROVE Q
    <2>1. Finish(r, "OK", r)
      BY <1>7, CommitEffect
    <2>2. pc'[r] = "done" /\ \A o \in Requests \ {r} : pc'[o] = pc[o]
      BY <2>1, EndEffect
    <2> QED BY <1>7, <2>2
  <1>8. ASSUME NEW r \in Requests, BeginClose(r), ~Ends(r) PROVE Q
    BY <1>8, BeginCloseEffect DEF tables
  <1>9. ASSUME NEW r \in Requests, CommitClose(r) PROVE Q
    <2>1. Finish(r, "OK", NoOne) /\ UNCHANGED <<returned, status, returns>>
      BY <1>9 DEF CommitClose
    <2>2. pc'[r] = "done" /\ \A o \in Requests \ {r} : pc'[o] = pc[o]
      BY <2>1, EndEffect
    <2> QED BY <2>1, <2>2
  <1>10. ASSUME NEW p \in Products, OtherSale(p) PROVE Q
    BY <1>10 DEF OtherSale, session
  <1>11. ASSUME UNCHANGED vars PROVE Q
    BY <1>11 DEF vars, tables, session
  <1>12. ASSUME NEW r \in Requests, RestockItem(r), ~Ends(r) PROVE Q
    BY <1>12, RestockEffect DEF tables
  <1> HIDE DEF Q
  <1>13. Q
    BY <1>1, <1>2, <1>3, <1>4, <1>5, <1>6, <1>7, <1>8, <1>9, <1>10, <1>11, <1>12, Cases
  <1> QED BY <1>13 DEF Q

(* Every step keeps the counters of an item equal to what the return rows  *)
(* add up to.                                                              *)
LEMMA RowsKept == RowsInv /\ [Next]_vars => RowsInv'
  <1> SUFFICES ASSUME RowsInv, [Next]_vars PROVE RowsInv'
    OBVIOUS
  <1>0. SaleInv /\ Shape /\ SaleInv'
    BY SaleKept DEF RowsInv, SaleInv
  <1>1. CASE UNCHANGED <<returned, status, returns>>
    <2>1. StatusFollowsItems'
      BY <1>1 DEF RowsInv, StatusFollowsItems, ItemsOf
    <2>2. ASSUME NEW x \in returns' PROVE RowOver(x)'
      <3>1. x \in returns /\ RowOver(x)
        BY <1>1 DEF RowsInv
      <3>2. pc'[x.id] = "done"
        BY <1>0, <3>1, DoneStays DEF RowOver
      <3> QED BY <3>1, <3>2 DEF RowOver, QtyIn
    <2>3. ASSUME NEW i \in Items PROVE Adds(i)' /\ returned'[i] <= Item[i].qty
      <3>1. LinesOn(i)' = LinesOn(i) /\ returned'[i] = returned[i]
        BY <1>1 DEF LinesOn
      <3> QED BY <3>1 DEF RowsInv, Adds
    <2> QED BY <1>0, <2>1, <2>2, <2>3 DEF RowsInv
  <1>2. ASSUME NEW r \in Requests, CommitReturn(r) PROVE RowsInv'
    <2>0. PICK lines, row, s : lines = tx[r].lines /\ row = ReturnRow(r) /\ s = req[r].sale
      OBVIOUS
    <2>1. /\ Refunds(r) /\ pc[r] = "commit" /\ Finish(r, "OK", r)
          /\ returns' = returns \cup {row}
          /\ returned' = [i \in Items |-> IF i \in ItemsIn(lines)
                                          THEN tx[r].seen[i] + QtyOf(lines, i) ELSE returned[i]]
          /\ status' = [status EXCEPT ![s] =
                          StatusAfter(s, tx[r].seen, [i \in Items |-> tx[r].seen[i] + QtyOf(lines, i)])]
      BY <1>0, <1>2, <2>0, CommitEffect, ZenonT(40)
    <2>2. /\ row.id = r /\ DOMAIN row.refunded = ItemsIn(lines)
          /\ \A i \in ItemsIn(lines) :
                /\ i \in Items /\ QtyIn(row, i) = QtyOf(lines, i)
                /\ row.refunded[i].discount
                     = Entitled(Item[i].discount, returned[i] + QtyOf(lines, i), Item[i].qty)
                         - Entitled(Item[i].discount, returned[i], Item[i].qty)
                /\ row.refunded[i].tax
                     = Entitled(Item[i].tax, returned[i] + QtyOf(lines, i), Item[i].qty)
                         - Entitled(Item[i].tax, returned[i], Item[i].qty)
                /\ QtyOf(lines, i) \in Nat \ {0}
                /\ tx[r].seen[i] = returned[i] /\ returned[i] + QtyOf(lines, i) <= Item[i].qty
      BY <1>0, <2>0, <2>1, NewRow
    <2>3. /\ lines \in Seq(ReturnLine) /\ lines # <<>> /\ s \in Sales
          /\ ItemsIn(lines) \subseteq ItemsOf(s) /\ returned \in [Items -> Nat]
          /\ \A i \in ItemsOf(s) : tx[r].seen[i] = returned[i]
      BY <1>0, <2>0, <2>1 DEF SaleInv, Shape, IsSession, Admitted, Fits, SaleHeld, Checked, Past
    <2>4. ASSUME NEW i \in Items, i \in ItemsIn(lines)
          PROVE  returned'[i] = returned[i] + QtyOf(lines, i)
      BY <2>1, <2>2, <2>4
    <2>5. ASSUME NEW i \in Items, i \notin ItemsIn(lines) PROVE returned'[i] = returned[i]
      BY <2>1, <2>5
    <2>6. \A x \in returns' : RowOver(x)'
      <3>1. ASSUME NEW x \in returns PROVE RowOver(x)'
        <4>1. RowOver(x)
          BY DEF RowsInv
        <4>2. pc'[x.id] = "done"
          BY <1>0, <4>1, DoneStays DEF RowOver
        <4> QED BY <4>1, <4>2 DEF RowOver, QtyIn
      <3>2. RowOver(row)'
        <4>1. pc'[r] = "done"
          BY <1>0, <2>1, EndEffect
        <4>2. ASSUME NEW i \in ItemsIn(lines)
              PROVE  QtyIn(row, i) \in Int /\ row.refunded[i].discount \in Int /\ row.refunded[i].tax \in Int
          <5>1. /\ i \in Items /\ Item[i].qty \in Nat \ {0} /\ Item[i].discount \in Nat
                /\ Item[i].tax \in Nat /\ returned[i] \in Nat /\ QtyOf(lines, i) \in Nat
                /\ returned[i] + QtyOf(lines, i) <= Item[i].qty
            BY <2>2, <2>3, ReturnsAssumption
          <5>2. returned[i] \in 0 .. Item[i].qty /\ returned[i] + QtyOf(lines, i) \in 0 .. Item[i].qty
            BY <5>1
          <5>3. \A D, m \in Nat : m \in 0 .. Item[i].qty => Entitled(D, m, Item[i].qty) \in Nat
            BY <5>1, EntitledBounds
          <5>4. /\ Entitled(Item[i].discount, returned[i] + QtyOf(lines, i), Item[i].qty) \in Int
                /\ Entitled(Item[i].discount, returned[i], Item[i].qty) \in Int
                /\ Entitled(Item[i].tax, returned[i] + QtyOf(lines, i), Item[i].qty) \in Int
                /\ Entitled(Item[i].tax, returned[i], Item[i].qty) \in Int
            BY <5>1, <5>2, <5>3
          <5> QED BY <2>2, <5>1, <5>4
        <4> QED BY <2>2, <4>1, <4>2 DEF RowOver, QtyIn
      <3> QED BY <2>1, <3>1, <3>2
    <2>7. ASSUME NEW i \in Items PROVE Adds(i)' /\ returned'[i] <= Item[i].qty
      <3>1. /\ Adds(i) /\ returned[i] <= Item[i].qty /\ returned[i] \in Nat
            /\ IsFiniteSet(LinesOn(i)) /\ row \notin LinesOn(i)
        <4>1. LinesOn(i) \subseteq returns
          BY DEF LinesOn
        <4>2. IsFiniteSet(LinesOn(i))
          BY <1>0, <4>1, FS_Subset DEF Shape
        <4>3. row \notin returns
          BY <2>1, <2>2 DEF RowsInv, RowOver
        <4> QED BY <2>3, <4>1, <4>2, <4>3 DEF RowsInv
      <3>2. CASE i \notin ItemsIn(lines)
        <4>1. LinesOn(i)' = LinesOn(i) /\ returned'[i] = returned[i]
          BY <2>1, <2>2, <2>5, <3>2 DEF LinesOn
        <4> QED BY <3>1, <4>1 DEF Adds
      <3>3. CASE i \in ItemsIn(lines)
        <4>1. LinesOn(i)' = LinesOn(i) \cup {row}
          BY <2>1, <2>2, <3>3 DEF LinesOn
        <4>2. returned'[i] = returned[i] + QtyOf(lines, i)
          BY <2>4, <3>3
        <4>3. PICK L, n, k : L = LinesOn(i) /\ n = returned[i] /\ k = QtyOf(lines, i)
          OBVIOUS
        <4>4. \A x \in L : QtyIn(x, i) \in Int /\ x.refunded[i].discount \in Int /\ x.refunded[i].tax \in Int
          BY <4>3 DEF LinesOn, RowsInv, RowOver
        <4>5. AddsOn(L, i, n)
          BY <3>1, <4>3 DEF Adds
        <4>6. /\ n \in Nat /\ k \in Nat /\ n + k <= Item[i].qty /\ QtyIn(row, i) = k
              /\ IsFiniteSet(L) /\ row \notin L
              /\ row.refunded[i].discount = Entitled(Item[i].discount, n + k, Item[i].qty)
                                              - Entitled(Item[i].discount, n, Item[i].qty)
              /\ row.refunded[i].tax = Entitled(Item[i].tax, n + k, Item[i].qty)
                                         - Entitled(Item[i].tax, n, Item[i].qty)
          BY <2>2, <3>1, <3>3, <4>3
        <4>7. AddsOn(L \cup {row}, i, n + k)
          BY <4>4, <4>5, <4>6, AddsGrow
        <4>8. returned'[i] <= Item[i].qty
          BY <4>2, <4>3, <4>6
        <4> QED BY <4>1, <4>2, <4>3, <4>7, <4>8 DEF Adds
      <3> QED BY <3>2, <3>3
    <2>8. StatusFollowsItems'
      <3> DEFINE after == [i \in Items |-> tx[r].seen[i] + QtyOf(lines, i)]
      <3>1. ASSUME NEW i \in ItemsOf(s) PROVE i \in Items /\ after[i] = returned'[i]
        <4>1. i \in Items /\ after[i] = returned[i] + QtyOf(lines, i) /\ returned[i] \in Nat
          BY <2>3 DEF ItemsOf
        <4>2. i \notin ItemsIn(lines) => QtyOf(lines, i) = 0
          BY <2>3, QtyOfItem
        <4> QED BY <2>4, <2>5, <4>1, <4>2
      <3>2. PICK j \in ItemsOf(s) : returned'[j] > 0
        <4>1. PICK j : j \in ItemsIn(lines)
          <5>1. 1 \in DOMAIN lines
            BY <2>3
          <5> QED BY <5>1 DEF ItemsIn, ToSet
        <4>2. j \in ItemsOf(s) /\ j \in Items /\ QtyOf(lines, j) \in Nat \ {0} /\ returned[j] \in Nat
          BY <2>2, <2>3, <4>1
        <4>3. returned'[j] > 0
          BY <2>4, <4>1, <4>2
        <4> QED BY <4>2, <4>3
      <3>3. ASSUME NEW i \in Items
            PROVE  returned'[i] \in Nat /\ returned'[i] <= Item[i].qty /\ Item[i].qty \in Nat \ {0}
        BY <1>0, <2>7, ReturnsAssumption DEF SaleInv, Shape
      <3>4. status'[s] = StatusAfter(s, tx[r].seen, after) /\ \A o \in Sales \ {s} : status'[o] = status[o]
        BY <1>0, <2>1, <2>3 DEF Shape
      <3> HIDE DEF after
      <3>5. /\ status'[s] = "REFUNDED" <=> \A i \in ItemsOf(s) : returned'[i] = Item[i].qty
            /\ status'[s] # "COMPLETED"
        <4>1. /\ (\A i \in ItemsOf(s) : after[i] >= Item[i].qty) => status'[s] = "REFUNDED"
              /\ ~(\A i \in ItemsOf(s) : after[i] >= Item[i].qty) /\ (\E i \in ItemsOf(s) : after[i] > 0)
                    => status'[s] = "PARTIALLY_REFUNDED"
          BY <3>4 DEF StatusAfter
        <4>2. \E i \in ItemsOf(s) : after[i] > 0
          BY <3>1, <3>2
        <4>3. (\A i \in ItemsOf(s) : after[i] >= Item[i].qty)
                <=> \A i \in ItemsOf(s) : returned'[i] = Item[i].qty
          BY <3>1, <3>3
        <4> QED BY <4>1, <4>2, <4>3
      <3>6. ASSUME NEW o \in Sales, o # s, NEW i \in ItemsOf(o) PROVE returned'[i] = returned[i]
        BY <2>3, <2>5, <3>6 DEF ItemsOf
      <3>7. ASSUME NEW o \in Sales
            PROVE  /\ status'[o] = "REFUNDED" <=> \A i \in ItemsOf(o) : returned'[i] = Item[i].qty
                   /\ status'[o] = "COMPLETED" <=> \A i \in ItemsOf(o) : returned'[i] = 0
        <4>1. CASE o = s
          <5>1. ~\A i \in ItemsOf(s) : returned'[i] = 0
            BY <3>2
          <5> QED BY <3>5, <4>1, <5>1
        <4>2. CASE o # s
          <5>1. /\ status[o] = "REFUNDED" <=> \A i \in ItemsOf(o) : returned[i] = Item[i].qty
                /\ status[o] = "COMPLETED" <=> \A i \in ItemsOf(o) : returned[i] = 0
            BY DEF RowsInv, StatusFollowsItems
          <5> QED BY <3>4, <3>6, <4>2, <5>1
        <4> QED BY <4>1, <4>2
      <3> QED BY <3>7 DEF StatusFollowsItems, ItemsOf
    <2> QED BY <1>0, <2>6, <2>7, <2>8 DEF RowsInv
  <1> QED BY <1>0, <1>1, <1>2, DoneStays

(* The invariant's sums are those the properties are stated with.          *)
LEMMA AddsSums ==
    ASSUME RowsInv, NEW i \in Items
    PROVE  /\ returned[i] = SumOver(LinesOn(i), LAMBDA x : QtyIn(x, i))
           /\ SumOver(LinesOn(i), LAMBDA x : x.refunded[i].discount)
                = Entitled(Item[i].discount, returned[i], Item[i].qty)
           /\ SumOver(LinesOn(i), LAMBDA x : x.refunded[i].tax)
                = Entitled(Item[i].tax, returned[i], Item[i].qty)
  <1>1. Adds(i)
    BY DEF RowsInv
  <1> QED BY <1>1 DEF Adds, AddsOn, Total, SumOver

(* The inductive invariant implies both properties of the run.             *)
LEMMA RowsImply == RowsInv => ReturnedWithinSold /\ SharesTelescope
  <1> SUFFICES ASSUME RowsInv PROVE ReturnedWithinSold /\ SharesTelescope
    OBVIOUS
  <1>1. ReturnedWithinSold
    <2>1. \A i \in Items : returned[i] = SumOver(LinesOn(i), LAMBDA x : QtyIn(x, i))
      BY AddsSums
    <2>2. StatusFollowsItems /\ \A i \in Items : returned[i] <= Item[i].qty
      BY DEF RowsInv
    <2> QED BY <2>1, <2>2 DEF ReturnedWithinSold
  <1>2. SharesTelescope
    <2>1. ASSUME NEW i \in Items
          PROVE  /\ Entitled(Item[i].discount, returned[i], Item[i].qty) <= Item[i].discount
                 /\ Entitled(Item[i].tax, returned[i], Item[i].qty) <= Item[i].tax
                 /\ returned[i] = Item[i].qty =>
                      /\ Entitled(Item[i].discount, returned[i], Item[i].qty) = Item[i].discount
                      /\ Entitled(Item[i].tax, returned[i], Item[i].qty) = Item[i].tax
      <3>1. /\ Item[i].qty \in Nat \ {0} /\ Item[i].discount \in Nat /\ Item[i].tax \in Nat
            /\ returned[i] \in 0 .. Item[i].qty
        BY ReturnsAssumption DEF RowsInv, SaleInv, Shape
      <3> QED BY <3>1, EntitledBounds, EntitledEnds
    <2>2. \A i \in Items :
             /\ SumOver(LinesOn(i), LAMBDA x : x.refunded[i].discount)
                  = Entitled(Item[i].discount, returned[i], Item[i].qty)
             /\ SumOver(LinesOn(i), LAMBDA x : x.refunded[i].tax)
                  = Entitled(Item[i].tax, returned[i], Item[i].qty)
      BY AddsSums
    <2> QED BY <2>1, <2>2 DEF SharesTelescope
  <1> QED BY <1>1, <1>2

(* Spec => []RowsInv.                                                      *)
LEMMA RowsAlways == Spec => []RowsInv
  <1>1. RowsInv /\ [Next]_vars => RowsInv'
    BY RowsKept
  <1> QED BY <1>1, RowsInit, PTL DEF Spec

(* Whatever returns and voids of a sale run at once, quantity_returned is  *)
(* the sum over the committed returns, at most what was sold, and the      *)
(* status of the sale follows it (create_sale_return under the row lock of *)
(* the sale).                                                              *)
THEOREM ReturnedCorrect == Spec => []ReturnedWithinSold
  BY RowsAlways, RowsImply, PTL

(* The shares of a line's discount and tax that its returns give back are  *)
(* never more than the line has, and all of it once all of it is back      *)
(* (_proportional_share).                                                  *)
THEOREM SharesCorrect == Spec => []SharesTelescope
  BY RowsAlways, RowsImply, PTL

-----------------------------------------------------------------------------
(* Refunds and the close of a shift.  A refund that has attributed itself  *)
(* to a shift holds the row of the shift, which is open; so does a close   *)
(* that has added up the returns, and its sum is that of the table.        *)

Unattributed == {"idle", "lock", "check", "products", "hold"}

ShiftHeld(r) ==
    /\ pc[r] \in Unattributed => tx[r].shift = NoOne
    /\ tx[r].shift # NoOne => shiftLock[tx[r].shift] = r /\ shift[tx[r].shift] = "OPEN"

Closing(r) ==
    req[r].kind = "CLOSE" /\ pc[r] = "commit" =>
        /\ shiftLock[req[r].user] = r /\ shift[req[r].user] = "OPEN"
        /\ tx[r].basis = IdsOn(req[r].user)

ShiftInv ==
    /\ Shape /\ (\A r \in Requests : ShiftHeld(r) /\ Closing(r))
    /\ \A u \in Users : shift[u] = "CLOSED" => counted[u] = IdsOn(u)

(* No shift is being counted before the first request.                     *)
LEMMA ShiftInit == Init => ShiftInv
  <1> SUFFICES ASSUME Init PROVE ShiftInv
    OBVIOUS
  <1>1. Shape /\ \A r \in Requests : pc[r] \in {"idle", "done"}
    BY InitShape
  <1>2. \A r \in Requests : tx[r].shift = NoOne
    BY EmptySession DEF Init
  <1>3. \A u \in Users : shift[u] # "CLOSED"
    BY DEF Init
  <1> QED BY <1>1, <1>2, <1>3 DEF ShiftInv, ShiftHeld, Closing

(* A session keeps what it knows of the shifts while they, its lock and    *)
(* the returns of the shift it closes stay.                                *)
LEMMA OtherShift ==
    ASSUME Shape, NEW o \in Requests, ShiftHeld(o), Closing(o), req' = req, pc'[o] = pc[o], tx'[o] = tx[o],
           \A u \in Users : shiftLock[u] = o => /\ shiftLock'[u] = o /\ shift'[u] = shift[u]
                                                /\ IdsOn(u)' = IdsOn(u)
    PROVE  ShiftHeld(o)' /\ Closing(o)'
  <1>1. tx[o].shift \in Users \cup {NoOne} /\ req[o].user \in Users
    BY BodyFields DEF Shape, IsSession
  <1>2. ShiftHeld(o)'
    BY <1>1 DEF ShiftHeld
  <1>3. PICK u \in Users : u = req[o].user
    BY <1>1
  <1>4. u = req'[o].user
    BY <1>3
  <1>5. Closing(o)'
    <2>1. req[o].kind = "CLOSE" /\ pc[o] = "commit" =>
            /\ shiftLock'[u] = o /\ shift'[u] = "OPEN" /\ tx'[o].basis = IdsOn(u)'
      BY <1>3 DEF Closing
    <2> QED BY <1>4, <2>1 DEF Closing, IdsOn
  <1> QED BY <1>2, <1>5

(* Every step keeps the count of a closing shift current: the shift row    *)
(* serializes refunds and the count.                                       *)
LEMMA ShiftKept == ShiftInv /\ [Next]_vars => ShiftInv'
  <1> SUFFICES ASSUME ShiftInv, [Next]_vars
               PROVE  /\ \A o \in Requests : ShiftHeld(o)' /\ Closing(o)'
                      /\ \A u \in Users : shift'[u] = "CLOSED" => counted'[u] = IdsOn(u)'
    BY ShapeKept DEF ShiftInv
  <1> DEFINE Q == /\ \A o \in Requests : ShiftHeld(o)' /\ Closing(o)'
                  /\ \A u \in Users : shift'[u] = "CLOSED" => counted'[u] = IdsOn(u)'
  <1>0. /\ Shape /\ (\A o \in Requests : ShiftHeld(o) /\ Closing(o))
        /\ \A u \in Users : shift[u] = "CLOSED" => counted[u] = IdsOn(u)
    BY DEF ShiftInv
  <1>s. ASSUME UNCHANGED <<shift, counted, returns>>
        PROVE  \A u \in Users : /\ IdsOn(u)' = IdsOn(u)
                                /\ shift'[u] = "CLOSED" => counted'[u] = IdsOn(u)'
    BY <1>0, <1>s DEF IdsOn
  <1>1. ASSUME NEW r \in Requests, Ends(r) PROVE Q
    <2>1. PICK code, row : Finish(r, code, row) /\ UNCHANGED tables
      BY <1>1 DEF Ends, Return
    <2>2. /\ req' = req /\ shiftLock' = Free(shiftLock, r) /\ pc'[r] = "done" /\ tx'[r] = EmptyTx
          /\ \A o \in Requests \ {r} : pc'[o] = pc[o] /\ tx'[o] = tx[o]
      BY <1>0, <2>1, EndEffect
    <2>3. UNCHANGED <<shift, counted, returns>>
      BY <2>1 DEF tables
    <2>4. ShiftHeld(r)' /\ Closing(r)'
      BY <2>2, EmptySession DEF ShiftHeld, Closing
    <2>5. ASSUME NEW o \in Requests \ {r} PROVE ShiftHeld(o)' /\ Closing(o)'
      <3>1. \A u \in Users : shiftLock[u] = o => shiftLock'[u] = o
        BY <1>0, <2>2 DEF Shape, Free
      <3> QED BY <1>0, <1>s, <2>2, <2>3, <3>1, OtherShift
    <2> QED BY <1>s, <2>3, <2>4, <2>5
  <1>2. ASSUME NEW r \in Requests, req' = req, UNCHANGED <<shift, counted, returns, shiftLock>>,
               \A o \in Requests \ {r} : pc'[o] = pc[o] /\ tx'[o] = tx[o],
               tx'[r].shift = tx[r].shift, Refunds(r),
               pc'[r] \in Unattributed => pc[r] \in Unattributed
        PROVE  Q
    <2>1. ShiftHeld(r)'
      BY <1>0, <1>2 DEF ShiftHeld
    <2>2. Closing(r)'
      BY <1>2 DEF Closing, Refunds
    <2>3. ASSUME NEW o \in Requests \ {r} PROVE ShiftHeld(o)' /\ Closing(o)'
      BY <1>0, <1>2, <1>s, OtherShift
    <2> QED BY <1>2, <1>s, <2>1, <2>2, <2>3
  <1>3. ASSUME NEW r \in Requests, Moves(r) PROVE Q
    <2>1. /\ req' = req /\ tx' = tx /\ UNCHANGED <<shift, counted, returns, shiftLock>> /\ Refunds(r)
          /\ <<pc[r], pc'[r]>> \in Flow /\ \A u \in Requests \ {r} : pc'[u] = pc[u]
      BY <1>0, <1>3, MoveEffect DEF tables, locks
    <2>2. pc'[r] \in Unattributed => pc[r] \in Unattributed
      BY <2>1 DEF Flow, Unattributed
    <2> QED BY <1>2, <2>1, <2>2
  <1>4. ASSUME NEW r \in Requests, LockSale(r), ~Ends(r) PROVE Q
    <2>1. /\ req' = req /\ UNCHANGED <<shift, counted, returns, shiftLock>> /\ Refunds(r)
          /\ pc[r] = "lock" /\ tx'[r].shift = tx[r].shift
          /\ \A u \in Requests \ {r} : pc'[u] = pc[u] /\ tx'[u] = tx[u]
      BY <1>0, <1>4, LockSaleEffect DEF tables
    <2> QED BY <1>2, <2>1 DEF Unattributed
  <1>5. ASSUME NEW r \in Requests, CheckReturn(r), ~Ends(r) PROVE Q
    <2>1. /\ req' = req /\ UNCHANGED <<shift, counted, returns, shiftLock>> /\ Refunds(r)
          /\ pc[r] = "check" /\ tx'[r].shift = tx[r].shift
          /\ \A u \in Requests \ {r} : pc'[u] = pc[u] /\ tx'[u] = tx[u]
      BY <1>0, <1>5, CheckEffect DEF tables, locks
    <2> QED BY <1>2, <2>1 DEF Unattributed
  <1>6. ASSUME NEW r \in Requests, LockProduct(r) PROVE Q
    <2>1. /\ req' = req /\ UNCHANGED <<shift, counted, returns, shiftLock>> /\ Refunds(r)
          /\ pc' = pc /\ tx'[r].shift = tx[r].shift
          /\ \A u \in Requests \ {r} : tx'[u] = tx[u]
      BY <1>0, <1>6, LockProductEffect DEF tables
    <2> QED BY <1>2, <2>1
  <1>7. ASSUME NEW r \in Requests, HoldShift(r) PROVE Q
    <2>1. /\ req' = req /\ UNCHANGED <<shift, counted, returns>> /\ Refunds(r)
          /\ pc[r] = "hold" /\ pc'[r] = "insert" /\ shiftLock[req[r].user] = NoOne
          /\ \A u \in Requests \ {r} : pc'[u] = pc[u] /\ tx'[u] = tx[u]
          /\ \/ /\ shift[req[r].user] = "OPEN" /\ tx'[r].shift = req[r].user
                /\ shiftLock' = [shiftLock EXCEPT ![req[r].user] = r]
             \/ tx'[r].shift = tx[r].shift /\ shiftLock' = shiftLock
      BY <1>0, <1>7, HoldShiftEffect DEF tables
    <2>2. CASE tx'[r].shift = tx[r].shift /\ shiftLock' = shiftLock
      BY <1>2, <2>1, <2>2 DEF Unattributed
    <2>3. CASE /\ shift[req[r].user] = "OPEN" /\ tx'[r].shift = req[r].user
               /\ shiftLock' = [shiftLock EXCEPT ![req[r].user] = r]
      <3>1. req[r].user \in Users /\ shiftLock'[req[r].user] = r
        BY <1>0, <2>3, BodyFields DEF Shape
      <3>2. ShiftHeld(r)'
        BY <2>1, <2>3, <3>1 DEF ShiftHeld, Unattributed
      <3>3. Closing(r)'
        BY <2>1 DEF Closing, Refunds
      <3>4. ASSUME NEW o \in Requests \ {r} PROVE ShiftHeld(o)' /\ Closing(o)'
        <4>1. \A u \in Users : shiftLock[u] = o => shiftLock'[u] = o
          BY <1>0, <2>1, <2>3, <3>1, ReturnsAssumption DEF Shape
        <4> QED BY <1>0, <1>s, <2>1, <4>1, OtherShift
      <3> QED BY <1>s, <2>1, <3>2, <3>3, <3>4
    <2> QED BY <2>1, <2>2, <2>3
  <1>8. ASSUME NEW r \in Requests, CommitReturn(r) PROVE Q
    <2>1. /\ Refunds(r) /\ pc[r] = "commit" /\ Finish(r, "OK", r) /\ UNCHANGED <<shift, counted>>
          /\ returns' = returns \cup {ReturnRow(r)}
      BY <1>0, <1>8, CommitEffect
    <2>2. /\ req' = req /\ shiftLock' = Free(shiftLock, r) /\ pc'[r] = "done" /\ tx'[r] = EmptyTx
          /\ \A o \in Requests \ {r} : pc'[o] = pc[o] /\ tx'[o] = tx[o]
      BY <1>0, <2>1, EndEffect
    <2>3. PICK row, v : row = ReturnRow(r) /\ v = tx[r].shift /\ row.shift = v
      <3>1. ReturnRow(r).shift = tx[r].shift
        BY DEF ReturnRow
      <3> QED BY <3>1
    <2>4. ASSUME NEW u \in Users, u # v PROVE IdsOn(u)' = IdsOn(u)
      BY <2>1, <2>3, <2>4 DEF IdsOn
    <2>5. v \in Users => shiftLock[v] = r /\ shift[v] = "OPEN"
      BY <1>0, <2>3, ReturnsAssumption DEF ShiftHeld
    <2>6. ShiftHeld(r)' /\ Closing(r)'
      BY <2>2, EmptySession DEF ShiftHeld, Closing
    <2>7. ASSUME NEW o \in Requests \ {r} PROVE ShiftHeld(o)' /\ Closing(o)'
      <3>1. \A u \in Users : shiftLock[u] = o => shiftLock'[u] = o /\ IdsOn(u)' = IdsOn(u)
        BY <1>0, <2>2, <2>4, <2>5 DEF Shape, Free
      <3> QED BY <1>0, <2>1, <2>2, <3>1, OtherShift
    <2>8. ASSUME NEW u \in Users, shift'[u] = "CLOSED" PROVE counted'[u] = IdsOn(u)'
      <3>1. u # v
        BY <2>1, <2>5, <2>8
      <3> QED BY <1>0, <2>1, <2>4, <2>8, <3>1
    <2> QED BY <2>6, <2>7, <2>8
  <1>9. ASSUME NEW r \in Requests, BeginClose(r), ~Ends(r) PROVE Q
    <2>1. /\ req[r].kind = "CLOSE" /\ pc[r] = "idle" /\ req' = req /\ UNCHANGED <<shift, counted, returns>>
          /\ req[r].user \in Users /\ shiftLock[req[r].user] = NoOne /\ shift[req[r].user] = "OPEN"
          /\ shiftLock' = [shiftLock EXCEPT ![req[r].user] = r]
          /\ pc'[r] = "commit" /\ tx'[r].shift = tx[r].shift /\ tx'[r].basis = IdsOn(req[r].user)
          /\ \A o \in Requests \ {r} : pc'[o] = pc[o] /\ tx'[o] = tx[o]
      BY <1>0, <1>9, BeginCloseEffect DEF tables
    <2>2. shiftLock'[req[r].user] = r /\ tx'[r].shift = NoOne
      BY <1>0, <2>1 DEF Shape, ShiftHeld, Unattributed
    <2>3. ShiftHeld(r)'
      BY <2>2 DEF ShiftHeld
    <2>4. Closing(r)'
      BY <2>1, <2>2 DEF Closing, IdsOn
    <2>5. ASSUME NEW o \in Requests \ {r} PROVE ShiftHeld(o)' /\ Closing(o)'
      <3>1. \A u \in Users : shiftLock[u] = o => shiftLock'[u] = o
        BY <1>0, <2>1, ReturnsAssumption DEF Shape
      <3> QED BY <1>0, <1>s, <2>1, <3>1, OtherShift
    <2> QED BY <1>s, <2>1, <2>3, <2>4, <2>5
  <1>10. ASSUME NEW r \in Requests, CommitClose(r) PROVE Q
    <2>1. /\ req[r].kind = "CLOSE" /\ pc[r] = "commit" /\ Finish(r, "OK", NoOne) /\ returns' = returns
          /\ shift' = [shift EXCEPT ![req[r].user] = "CLOSED"]
          /\ counted' = [counted EXCEPT ![req[r].user] = tx[r].basis]
      BY <1>10 DEF CommitClose
    <2>2. /\ req' = req /\ shiftLock' = Free(shiftLock, r) /\ pc'[r] = "done" /\ tx'[r] = EmptyTx
          /\ \A o \in Requests \ {r} : pc'[o] = pc[o] /\ tx'[o] = tx[o]
      BY <1>0, <2>1, EndEffect
    <2>3. PICK v \in Users : v = req[r].user
      BY <1>0, BodyFields
    <2>4. shiftLock[v] = r /\ tx[r].basis = IdsOn(v)
      BY <1>0, <2>1, <2>3 DEF Closing
    <2>5. /\ \A u \in Users \ {v} : shift'[u] = shift[u] /\ counted'[u] = counted[u]
          /\ shift'[v] = "CLOSED" /\ counted'[v] = tx[r].basis
      BY <1>0, <2>1, <2>3 DEF Shape
    <2>6. \A u \in Users : IdsOn(u)' = IdsOn(u)
      BY <2>1 DEF IdsOn
    <2>7. ShiftHeld(r)' /\ Closing(r)'
      BY <2>2, EmptySession DEF ShiftHeld, Closing
    <2>8. ASSUME NEW o \in Requests \ {r} PROVE ShiftHeld(o)' /\ Closing(o)'
      <3>1. \A u \in Users : shiftLock[u] = o => shiftLock'[u] = o /\ shift'[u] = shift[u]
        BY <1>0, <2>2, <2>4, <2>5 DEF Shape, Free
      <3> QED BY <1>0, <2>2, <2>6, <3>1, OtherShift
    <2> QED BY <1>0, <2>4, <2>5, <2>6, <2>7, <2>8
  <1>11. ASSUME NEW p \in Products, OtherSale(p) PROVE Q
    <2>1. UNCHANGED <<shift, counted, returns, shiftLock, req, pc, tx>>
      BY <1>11 DEF OtherSale, locks, session
    <2>2. ASSUME NEW o \in Requests PROVE ShiftHeld(o)' /\ Closing(o)'
      BY <1>0, <1>s, <2>1, OtherShift
    <2> QED BY <1>s, <2>1, <2>2
  <1>12. ASSUME UNCHANGED vars PROVE Q
    <2>1. UNCHANGED <<shift, counted, returns, shiftLock, req, pc, tx>>
      BY <1>12 DEF vars, tables, locks, session
    <2>2. ASSUME NEW o \in Requests PROVE ShiftHeld(o)' /\ Closing(o)'
      BY <1>0, <1>s, <2>1, OtherShift
    <2> QED BY <1>s, <2>1, <2>2
  <1>13. ASSUME NEW r \in Requests, RestockItem(r), ~Ends(r) PROVE Q
    <2>1. /\ req' = req /\ UNCHANGED <<shift, counted, returns, shiftLock>> /\ Refunds(r)
          /\ pc' = pc /\ tx'[r].shift = tx[r].shift
          /\ \A u \in Requests \ {r} : tx'[u] = tx[u]
      BY <1>0, <1>13, RestockEffect DEF tables, locks
    <2> QED BY <1>2, <2>1
  <1> HIDE DEF Q
  <1>14. Q
    BY <1>0, <1>1, <1>3, <1>4, <1>5, <1>6, <1>7, <1>8, <1>9, <1>10, <1>11, <1>12, <1>13, Cases
  <1> QED BY <1>14 DEF Q

(* The expected cash of a closed shift counts every return attributed to   *)
(* it: close_shift and lock_active_shift_for_cashier take turns on the row *)
(* of the shift.                                                           *)
THEOREM RefundsCorrect == Spec => []RefundsCounted
  <1>1. ShiftInv /\ [Next]_vars => ShiftInv'
    BY ShiftKept
  <1>2. ShiftInv => RefundsCounted
    BY DEF ShiftInv, RefundsCounted, IdsOn
  <1> QED BY <1>1, <1>2, ShiftInit, PTL DEF Spec

-----------------------------------------------------------------------------
(* Locks.  The holder of a row is past the statement that takes it, and a  *)
(* refund holds only products below the ones it still wants.  So everybody *)
(* waits for somebody who is further, or who is locking products and wants *)
(* a higher one.                                                           *)

LockedSale(r)    == \A s \in Sales : saleLock[s] = r => Refunds(r) /\ pc[r] \in Past
LockedProduct(r) == \A p \in Products : productLock[p] = r =>
                       Refunds(r) /\ pc[r] \in Checked /\ p \in tx[r].held
LockedShift(r)   == \A u \in Users : shiftLock[u] = r =>
                       \/ Refunds(r) /\ pc[r] \in {"insert", "post", "commit"}
                       \/ pc[r] = "commit"
Ascending(r)     == /\ pc[r] \in {"idle", "lock", "check"} => tx[r].held = {}
                    /\ \A p \in tx[r].held, q \in Wanted(r) : p < q

LockInv == Shape /\ \A r \in Requests : LockedSale(r) /\ LockedProduct(r) /\ LockedShift(r) /\ Ascending(r)

(* No row is locked before the first request.                              *)
LEMMA LockInit == Init => LockInv
  <1> SUFFICES ASSUME Init PROVE LockInv
    OBVIOUS
  <1>1. Shape
    BY InitShape
  <1>2. ASSUME NEW r \in Requests PROVE tx[r].held = {} /\ r # NoOne
    BY EmptySession, ReturnsAssumption DEF Init
  <1> QED BY <1>1, <1>2 DEF Init, LockInv, LockedSale, LockedProduct, LockedShift, Ascending

(* What r wants depends on its lines and what it holds.                    *)
LEMMA SameWants ==
    ASSUME NEW r, tx'[r].lines = tx[r].lines, tx'[r].held = tx[r].held
    PROVE  Wanted(r)' = Wanted(r)
  BY DEF Wanted

(* A session that does not step keeps its locks in order.                  *)
LEMMA OtherLocks ==
    ASSUME NEW o \in Requests, LockedSale(o), LockedProduct(o), LockedShift(o), Ascending(o),
           req' = req, pc'[o] = pc[o], tx'[o] = tx[o],
           \A s \in Sales : saleLock'[s] = o => saleLock[s] = o,
           \A p \in Products : productLock'[p] = o => productLock[p] = o,
           \A u \in Users : shiftLock'[u] = o => shiftLock[u] = o
    PROVE  LockedSale(o)' /\ LockedProduct(o)' /\ LockedShift(o)' /\ Ascending(o)'
  <1>1. Wanted(o)' = Wanted(o)
    BY SameWants
  <1>2. LockedSale(o)' /\ LockedProduct(o)' /\ LockedShift(o)'
    BY DEF LockedSale, LockedProduct, LockedShift, Refunds
  <1> QED BY <1>1, <1>2 DEF Ascending

(* Every step keeps the order in which locks are taken.                    *)
LEMMA LockKept == LockInv /\ [Next]_vars => LockInv'
  <1> DEFINE Q == \A o \in Requests : LockedSale(o)' /\ LockedProduct(o)' /\ LockedShift(o)' /\ Ascending(o)'
  <1> SUFFICES ASSUME LockInv, [Next]_vars PROVE Q
    BY ShapeKept DEF LockInv
  <1>0. /\ Shape
        /\ \A o \in Requests : LockedSale(o) /\ LockedProduct(o) /\ LockedShift(o) /\ Ascending(o)
    BY DEF LockInv
  <1>1. ASSUME NEW r \in Requests, NEW code, NEW row, Finish(r, code, row) PROVE Q
    <2>1. /\ req' = req /\ pc'[r] = "done" /\ tx'[r] = EmptyTx
          /\ saleLock' = Free(saleLock, r) /\ productLock' = Free(productLock, r)
          /\ shiftLock' = Free(shiftLock, r)
          /\ \A o \in Requests \ {r} : pc'[o] = pc[o] /\ tx'[o] = tx[o]
      BY <1>0, <1>1, EndEffect
    <2>2. /\ \A s \in Sales : saleLock'[s] # r /\ \A o \in Requests : saleLock'[s] = o => saleLock[s] = o
          /\ \A p \in Products : productLock'[p] # r /\ \A o \in Requests : productLock'[p] = o => productLock[p] = o
          /\ \A u \in Users : shiftLock'[u] # r /\ \A o \in Requests : shiftLock'[u] = o => shiftLock[u] = o
      BY <1>0, <2>1, ReturnsAssumption DEF Shape, Free
    <2>3. LockedSale(r)' /\ LockedProduct(r)' /\ LockedShift(r)' /\ Ascending(r)'
      BY <2>1, <2>2, EmptySession DEF LockedSale, LockedProduct, LockedShift, Ascending
    <2>4. ASSUME NEW o \in Requests \ {r}
          PROVE  LockedSale(o)' /\ LockedProduct(o)' /\ LockedShift(o)' /\ Ascending(o)'
      BY <1>0, <2>1, <2>2, OtherLocks
    <2> QED BY <2>3, <2>4
  <1>2. ASSUME NEW r \in Requests, Ends(r) PROVE Q
    BY <1>1, <1>2 DEF Ends, Return
  <1>3. ASSUME NEW r \in Requests, req' = req, UNCHANGED <<saleLock, productLock, shiftLock>>,
               \A o \in Requests \ {r} : pc'[o] = pc[o] /\ tx'[o] = tx[o],
               tx'[r].held = tx[r].held, tx'[r].lines = tx[r].lines, Refunds(r),
               pc[r] \in Past => pc'[r] \in Past,
               pc[r] \in Checked => pc'[r] \in Checked,
               pc[r] \in {"insert", "post", "commit"} => pc'[r] \in {"insert", "post", "commit"},
               pc'[r] \in {"idle", "lock", "check"} => pc[r] \in {"idle", "lock", "check"}
        PROVE  Q
    <2>1. Wanted(r)' = Wanted(r)
      BY <1>3, SameWants
    <2>2. LockedSale(r)' /\ LockedProduct(r)'
      BY <1>0, <1>3 DEF LockedSale, LockedProduct, Refunds
    <2>3. LockedShift(r)'
      BY <1>0, <1>3 DEF LockedShift, Refunds
    <2>4. Ascending(r)'
      BY <1>0, <1>3, <2>1 DEF Ascending
    <2>5. ASSUME NEW o \in Requests \ {r}
          PROVE  LockedSale(o)' /\ LockedProduct(o)' /\ LockedShift(o)' /\ Ascending(o)'
      BY <1>0, <1>3, OtherLocks
    <2> QED BY <2>2, <2>3, <2>4, <2>5
  <1>4. ASSUME NEW r \in Requests, Moves(r) PROVE Q
    <2>1. /\ req' = req /\ tx' = tx /\ UNCHANGED <<saleLock, productLock, shiftLock>> /\ Refunds(r)
          /\ <<pc[r], pc'[r]>> \in Flow /\ \A u \in Requests \ {r} : pc'[u] = pc[u]
      BY <1>0, <1>4, MoveEffect DEF locks
    <2>2. /\ pc[r] \in Past => pc'[r] \in Past
          /\ pc[r] \in Checked => pc'[r] \in Checked
          /\ pc[r] \in {"insert", "post", "commit"} => pc'[r] \in {"insert", "post", "commit"}
          /\ pc'[r] \in {"idle", "lock", "check"} => pc[r] \in {"idle", "lock", "check"}
      BY <2>1 DEF Flow, Past, Checked
    <2> QED BY <1>3, <2>1, <2>2
  <1>5. ASSUME NEW r \in Requests, LockSale(r), ~Ends(r) PROVE Q
    <2>1. /\ Refunds(r) /\ pc[r] = "lock" /\ req' = req /\ UNCHANGED <<productLock, shiftLock>>
          /\ saleLock' = [saleLock EXCEPT ![req[r].sale] = r]
          /\ pc'[r] = "check" /\ tx'[r].held = tx[r].held
          /\ \A o \in Requests \ {r} : pc'[o] = pc[o] /\ tx'[o] = tx[o]
      BY <1>0, <1>5, LockSaleEffect
    <2>2. \A s \in Sales, o \in Requests \ {r} : saleLock'[s] = o => saleLock[s] = o
      BY <1>0, <2>1 DEF Shape
    <2>3. LockedSale(r)' /\ LockedProduct(r)' /\ LockedShift(r)'
      <3>1. /\ \A p \in Products : productLock[p] # r
            /\ \A u \in Users : shiftLock[u] # r
        BY <1>0, <2>1 DEF LockedProduct, LockedShift, Checked, Past
      <3> QED BY <2>1, <3>1 DEF LockedSale, LockedProduct, LockedShift, Refunds, Past
    <2>4. Ascending(r)'
      BY <1>0, <2>1 DEF Ascending
    <2>5. ASSUME NEW o \in Requests \ {r}
          PROVE  LockedSale(o)' /\ LockedProduct(o)' /\ LockedShift(o)' /\ Ascending(o)'
      BY <1>0, <2>1, <2>2, OtherLocks
    <2> QED BY <2>3, <2>4, <2>5
  <1>6. ASSUME NEW r \in Requests, CheckReturn(r), ~Ends(r) PROVE Q
    <2>1. /\ Refunds(r) /\ pc[r] = "check" /\ req' = req /\ UNCHANGED <<saleLock, productLock, shiftLock>>
          /\ pc'[r] = "products" /\ tx'[r].held = tx[r].held /\ tx'[r].lines = tx[r].lines
          /\ \A o \in Requests \ {r} : pc'[o] = pc[o] /\ tx'[o] = tx[o]
      BY <1>0, <1>6, CheckEffect DEF locks
    <2> QED BY <1>3, <2>1 DEF Past, Checked
  <1>7. ASSUME NEW r \in Requests, LockProduct(r) PROVE Q
    <2>1. /\ Refunds(r) /\ pc[r] = "products" /\ req' = req /\ UNCHANGED <<saleLock, shiftLock, pc>>
          /\ tx'[r].lines = tx[r].lines /\ \A o \in Requests \ {r} : tx'[o] = tx[o]
      BY <1>0, <1>7, LockProductEffect
    <2>2. PICK p \in Wanted(r) : /\ \A o \in Wanted(r) : p <= o
                                 /\ p \in Products /\ productLock[p] = NoOne
                                 /\ productLock' = [productLock EXCEPT ![p] = r]
                                 /\ tx'[r].held = tx[r].held \cup {p}
      BY <1>0, <1>7, LockProductEffect
    <2>3. LockedSale(r)' /\ LockedShift(r)'
      BY <1>0, <2>1 DEF LockedSale, LockedShift, Refunds
    <2>4. LockedProduct(r)'
      <3>1. \A x \in Products : productLock'[x] = r => x = p \/ productLock[x] = r
        BY <1>0, <2>2 DEF Shape
      <3>2. \A x \in Products : productLock'[x] = r => x \in tx'[r].held
        BY <1>0, <2>2, <3>1 DEF LockedProduct
      <3> QED BY <2>1, <3>2 DEF LockedProduct, Refunds, Checked, Past
    <2>5. Ascending(r)'
      <3>1. Wanted(r)' = Wanted(r) \ {p}
        BY <2>1, <2>2 DEF Wanted
      <3>2. Wanted(r) \subseteq Int /\ tx[r].held \subseteq Int
        BY <1>0, <2>2, WantedLeast, ReturnsAssumption DEF Shape, IsSession
      <3>3. \A x \in tx[r].held, q \in Wanted(r) : x < q
        BY <1>0 DEF Ascending
      <3>4. \A x \in tx[r].held \cup {p}, q \in Wanted(r) \ {p} : x < q
        BY <2>2, <3>2, <3>3
      <3> QED BY <2>1, <2>2, <3>1, <3>4 DEF Ascending
    <2>6. ASSUME NEW o \in Requests \ {r}
          PROVE  LockedSale(o)' /\ LockedProduct(o)' /\ LockedShift(o)' /\ Ascending(o)'
      <3>1. \A x \in Products : productLock'[x] = o => productLock[x] = o
        BY <1>0, <2>2 DEF Shape
      <3> QED BY <1>0, <2>1, <3>1, OtherLocks
    <2> QED BY <2>3, <2>4, <2>5, <2>6
  <1>8. ASSUME NEW r \in Requests, HoldShift(r) PROVE Q
    <2>1. /\ Refunds(r) /\ pc[r] = "hold" /\ req' = req /\ UNCHANGED <<saleLock, productLock>>
          /\ pc'[r] = "insert" /\ tx'[r].lines = tx[r].lines /\ tx'[r].held = tx[r].held
          /\ \A o \in Requests \ {r} : pc'[o] = pc[o] /\ tx'[o] = tx[o]
          /\ shiftLock' \in {shiftLock, [shiftLock EXCEPT ![req[r].user] = r]}
      BY <1>0, <1>8, HoldShiftEffect
    <2>2. LockedSale(r)' /\ LockedProduct(r)'
      BY <1>0, <2>1 DEF LockedSale, LockedProduct, Refunds, Past, Checked
    <2>3. LockedShift(r)'
      BY <2>1 DEF LockedShift, Refunds
    <2>4. Ascending(r)'
      BY <1>0, <2>1, SameWants DEF Ascending
    <2>5. ASSUME NEW o \in Requests \ {r}
          PROVE  LockedSale(o)' /\ LockedProduct(o)' /\ LockedShift(o)' /\ Ascending(o)'
      <3>1. \A u \in Users : shiftLock'[u] = o => shiftLock[u] = o
        BY <1>0, <2>1 DEF Shape
      <3> QED BY <1>0, <2>1, <3>1, OtherLocks
    <2> QED BY <2>2, <2>3, <2>4, <2>5
  <1>9. ASSUME NEW r \in Requests, CommitReturn(r) PROVE Q
    BY <1>1, <1>9 DEF CommitReturn
  <1>10. ASSUME NEW r \in Requests, BeginClose(r), ~Ends(r) PROVE Q
    <2>1. /\ req[r].kind = "CLOSE" /\ pc[r] = "idle" /\ req' = req /\ UNCHANGED <<saleLock, productLock>>
          /\ shiftLock' = [shiftLock EXCEPT ![req[r].user] = r]
          /\ pc'[r] = "commit" /\ tx'[r].held = tx[r].held
          /\ \A o \in Requests \ {r} : pc'[o] = pc[o] /\ tx'[o] = tx[o]
      BY <1>0, <1>10, BeginCloseEffect
    <2>2. LockedSale(r)' /\ LockedProduct(r)'
      BY <1>0, <2>1 DEF LockedSale, LockedProduct, Past, Checked
    <2>3. LockedShift(r)'
      BY <2>1 DEF LockedShift
    <2>4. Ascending(r)'
      BY <1>0, <2>1 DEF Ascending
    <2>5. ASSUME NEW o \in Requests \ {r}
          PROVE  LockedSale(o)' /\ LockedProduct(o)' /\ LockedShift(o)' /\ Ascending(o)'
      <3>1. \A u \in Users : shiftLock'[u] = o => shiftLock[u] = o
        BY <1>0, <2>1 DEF Shape
      <3> QED BY <1>0, <2>1, <3>1, OtherLocks
    <2> QED BY <2>2, <2>3, <2>4, <2>5
  <1>11. ASSUME NEW r \in Requests, CommitClose(r) PROVE Q
    BY <1>1, <1>11 DEF CommitClose
  <1>12. ASSUME NEW p \in Products, OtherSale(p) PROVE Q
    <2>1. UNCHANGED <<saleLock, productLock, shiftLock, req, pc, tx>>
      BY <1>12 DEF OtherSale, locks, session
    <2> QED BY <1>0, <2>1, OtherLocks
  <1>13. ASSUME UNCHANGED vars PROVE Q
    <2>1. UNCHANGED <<saleLock, productLock, shiftLock, req, pc, tx>>
      BY <1>13 DEF vars, locks, session
    <2> QED BY <1>0, <2>1, OtherLocks
  <1>14. ASSUME NEW r \in Requests, RestockItem(r), ~Ends(r) PROVE Q
    <2>1. /\ Refunds(r) /\ pc[r] = "post" /\ req' = req /\ UNCHANGED <<saleLock, productLock, shiftLock, pc>>
          /\ tx'[r].held = tx[r].held /\ tx'[r].lines = tx[r].lines
          /\ \A o \in Requests \ {r} : tx'[o] = tx[o]
      BY <1>0, <1>14, RestockEffect DEF locks
    <2> QED BY <1>3, <2>1 DEF Past, Checked
  <1> HIDE DEF Q
  <1> QED BY <1>0, <1>2, <1>4, <1>5, <1>6, <1>7, <1>8, <1>9, <1>10, <1>11, <1>12, <1>13, <1>14, Cases

(* Whoever is waited for has what is waited for, and is further.           *)
LEMMA WaitsForward ==
    ASSUME LockInv, NEW r \in Requests, NEW o \in Requests, o \in WaitsFor(r)
    PROVE  \/ pc[r] = "lock" /\ pc[o] \in Past
           \/ /\ pc[r] = "products" /\ Wanted(r) # {} /\ pc[o] \in Checked
              /\ Min(Wanted(r)) \in tx[o].held
           \/ pc[r] \in {"idle", "hold"} /\ pc[o] \in {"insert", "post", "commit"}
           \/ pc[r] = "insert" /\ pc[o] \in {"post", "commit"}
  <1>0. Shape /\ LockedSale(o) /\ LockedProduct(o) /\ LockedShift(o)
    BY DEF LockInv
  <1>1. CASE Refunds(r) /\ pc[r] = "lock" /\ req[r].sale # NoOne
    <2>1. WaitsFor(r) = {saleLock[req[r].sale]}
      BY <1>1 DEF WaitsFor, Refunds
    <2>2. req[r].sale \in Sales
      BY <1>0, <1>1, BodyFields
    <2> QED BY <1>0, <1>1, <2>1, <2>2 DEF LockedSale
  <1>2. CASE Refunds(r) /\ pc[r] = "products" /\ Wanted(r) # {}
    <2>1. WaitsFor(r) = {productLock[Min(Wanted(r))]}
      BY <1>2 DEF WaitsFor, Refunds, Wanted
    <2>2. Min(Wanted(r)) \in Products
      BY <1>0, <1>2, WantedLeast DEF Min
    <2> QED BY <1>0, <1>2, <2>1, <2>2 DEF LockedProduct
  <1>3. CASE \/ Refunds(r) /\ pc[r] = "hold"
             \/ req[r].kind = "CLOSE" /\ pc[r] = "idle"
    <2>1. WaitsFor(r) = {shiftLock[req[r].user]}
      BY <1>3 DEF WaitsFor, Refunds
    <2>2. req[r].user \in Users
      BY <1>0, BodyFields
    <2> QED BY <1>0, <1>3, <2>1, <2>2 DEF LockedShift
  <1>4. CASE Refunds(r) /\ pc[r] = "insert"
    <2>1. \A x \in WaitsFor(r) : pc[x] \in {"post", "commit"}
      BY <1>4 DEF WaitsFor, Refunds
    <2> QED BY <1>4, <2>1
  <1>5. CASE /\ ~(Refunds(r) /\ pc[r] = "lock" /\ req[r].sale # NoOne)
             /\ ~(Refunds(r) /\ pc[r] = "products" /\ Wanted(r) # {})
             /\ ~(Refunds(r) /\ pc[r] = "hold") /\ ~(req[r].kind = "CLOSE" /\ pc[r] = "idle")
             /\ ~(Refunds(r) /\ pc[r] = "insert")
    <2>1. WaitsFor(r) = {}
      BY <1>5 DEF WaitsFor, Wanted
    <2> QED BY <2>1
  <1> QED BY <1>1, <1>2, <1>3, <1>4, <1>5

(* Locks taken in that order leave no circle: the session of a set that    *)
(* stands furthest waits for none of it.                                   *)
LEMMA NoCircle == LockInv => NoCircularWait
  <1> SUFFICES ASSUME LockInv, NEW S \in (SUBSET Requests) \ {{}},
                      ~\E r \in S : WaitsFor(r) \cap S = {}
               PROVE  FALSE
    BY Zenon DEF NoCircularWait
  <1>a. S \subseteq Requests /\ S # {}
    OBVIOUS
  <1>1. ASSUME NEW r \in S
        PROVE  \E o \in S :
                 \/ pc[r] = "lock" /\ pc[o] \in Past
                 \/ /\ pc[r] = "products" /\ Wanted(r) # {} /\ pc[o] \in Checked
                    /\ Min(Wanted(r)) \in tx[o].held
                 \/ pc[r] \in {"idle", "hold"} /\ pc[o] \in {"insert", "post", "commit"}
                 \/ pc[r] = "insert" /\ pc[o] \in {"post", "commit"}
    <2>1. PICK o : o \in WaitsFor(r) /\ o \in S
      OBVIOUS
    <2> QED BY <1>a, <2>1, WaitsForward
  <1>2. \A r \in S : pc[r] \notin {"post", "commit", "insert"}
    BY <1>1
  <1>3. \A r \in S : pc[r] \in {"lock", "products"}
    BY <1>1, <1>2
  <1>4. \A r \in S : \E o \in S :
           /\ pc[o] = "products"
           /\ pc[r] = "products" => Wanted(r) # {} /\ Min(Wanted(r)) \in tx[o].held
    BY <1>1, <1>3 DEF Past, Checked
  <1> DEFINE P == {r \in S : pc[r] = "products"}
             f == [r \in P |-> Min(Wanted(r))]
             T == {f[r] : r \in P}
  <1>5. P # {} /\ P \subseteq Requests
    BY <1>a, <1>4
  <1>6. ASSUME NEW r \in P PROVE Min(Wanted(r)) \in Wanted(r) /\ Min(Wanted(r)) \in Int
    <2>1. r \in Requests /\ Wanted(r) # {} /\ Shape
      BY <1>4 DEF LockInv
    <2>2. Wanted(r) \subseteq Products /\ \E m \in Wanted(r) : \A o \in Wanted(r) : m <= o
      BY <2>1, WantedLeast
    <2>3. Min(Wanted(r)) \in Wanted(r)
      BY <2>2 DEF Min
    <2> QED BY <2>2, <2>3, ReturnsAssumption
  <1>7. IsFiniteSet(T)
    <2>1. IsFiniteSet(P)
      BY <1>5, ReturnsAssumption, FS_Subset
    <2>2. f \in Surjection(P, T)
      BY DEF Surjection
    <2> HIDE DEF P, f, T
    <2> QED BY <2>1, <2>2, FS_Surjection
  <1>8. T # {} /\ T \subseteq Int
    BY <1>5, <1>6
  <1>9. PICK m \in T : \A x \in T : x <= m
    <2> HIDE DEF T
    <2> QED BY <1>7, <1>8, FiniteMax
  <1>10. PICK r \in P : m = Min(Wanted(r))
    OBVIOUS
  <1>11. PICK o \in P : m \in tx[o].held
    BY <1>4, <1>10
  <1>12. Min(Wanted(o)) \in T /\ Min(Wanted(o)) \in Wanted(o) /\ Min(Wanted(o)) \in Int /\ m \in Int
    BY <1>6, <1>8
  <1>13. m < Min(Wanted(o))
    <2>1. Ascending(o)
      BY <1>5 DEF LockInv
    <2> QED BY <1>11, <1>12, <2>1 DEF Ascending
  <1> QED BY <1>9, <1>12, <1>13

(* Returns, voids and closes never wait for each other in a circle: the    *)
(* sale's row is locked before the products, those in ascending id order   *)
(* ("deadlock-safe"), then the shift, then the key of the new row.         *)
THEOREM ReturnsDeadlockFree == Spec => []NoCircularWait
  <1>1. LockInv /\ [Next]_vars => LockInv'
    BY LockKept
  <1> QED BY <1>1, LockInit, NoCircle, PTL DEF Spec

-----------------------------------------------------------------------------
(* Movement rows of a product.                                             *)

Movement == [delta : Int, result : Int, ret : Requests \cup {NoOne}]

(* The terms of MovedBy(rows, x).                                          *)
Terms(rows, x) == [n \in DOMAIN rows |-> IF rows[n].ret = x THEN rows[n].delta ELSE 0]

(* The sum, by its terms.                                                  *)
LEMMA MovedTerms ==
    ASSUME NEW rows \in Seq(Movement), NEW x
    PROVE  /\ MovedBy(rows, x) = SumFunctionOnSet(Terms(rows, x), 1 .. Len(rows))
           /\ \A n \in 1 .. Len(rows) :
                 /\ Terms(rows, x)[n] = IF rows[n].ret = x THEN rows[n].delta ELSE 0
                 /\ Terms(rows, x)[n] \in Int
           /\ Len(rows) \in Nat /\ IsFiniteSet(1 .. Len(rows))
           /\ MovedBy(rows, x) \in Int
<1>1. DOMAIN rows = 1 .. Len(rows) /\ Len(rows) \in Nat
  OBVIOUS
<1>2. \A n \in 1 .. Len(rows) : rows[n] \in Movement
  OBVIOUS
<1>3. MovedBy(rows, x) = SumFunctionOnSet(Terms(rows, x), 1 .. Len(rows))
  <2>1. MovedBy(rows, x) = SumFunctionOnSet(Terms(rows, x), DOMAIN rows)
    BY DEF MovedBy, SumLines, Terms
  <2>. QED  BY <1>1, <2>1
<1>4. \A n \in 1 .. Len(rows) :
         /\ Terms(rows, x)[n] = IF rows[n].ret = x THEN rows[n].delta ELSE 0
         /\ Terms(rows, x)[n] \in Int
  BY <1>1, <1>2 DEF Terms, Movement
<1>5. IsFiniteSet(1 .. Len(rows))
  BY <1>1, FS_Interval
<1>6. SumFunctionOnSet(Terms(rows, x), 1 .. Len(rows)) \in Int
  BY <1>4, <1>5, SumInt
<1>. QED  BY <1>1, <1>3, <1>4, <1>5, <1>6

(* One more row.                                                           *)
LEMMA MovedAppend ==
    ASSUME NEW rows \in Seq(Movement), NEW m \in Movement, NEW x
    PROVE  MovedBy(Append(rows, m), x) = (IF m.ret = x THEN m.delta ELSE 0) + MovedBy(rows, x)
<1>1. PICK new : new = Append(rows, m)
  OBVIOUS
<1>2. new \in Seq(Movement) /\ Len(new) = Len(rows) + 1 /\ new[Len(rows) + 1] = m
      /\ \A n \in 1 .. Len(rows) : new[n] = rows[n]
  BY <1>1
<1>3. PICK f, g, S, T, e : /\ f = Terms(new, x) /\ g = Terms(rows, x)
                           /\ S = 1 .. Len(rows) /\ T = 1 .. Len(new) /\ e = Len(rows) + 1
  OBVIOUS
<1>4. /\ MovedBy(rows, x) = SumFunctionOnSet(g, S) /\ IsFiniteSet(S) /\ Len(rows) \in Nat
      /\ MovedBy(new, x) = SumFunctionOnSet(f, T)
  BY <1>2, <1>3, MovedTerms
<1>5. /\ \A n \in S : g[n] = (IF rows[n].ret = x THEN rows[n].delta ELSE 0) /\ g[n] \in Int
      /\ \A n \in T : f[n] = (IF new[n].ret = x THEN new[n].delta ELSE 0) /\ f[n] \in Int
  BY <1>2, <1>3, MovedTerms
<1>6. /\ e \in T /\ e \notin S /\ (\A n \in S : n \in T) /\ (\A n \in T : n = e \/ n \in S)
  BY <1>2, <1>3, <1>4
<1>7. /\ f[e] \in Int /\ f[e] = IF m.ret = x THEN m.delta ELSE 0
  BY <1>2, <1>3, <1>5, <1>6
<1>8. \A n \in S : f[n] = g[n] /\ g[n] \in Int
  BY <1>2, <1>3, <1>5, <1>6
<1>9. SumFunctionOnSet(f, T) = f[e] + SumFunctionOnSet(g, S)
  <2>1. IsFiniteSet(S) /\ f[e] \in Int
    BY <1>4, <1>7
  <2>. QED  BY ONLY <1>6, <1>8, <2>1, SumWith
<1>. QED  BY <1>1, <1>4, <1>7, <1>9

(* The rows of a session after those of the table.                         *)
LEMMA MovedConcat ==
    ASSUME NEW a \in Seq(Movement), NEW b \in Seq(Movement), NEW x
    PROVE  MovedBy(a \o b, x) = MovedBy(a, x) + MovedBy(b, x)
<1>1. PICK c : c = a \o b
  OBVIOUS
<1>2. /\ c \in Seq(Movement) /\ Len(c) = Len(a) + Len(b)
      /\ \A n \in 1 .. Len(a) : c[n] = a[n]
      /\ \A n \in 1 .. Len(b) : c[Len(a) + n] = b[n]
  BY <1>1
<1>3. PICK f, g, k : f = Terms(c, x) /\ g = Terms(a, x) /\ k = Terms(b, x)
  OBVIOUS
<1>4. PICK S, D, B, E : /\ S = 1 .. Len(c) /\ D = 1 .. Len(a) /\ B = 1 .. Len(b)
                        /\ E = (Len(a) + 1) .. Len(c)
  OBVIOUS
<1>5. /\ MovedBy(c, x) = SumFunctionOnSet(f, S) /\ IsFiniteSet(S)
      /\ MovedBy(a, x) = SumFunctionOnSet(g, D) /\ IsFiniteSet(D) /\ Len(a) \in Nat
      /\ MovedBy(b, x) = SumFunctionOnSet(k, B) /\ IsFiniteSet(B) /\ Len(b) \in Nat
  BY <1>2, <1>3, <1>4, MovedTerms
<1>6. /\ \A n \in S : f[n] = (IF c[n].ret = x THEN c[n].delta ELSE 0) /\ f[n] \in Int
      /\ \A n \in D : g[n] = (IF a[n].ret = x THEN a[n].delta ELSE 0) /\ g[n] \in Int
      /\ \A n \in B : k[n] = (IF b[n].ret = x THEN b[n].delta ELSE 0) /\ k[n] \in Int
  BY <1>2, <1>3, <1>4, MovedTerms, SMTT(40)
<1>7. D \cup E = S /\ D \cap E = {}
  BY <1>2, <1>4, <1>5
<1>8. SumFunctionOnSet(f, S) = SumFunctionOnSet(f, D) + SumFunctionOnSet(f, E)
  BY ONLY <1>5, <1>6, <1>7, SumSplit
<1>9. SumFunctionOnSet(f, D) = SumFunctionOnSet(g, D)
  <2>1. \A n \in D : n \in S /\ c[n] = a[n]
    BY <1>2, <1>4, <1>7
  <2>2. \A n \in D : f[n] = g[n]
    BY <1>6, <2>1
  <2>3. IsFiniteSet(D)
    BY <1>5
  <2>. QED  BY ONLY <2>2, <2>3, SumSame
<1>10. SumFunctionOnSet(k, B) = SumFunctionOnSet(f, E)
  <2>1. PICK h : h = [n \in B |-> Len(a) + n]
    OBVIOUS
  <2>2. \A n \in B : h[n] = Len(a) + n /\ h[n] \in E /\ n \in Int
    BY <1>2, <1>4, <1>5, <2>1
  <2>3. \A n \in B : k[n] = f[h[n]] /\ k[n] \in Int
    <3>1. ASSUME NEW n \in B PROVE k[n] = f[h[n]] /\ k[n] \in Int
      <4>1. PICK m : m = h[n]
        OBVIOUS
      <4>2. c[m] = b[n] /\ m \in S
        BY ONLY <1>2, <1>4, <1>7, <2>2, <3>1, <4>1
      <4>3. f[m] = (IF c[m].ret = x THEN c[m].delta ELSE 0)
        BY ONLY <1>6, <4>2
      <4>4. k[n] = (IF b[n].ret = x THEN b[n].delta ELSE 0) /\ k[n] \in Int
        BY ONLY <1>6, <3>1
      <4>. QED  BY ONLY <4>1, <4>2, <4>3, <4>4
    <3>. QED  BY <3>1
  <2>4. \A m, n \in B : h[m] = h[n] => m = n
    BY <1>5, <2>2
  <2>5. {h[n] : n \in B} = E
    <3>1. ASSUME NEW e \in E PROVE \E n \in B : h[n] = e
      <4>1. e - Len(a) \in B /\ e = Len(a) + (e - Len(a))
        BY <1>2, <1>4, <1>5
      <4>. QED  BY <2>2, <4>1
    <3>. QED  BY <2>2, <3>1
  <2>6. SumFunctionOnSet(k, B) = SumFunctionOnSet(f, {h[n] : n \in B})
    <3>1. IsFiniteSet(B)
      BY <1>5
    <3>. QED  BY ONLY <2>3, <2>4, <3>1, SumReindex, SMTT(40)
  <2>. QED  BY <2>5, <2>6
<1>. QED  BY <1>1, <1>5, <1>8, <1>9, <1>10

(* Rows of others add up to nothing.                                       *)
LEMMA MovedNone ==
    ASSUME NEW rows \in Seq(Movement), NEW x, \A n \in 1 .. Len(rows) : rows[n].ret # x
    PROVE  MovedBy(rows, x) = 0
<1>1. PICK f, S : f = Terms(rows, x) /\ S = 1 .. Len(rows)
  OBVIOUS
<1>2. MovedBy(rows, x) = SumFunctionOnSet(f, S) /\ IsFiniteSet(S) /\ \A n \in S : f[n] = 0
  BY <1>1, MovedTerms
<1>3. SumFunctionOnSet(f, S) = 0
  BY ONLY <1>2, SumZero
<1>. QED  BY <1>2, <1>3

(* No movement leaves the quantity where it is.                            *)
LEMMA EmptyChain == ASSUME NEW q PROVE Chained(q, <<>>, q)
  BY DEF Chained, Before

(* A movement whose result is its predecessor's plus its delta extends a   *)
(* chain.                                                                  *)
LEMMA ChainAppend ==
    ASSUME NEW q \in Int, NEW w \in Int, NEW rows \in Seq(Movement), Chained(q, rows, w),
           NEW m \in Movement, m.result = w + m.delta
    PROVE  Chained(q, Append(rows, m), m.result)
<1>1. PICK new : new = Append(rows, m)
  OBVIOUS
<1>2. /\ Len(new) = Len(rows) + 1 /\ new[Len(rows) + 1] = m /\ Len(rows) \in Nat
      /\ \A i \in 1 .. Len(rows) : new[i] = rows[i]
  BY <1>1
<1>3. ASSUME NEW i \in 1 .. Len(new)
      PROVE  new[i].result = Before(q, new, i) + new[i].delta
  <2>1. CASE i = Len(rows) + 1
    BY <1>2, <2>1 DEF Chained, Before
  <2>2. CASE i \in 1 .. Len(rows)
    BY <1>2, <2>2, SMTT(40) DEF Chained, Before
  <2>. QED  BY <1>2, <2>1, <2>2
<1>4. m.result = Before(q, new, Len(new) + 1)
  BY <1>2 DEF Before
<1>. QED  BY <1>1, <1>3, <1>4 DEF Chained

(* The rows of a session follow on those of the table.                     *)
LEMMA ChainConcat ==
    ASSUME NEW q \in Int, NEW w \in Int, NEW v \in Int,
           NEW a \in Seq(Movement), NEW b \in Seq(Movement), Chained(q, a, w), Chained(w, b, v)
    PROVE  Chained(q, a \o b, v)
<1>1. PICK c : c = a \o b
  OBVIOUS
<1>2. /\ Len(c) = Len(a) + Len(b) /\ Len(a) \in Nat /\ Len(b) \in Nat
      /\ \A i \in 1 .. Len(a) : c[i] = a[i]
      /\ \A i \in 1 .. Len(b) : c[Len(a) + i] = b[i]
  BY <1>1
<1>3. ASSUME NEW j \in 1 .. Len(b) PROVE Before(q, c, Len(a) + j) = Before(w, b, j)
  <2>1. CASE j = 1
    BY <1>2, <2>1 DEF Chained, Before
  <2>2. CASE j # 1
    <3>1. j - 1 \in 1 .. Len(b) /\ Len(a) + j - 1 = Len(a) + (j - 1) /\ Len(a) + j # 1
      BY <1>2, <2>2
    <3>. QED  BY <1>2, <2>2, <3>1, SMTT(40) DEF Before
  <2>. QED  BY <2>1, <2>2
<1>4. ASSUME NEW i \in 1 .. Len(c)
      PROVE  c[i].result = Before(q, c, i) + c[i].delta
  <2>1. CASE i \in 1 .. Len(a)
    <3>1. c[i] = a[i] /\ a[i].result = Before(q, a, i) + a[i].delta
      BY <1>2, <2>1 DEF Chained
    <3>2. Before(q, c, i) = Before(q, a, i)
      <4>1. CASE i = 1
        BY <4>1 DEF Before
      <4>2. CASE i # 1
        <5>1. i - 1 \in 1 .. Len(a)
          BY <1>2, <2>1, <4>2
        <5>. QED  BY <1>2, <4>2, <5>1 DEF Before
      <4>. QED  BY <4>1, <4>2
    <3>. QED  BY <3>1, <3>2
  <2>2. CASE i \notin 1 .. Len(a)
    <3>1. PICK j \in 1 .. Len(b) : i = Len(a) + j
      <4>1. i - Len(a) \in 1 .. Len(b) /\ i = Len(a) + (i - Len(a))
        BY <1>2, <2>2
      <4>. QED  BY <4>1
    <3>2. c[i] = b[j] /\ Before(q, c, i) = Before(w, b, j)
      BY <1>2, <1>3, <3>1
    <3>3. b[j].result = Before(w, b, j) + b[j].delta
      BY <3>1 DEF Chained
    <3>. QED  BY <3>2, <3>3
  <2>. QED  BY <2>1, <2>2
<1>5. v = Before(q, c, Len(c) + 1)
  <2>1. CASE Len(b) = 0
    BY <1>2, <2>1 DEF Chained, Before
  <2>2. CASE Len(b) # 0
    <3>1. Len(b) \in 1 .. Len(b) /\ Len(c) + 1 # 1 /\ Len(b) + 1 # 1
      BY <1>2, <2>2
    <3>. QED  BY <1>2, <3>1 DEF Chained, Before
  <2>. QED  BY <2>1, <2>2
<1>. QED  BY <1>1, <1>4, <1>5 DEF Chained

-----------------------------------------------------------------------------
(* The stock a refund moves.  Its copies of a product it has locked are    *)
(* where the rows it has written so far lead to from the table; those rows *)
(* are its own, and add up to the items its loop has passed.               *)

Late == {"hold", "insert", "post", "commit"}

QtyMoved(moved, lines, p) == SumOver({i \in moved : Item[i].product = p}, LAMBDA i : QtyOf(lines, i))

Copies(r) ==
    /\ tx[r].qty \in [Products -> Int] /\ tx[r].cost \in [Products -> Nat]
    /\ tx[r].rows \in [Products -> Seq(Movement)]

Follows(r) ==
    \A p \in Products :
        IF p \in tx[r].held
        THEN productLock[p] = r /\ Chained(qty[p], tx[r].rows[p], tx[r].qty[p])
        ELSE tx[r].rows[p] = <<>>

Loop(r) ==
    /\ tx[r].moved \subseteq ToRestock(tx[r].lines)
    /\ ~(Refunds(r) /\ pc[r] \in {"post", "commit"}) => tx[r].moved = {}
    /\ Refunds(r) /\ pc[r] \in Late => Restocked(tx[r].lines) \subseteq tx[r].held
    /\ Refunds(r) /\ pc[r] = "commit" => ToRestock(tx[r].lines) \subseteq tx[r].moved

Wrote(r) ==
    \A p \in Products :
        /\ \A n \in 1 .. Len(tx[r].rows[p]) : tx[r].rows[p][n].ret = r
        /\ MovedBy(tx[r].rows[p], r) = QtyMoved(tx[r].moved, tx[r].lines, p)

Stocked(r) == Copies(r) /\ Follows(r) /\ Loop(r) /\ Wrote(r)

(* Nothing moved adds up to nothing.                                       *)
LEMMA NothingMoved ==
    ASSUME NEW lines, NEW p PROVE QtyMoved({}, lines, p) = 0
<1>1. {i \in {} : Item[i].product = p} = {}
  OBVIOUS
<1>2. QtyMoved({}, lines, p) = SumFunctionOnSet([i \in {} |-> QtyOf(lines, i)], {})
  BY <1>1 DEF QtyMoved, SumOver
<1>. QED  BY <1>2, SumEmpty

(* Nor does an empty table.                                                *)
LEMMA NoRows == ASSUME NEW x PROVE MovedBy(<<>>, x) = 0
<1>1. PICK rows : rows = <<>>
  OBVIOUS
<1>2. rows \in Seq(Movement) /\ \A n \in 1 .. Len(rows) : rows[n].ret # x
  BY <1>1
<1>3. MovedBy(rows, x) = 0
  BY ONLY <1>2, MovedNone
<1>. QED  BY <1>1, <1>3

(* A session that has not begun its loop, or is over, is in order.         *)
LEMMA EmptyStocked ==
    ASSUME NEW r \in Requests, tx[r] = EmptyTx, ~(Refunds(r) /\ pc[r] \in Late)
    PROVE  Stocked(r)
<1>1. /\ tx[r].held = {} /\ tx[r].moved = {} /\ tx[r].rows = [p \in Products |-> <<>>]
      /\ tx[r].qty = [p \in Products |-> 0] /\ tx[r].cost = [p \in Products |-> 0]
  BY EmptySession
<1>2. \A p \in Products : tx[r].rows[p] = <<>>
  BY <1>1
<1>3. Copies(r)
  BY <1>1 DEF Copies
<1>4. Follows(r)
  BY <1>1, <1>2 DEF Follows
<1>5. Loop(r)
  BY <1>1 DEF Loop, Late
<1>6. Wrote(r)
  <2>1. ASSUME NEW p \in Products
        PROVE  /\ \A n \in 1 .. Len(tx[r].rows[p]) : tx[r].rows[p][n].ret = r
               /\ MovedBy(tx[r].rows[p], r) = QtyMoved(tx[r].moved, tx[r].lines, p)
    BY <1>1, <1>2, NothingMoved, NoRows
  <2>. QED  BY <2>1 DEF Wrote
<1>. QED  BY <1>3, <1>4, <1>5, <1>6 DEF Stocked

(* And so is one that a step has ended.                                    *)
LEMMA EndStocked ==
    ASSUME NEW r \in Requests, tx'[r] = EmptyTx, ~(Refunds(r)' /\ pc'[r] \in Late)
    PROVE  Stocked(r)'
<1>1. /\ tx'[r].held = {} /\ tx'[r].moved = {} /\ tx'[r].rows = [p \in Products |-> <<>>]
      /\ tx'[r].qty = [p \in Products |-> 0] /\ tx'[r].cost = [p \in Products |-> 0]
  BY EmptySession
<1>2. \A p \in Products : tx'[r].rows[p] = <<>>
  BY <1>1
<1>3. Copies(r)'
  BY <1>1 DEF Copies
<1>4. Follows(r)'
  BY <1>1, <1>2 DEF Follows
<1>5. Loop(r)'
  BY <1>1 DEF Loop, Late
<1>6. Wrote(r)'
  <2>1. ASSUME NEW p \in Products
        PROVE  /\ \A n \in 1 .. Len(tx'[r].rows[p]) : tx'[r].rows[p][n].ret = r
               /\ MovedBy(tx'[r].rows[p], r) = QtyMoved(tx'[r].moved, tx'[r].lines, p)
    BY <1>1, <1>2, NothingMoved, NoRows
  <2>. QED  BY <2>1 DEF Wrote
<1>. QED  BY <1>3, <1>4, <1>5, <1>6 DEF Stocked

(* A step that writes neither the session's copies nor the products it     *)
(* holds leaves it in order.                                               *)
LEMMA StockSame ==
    ASSUME NEW r \in Requests, Stocked(r), req' = req,
           Work(tx'[r]) = Work(tx[r]), tx'[r].held = tx[r].held,
           tx'[r].lines = tx[r].lines \/ tx[r].moved = {},
           \A p \in Products : p \in tx[r].held => productLock'[p] = productLock[p] /\ qty'[p] = qty[p],
           ~(Refunds(r) /\ pc'[r] \in {"post", "commit"}) => tx[r].moved = {},
           Refunds(r) /\ pc'[r] \in Late => Restocked(tx'[r].lines) \subseteq tx[r].held,
           Refunds(r) /\ pc'[r] = "commit" => ToRestock(tx'[r].lines) \subseteq tx[r].moved
    PROVE  Stocked(r)'
<1>1. /\ tx'[r].qty = tx[r].qty /\ tx'[r].cost = tx[r].cost
      /\ tx'[r].moved = tx[r].moved /\ tx'[r].rows = tx[r].rows
  BY DEF Work
<1>2. Refunds(r)' <=> Refunds(r)
  BY DEF Refunds
<1>3. Copies(r)'
  BY <1>1 DEF Stocked, Copies
<1>4. Follows(r)'
  BY <1>1 DEF Stocked, Follows
<1>5. Loop(r)'
  BY <1>1, <1>2 DEF Stocked, Loop
<1>6. Wrote(r)'
  <2>1. ASSUME NEW p \in Products
        PROVE  /\ \A n \in 1 .. Len(tx'[r].rows[p]) : tx'[r].rows[p][n].ret = r
               /\ MovedBy(tx'[r].rows[p], r) = QtyMoved(tx'[r].moved, tx'[r].lines, p)
    <3>1. /\ \A n \in 1 .. Len(tx[r].rows[p]) : tx[r].rows[p][n].ret = r
          /\ MovedBy(tx[r].rows[p], r) = QtyMoved(tx[r].moved, tx[r].lines, p)
      BY DEF Stocked, Wrote
    <3>2. QtyMoved(tx'[r].moved, tx'[r].lines, p) = QtyMoved(tx[r].moved, tx[r].lines, p)
      BY <1>1, NothingMoved
    <3>. QED  BY <1>1, <3>1, <3>2
  <2>. QED  BY <2>1 DEF Wrote
<1>. QED  BY <1>3, <1>4, <1>5, <1>6 DEF Stocked

(* Rounding a fraction and averaging costs give integers.                  *)
LEMMA WacInt ==
    ASSUME NEW q \in Int, NEW c \in Int, NEW n \in Int, NEW u \in Int
    PROVE  compute_new_wac(q, c, n, u) \in Int
<1>1. ASSUME NEW a \in Int, NEW d \in Int, d > 0 PROVE RoundHalfUp(a, d) \in Int
  <2>1. \A k \in Int : k \div (2 * d) \in Int
    BY <1>1
  <2>2. 2 * a + d \in Int /\ 2 * (-a) + d \in Int
    OBVIOUS
  <2>3. (2 * a + d) \div (2 * d) \in Int /\ (2 * (-a) + d) \div (2 * d) \in Int
    BY <2>1, <2>2
  <2>. QED  BY <2>3 DEF RoundHalfUp
<1>2. PICK t, v : t = q + n /\ v = q * c + n * u
  OBVIOUS
<1>3. t \in Int /\ v \in Int
  BY <1>2
<1>4. compute_new_wac(q, c, n, u) =
         CASE t = 0 -> u [] t > 0 -> RoundHalfUp(v, t) [] OTHER -> RoundHalfUp(-v, -t)
  BY <1>2 DEF compute_new_wac
<1>5. CASE t = 0
  BY <1>4, <1>5
<1>6. CASE t > 0
  BY <1>1, <1>3, <1>4, <1>6
<1>7. CASE t < 0
  <2>1. -t \in Int /\ -t > 0 /\ -v \in Int /\ ~(t > 0) /\ t # 0
    BY <1>3, <1>7
  <2>2. compute_new_wac(q, c, n, u) = RoundHalfUp(-v, -t)
    BY <1>4, <2>1
  <2>. QED  BY <1>1, <2>1, <2>2
<1>. QED  BY <1>3, <1>5, <1>6, <1>7

(* One more item moved.                                                    *)
LEMMA MoreMoved ==
    ASSUME NEW lines \in Seq(ReturnLine), NEW moved, IsFiniteSet(moved), NEW i, i \notin moved, NEW p,
           NEW more, more = moved \cup {i}
    PROVE  /\ Item[i].product = p =>
                QtyMoved(more, lines, p) = QtyOf(lines, i) + QtyMoved(moved, lines, p)
           /\ Item[i].product # p => QtyMoved(more, lines, p) = QtyMoved(moved, lines, p)
<1>1. PICK S : S = {j \in moved : Item[j].product = p}
  OBVIOUS
<1>2. PICK T : T = {j \in more : Item[j].product = p}
  OBVIOUS
<1>3. PICK f, g : f = [j \in T |-> QtyOf(lines, j)] /\ g = [j \in S |-> QtyOf(lines, j)]
  OBVIOUS
<1>4. /\ QtyMoved(moved, lines, p) = SumFunctionOnSet(g, S)
      /\ QtyMoved(more, lines, p) = SumFunctionOnSet(f, T)
  BY <1>1, <1>2, <1>3 DEF QtyMoved, SumOver
<1>5. IsFiniteSet(S)
  <2>1. S \subseteq moved
    BY <1>1
  <2>. QED  BY <2>1, FS_Subset
<1>6. \A j \in S : g[j] = QtyOf(lines, j) /\ g[j] \in Int
  BY <1>3, QtyOfItem
<1>7. SumFunctionOnSet(g, S) \in Int
  BY ONLY <1>5, <1>6, SumInt
<1>8. CASE Item[i].product = p
  <2>1. T = S \cup {i} /\ i \notin S
    BY <1>1, <1>2, <1>8
  <2>2. f[i] = QtyOf(lines, i) /\ f[i] \in Int
    BY <1>3, <2>1, QtyOfItem
  <2>3. \A j \in S : f[j] = g[j] /\ g[j] \in Int
    BY <1>3, <1>6, <2>1
  <2>4. f[i] \in Int
    BY <2>2
  <2>5. SumFunctionOnSet(f, T) = f[i] + SumFunctionOnSet(g, S)
    <3>1. PICK e : e = i
      OBVIOUS
    <3>2. /\ e \in T /\ e \notin S /\ (\A j \in S : j \in T) /\ (\A j \in T : j = e \/ j \in S)
          /\ f[e] \in Int
      BY <2>1, <2>4, <3>1
    <3>3. SumFunctionOnSet(f, T) = f[e] + SumFunctionOnSet(g, S)
      BY ONLY <1>5, <2>3, <3>2, SumWith
    <3>. QED  BY <3>1, <3>3
  <2>. QED  BY <1>4, <1>8, <2>2, <2>5
<1>9. CASE Item[i].product # p
  <2>1. T = S
    BY <1>1, <1>2, <1>9
  <2>. QED  BY <1>3, <1>4, <1>7, <1>9, <2>1
<1>. QED  BY <1>8, <1>9

(* Locking a product keeps the session in order.                           *)
LEMMA LockStocked ==
    ASSUME Shape, qty \in [Products -> Int], cost \in [Products -> Nat],
           NEW r \in Requests, Stocked(r), LockProduct(r)
    PROVE  Stocked(r)'
<1>1. /\ Refunds(r) /\ pc[r] = "products" /\ req' = req /\ qty' = qty /\ pc' = pc
      /\ tx'[r].lines = tx[r].lines /\ tx'[r].moved = tx[r].moved /\ tx'[r].rows = tx[r].rows
  BY LockProductEffect DEF tables
<1>2. PICK p \in Wanted(r) : /\ \A o \in Wanted(r) : p <= o
                             /\ p \in Products /\ productLock[p] = NoOne
                             /\ productLock' = [productLock EXCEPT ![p] = r]
                             /\ tx'[r].held = tx[r].held \cup {p}
                             /\ tx'[r].qty = [tx[r].qty EXCEPT ![p] = qty[p]]
                             /\ tx'[r].cost = [tx[r].cost EXCEPT ![p] = cost[p]]
  BY ONLY Shape, r \in Requests, LockProduct(r), LockProductEffect
<1>3. Copies(r)'
  <2>1. /\ tx[r].qty \in [Products -> Int] /\ tx[r].cost \in [Products -> Nat]
        /\ tx[r].rows \in [Products -> Seq(Movement)] /\ qty[p] \in Int /\ cost[p] \in Nat
    BY <1>2 DEF Stocked, Copies
  <2>2. tx'[r].qty \in [Products -> Int] /\ tx'[r].cost \in [Products -> Nat]
    BY <1>2, <2>1
  <2>. QED  BY <1>1, <2>1, <2>2 DEF Copies
<1>4. Follows(r)'
  <2>1. ASSUME NEW o \in Products
        PROVE  IF o \in tx'[r].held
               THEN productLock'[o] = r /\ Chained(qty'[o], tx'[r].rows[o], tx'[r].qty[o])
               ELSE tx'[r].rows[o] = <<>>
    <3>1. IF o \in tx[r].held
          THEN productLock[o] = r /\ Chained(qty[o], tx[r].rows[o], tx[r].qty[o])
          ELSE tx[r].rows[o] = <<>>
      BY DEF Stocked, Follows
    <3>2. CASE o = p
      <4>1. p \notin tx[r].held
        BY <1>2 DEF Wanted
      <4>2. tx'[r].qty[o] = qty[o] /\ productLock'[o] = r /\ tx'[r].rows[o] = <<>> /\ o \in tx'[r].held
        BY <1>1, <1>2, <3>1, <3>2, <4>1 DEF Shape, Stocked, Copies
      <4>. QED  BY <1>1, <4>2, EmptyChain
    <3>3. CASE o # p
      <4>1. tx'[r].qty[o] = tx[r].qty[o] /\ productLock'[o] = productLock[o]
        BY <1>2, <3>3 DEF Shape, Stocked, Copies
      <4>. QED  BY <1>1, <1>2, <3>1, <3>3, <4>1
    <3>. QED  BY <3>2, <3>3
  <2>. QED  BY <2>1 DEF Follows
<1>5. Loop(r)'
  BY <1>1 DEF Stocked, Loop, Late, Refunds
<1>6. Wrote(r)'
  BY <1>1 DEF Stocked, Wrote
<1>. QED  BY <1>3, <1>4, <1>5, <1>6 DEF Stocked

(* So does restocking an item: its row follows on the session's rows, and  *)
(* the item joins those passed.                                            *)
LEMMA RestockStocked ==
    ASSUME Shape, qty \in [Products -> Int], NEW r \in Requests, Stocked(r), RestockItem(r), ~Ends(r)
    PROVE  Stocked(r)'
<1>1. /\ Refunds(r) /\ pc[r] = "post" /\ req' = req /\ qty' = qty /\ pc' = pc /\ productLock' = productLock
      /\ tx'[r].lines = tx[r].lines /\ tx'[r].held = tx[r].held
      /\ \E i \in ToRestock(tx[r].lines) \ tx[r].moved : Restocks(r, i)
  BY RestockEffect DEF tables, locks
<1>2. PICK i \in ToRestock(tx[r].lines) \ tx[r].moved : Restocks(r, i)
  BY <1>1
<1>3. PICK lines, p, n, moved : /\ lines = tx[r].lines /\ p = Item[i].product /\ n = QtyOf(lines, i)
                                /\ moved = tx[r].moved
  OBVIOUS
<1>4. PICK q, c, rows : q = tx[r].qty /\ c = tx[r].cost /\ rows = tx[r].rows
  OBVIOUS
<1>5. PICK w : w = compute_new_wac(q[p], c[p], n, Item[i].cost)
  OBVIOUS
<1>6. PICK m : m = [delta |-> n, result |-> q[p] + n, ret |-> r]
  OBVIOUS
<1>7. /\ ~(w < 0) /\ tx'[r].moved = moved \cup {i}
      /\ tx'[r].qty = [q EXCEPT ![p] = q[p] + n]
      /\ tx'[r].cost = [c EXCEPT ![p] = w]
      /\ tx'[r].rows = [rows EXCEPT ![p] = Append(rows[p], m)]
  BY <1>2, <1>3, <1>4, <1>5, <1>6, Zenon DEF Restocks
<1>8. /\ q \in [Products -> Int] /\ c \in [Products -> Nat] /\ rows \in [Products -> Seq(Movement)]
      /\ lines \in Seq(ReturnLine)
  BY <1>3, <1>4 DEF Stocked, Copies, Shape, IsSession
<1>9. /\ i \in ToRestock(lines) /\ i \notin moved /\ ToRestock(lines) \subseteq ItemsIn(lines)
      /\ ItemsIn(lines) \subseteq Items /\ moved \subseteq ToRestock(lines)
  <2>1. ItemsIn(lines) \subseteq Items
    BY <1>8, LinesFinite
  <2>. QED  BY <1>2, <1>3, <2>1 DEF ToRestock, Stocked, Loop
<1>10. p \in Products /\ p \in tx[r].held /\ Item[i].cost \in Nat /\ n \in Nat
  <2>1. i \in Items /\ n \in Nat
    BY <1>3, <1>8, <1>9, QtyOfItem
  <2>2. p \in Restocked(lines)
    BY <1>3, <1>9 DEF Restocked
  <2>3. p \in tx[r].held
    BY <1>1, <1>3, <2>2 DEF Stocked, Loop, Late
  <2>. QED  BY <1>3, <2>1, <2>3, ReturnsAssumption
<1>11. w \in Nat
  <2>1. q[p] \in Int /\ c[p] \in Int /\ n \in Int /\ Item[i].cost \in Int
    BY <1>8, <1>10
  <2>2. w \in Int
    BY <1>5, <2>1, WacInt
  <2>. QED  BY <1>7, <2>2
<1>12. m \in Movement /\ m.delta = n /\ m.result = q[p] + n /\ m.ret = r
  BY <1>6, <1>8, <1>10 DEF Movement
<1>13. /\ tx'[r].qty \in [Products -> Int] /\ tx'[r].qty[p] = q[p] + n
       /\ \A o \in Products : o # p => tx'[r].qty[o] = q[o]
  BY <1>7, <1>8, <1>10
<1>14. tx'[r].cost \in [Products -> Nat]
  BY <1>7, <1>8, <1>10, <1>11
<1>15. /\ tx'[r].rows \in [Products -> Seq(Movement)] /\ tx'[r].rows[p] = Append(rows[p], m)
       /\ \A o \in Products : o # p => tx'[r].rows[o] = rows[o]
  <2>1. Append(rows[p], m) \in Seq(Movement)
    BY <1>8, <1>10, <1>12
  <2>. QED  BY <1>7, <1>8, <1>10, <2>1
<1>16. Copies(r)'
  BY <1>13, <1>14, <1>15 DEF Copies
<1>17. Follows(r)'
  <2>1. ASSUME NEW o \in Products
        PROVE  IF o \in tx'[r].held
               THEN productLock'[o] = r /\ Chained(qty'[o], tx'[r].rows[o], tx'[r].qty[o])
               ELSE tx'[r].rows[o] = <<>>
    <3>1. IF o \in tx[r].held
          THEN productLock[o] = r /\ Chained(qty[o], rows[o], q[o])
          ELSE rows[o] = <<>>
      BY <1>4 DEF Stocked, Follows
    <3>2. CASE o = p
      <4>1. productLock[p] = r /\ Chained(qty[p], rows[p], q[p])
        BY <1>10, <3>1, <3>2
      <4>2. Chained(qty[p], Append(rows[p], m), m.result)
        BY <1>8, <1>10, <1>12, <4>1, ChainAppend
      <4>. QED  BY <1>1, <1>10, <1>12, <1>13, <1>15, <3>2, <4>1, <4>2
    <3>3. CASE o # p
      BY <1>1, <1>13, <1>15, <3>1, <3>3
    <3>. QED  BY <3>2, <3>3
  <2>. QED  BY <2>1 DEF Follows
<1>18. Loop(r)'
  <2>1. Refunds(r)' /\ pc'[r] = "post"
    BY <1>1 DEF Refunds
  <2>2. Restocked(lines) \subseteq tx[r].held
    BY <1>1, <1>3 DEF Stocked, Loop, Late
  <2>. QED  BY <1>1, <1>3, <1>7, <1>9, <2>1, <2>2 DEF Loop
<1>19. Wrote(r)'
  <2>1. ASSUME NEW o \in Products
        PROVE  /\ \A k \in 1 .. Len(tx'[r].rows[o]) : tx'[r].rows[o][k].ret = r
               /\ MovedBy(tx'[r].rows[o], r) = QtyMoved(tx'[r].moved, tx'[r].lines, o)
    <3>1. /\ \A k \in 1 .. Len(rows[o]) : rows[o][k].ret = r
          /\ MovedBy(rows[o], r) = QtyMoved(moved, lines, o)
          /\ rows[o] \in Seq(Movement)
      BY <1>3, <1>4, <1>8 DEF Stocked, Wrote
    <3>2. /\ p = o => QtyMoved(moved \cup {i}, lines, o) = n + QtyMoved(moved, lines, o)
          /\ p # o => QtyMoved(moved \cup {i}, lines, o) = QtyMoved(moved, lines, o)
      <4>1. IsFiniteSet(moved)
        BY <1>9, ReturnsAssumption, FS_Subset
      <4>2. PICK more : more = moved \cup {i}
        OBVIOUS
      <4>3. lines \in Seq(ReturnLine) /\ i \notin moved
        BY <1>8, <1>9
      <4>4. /\ Item[i].product = o =>
                 QtyMoved(more, lines, o) = QtyOf(lines, i) + QtyMoved(moved, lines, o)
            /\ Item[i].product # o => QtyMoved(more, lines, o) = QtyMoved(moved, lines, o)
        BY ONLY <4>1, <4>2, <4>3, MoreMoved
      <4>. QED  BY <1>3, <4>2, <4>4
    <3>3. QtyMoved(moved, lines, o) \in Int
      BY <3>1, MovedTerms, SMTT(40)
    <3>4. CASE o = p
      <4>1. PICK a, b : a = rows[o] /\ b = Append(rows[o], m)
        OBVIOUS
      <4>2. /\ Len(b) = Len(a) + 1 /\ Len(a) \in Nat /\ b[Len(a) + 1] = m
            /\ \A k \in 1 .. Len(a) : b[k] = a[k]
        BY <1>12, <3>1, <4>1
      <4>3. ASSUME NEW k \in 1 .. Len(b)  PROVE  b[k].ret = r
        <5>1. CASE k = Len(a) + 1
          BY ONLY <1>12, <4>2, <5>1
        <5>2. CASE k \in 1 .. Len(a)
          <6>1. b[k] = a[k]
            BY ONLY <4>2, <5>2
          <6>2. rows[o][k].ret = r
            BY <3>1, <4>1, <5>2
          <6>. QED  BY <4>1, <6>1, <6>2
        <5>3. k = Len(a) + 1 \/ k \in 1 .. Len(a)
          BY ONLY <4>2, k \in 1 .. Len(b)
        <5>. QED  BY <5>1, <5>2, <5>3
      <4>4. MovedBy(b, r) = n + MovedBy(a, r)
        BY <1>12, <3>1, <4>1, MovedAppend
      <4>. QED  BY <1>1, <1>3, <1>7, <1>15, <3>1, <3>2, <3>4, <4>1, <4>3, <4>4
    <3>5. CASE o # p
      BY <1>1, <1>3, <1>7, <1>15, <3>1, <3>2, <3>3, <3>5
    <3>. QED  BY <3>4, <3>5
  <2>. QED  BY <2>1 DEF Wrote
<1>. QED  BY <1>16, <1>17, <1>18, <1>19 DEF Stocked

(* The tables.  A product's movements lead to its quantity; each belongs   *)
(* to a sale or to a return of the table, and those of a return add up to  *)
(* its restocked lines.                                                    *)
Ids == {x.id : x \in returns}

Books ==
    /\ qty \in [Products -> Int] /\ cost \in [Products -> Nat] /\ ledger \in [Products -> Seq(Movement)]
    /\ \A p \in Products : Chained(InitialQty[p], ledger[p], qty[p])
    /\ \A p \in Products : \A n \in 1 .. Len(ledger[p]) : ledger[p][n].ret \in Ids \cup {NoOne}
    /\ \A x \in returns, p \in Products : Restores(x, p) = MovedBy(ledger[p], x.id)

StockInv == RowsInv /\ Books /\ \A r \in Requests : Stocked(r)

(* The restocked lines of the row r commits are the items its loop passed. *)
LEMMA RowRestores ==
    ASSUME NEW r, NEW lines \in Seq(ReturnLine), lines = tx[r].lines, NEW p, NEW row, row = ReturnRow(r)
    PROVE  Restores(row, p) = QtyMoved(ToRestock(lines), lines, p)
<1>1. row.lines = {[item |-> i, qty |-> QtyOf(lines, i), restock |-> RestockOf(lines, i)] :
                   i \in ItemsIn(lines)}
  BY DEF ReturnRow
<1>2. PICK D : D = {i \in ToRestock(lines) : Item[i].product = p}
  OBVIOUS
<1>3. PICK L : L = {l \in row.lines : l.restock /\ Item[l.item].product = p}
  OBVIOUS
<1>4. PICK h : h = [i \in D |-> [item |-> i, qty |-> QtyOf(lines, i), restock |-> RestockOf(lines, i)]]
  OBVIOUS
<1>5. \A i \in D : /\ h[i] = [item |-> i, qty |-> QtyOf(lines, i), restock |-> RestockOf(lines, i)]
                   /\ h[i].item = i /\ h[i].qty = QtyOf(lines, i) /\ h[i].restock = RestockOf(lines, i)
  BY <1>4
<1>6. \A i \in D : i \in ItemsIn(lines) /\ RestockOf(lines, i) /\ Item[i].product = p
  BY <1>2 DEF ToRestock
<1>7. {h[i] : i \in D} = L
  <2>1. ASSUME NEW i \in D PROVE h[i] \in L
    BY <1>1, <1>3, <1>5, <1>6
  <2>2. ASSUME NEW l \in L PROVE \E i \in D : h[i] = l
    <3>1. PICK i \in ItemsIn(lines) :
             l = [item |-> i, qty |-> QtyOf(lines, i), restock |-> RestockOf(lines, i)]
      BY <1>1, <1>3
    <3>2. PICK b : b = RestockOf(lines, i)
      OBVIOUS
    <3>3. l = [item |-> i, qty |-> QtyOf(lines, i), restock |-> b]
      BY <3>1, <3>2
    <3>4. l.item = i /\ l.restock = b
      BY <3>3
    <3>5. l.restock /\ Item[l.item].product = p
      BY <1>3, Zenon
    <3>6. RestockOf(lines, i) /\ Item[i].product = p
      BY <3>2, <3>4, <3>5, Zenon
    <3>7. i \in D
      BY <1>2, <3>6 DEF ToRestock
    <3>. QED  BY <1>5, <3>1, <3>7
  <2>. QED  BY <2>1, <2>2
<1>8. PICK f, g : f = [l \in L |-> l.qty] /\ g = [i \in D |-> QtyOf(lines, i)]
  OBVIOUS
<1>9. \A i \in D : g[i] = f[h[i]] /\ g[i] \in Int
  <2>1. ASSUME NEW i \in D PROVE g[i] = f[h[i]] /\ g[i] \in Int
    <3>1. h[i] \in L
      BY ONLY <1>7, i \in D
    <3>2. h[i].qty = QtyOf(lines, i)
      BY ONLY <1>5, i \in D, Zenon
    <3>3. QtyOf(lines, i) \in Int
      BY QtyOfItem
    <3>. QED  BY <1>8, <3>1, <3>2, <3>3
  <2>. QED  BY <2>1
<1>10. \A i, j \in D : h[i] = h[j] => i = j
  BY <1>5
<1>11. IsFiniteSet(D)
  <2>1. D \subseteq Items
    BY <1>6, LinesFinite
  <2>. QED  BY <2>1, ReturnsAssumption, FS_Subset
<1>12. SumFunctionOnSet(g, D) = SumFunctionOnSet(f, {h[i] : i \in D})
  BY ONLY <1>9, <1>10, <1>11, SumReindex
<1>13. Restores(row, p) = SumFunctionOnSet(f, L)
  BY <1>3, <1>8 DEF Restores, SumOver
<1>14. QtyMoved(ToRestock(lines), lines, p) = SumFunctionOnSet(g, D)
  BY <1>2, <1>8 DEF QtyMoved, SumOver
<1>. QED  BY <1>7, <1>12, <1>13, <1>14

(* The commit writes the stock of the products r holds, and nobody else's. *)
LEMMA CommitBooks ==
    ASSUME StockInv, NEW r \in Requests, CommitReturn(r)
    PROVE  Books'
<1>1. /\ Refunds(r) /\ pc[r] = "commit"
      /\ qty' = [p \in Products |-> IF p \in tx[r].held THEN tx[r].qty[p] ELSE qty[p]]
      /\ cost' = [p \in Products |-> IF p \in tx[r].held THEN tx[r].cost[p] ELSE cost[p]]
      /\ ledger' = [p \in Products |-> ledger[p] \o tx[r].rows[p]]
      /\ returns' = returns \cup {ReturnRow(r)}
  BY CommitEffect DEF StockInv, RowsInv, SaleInv
<1>2. PICK lines, row : lines = tx[r].lines /\ row = ReturnRow(r)
  OBVIOUS
<1>3. lines \in Seq(ReturnLine) /\ row.id = r /\ Ids' = Ids \cup {r}
  <2>1. lines \in Seq(ReturnLine)
    BY <1>2 DEF StockInv, RowsInv, SaleInv, Shape, IsSession
  <2>2. row.id = r
    BY <1>2 DEF ReturnRow
  <2>. QED  BY <1>1, <1>2, <2>1, <2>2 DEF Ids
<1>4. r \notin Ids
  BY <1>1 DEF StockInv, RowsInv, RowOver, Ids
<1>5. Stocked(r) /\ Books
  BY DEF StockInv
<1>6. ToRestock(lines) = tx[r].moved
  BY <1>1, <1>2, <1>5 DEF Stocked, Loop
<1>7. ASSUME NEW p \in Products
      PROVE  /\ qty[p] \in Int /\ tx[r].qty[p] \in Int /\ cost[p] \in Nat /\ tx[r].cost[p] \in Nat
             /\ ledger[p] \in Seq(Movement) /\ tx[r].rows[p] \in Seq(Movement)
             /\ InitialQty[p] \in Int
  BY <1>5, ReturnsAssumption DEF Stocked, Copies, Books
<1>8. qty' \in [Products -> Int] /\ cost' \in [Products -> Nat]
  BY <1>1, <1>7
<1>9. ledger' \in [Products -> Seq(Movement)]
  <2>1. \A p \in Products : ledger[p] \o tx[r].rows[p] \in Seq(Movement)
    BY <1>7
  <2>. QED  BY <1>1, <2>1
<1>10. ASSUME NEW p \in Products PROVE Chained(InitialQty[p], ledger'[p], qty'[p])
  <2>1. Chained(InitialQty[p], ledger[p], qty[p]) /\ ledger'[p] = ledger[p] \o tx[r].rows[p]
    BY <1>1, <1>5 DEF Books
  <2>2. Chained(qty[p], tx[r].rows[p], qty'[p]) /\ qty'[p] \in Int
    <3>1. CASE p \in tx[r].held
      BY <1>1, <1>5, <1>7, <3>1 DEF Stocked, Follows
    <3>2. CASE p \notin tx[r].held
      <4>1. tx[r].rows[p] = <<>> /\ qty'[p] = qty[p]
        BY <1>1, <1>5, <3>2 DEF Stocked, Follows
      <4>. QED  BY <1>7, <4>1, EmptyChain
    <3>. QED  BY <3>1, <3>2
  <2>3. PICK q, a, b, w, v : /\ q = InitialQty[p] /\ a = ledger[p] /\ b = tx[r].rows[p]
                             /\ w = qty[p] /\ v = qty'[p]
    OBVIOUS
  <2>4. /\ q \in Int /\ w \in Int /\ v \in Int /\ a \in Seq(Movement) /\ b \in Seq(Movement)
        /\ Chained(q, a, w) /\ Chained(w, b, v)
    BY <1>7, <2>1, <2>2, <2>3
  <2>5. Chained(q, a \o b, v)
    BY ONLY <2>4, ChainConcat
  <2>. QED  BY <2>1, <2>3, <2>5
<1>11. ASSUME NEW p \in Products, NEW n \in 1 .. Len(ledger'[p])
       PROVE  ledger'[p][n].ret \in Ids' \cup {NoOne}
  <2>1. PICK a, b, c : a = ledger[p] /\ b = tx[r].rows[p] /\ c = ledger'[p]
    OBVIOUS
  <2>2. c = a \o b /\ a \in Seq(Movement) /\ b \in Seq(Movement)
    BY <1>1, <1>7, <2>1
  <2>3. /\ \A k \in 1 .. Len(a) : a[k].ret \in Ids \cup {NoOne}
        /\ \A k \in 1 .. Len(b) : b[k].ret = r
    BY <1>5, <2>1 DEF Books, Stocked, Wrote
  <2>4. /\ n \in 1 .. Len(a) + Len(b) /\ Len(a) \in Nat /\ Len(b) \in Nat
        /\ \A k \in 1 .. Len(a) : c[k] = a[k]
        /\ \A k \in 1 .. Len(b) : c[Len(a) + k] = b[k]
    <3>1. /\ Len(c) = Len(a) + Len(b) /\ Len(a) \in Nat /\ Len(b) \in Nat
          /\ \A k \in 1 .. Len(a) : c[k] = a[k]
          /\ \A k \in 1 .. Len(b) : c[Len(a) + k] = b[k]
      BY ONLY <2>2
    <3>2. n \in 1 .. Len(c)
      BY <1>11, <2>1
    <3>. QED  BY <3>1, <3>2
  <2>5. c[n].ret \in Ids \cup {r, NoOne}
    <3>1. CASE n \in 1 .. Len(a)
      BY <2>3, <2>4, <3>1
    <3>2. CASE n \notin 1 .. Len(a)
      <4>1. n - Len(a) \in 1 .. Len(b) /\ n = Len(a) + (n - Len(a))
        BY <2>4, <3>2
      <4>. QED  BY <2>3, <2>4, <4>1
    <3>. QED  BY <3>1, <3>2
  <2>. QED  BY <1>3, <2>1, <2>5
<1>12. ASSUME NEW x \in returns', NEW p \in Products
       PROVE  Restores(x, p) = MovedBy(ledger'[p], x.id)
  <2>1. PICK a, b : a = ledger[p] /\ b = tx[r].rows[p]
    OBVIOUS
  <2>2. ledger'[p] = a \o b /\ a \in Seq(Movement) /\ b \in Seq(Movement)
    BY <1>1, <1>7, <2>1
  <2>3. MovedBy(ledger'[p], x.id) = MovedBy(a, x.id) + MovedBy(b, x.id)
    BY <2>2, MovedConcat
  <2>4. MovedBy(a, x.id) \in Int /\ MovedBy(b, x.id) \in Int
    BY <2>2, MovedTerms
  <2>5. CASE x = row
    <3>1. MovedBy(b, r) = QtyMoved(tx[r].moved, lines, p)
      BY <1>2, <1>5, <2>1 DEF Stocked, Wrote
    <3>2. MovedBy(a, r) = 0
      <4>1. \A k \in 1 .. Len(a) : a[k].ret # r
        BY <1>4, <1>5, <2>1, ReturnsAssumption DEF Books
      <4>. QED  BY <2>2, <4>1, MovedNone
    <3>3. Restores(row, p) = QtyMoved(tx[r].moved, lines, p)
      BY <1>2, <1>3, <1>6, RowRestores
    <3>. QED  BY <1>3, <2>3, <2>4, <2>5, <3>1, <3>2, <3>3
  <2>6. CASE x \in returns
    <3>1. Restores(x, p) = MovedBy(a, x.id) /\ x.id # r
      BY <1>4, <1>5, <2>1, <2>6 DEF Books, Ids
    <3>2. MovedBy(b, x.id) = 0
      <4>1. \A k \in 1 .. Len(b) : b[k].ret # x.id
        BY <1>5, <2>1, <3>1 DEF Stocked, Wrote
      <4>. QED  BY <2>2, <4>1, MovedNone
    <3>. QED  BY <2>3, <2>4, <3>1, <3>2
  <2>. QED  BY <1>1, <1>2, <2>5, <2>6
<1>. QED  BY <1>8, <1>9, <1>10, <1>11, <1>12 DEF Books

(* Nothing is moved before the first request.                              *)
LEMMA StockInit == Init => StockInv
<1>. SUFFICES ASSUME Init PROVE StockInv
  OBVIOUS
<1>1. RowsInv /\ Shape /\ \A r \in Requests : pc[r] \in {"idle", "done"} /\ tx[r] = EmptyTx
  BY RowsInit, InitShape DEF Init
<1>2. \A r \in Requests : Stocked(r)
  BY <1>1, EmptyStocked DEF Late
<1>3. /\ qty = InitialQty /\ cost = InitialCost /\ returns = {}
      /\ ledger = [p \in Products |-> <<>>]
  BY DEF Init
<1>4. \A p \in Products : ledger[p] = <<>> /\ Chained(InitialQty[p], ledger[p], qty[p])
  BY <1>3, EmptyChain
<1>5. Books
  BY <1>3, <1>4, ReturnsAssumption DEF Books
<1>. QED  BY <1>1, <1>2, <1>5 DEF StockInv

(* Two sessions hold no product together.                                  *)
LEMMA HeldApart ==
    ASSUME NEW r \in Requests, NEW o \in Requests, o # r, Stocked(r), Stocked(o),
           NEW p \in Products, p \in tx[o].held
    PROVE  p \notin tx[r].held /\ productLock[p] = o
  BY DEF Stocked, Follows

(* A session that does not step stays in order while the products it holds *)
(* and their locks stay.                                                   *)
LEMMA OtherStocked ==
    ASSUME NEW o \in Requests, Stocked(o), req' = req, pc'[o] = pc[o], tx'[o] = tx[o],
           \A p \in Products : p \in tx[o].held => productLock'[p] = productLock[p] /\ qty'[p] = qty[p]
    PROVE  Stocked(o)'
<1>1. /\ Work(tx'[o]) = Work(tx[o]) /\ tx'[o].held = tx[o].held /\ tx'[o].lines = tx[o].lines
  OBVIOUS
<1>2. /\ ~(Refunds(o) /\ pc'[o] \in {"post", "commit"}) => tx[o].moved = {}
      /\ Refunds(o) /\ pc'[o] \in Late => Restocked(tx'[o].lines) \subseteq tx[o].held
      /\ Refunds(o) /\ pc'[o] = "commit" => ToRestock(tx'[o].lines) \subseteq tx[o].moved
  BY DEF Stocked, Loop
<1>. QED  BY <1>1, <1>2, StockSame

(* Every step keeps the stock of the sessions and of the tables in order.  *)
LEMMA StockKept == StockInv /\ [Next]_vars => StockInv'
<1>. SUFFICES ASSUME StockInv, [Next]_vars
              PROVE  Books' /\ \A o \in Requests : Stocked(o)'
  BY RowsKept DEF StockInv
<1>. DEFINE Q == Books' /\ \A o \in Requests : Stocked(o)'
<1>0. /\ RowsInv /\ SaleInv /\ Shape /\ Books
      /\ \A o \in Requests : Stocked(o) /\ o # NoOne
  BY ReturnsAssumption DEF StockInv, RowsInv, SaleInv
<1>b. ASSUME UNCHANGED <<qty, cost, ledger, returns>> PROVE Books'
  BY <1>0, <1>b DEF Books, Ids
<1>o. ASSUME NEW r \in Requests, req' = req, qty' = qty,
             \A o \in Requests \ {r} : pc'[o] = pc[o] /\ tx'[o] = tx[o],
             \A p \in Products : productLock[p] \notin {r, NoOne} => productLock'[p] = productLock[p]
      PROVE  \A o \in Requests \ {r} : Stocked(o)'
  <2>1. ASSUME NEW o \in Requests \ {r} PROVE Stocked(o)'
    <3>1. \A p \in Products : p \in tx[o].held => productLock[p] = o
      BY <1>0 DEF Stocked, Follows
    <3>2. \A p \in Products : p \in tx[o].held => productLock'[p] = productLock[p] /\ qty'[p] = qty[p]
      BY <1>0, <1>o, <3>1
    <3>. QED  BY <1>0, <1>o, <3>2, OtherStocked
  <2>. QED  BY <2>1
<1>1. ASSUME NEW r \in Requests, NEW code, NEW row, Finish(r, code, row) PROVE Stocked(r)'
  <2>1. req' = req /\ pc'[r] = "done" /\ tx'[r] = EmptyTx
    BY <1>0, <1>1, EndEffect
  <2>2. ~(Refunds(r)' /\ pc'[r] \in Late)
    BY <2>1 DEF Late
  <2>. QED  BY <2>1, <2>2, EndStocked
<1>2. ASSUME NEW r \in Requests, Ends(r) PROVE Q
  <2>1. PICK code, row : Finish(r, code, row) /\ UNCHANGED tables
    BY <1>2 DEF Ends, Return
  <2>2. /\ req' = req /\ productLock' = Free(productLock, r)
        /\ \A o \in Requests \ {r} : pc'[o] = pc[o] /\ tx'[o] = tx[o]
    BY <1>0, <2>1, EndEffect
  <2>3. \A p \in Products : productLock[p] \notin {r, NoOne} => productLock'[p] = productLock[p]
    BY <1>0, <2>2 DEF Shape, Free
  <2>. QED  BY <1>1, <1>b, <1>o, <2>1, <2>2, <2>3 DEF tables
<1>3. ASSUME NEW r \in Requests, req' = req, UNCHANGED <<qty, cost, ledger, returns>>,
             \A o \in Requests \ {r} : pc'[o] = pc[o] /\ tx'[o] = tx[o],
             productLock' = productLock, Stocked(r)'
      PROVE  Q
  BY <1>b, <1>o, <1>3
<1>4. ASSUME NEW r \in Requests, Moves(r) PROVE Q
  <2>1. /\ req' = req /\ tx' = tx /\ UNCHANGED <<qty, cost, ledger, returns, productLock>>
        /\ Refunds(r) /\ Gate(r) /\ <<pc[r], pc'[r]>> \in Flow
        /\ \A o \in Requests \ {r} : pc'[o] = pc[o] /\ tx'[o] = tx[o]
    BY <1>0, <1>4, MoveEffect DEF tables, locks
  <2>2. /\ ~(pc'[r] \in {"post", "commit"}) => tx[r].moved = {}
        /\ pc'[r] \in Late => Restocked(tx[r].lines) \subseteq tx[r].held
        /\ pc'[r] = "commit" => ToRestock(tx[r].lines) \subseteq tx[r].moved
    BY <1>0, <2>1 DEF Stocked, Loop, Flow, Gate, Late
  <2>3. Stocked(r)'
    BY <1>0, <2>1, <2>2, StockSame
  <2>. QED  BY <1>3, <2>1, <2>3
<1>5. ASSUME NEW r \in Requests, LockSale(r), ~Ends(r) PROVE Q
  <2>1. /\ req' = req /\ UNCHANGED <<qty, cost, ledger, returns, productLock>>
        /\ Refunds(r) /\ pc[r] = "lock" /\ pc'[r] = "check"
        /\ Work(tx'[r]) = Work(tx[r]) /\ tx'[r].held = tx[r].held
        /\ \A o \in Requests \ {r} : pc'[o] = pc[o] /\ tx'[o] = tx[o]
    BY <1>0, <1>5, LockSaleEffect DEF tables
  <2>2. tx[r].moved = {} /\ pc'[r] \notin Late
    BY <1>0, <2>1 DEF Stocked, Loop, Late
  <2>3. pc'[r] # "commit"
    BY <2>1
  <2>4. Stocked(r)'
    BY <1>0, <2>1, <2>2, <2>3, StockSame
  <2>. QED  BY <1>3, <2>1, <2>4
<1>6. ASSUME NEW r \in Requests, CheckReturn(r), ~Ends(r) PROVE Q
  <2>1. /\ req' = req /\ UNCHANGED <<qty, cost, ledger, returns, productLock>>
        /\ Refunds(r) /\ pc[r] = "check" /\ pc'[r] = "products"
        /\ Work(tx'[r]) = Work(tx[r]) /\ tx'[r].held = tx[r].held
        /\ \A o \in Requests \ {r} : pc'[o] = pc[o] /\ tx'[o] = tx[o]
    BY <1>0, <1>6, CheckEffect DEF tables, locks
  <2>2. tx[r].moved = {} /\ pc'[r] \notin Late
    BY <1>0, <2>1 DEF Stocked, Loop, Late
  <2>3. pc'[r] # "commit"
    BY <2>1
  <2>4. Stocked(r)'
    BY <1>0, <2>1, <2>2, <2>3, StockSame
  <2>. QED  BY <1>3, <2>1, <2>4
<1>7. ASSUME NEW r \in Requests, LockProduct(r) PROVE Q
  <2>1. /\ req' = req /\ UNCHANGED <<qty, cost, ledger, returns, pc>>
        /\ \A o \in Requests \ {r} : pc'[o] = pc[o] /\ tx'[o] = tx[o]
    BY <1>0, <1>7, LockProductEffect DEF tables
  <2>2. PICK p \in Products : productLock[p] = NoOne /\ productLock' = [productLock EXCEPT ![p] = r]
    BY <1>0, <1>7, LockProductEffect
  <2>3. \A x \in Products : productLock[x] \notin {r, NoOne} => productLock'[x] = productLock[x]
    BY <1>0, <2>2 DEF Shape
  <2>4. Stocked(r)'
    BY <1>0, <1>7, LockStocked DEF Books
  <2>. QED  BY <1>b, <1>o, <2>1, <2>3, <2>4
<1>8. ASSUME NEW r \in Requests, HoldShift(r) PROVE Q
  <2>1. /\ req' = req /\ UNCHANGED <<qty, cost, ledger, returns, productLock>>
        /\ Refunds(r) /\ pc[r] = "hold" /\ pc'[r] = "insert" /\ tx'[r].lines = tx[r].lines
        /\ Work(tx'[r]) = Work(tx[r]) /\ tx'[r].held = tx[r].held
        /\ \A o \in Requests \ {r} : pc'[o] = pc[o] /\ tx'[o] = tx[o]
    BY <1>0, <1>8, HoldShiftEffect DEF tables
  <2>2. tx[r].moved = {} /\ Restocked(tx'[r].lines) \subseteq tx[r].held
    BY <1>0, <2>1 DEF Stocked, Loop, Late
  <2>3. pc'[r] # "commit"
    BY <2>1
  <2>4. Stocked(r)'
    BY <1>0, <2>1, <2>2, <2>3, StockSame
  <2>. QED  BY <1>3, <2>1, <2>4
<1>9. ASSUME NEW r \in Requests, RestockItem(r), ~Ends(r) PROVE Q
  <2>1. /\ req' = req /\ UNCHANGED <<qty, cost, ledger, returns, productLock, pc>>
        /\ \A o \in Requests \ {r} : pc'[o] = pc[o] /\ tx'[o] = tx[o]
    BY <1>0, <1>9, RestockEffect DEF tables, locks
  <2>2. Stocked(r)'
    BY <1>0, <1>9, RestockStocked DEF Books
  <2>. QED  BY <1>3, <2>1, <2>2
<1>10. ASSUME NEW r \in Requests, CommitReturn(r) PROVE Q
  <2>1. /\ Finish(r, "OK", r)
        /\ qty' = [p \in Products |-> IF p \in tx[r].held THEN tx[r].qty[p] ELSE qty[p]]
    BY <1>0, <1>10, CommitEffect
  <2>2. /\ req' = req /\ productLock' = Free(productLock, r)
        /\ \A o \in Requests \ {r} : pc'[o] = pc[o] /\ tx'[o] = tx[o]
    BY <1>0, <2>1, EndEffect
  <2>3. ASSUME NEW o \in Requests \ {r} PROVE Stocked(o)'
    <3>1. ASSUME NEW p \in Products, p \in tx[o].held
          PROVE  productLock'[p] = productLock[p] /\ qty'[p] = qty[p]
      <4>1. p \notin tx[r].held /\ productLock[p] = o
        BY <1>0, <3>1, HeldApart
      <4>2. productLock'[p] = productLock[p]
        BY <1>0, <2>2, <4>1 DEF Shape, Free
      <4>. QED  BY <2>1, <4>1, <4>2
    <3>. QED  BY <1>0, <2>2, <3>1, OtherStocked
  <2>4. Books'
    BY <1>10, CommitBooks
  <2>. QED  BY <1>1, <2>1, <2>3, <2>4
<1>11. ASSUME NEW r \in Requests, BeginClose(r), ~Ends(r) PROVE Q
  <2>1. /\ req' = req /\ UNCHANGED <<qty, cost, ledger, returns, productLock>>
        /\ req[r].kind = "CLOSE" /\ Work(tx'[r]) = Work(tx[r]) /\ tx'[r].held = tx[r].held
        /\ \A o \in Requests \ {r} : pc'[o] = pc[o] /\ tx'[o] = tx[o]
    BY <1>0, <1>11, BeginCloseEffect DEF tables
  <2>2. tx[r].moved = {} /\ ~Refunds(r)
    BY <1>0, <2>1 DEF Stocked, Loop, Refunds
  <2>3. Stocked(r)'
    BY <1>0, <2>1, <2>2, StockSame
  <2>. QED  BY <1>3, <2>1, <2>3
<1>12. ASSUME NEW r \in Requests, CommitClose(r) PROVE Q
  <2>1. Finish(r, "OK", NoOne) /\ UNCHANGED <<qty, cost, ledger, returns>>
    BY <1>12 DEF CommitClose
  <2>2. /\ req' = req /\ productLock' = Free(productLock, r)
        /\ \A o \in Requests \ {r} : pc'[o] = pc[o] /\ tx'[o] = tx[o]
    BY <1>0, <2>1, EndEffect
  <2>3. \A p \in Products : productLock[p] \notin {r, NoOne} => productLock'[p] = productLock[p]
    BY <1>0, <2>2 DEF Shape, Free
  <2>. QED  BY <1>1, <1>b, <1>o, <2>1, <2>2, <2>3
<1>13. ASSUME NEW p \in Products, OtherSale(p) PROVE Q
  <2>1. /\ productLock[p] = NoOne /\ req' = req /\ tx' = tx /\ pc' = pc /\ productLock' = productLock
        /\ returns' = returns /\ cost' = cost /\ qty' = [qty EXCEPT ![p] = qty[p] - 1]
        /\ ledger' = [ledger EXCEPT ![p] =
              Append(ledger[p], [delta |-> -1, result |-> qty[p] - 1, ret |-> NoOne])]
    BY <1>13 DEF OtherSale, locks, session
  <2>2. PICK m : m = [delta |-> -1, result |-> qty[p] - 1, ret |-> NoOne]
    OBVIOUS
  <2>3. qty \in [Products -> Int] /\ ledger \in [Products -> Seq(Movement)] /\ qty[p] \in Int
    BY <1>0 DEF Books
  <2>4. m \in Movement /\ m.delta = -1 /\ m.result = qty[p] - 1 /\ m.ret = NoOne /\ m.result = qty[p] + m.delta
    BY <2>2, <2>3 DEF Movement
  <2>5. ledger' = [ledger EXCEPT ![p] = Append(ledger[p], m)]
    BY <2>1, <2>2, Zenon
  <2>6. Append(ledger[p], m) \in Seq(Movement)
    BY <2>3, <2>4
  <2>7. /\ qty' \in [Products -> Int] /\ qty'[p] = m.result
        /\ \A o \in Products : o # p => qty'[o] = qty[o]
    BY <2>1, <2>3, <2>4
  <2>8. /\ ledger' \in [Products -> Seq(Movement)] /\ ledger'[p] = Append(ledger[p], m)
        /\ \A o \in Products : o # p => ledger'[o] = ledger[o]
    BY <2>3, <2>5, <2>6
  <2>9. ASSUME NEW o \in Requests PROVE Stocked(o)'
    <3>1. \A x \in Products : x \in tx[o].held => x # p
      BY <1>0, <2>1 DEF Stocked, Follows
    <3>. QED  BY <1>0, <2>1, <2>7, <3>1, OtherStocked
  <2>10. ASSUME NEW o \in Products PROVE Chained(InitialQty[o], ledger'[o], qty'[o])
    <3>1. Chained(InitialQty[o], ledger[o], qty[o]) /\ InitialQty[o] \in Int
      BY <1>0, ReturnsAssumption DEF Books
    <3>2. CASE o = p
      <4>1. Chained(InitialQty[p], Append(ledger[p], m), m.result)
        BY <2>3, <2>4, <3>1, <3>2, ChainAppend
      <4>. QED  BY <2>7, <2>8, <3>2, <4>1
    <3>. QED  BY <2>7, <2>8, <3>1, <3>2
  <2>11. ASSUME NEW o \in Products, NEW n \in 1 .. Len(ledger'[o])
         PROVE  ledger'[o][n].ret \in Ids' \cup {NoOne}
    <3>1. Ids' = Ids /\ \A k \in 1 .. Len(ledger[o]) : ledger[o][k].ret \in Ids \cup {NoOne}
      BY <1>0, <2>1 DEF Books, Ids
    <3>2. CASE o = p
      <4>1. PICK a, b : a = ledger[o] /\ b = ledger'[o]
        OBVIOUS
      <4>2. a \in Seq(Movement) /\ b = Append(a, m)
        BY <2>3, <2>8, <3>2, <4>1
      <4>3. /\ Len(b) = Len(a) + 1 /\ Len(a) \in Nat /\ b[Len(a) + 1] = m
            /\ \A k \in 1 .. Len(a) : b[k] = a[k]
        BY ONLY <4>2
      <4>4. n \in 1 .. Len(a) \/ n = Len(a) + 1
        BY <2>11, <4>1, <4>3
      <4>. QED  BY <2>4, <3>1, <4>1, <4>3, <4>4
    <3>3. CASE o # p
      BY <2>8, <2>11, <3>1, <3>3
    <3>. QED  BY <3>2, <3>3
  <2>12. ASSUME NEW x \in returns', NEW o \in Products
         PROVE  Restores(x, o) = MovedBy(ledger'[o], x.id)
    <3>1. Restores(x, o) = MovedBy(ledger[o], x.id) /\ x.id # NoOne
      BY <1>0, <2>1 DEF Books, RowsInv, RowOver
    <3>2. CASE o = p
      <4>1. MovedBy(Append(ledger[p], m), x.id) =
               (IF m.ret = x.id THEN m.delta ELSE 0) + MovedBy(ledger[p], x.id)
        BY <2>3, <2>4, MovedAppend
      <4>2. MovedBy(ledger[p], x.id) \in Int
        BY <2>3, MovedTerms
      <4>3. m.ret # x.id
        BY <2>4, <3>1
      <4>4. MovedBy(Append(ledger[p], m), x.id) = MovedBy(ledger[p], x.id)
        BY <4>1, <4>2, <4>3
      <4>. QED  BY <2>8, <3>1, <3>2, <4>4, Zenon
    <3>3. CASE o # p
      BY <2>8, <3>1, <3>3
    <3>. QED  BY <3>2, <3>3
  <2>13. cost' \in [Products -> Nat]
    BY <1>0, <2>1 DEF Books
  <2>14. Books'
    BY <2>7, <2>8, <2>10, <2>11, <2>12, <2>13 DEF Books
  <2>. QED  BY <2>9, <2>14
<1>14. ASSUME UNCHANGED vars PROVE Q
  <2>1. UNCHANGED <<qty, cost, ledger, returns, productLock, req, pc, tx>>
    BY <1>14 DEF vars, tables, locks, session
  <2>2. ASSUME NEW o \in Requests PROVE Stocked(o)'
    BY <1>0, <2>1, OtherStocked
  <2>. QED  BY <1>b, <2>1, <2>2
<1>. HIDE DEF Q
<1>15. Q
  BY <1>0, <1>2, <1>4, <1>5, <1>6, <1>7, <1>8, <1>9, <1>10, <1>11, <1>12, <1>13, <1>14, Cases
<1>. QED  BY <1>15 DEF Q

-----------------------------------------------------------------------------
(* The amounts of a return.                                                *)

(* Division is monotone.                                                   *)
LEMMA DivUp ==
    ASSUME NEW a \in Nat, NEW c \in Nat, a <= c, NEW b \in Nat \ {0}
    PROVE  a \div b <= c \div b
<1>1. PICK k, l : k = a \div b /\ l = c \div b
  OBVIOUS
<1>2. /\ k \in Nat /\ b * k <= a /\ l \in Nat /\ c < b * l + b
  BY <1>1, DivBounds
<1>3. ~(k >= l + 1)
  <2>. SUFFICES ASSUME k >= l + 1 PROVE FALSE
    OBVIOUS
  <2>1. b * (l + 1) <= b * k /\ b * (l + 1) \in Nat /\ b * k \in Nat
    BY <1>2, ProductUp
  <2>2. b * (l + 1) = b * l + b
    BY <1>2
  <2>. QED  BY <1>2, <2>1, <2>2
<1>. QED  BY <1>1, <1>2, <1>3

(* More units are entitled to no less.                                     *)
LEMMA EntitledUp ==
    ASSUME NEW D \in Nat, NEW q \in Nat \ {0}, NEW a \in Nat, NEW c \in Nat, a <= c
    PROVE  Entitled(D, a, q) <= Entitled(D, c, q)
<1>1. PICK m, n, b : m = 2 * (D * a) + q /\ n = 2 * (D * c) + q /\ b = 2 * q
  OBVIOUS
<1>2. D * a \in Nat /\ D * c \in Nat /\ D * a <= D * c
  BY ProductUp
<1>3. m \in Nat /\ n \in Nat /\ m <= n /\ b \in Nat \ {0}
  BY <1>1, <1>2
<1>4. Entitled(D, a, q) = m \div b /\ Entitled(D, c, q) = n \div b
  BY <1>1, <1>2 DEF Entitled, RoundHalfUp
<1>. QED  BY <1>3, <1>4, DivUp

(* The parts of what a line gives back are not negative.                   *)
LEMMA LineParts ==
    ASSUME NEW i \in Items, NEW a \in Nat, NEW n \in Nat, a + n <= Item[i].qty, NEW f, f = LineRefund(i, a, n)
    PROVE  f.price \in Nat /\ f.discount \in Nat /\ f.tax \in Nat
<1>1. /\ Item[i].qty \in Nat \ {0} /\ Item[i].price \in Nat /\ Item[i].discount \in Nat
      /\ Item[i].tax \in Nat /\ QtyScale \in Nat \ {0}
  BY ReturnsAssumption
<1>2. PICK q : q = Item[i].qty
  OBVIOUS
<1>3. ASSUME NEW D \in Nat PROVE proportional_share(D, q, a, n) \in Nat
  <2>1. q \in Nat \ {0} /\ a + n <= q /\ a \in 0 .. q /\ a + n \in 0 .. q /\ a <= a + n /\ a + n \in Nat
    BY <1>1, <1>2
  <2>2. proportional_share(D, q, a, n) = Entitled(D, a + n, q) - Entitled(D, a, q)
    BY <2>1, ShareStep
  <2>3. Entitled(D, a + n, q) \in Nat /\ Entitled(D, a, q) \in Nat
    BY <2>1, EntitledBounds
  <2>4. Entitled(D, a, q) <= Entitled(D, a + n, q)
    BY <2>1, EntitledUp
  <2>. QED  BY <2>2, <2>3, <2>4
<1>4. RoundHalfUp(Item[i].price * n, QtyScale) \in Nat
  <2>1. PICK m : m = Item[i].price * n
    OBVIOUS
  <2>2. m \in Nat
    BY <1>1, <2>1
  <2>3. 2 * m + QtyScale \in Nat /\ 2 * QtyScale \in Nat \ {0}
    BY <1>1, <2>2
  <2>4. (2 * m + QtyScale) \div (2 * QtyScale) \in Nat
    BY <2>3, DivBounds
  <2>. QED  BY <2>1, <2>2, <2>4 DEF RoundHalfUp
<1>5. /\ f.price = RoundHalfUp(Item[i].price * n, QtyScale)
      /\ f.discount = proportional_share(Item[i].discount, q, a, n)
      /\ f.tax = proportional_share(Item[i].tax, q, a, n)
  BY <1>2 DEF LineRefund
<1>. QED  BY <1>1, <1>3, <1>4, <1>5

(* Sums of sums and differences.                                           *)
LEMMA SumParts ==
    ASSUME NEW S, IsFiniteSet(S), NEW f, NEW a, NEW b, NEW c,
           \A x \in S : a[x] \in Int /\ b[x] \in Int /\ c[x] \in Int /\ f[x] = a[x] - b[x] + c[x]
    PROVE  SumFunctionOnSet(f, S) = SumFunctionOnSet(a, S) - SumFunctionOnSet(b, S) + SumFunctionOnSet(c, S)
<1>1. PICK h : h = [x \in S |-> a[x] + c[x]]
  OBVIOUS
<1>2. \A x \in S : h[x] \in Int /\ h[x] = a[x] + c[x]
  BY <1>1
<1>3. S \subseteq S
  OBVIOUS
<1>4. SumFunctionOnSet(a, S) = SumFunctionOnSet(h, S) - SumFunctionOnSet(c, S)
  <2>1. /\ \A x \in S : h[x] \in Int
        /\ \A x \in S : c[x] \in Int /\ a[x] = h[x] - c[x]
        /\ \A x \in S : x \notin S => a[x] = h[x]
    BY <1>2
  <2>. QED  BY ONLY IsFiniteSet(S), <1>3, <2>1, SumMinus
<1>5. SumFunctionOnSet(f, S) = SumFunctionOnSet(h, S) - SumFunctionOnSet(b, S)
  <2>1. /\ \A x \in S : h[x] \in Int
        /\ \A x \in S : b[x] \in Int /\ f[x] = h[x] - b[x]
        /\ \A x \in S : x \notin S => f[x] = h[x]
    BY <1>2
  <2>. QED  BY ONLY IsFiniteSet(S), <1>3, <2>1, SumMinus
<1>6. /\ SumFunctionOnSet(a, S) \in Int /\ SumFunctionOnSet(b, S) \in Int
      /\ SumFunctionOnSet(c, S) \in Int /\ SumFunctionOnSet(h, S) \in Int
  <2>1. SumFunctionOnSet(a, S) \in Int
    BY SumInt
  <2>2. SumFunctionOnSet(b, S) \in Int
    BY SumInt
  <2>3. SumFunctionOnSet(c, S) \in Int
    BY SumInt
  <2>4. SumFunctionOnSet(h, S) \in Int
    BY <1>2, SumInt
  <2>. QED  BY <2>1, <2>2, <2>3, <2>4
<1>. QED  BY <1>4, <1>5, <1>6

(* The amounts the journal entry of r adds up, by item.                    *)
PriceOf(r)    == [i \in ItemsIn(tx[r].lines) |-> LinesRefunded(r)[i].price]
DiscountOf(r) == [i \in ItemsIn(tx[r].lines) |-> LinesRefunded(r)[i].discount]
TaxOf(r)      == [i \in ItemsIn(tx[r].lines) |-> LinesRefunded(r)[i].tax]
CostOf(r)     == [i \in ToRestock(tx[r].lines) |->
                    RoundHalfUp(QtyOf(tx[r].lines, i) * Item[i].cost, QtyScale)]

(* The columns of the entry are the sums of those amounts.                 *)
LEMMA EntrySums ==
    ASSUME NEW r
    PROVE  /\ ReturnEntry(r).id = r
           /\ ReturnEntry(r).debitRevenue = Total(PriceOf(r))
           /\ ReturnEntry(r).debitTax = Total(TaxOf(r))
           /\ ReturnEntry(r).creditDiscount = Total(DiscountOf(r))
           /\ ReturnEntry(r).creditRefund = Positive(RefundOf(tx[r].lines, tx[r].seen))
           /\ ReturnEntry(r).cogs = Total(CostOf(r))
<1>1. PICK S, F, lines : S = ItemsIn(tx[r].lines) /\ F = LinesRefunded(r) /\ lines = tx[r].lines
  OBVIOUS
<1>2. DOMAIN F = S
  BY <1>1 DEF LinesRefunded
<1>3. /\ ReturnEntry(r).id = r
      /\ ReturnEntry(r).debitRevenue = SumFunctionOnSet([i \in DOMAIN F |-> F[i].price], DOMAIN F)
      /\ ReturnEntry(r).debitTax = SumFunctionOnSet([i \in DOMAIN F |-> F[i].tax], DOMAIN F)
      /\ ReturnEntry(r).creditDiscount = SumFunctionOnSet([i \in DOMAIN F |-> F[i].discount], DOMAIN F)
      /\ ReturnEntry(r).creditRefund = Positive(RefundOf(tx[r].lines, tx[r].seen))
  BY <1>1 DEF ReturnEntry, SumOver
<1>4. ReturnEntry(r).cogs = SumFunctionOnSet(
         [i \in {j \in DOMAIN F : RestockOf(lines, j)} |->
             RoundHalfUp(QtyOf(lines, i) * Item[i].cost, QtyScale)],
         {j \in DOMAIN F : RestockOf(lines, j)})
  BY <1>1 DEF ReturnEntry, SumOver
<1>5. /\ ReturnEntry(r).debitRevenue = Total(PriceOf(r))
      /\ ReturnEntry(r).debitTax = Total(TaxOf(r))
      /\ ReturnEntry(r).creditDiscount = Total(DiscountOf(r))
  BY <1>1, <1>2, <1>3 DEF Total, PriceOf, TaxOf, DiscountOf
<1>6. {j \in DOMAIN F : RestockOf(lines, j)} = ToRestock(lines)
  BY <1>1, <1>2 DEF ToRestock
<1>7. ReturnEntry(r).cogs = Total(CostOf(r))
  BY <1>1, <1>4, <1>6 DEF Total, CostOf
<1>. QED  BY <1>3, <1>5, <1>7

(* The refund is the sum of its parts, and the entry balances.             *)
LEMMA EntryBalances ==
    ASSUME SaleInv, NEW r \in Requests, Refunds(r), pc[r] = "commit", NEW amount,
           amount = RefundOf(tx[r].lines, tx[r].seen), ~(amount < 0), NEW e, e = ReturnEntry(r)
    PROVE  /\ amount \in Nat /\ e.id = r /\ e.creditRefund = amount
           /\ e.debitRevenue + e.debitTax = e.creditDiscount + e.creditRefund
           /\ amount > 0 => HasLines(e)
<1>1. PICK lines, seen, S, F : /\ lines = tx[r].lines /\ seen = tx[r].seen /\ S = ItemsIn(lines)
                               /\ F = LinesRefunded(r)
  OBVIOUS
<1>2. /\ lines \in Seq(ReturnLine) /\ seen \in [Items -> Nat] /\ Fits(lines, seen, req[r].sale)
  BY <1>1 DEF SaleInv, Shape, IsSession, Admitted, Checked, Past
<1>3. S \subseteq Items /\ IsFiniteSet(S)
  <2>1. S \subseteq Items
    BY <1>1, <1>2, LinesFinite
  <2>. QED  BY <2>1, ReturnsAssumption, FS_Subset
<1>4. ASSUME NEW i \in S
      PROVE  /\ F[i].price \in Nat /\ F[i].discount \in Nat /\ F[i].tax \in Nat
             /\ F[i] = LineRefund(i, seen[i], QtyOf(lines, i))
  <2>1. i \in Items /\ seen[i] \in Nat /\ QtyOf(lines, i) \in Nat /\ Item[i].qty \in Nat
    BY <1>2, <1>3, QtyOfItem, ReturnsAssumption
  <2>2. QtyOf(lines, i) <= Item[i].qty - seen[i]
    BY <1>1, <1>2 DEF Fits
  <2>3. seen[i] + QtyOf(lines, i) <= Item[i].qty
    BY <2>1, <2>2
  <2>4. F[i] = LineRefund(i, seen[i], QtyOf(lines, i))
    BY <1>1 DEF LinesRefunded
  <2>. QED  BY <2>1, <2>3, <2>4, LineParts
<1>5. PICK f, a, b, c : /\ f = [i \in S |-> LineAmount(LineRefund(i, seen[i], QtyOf(lines, i)))]
                        /\ a = PriceOf(r) /\ b = DiscountOf(r) /\ c = TaxOf(r)
  OBVIOUS
<1>6. \A i \in S : /\ a[i] = F[i].price /\ b[i] = F[i].discount /\ c[i] = F[i].tax
                   /\ f[i] = LineAmount(LineRefund(i, seen[i], QtyOf(lines, i)))
  BY <1>1, <1>5 DEF PriceOf, DiscountOf, TaxOf
<1>7. \A i \in S : a[i] \in Int /\ b[i] \in Int /\ c[i] \in Int /\ f[i] = a[i] - b[i] + c[i]
  <2>1. ASSUME NEW i \in S
        PROVE  a[i] \in Int /\ b[i] \in Int /\ c[i] \in Int /\ f[i] = a[i] - b[i] + c[i]
    <3>1. f[i] = LineAmount(F[i])
      BY <1>4, <1>6
    <3>2. f[i] = F[i].price - F[i].discount + F[i].tax
      BY <3>1 DEF LineAmount
    <3>. QED  BY <1>4, <1>6, <3>2
  <2>. QED  BY <2>1
<1>8. PICK A, B, C : /\ A = SumFunctionOnSet(a, S) /\ B = SumFunctionOnSet(b, S)
                     /\ C = SumFunctionOnSet(c, S)
  OBVIOUS
<1>9. amount = A - B + C
  <2>1. amount = SumFunctionOnSet(f, S)
    BY <1>1, <1>5 DEF RefundOf, SumOver
  <2>2. SumFunctionOnSet(f, S) = SumFunctionOnSet(a, S) - SumFunctionOnSet(b, S) + SumFunctionOnSet(c, S)
    BY ONLY <1>3, <1>7, SumParts
  <2>. QED  BY <1>8, <2>1, <2>2
<1>10. A \in Nat /\ B \in Nat /\ C \in Nat
  <2>1. \A i \in S : a[i] \in Nat
    BY <1>4, <1>6
  <2>2. \A i \in S : b[i] \in Nat
    BY <1>4, <1>6
  <2>3. \A i \in S : c[i] \in Nat
    BY <1>4, <1>6
  <2>4. A \in Nat
    BY <1>3, <1>8, <2>1, SumNat
  <2>5. B \in Nat
    BY <1>3, <1>8, <2>2, SumNat
  <2>6. C \in Nat
    BY <1>3, <1>8, <2>3, SumNat
  <2>. QED  BY <2>4, <2>5, <2>6
<1>11. amount \in Nat
  BY <1>9, <1>10
<1>12. /\ e.id = r /\ e.debitRevenue = A /\ e.debitTax = C /\ e.creditDiscount = B
       /\ e.creditRefund = Positive(amount) /\ e.cogs = Total(CostOf(r))
  <2>1. DOMAIN a = S /\ DOMAIN b = S /\ DOMAIN c = S
    BY <1>1, <1>5 DEF PriceOf, DiscountOf, TaxOf
  <2>2. A = Total(a) /\ B = Total(b) /\ C = Total(c)
    BY <1>8, <2>1 DEF Total
  <2>. QED  BY <1>5, <2>2, EntrySums
<1>13. e.creditRefund = amount
  BY <1>11, <1>12 DEF Positive
<1>14. e.cogs \in Nat
  <2>1. PICK T, g : T = ToRestock(lines) /\ g = CostOf(r)
    OBVIOUS
  <2>2. DOMAIN g = T /\ \A i \in T : g[i] = RoundHalfUp(QtyOf(lines, i) * Item[i].cost, QtyScale)
    BY <1>1, <2>1 DEF CostOf
  <2>3. e.cogs = SumFunctionOnSet(g, T)
    BY <1>12, <2>1, <2>2 DEF Total
  <2>4. T \subseteq S
    BY <1>1, <2>1 DEF ToRestock
  <2>5. IsFiniteSet(T)
    BY <1>3, <2>4, FS_Subset
  <2>6. ASSUME NEW i \in T PROVE g[i] \in Nat
    <3>1. PICK m : m = QtyOf(lines, i) * Item[i].cost
      OBVIOUS
    <3>2. QtyOf(lines, i) \in Nat /\ Item[i].cost \in Nat /\ QtyScale \in Nat \ {0}
      BY <1>2, <1>3, <2>4, QtyOfItem, ReturnsAssumption
    <3>3. m \in Nat
      BY <3>1, <3>2
    <3>4. 2 * m + QtyScale \in Nat /\ 2 * QtyScale \in Nat \ {0}
      BY <3>2, <3>3
    <3>5. (2 * m + QtyScale) \div (2 * QtyScale) \in Nat
      BY <3>4, DivBounds
    <3>6. g[i] = RoundHalfUp(m, QtyScale)
      BY <2>2, <3>1
    <3>. QED  BY <3>3, <3>5, <3>6 DEF RoundHalfUp
  <2>. QED  BY <2>3, <2>5, <2>6, SumNat
<1>15. amount > 0 => HasLines(e)
  BY <1>10, <1>11, <1>12, <1>13, <1>14 DEF HasLines
<1>16. e.debitRevenue + e.debitTax = e.creditDiscount + e.creditRefund
  BY <1>9, <1>10, <1>11, <1>12, <1>13
<1>. QED  BY <1>11, <1>12, <1>13, <1>15, <1>16

-----------------------------------------------------------------------------
(* The papers of a return.  A refund past its INSERT owns its key; one     *)
(* past its checks carries the approval its amount needs; one about to     *)
(* commit pays no negative amount.                                         *)

InFlight(r) == Refunds(r) /\ pc[r] \in {"post", "commit"}

KeyFree(r) ==
    InFlight(r) => /\ \A x \in returns : x.key # req[r].key
                   /\ \A o \in Requests \ {r} : InFlight(o) => req[o].key # req[r].key

Needs(r) == NeedsApproval(req[r].store, RefundOf(tx[r].lines, tx[r].seen))

Approved(r) ==
    Refunds(r) /\ pc[r] \in Checked =>
        /\ req[r].store = SaleStore[req[r].sale]
        /\ Needs(r) => ApprovalError(req[r]) = "OK" /\ tx[r].approver = req[r].approver
        /\ ~Needs(r) => tx[r].approver = NoOne

Payable(r) == Refunds(r) /\ pc[r] = "commit" => ~(RefundOf(tx[r].lines, tx[r].seen) < 0)

RowOK(x) ==
    /\ x.id \in Requests /\ x.key \in Keys /\ x.sale \in Sales /\ x.lines \subseteq ReturnLine
    /\ x.amount \in Nat /\ x.approver \in Approvers \cup {NoOne} /\ x.shift \in Users \cup {NoOne}
    /\ NeedsApproval(SaleStore[x.sale], x.amount) =>
          x.approver \in Approvers \ {x.user} /\ MayUse(x.approver, SaleStore[x.sale])

Posted(x)  == x.amount > 0 => \E e \in journal : e.id = x.id /\ e.creditRefund = x.amount
EntryOK(e) == e.debitRevenue + e.debitTax = e.creditDiscount + e.creditRefund /\ e.id \in Ids

PaperInv ==
    /\ StockInv /\ OneReturnPerKey
    /\ \A r \in Requests : KeyFree(r) /\ Approved(r) /\ Payable(r)
    /\ \A x \in returns : RowOK(x) /\ Posted(x)
    /\ \A e \in journal : EntryOK(e)

(* Nothing is posted before the first request.                             *)
LEMMA PaperInit == Init => PaperInv
<1>. SUFFICES ASSUME Init PROVE PaperInv
  OBVIOUS
<1>1. StockInv /\ \A r \in Requests : pc[r] \in {"idle", "done"}
  BY StockInit, InitShape
<1>2. returns = {} /\ journal = {}
  BY DEF Init
<1>3. \A r \in Requests : KeyFree(r) /\ Approved(r) /\ Payable(r)
  BY <1>1 DEF KeyFree, InFlight, Approved, Payable, Checked, Past
<1>. QED  BY <1>1, <1>2, <1>3 DEF PaperInv, OneReturnPerKey

(* How a step advances session o: it gets in flight only through an INSERT *)
(* that found its key free, past its checks only through them, and to its  *)
(* commit only with an amount that is not negative.                        *)
SamePaper(o) == tx'[o].lines = tx[o].lines /\ tx'[o].seen = tx[o].seen /\ tx'[o].approver = tx[o].approver

Advance(o) ==
    /\ Refunds(o) /\ pc'[o] \in {"post", "commit"} =>
          \/ InFlight(o)
          \/ pc[o] = "insert" /\ Gate(o) /\ returns' = returns /\ \A u \in Requests \ {o} : pc'[u] = pc[u]
    /\ Refunds(o) /\ pc'[o] \in Checked =>
          \/ CheckReturn(o) /\ ~Ends(o)
          \/ pc[o] \in Checked /\ SamePaper(o)
    /\ Refunds(o) /\ pc'[o] = "commit" =>
          SamePaper(o) /\ (pc[o] = "commit" \/ ~(RefundOf(tx[o].lines, tx[o].seen) < 0))

(* Every step advances every session that way.                             *)
LEMMA Advances ==
    ASSUME Shape, [Next]_vars
    PROVE  /\ req' = req /\ \A o \in Requests : Advance(o)
           /\ (\E r \in Requests : CommitReturn(r)) \/ UNCHANGED <<returns, journal>>
<1>. DEFINE Q == /\ req' = req /\ \A o \in Requests : Advance(o)
                 /\ (\E r \in Requests : CommitReturn(r)) \/ UNCHANGED <<returns, journal>>
<1>1. ASSUME NEW o \in Requests, pc'[o] = pc[o], tx'[o] = tx[o] PROVE Advance(o)
  BY <1>1 DEF Advance, InFlight, SamePaper
<1>2. ASSUME NEW r \in Requests, NEW code, NEW row, Finish(r, code, row)
      PROVE  req' = req /\ \A o \in Requests : Advance(o)
  <2>1. /\ req' = req /\ pc'[r] = "done"
        /\ \A o \in Requests \ {r} : pc'[o] = pc[o] /\ tx'[o] = tx[o]
    BY <1>2, EndEffect
  <2>2. Advance(r)
    BY <2>1 DEF Advance, Checked, Past
  <2>. QED  BY <1>1, <2>1, <2>2
<1>3. ASSUME NEW r \in Requests, Ends(r) PROVE Q
  BY <1>2, <1>3 DEF Ends, Return, tables
<1>4. ASSUME NEW r \in Requests, Moves(r) PROVE Q
  <2>1. /\ req' = req /\ tx' = tx /\ UNCHANGED <<returns, journal>> /\ Refunds(r) /\ Gate(r)
        /\ <<pc[r], pc'[r]>> \in Flow /\ \A o \in Requests \ {r} : pc'[o] = pc[o]
    BY <1>4, MoveEffect DEF tables
  <2>2. Advance(r)
    <3>1. pc'[r] \in {"post", "commit"} =>
             \/ InFlight(r)
             \/ pc[r] = "insert" /\ Gate(r) /\ returns' = returns /\ \A u \in Requests \ {r} : pc'[u] = pc[u]
      BY <2>1 DEF Flow, InFlight
    <3>2. pc'[r] \in Checked => pc[r] \in Checked /\ SamePaper(r)
      BY <2>1 DEF Flow, Checked, Past, SamePaper
    <3>3. pc'[r] = "commit" => SamePaper(r) /\ ~(RefundOf(tx[r].lines, tx[r].seen) < 0)
      BY <2>1 DEF Flow, Gate, SamePaper
    <3>. QED  BY <3>1, <3>2, <3>3 DEF Advance
  <2>. QED  BY <1>1, <2>1, <2>2
<1>5. ASSUME NEW r \in Requests, LockSale(r), ~Ends(r) PROVE Q
  <2>1. /\ req' = req /\ UNCHANGED <<returns, journal>> /\ pc'[r] = "check"
        /\ \A o \in Requests \ {r} : pc'[o] = pc[o] /\ tx'[o] = tx[o]
    BY <1>5, LockSaleEffect DEF tables
  <2>2. Advance(r)
    BY <2>1 DEF Advance, Checked, Past
  <2>. QED  BY <1>1, <2>1, <2>2
<1>6. ASSUME NEW r \in Requests, CheckReturn(r), ~Ends(r) PROVE Q
  <2>1. /\ req' = req /\ UNCHANGED <<returns, journal>> /\ pc'[r] = "products"
        /\ \A o \in Requests \ {r} : pc'[o] = pc[o] /\ tx'[o] = tx[o]
    BY <1>6, CheckEffect DEF tables
  <2>2. Advance(r)
    BY <1>6, <2>1 DEF Advance
  <2>. QED  BY <1>1, <2>1, <2>2
<1>7. ASSUME NEW r \in Requests, LockProduct(r) PROVE Q
  <2>1. /\ req' = req /\ UNCHANGED <<returns, journal, pc>> /\ pc[r] = "products" /\ SamePaper(r)
        /\ \A o \in Requests \ {r} : pc'[o] = pc[o] /\ tx'[o] = tx[o]
    BY <1>7, LockProductEffect DEF tables, SamePaper
  <2>2. Advance(r)
    BY <2>1 DEF Advance
  <2>. QED  BY <1>1, <2>1, <2>2
<1>8. ASSUME NEW r \in Requests, HoldShift(r) PROVE Q
  <2>1. /\ req' = req /\ UNCHANGED <<returns, journal>> /\ pc[r] = "hold" /\ pc'[r] = "insert" /\ SamePaper(r)
        /\ \A o \in Requests \ {r} : pc'[o] = pc[o] /\ tx'[o] = tx[o]
    BY <1>8, HoldShiftEffect DEF tables, SamePaper
  <2>2. Advance(r)
    BY <2>1 DEF Advance, Checked, Past
  <2>. QED  BY <1>1, <2>1, <2>2
<1>9. ASSUME NEW r \in Requests, RestockItem(r), ~Ends(r) PROVE Q
  <2>1. /\ req' = req /\ UNCHANGED <<returns, journal, pc>> /\ pc[r] = "post" /\ SamePaper(r) /\ Refunds(r)
        /\ \A o \in Requests \ {r} : pc'[o] = pc[o] /\ tx'[o] = tx[o]
    BY <1>9, RestockEffect DEF tables, SamePaper
  <2>2. Advance(r)
    BY <2>1 DEF Advance, InFlight
  <2>. QED  BY <1>1, <2>1, <2>2
<1>10. ASSUME NEW r \in Requests, CommitReturn(r) PROVE Q
  <2>1. Finish(r, "OK", r)
    BY <1>10, CommitEffect
  <2>. QED  BY <1>2, <1>10, <2>1
<1>11. ASSUME NEW r \in Requests, BeginClose(r), ~Ends(r) PROVE Q
  <2>1. /\ req' = req /\ UNCHANGED <<returns, journal>> /\ req[r].kind = "CLOSE"
        /\ \A o \in Requests \ {r} : pc'[o] = pc[o] /\ tx'[o] = tx[o]
    BY <1>11, BeginCloseEffect DEF tables
  <2>2. Advance(r)
    BY <2>1 DEF Advance, Refunds
  <2>. QED  BY <1>1, <2>1, <2>2
<1>12. ASSUME NEW r \in Requests, CommitClose(r) PROVE Q
  <2>1. Finish(r, "OK", NoOne) /\ UNCHANGED <<returns, journal>>
    BY <1>12 DEF CommitClose
  <2>. QED  BY <1>2, <2>1
<1>13. ASSUME NEW p \in Products, OtherSale(p) PROVE Q
  <2>1. UNCHANGED <<returns, journal, req, pc, tx>>
    BY <1>13 DEF OtherSale, session
  <2>. QED  BY <1>1, <2>1
<1>14. ASSUME UNCHANGED vars PROVE Q
  <2>1. UNCHANGED <<returns, journal, req, pc, tx>>
    BY <1>14 DEF vars, tables, session
  <2>. QED  BY <1>1, <2>1
<1>. HIDE DEF Q
<1>15. Q
  BY <1>3, <1>4, <1>5, <1>6, <1>7, <1>8, <1>9, <1>10, <1>11, <1>12, <1>13, <1>14, Cases
<1>. QED  BY <1>15 DEF Q

(* The row a refund commits is within its columns and approved.            *)
LEMMA CommitRow ==
    ASSUME PaperInv, NEW r \in Requests, Refunds(r), pc[r] = "commit", NEW row, row = ReturnRow(r)
    PROVE  RowOK(row) /\ row.id = r /\ row.key = req[r].key
           /\ row.amount = RefundOf(tx[r].lines, tx[r].seen)
<1>1. /\ SaleInv /\ Shape /\ Approved(r) /\ Payable(r)
  BY DEF PaperInv, StockInv, RowsInv, SaleInv
<1>2. /\ row.id = r /\ row.key = req[r].key /\ row.sale = req[r].sale /\ row.user = req[r].user
      /\ row.amount = RefundOf(tx[r].lines, tx[r].seen) /\ row.approver = tx[r].approver
      /\ row.shift = tx[r].shift
      /\ row.lines = {[item |-> i, qty |-> QtyOf(tx[r].lines, i), restock |-> RestockOf(tx[r].lines, i)] :
                      i \in ItemsIn(tx[r].lines)}
  BY DEF ReturnRow
<1>3. PICK amount : amount = RefundOf(tx[r].lines, tx[r].seen)
  OBVIOUS
<1>4. amount \in Nat
  <2>1. ~(amount < 0)
    BY <1>1, <1>3 DEF Payable
  <2>. QED  BY <1>1, <1>3, <2>1, EntryBalances
<1>5. req[r].key \in Keys /\ req[r].sale \in Sales /\ tx[r].shift \in Users \cup {NoOne}
  BY <1>1, BodyFields DEF SaleInv, SaleHeld, Past, Shape, IsSession
<1>6. row.lines \subseteq ReturnLine
  <2>1. PICK lines : lines = tx[r].lines
    OBVIOUS
  <2>2. lines \in Seq(ReturnLine)
    BY <1>1, <2>1 DEF Shape, IsSession
  <2>3. ASSUME NEW i \in ItemsIn(lines)
        PROVE  [item |-> i, qty |-> QtyOf(lines, i), restock |-> RestockOf(lines, i)] \in ReturnLine
    <3>1. i \in Items /\ QtyOf(lines, i) \in Nat /\ QtyOf(lines, i) > 0
      BY <2>2, LinesFinite, QtyOfItem
    <3>2. PICK n, b : n = QtyOf(lines, i) /\ b = RestockOf(lines, i)
      OBVIOUS
    <3>3. n \in Nat \ {0}
      BY <3>1, <3>2
    <3>4. b \in BOOLEAN
      BY <3>2, Zenon DEF RestockOf
    <3>5. [item |-> i, qty |-> n, restock |-> b] \in ReturnLine
      BY ONLY <3>1, <3>3, <3>4, Zenon DEF ReturnLine
    <3>. QED  BY ONLY <3>2, <3>5, Zenon
  <2>4. \A l \in row.lines : \E i \in ItemsIn(lines) :
           l = [item |-> i, qty |-> QtyOf(lines, i), restock |-> RestockOf(lines, i)]
    BY ONLY <1>2, <2>1, Zenon
  <2>. QED  BY ONLY <2>3, <2>4, Zenon
<1>7. /\ row.approver \in Approvers \cup {NoOne}
      /\ NeedsApproval(SaleStore[row.sale], row.amount) =>
            row.approver \in Approvers \ {row.user} /\ MayUse(row.approver, SaleStore[row.sale])
  <2>1. /\ req[r].store = SaleStore[req[r].sale]
        /\ Needs(r) => ApprovalError(req[r]) = "OK" /\ tx[r].approver = req[r].approver
        /\ ~Needs(r) => tx[r].approver = NoOne
    BY <1>1 DEF Approved, Checked, Past
  <2>2. NeedsApproval(SaleStore[row.sale], row.amount) <=> Needs(r)
    BY <1>2, <2>1 DEF Needs
  <2>3. ApprovalError(req[r]) = "OK" => /\ req[r].approver \in Approvers \ {req[r].user}
                                        /\ MayUse(req[r].approver, req[r].store)
    BY DEF ApprovalError
  <2>. QED  BY <1>2, <2>1, <2>2, <2>3
<1>. QED  BY <1>2, <1>3, <1>4, <1>5, <1>6, <1>7 DEF RowOK

(* The commit files a row that is in order, with its entry.                *)
LEMMA CommitPapers ==
    ASSUME PaperInv, NEW r \in Requests, CommitReturn(r)
    PROVE  /\ OneReturnPerKey'
           /\ \A x \in returns' : RowOK(x) /\ Posted(x)'
           /\ \A e \in journal' : EntryOK(e)'
           /\ InFlight(r) /\ \A x \in returns' : x \in returns \/ x.key = req[r].key
<1>1. /\ Refunds(r) /\ pc[r] = "commit" /\ returns' = returns \cup {ReturnRow(r)}
      /\ journal' = journal \cup {e \in {ReturnEntry(r)} : HasLines(e)}
  BY CommitEffect DEF PaperInv, StockInv, RowsInv, SaleInv
<1>2. PICK row, entry, amount : /\ row = ReturnRow(r) /\ entry = ReturnEntry(r)
                                /\ amount = RefundOf(tx[r].lines, tx[r].seen)
  OBVIOUS
<1>3. RowOK(row) /\ row.id = r /\ row.key = req[r].key /\ row.amount = amount
  BY <1>1, <1>2, CommitRow
<1>4. /\ amount \in Nat /\ entry.id = r /\ entry.creditRefund = amount
      /\ entry.debitRevenue + entry.debitTax = entry.creditDiscount + entry.creditRefund
      /\ amount > 0 => HasLines(entry)
  <2>1. SaleInv /\ ~(amount < 0)
    BY <1>1, <1>2 DEF PaperInv, StockInv, RowsInv, Payable
  <2>. QED  BY <1>1, <1>2, <2>1, EntryBalances
<1>5. /\ returns' = returns \cup {row} /\ journal \subseteq journal'
      /\ \A e \in journal' : e \in journal \/ e = entry
      /\ amount > 0 => entry \in journal'
  BY <1>1, <1>2, <1>4
<1>6. /\ OneReturnPerKey /\ KeyFree(r) /\ InFlight(r)
      /\ (\A x \in returns : RowOK(x) /\ Posted(x)) /\ \A e \in journal : EntryOK(e)
  BY <1>1 DEF PaperInv, InFlight
<1>7. OneReturnPerKey'
  <2>1. \A x \in returns : x.key # row.key
    BY <1>3, <1>6 DEF KeyFree
  <2>. QED  BY <1>5, <1>6, <2>1 DEF OneReturnPerKey
<1>8. ASSUME NEW x \in returns' PROVE RowOK(x) /\ Posted(x)'
  <2>1. CASE x = row
    BY <1>3, <1>4, <1>5, <2>1 DEF Posted
  <2>2. CASE x \in returns
    BY <1>5, <1>6, <2>2 DEF Posted
  <2>. QED  BY <1>5, <2>1, <2>2
<1>9. ASSUME NEW e \in journal' PROVE EntryOK(e)'
  <2>1. r \in Ids' /\ Ids \subseteq Ids'
    BY <1>3, <1>5 DEF Ids
  <2>2. CASE e = entry
    BY <1>4, <2>1, <2>2 DEF EntryOK
  <2>3. CASE e \in journal
    BY <1>6, <2>1, <2>3 DEF EntryOK
  <2>. QED  BY <1>5, <2>2, <2>3
<1>. QED  BY <1>3, <1>5, <1>6, <1>7, <1>8, <1>9

(* Every step keeps the papers in order.                                   *)
LEMMA PaperKept == PaperInv /\ [Next]_vars => PaperInv'
<1>. SUFFICES ASSUME PaperInv, [Next]_vars PROVE PaperInv'
  OBVIOUS
<1>1. StockInv' /\ Shape /\ StockInv
  BY StockKept DEF PaperInv, StockInv, RowsInv, SaleInv
<1>2. /\ req' = req /\ \A o \in Requests : Advance(o)
      /\ (\E r \in Requests : CommitReturn(r)) \/ UNCHANGED <<returns, journal>>
  BY <1>1, Advances
<1>3. /\ OneReturnPerKey'
      /\ \A x \in returns' : RowOK(x) /\ Posted(x)'
      /\ \A e \in journal' : EntryOK(e)'
  <2>1. CASE \E r \in Requests : CommitReturn(r)
    BY <2>1, CommitPapers
  <2>2. CASE UNCHANGED <<returns, journal>>
    BY <2>2 DEF PaperInv, OneReturnPerKey, Posted, EntryOK, Ids
  <2>. QED  BY <1>2, <2>1, <2>2
<1>4. \A o \in Requests : KeyFree(o) /\ Approved(o) /\ Payable(o)
  BY DEF PaperInv
<1>5. \A o \in Requests : (InFlight(o)' <=> Refunds(o) /\ pc'[o] \in {"post", "commit"}) /\ (Refunds(o)' <=> Refunds(o))
  BY <1>2 DEF InFlight, Refunds
<1>6. ASSUME NEW o \in Requests PROVE KeyFree(o)'
  <2>. SUFFICES ASSUME InFlight(o)'
                PROVE  /\ \A x \in returns' : x.key # req[o].key
                       /\ \A u \in Requests \ {o} : InFlight(u)' => req[u].key # req[o].key
    BY <1>2 DEF KeyFree
  <2>1. Refunds(o) /\ pc'[o] \in {"post", "commit"} /\ Advance(o)
    BY <1>2, <1>5
  <2>2. CASE InFlight(o)
    <3>1. /\ \A x \in returns : x.key # req[o].key
          /\ \A u \in Requests \ {o} : InFlight(u) => req[u].key # req[o].key
      BY <1>4, <2>2 DEF KeyFree
    <3>2. \A x \in returns' : x.key # req[o].key
      <4>1. CASE \E r \in Requests : CommitReturn(r)
        <5>1. PICK r \in Requests : CommitReturn(r)
          BY <4>1
        <5>2. InFlight(r) /\ \A x \in returns' : x \in returns \/ x.key = req[r].key
          BY <5>1, CommitPapers
        <5>3. r # o
          <6>1. Finish(r, "OK", r)
            BY <1>1, <5>1, CommitEffect
          <6>2. pc'[r] = "done"
            BY <1>1, <6>1, EndEffect
          <6>. QED  BY <2>1, <6>2
        <5>. QED  BY <3>1, <5>2, <5>3
      <4>2. CASE UNCHANGED <<returns, journal>>
        BY <3>1, <4>2
      <4>. QED  BY <1>2, <4>1, <4>2
    <3>3. ASSUME NEW u \in Requests \ {o}, InFlight(u)' PROVE req[u].key # req[o].key
      <4>1. InFlight(u) \/ (pc[u] = "insert" /\ Gate(u))
        BY <1>2, <1>5, <3>3 DEF Advance
      <4>2. ASSUME pc[u] = "insert", Gate(u) PROVE req[u].key # req[o].key
        BY <2>2, <4>2 DEF Gate, KeyInFlight, InFlight
      <4>. QED  BY <3>1, <4>1, <4>2
    <3>. QED  BY <3>2, <3>3
  <2>3. CASE pc[o] = "insert" /\ Gate(o) /\ returns' = returns /\ \A u \in Requests \ {o} : pc'[u] = pc[u]
    <3>1. ~KeyInFlight(o) /\ ReturnsWithKey(req[o].key) = {}
      BY <2>3 DEF Gate
    <3>2. \A x \in returns' : x.key # req[o].key
      BY <2>3, <3>1 DEF ReturnsWithKey
    <3>3. \A u \in Requests \ {o} : InFlight(u)' => req[u].key # req[o].key
      BY <1>5, <2>3, <3>1 DEF KeyInFlight
    <3>. QED  BY <3>2, <3>3
  <2>. QED  BY <2>1, <2>2, <2>3 DEF Advance
<1>7. ASSUME NEW o \in Requests PROVE Approved(o)'
  <2>. SUFFICES ASSUME Refunds(o), pc'[o] \in Checked
                PROVE  /\ req[o].store = SaleStore[req[o].sale]
                       /\ Needs(o)' => ApprovalError(req[o]) = "OK" /\ tx'[o].approver = req[o].approver
                       /\ ~Needs(o)' => tx'[o].approver = NoOne
    BY <1>2, <1>5 DEF Approved
  <2>1. CASE CheckReturn(o) /\ ~Ends(o)
    <3>1. /\ Verdict(o) = "OK" /\ tx'[o].approver = Approver(o)
          /\ tx'[o].lines = tx[o].lines /\ tx'[o].seen = tx[o].seen
      BY <1>1, <2>1, CheckEffect
    <3>2. Needs(o)' <=> Needs(o)
      BY <1>2, <3>1 DEF Needs
    <3>3. req[o].store = SaleStore[req[o].sale] /\ (Needs(o) => ApprovalError(req[o]) = "OK")
      BY <3>1 DEF Verdict, Needs
    <3>4. Approver(o) = IF Needs(o) THEN req[o].approver ELSE NoOne
      BY DEF Approver, Needs
    <3>. QED  BY <3>1, <3>2, <3>3, <3>4
  <2>2. CASE pc[o] \in Checked /\ SamePaper(o)
    <3>1. Needs(o)' <=> Needs(o)
      BY <1>2, <2>2 DEF Needs, SamePaper
    <3>. QED  BY <1>4, <2>2, <3>1 DEF Approved, SamePaper
  <2>. QED  BY <1>2, <2>1, <2>2 DEF Advance
<1>8. ASSUME NEW o \in Requests PROVE Payable(o)'
  <2>. SUFFICES ASSUME Refunds(o), pc'[o] = "commit" PROVE ~(RefundOf(tx'[o].lines, tx'[o].seen) < 0)
    BY <1>5 DEF Payable
  <2>1. SamePaper(o) /\ (pc[o] = "commit" \/ ~(RefundOf(tx[o].lines, tx[o].seen) < 0))
    BY <1>2 DEF Advance
  <2>2. ~(RefundOf(tx[o].lines, tx[o].seen) < 0)
    BY <1>4, <2>1 DEF Payable
  <2>. QED  BY <2>1, <2>2 DEF SamePaper
<1>9. \A x \in returns' : RowOK(x)'
  BY <1>3 DEF RowOK
<1>. QED  BY <1>1, <1>3, <1>6, <1>7, <1>8, <1>9 DEF PaperInv

(* What the papers and the stock say together.                             *)
LEMMA PaperImplies == PaperInv => ReturnIsWhole
<1>. SUFFICES ASSUME PaperInv PROVE ReturnIsWhole
  OBVIOUS
<1>1. Shape /\ Books /\ OneReturnPerKey
  BY DEF PaperInv, StockInv, RowsInv, SaleInv
<1>2. (\A x \in returns : RowOK(x) /\ Posted(x)) /\ \A e \in journal : EntryOK(e)
  BY DEF PaperInv
<1>3. TypeOK
  BY <1>1, <1>2 DEF TypeOK, Shape, Statuses, Books, RowOK
<1>4. ApprovalRespected
  BY <1>2 DEF ApprovalRespected, RowOK, NeedsApproval
<1>5. ASSUME NEW p \in Products
      PROVE  /\ Chained(InitialQty[p], ledger[p], qty[p])
             /\ \A x \in returns : Restores(x, p) = MovedBy(ledger[p], x.id)
  BY <1>1 DEF Books
<1>6. /\ \A x \in returns : x.amount > 0 => \E e \in journal : e.id = x.id /\ e.creditRefund = x.amount
      /\ \A e \in journal : /\ e.debitRevenue + e.debitTax = e.creditDiscount + e.creditRefund
                             /\ e.id \in {x.id : x \in returns}
  BY <1>2 DEF Posted, EntryOK, Ids
<1>. QED  BY <1>1, <1>3, <1>4, <1>5, <1>6 DEF ReturnIsWhole

(* However requests interleave and fail, a committed return is committed   *)
(* once and whole: approved when it must be, its restocked items and only  *)
(* they in a movement ledger that leads to the cached quantity, its refund *)
(* posted by an entry that balances, and nothing posted without it         *)
(* (create_sale_return, one transaction).                                  *)
THEOREM ReturnsAreWhole == Spec => []ReturnIsWhole
  <1>1. PaperInv /\ [Next]_vars => PaperInv'
    BY PaperKept
  <1> QED BY <1>1, PaperInit, PaperImplies, PTL DEF Spec
=============================================================================
