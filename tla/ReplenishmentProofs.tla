------------------------- MODULE ReplenishmentProofs -------------------------
(***************************************************************************)
(* Proofs about Replenishment: a shortage gets one batch of plans that     *)
(* fits it, a plan is executed into one document, an order never exceeds   *)
(* the shortage that is left, and drafts never draw a source store below   *)
(* its own reorder point.                                                  *)
(***************************************************************************)
EXTENDS Replenishment, Sums, TLAPS

-----------------------------------------------------------------------------
(* Sessions.                                                               *)

Generates == {"inbound", "orders", "shortage", "plan"}
Executes  == {"header", "products", "revalidate", "execute"}
Labels == {"new", "begin", "done"} \cup Generates \cup Executes
Pending(r) == pc[r] \notin {"new", "done"}

(* A session that has begun serves a body its client may send.             *)
Served(r) ==
    /\ Pending(r) => req[r] \in load.sent[r]
    /\ pc[r] \in Generates => req[r].kind = "GENERATE"
    /\ pc[r] \in Executes => req[r].kind = "EXECUTE"

IsTx(x) == x = [qty |-> x.qty, inbound |-> x.inbound, left |-> x.left, new |-> x.new, quantity |-> x.quantity]

Shape ==
    /\ load \in Workloads
    /\ pc \in [Requests -> Labels]
    /\ held = [r \in Requests |-> held[r]] /\ req = [r \in Requests |-> req[r]] /\ tx = [r \in Requests |-> tx[r]]
    /\ \A r \in Requests : Served(r) /\ IsTx(tx[r])

(* No row, and no advisory lock, is held by two sessions.                  *)
Exclusive == \A a, b \in Requests : a # b => held[a] \cap held[b] = {}

-----------------------------------------------------------------------------
(* Rows.                                                                   *)

(* x is a plan that may stand under the number i.                          *)
IsPlan(i, x) ==
    /\ i \in PlanIds /\ x \in Plan /\ x.product = i[2]
    /\ x.needed > 0 /\ x.suggested > 0
    /\ (x.supplier = NoOne) # (x.from = NoOne)
    /\ x.from # NoOne => \E s \in Sisters(x.product) : Store[s] = x.from

(* The plans P of the generation and the product of i fit the shortage.    *)
Family(P, i) == {j \in DOMAIN P : j[1] = i[1] /\ j[2] = i[2]}
FromStores(P, i) == {j \in Family(P, i) : P[j].from # NoOne}
Drawn(P, i) == SumOver(FromStores(P, i), LAMBDA j : P[j].suggested)
Fits(P, i) ==
    /\ Drawn(P, i) <= P[i].needed
    /\ Cardinality(Family(P, i) \ FromStores(P, i)) <= 1
    /\ Family(P, i) # FromStores(P, i) => Drawn(P, i) < P[i].needed
    /\ \A j, k \in FromStores(P, i) : P[j].from = P[k].from => j = k

PlansOK == \A i \in DOMAIN plans : IsPlan(i, plans[i]) /\ pc[i[1]] = "done" /\ Fits(plans, i)
(* A document belongs to an executed plan and is for what that says.       *)
DocsOK ==
    \A d \in DOMAIN docs :
        /\ d \in Requests /\ pc[d] = "done" /\ docs[d] \in Doc /\ docs[d].qty > 0 /\ Accounted(docs[d])
        /\ docs[d].plan \in DOMAIN plans /\ plans[docs[d].plan].status = "EXECUTED"
        /\ docs[d].qty = plans[docs[d].plan].executed
OneDoc == \A d, e \in DOMAIN docs : docs[d].plan = docs[e].plan => d = e
HasDoc == \A i \in DOMAIN plans : plans[i].status = "EXECUTED" => \E d \in DOMAIN docs : docs[d].plan = i
OneKey == \A i, j \in DOMAIN plans : plans[i].key = plans[j].key /\ plans[i].key # NoOne => i = j
OneBatch == \A p \in Products : \A i, j \in ActivePlans(p) : i[1] = j[1]

Rows ==
    /\ qty \in [Products -> Int] /\ (\A p \in Products : qty[p] >= 0 \/ p \in AllowNegative)
    /\ prices \subseteq Price /\ active \subseteq Suppliers
    /\ PlansOK /\ DocsOK /\ OneDoc /\ HasDoc /\ OneKey /\ OneBatch

-----------------------------------------------------------------------------
(* What a session may rely on.                                             *)

(* An execution holds its approved plan and, from the revalidation on, the *)
(* products it is about.                                                   *)
Holds(r) ==
    pc[r] \in {"products", "revalidate", "execute"} =>
        /\ req[r].plan \in DOMAIN plans /\ plans[req[r].plan].status = "APPROVED"
        /\ <<"plan", req[r].plan>> \in held[r]
        /\ pc[r] # "products" => \A p \in ProductsOf(req[r].plan) : <<"product", p>> \in held[r]

(* The quantity is still within the shortage that is left.                 *)
InShortage(n, i) ==
    LET p == plans[i].product IN
    \E k \in 1 .. TargetOf(p) - qty[p] - OnOrder(p) : \E c \in prices :
        c.product = p /\ c.supplier = plans[i].supplier /\ n = Rounded(k, c)
(* The source store can still spare it beside the other drafts.            *)
Spared(n, i) == n + Committed(SourceOf(i)) <= qty[SourceOf(i)] - ReorderOf(SourceOf(i))

Decided(r) ==
    pc[r] = "execute" =>
        /\ tx[r].quantity \in Nat \ {0}
        /\ plans[req[r].plan].supplier # NoOne => InShortage(tx[r].quantity, req[r].plan)
        /\ plans[req[r].plan].supplier = NoOne => Spared(tx[r].quantity, req[r].plan)

(* What a generation has read.                                             *)
HasRead(r) ==
    /\ pc[r] \in Generates => tx[r].qty \in [Products -> Int]
    /\ pc[r] = "orders" => tx[r].inbound \in [Products -> Nat]
    /\ pc[r] \in {"new", "begin", "inbound", "orders"} => tx[r].new = <<>>

(* x is a row a generation is about to write.                              *)
IsDraft(x) == x.status = "RECOMMENDED" /\ x.key = NoOne

(* What a generation is about to write.                                    *)
Drafted(r) ==
    pc[r] \in {"shortage", "plan"} =>
        /\ tx[r].left \subseteq Products
        /\ \A p \in tx[r].left : tx[r].inbound[p] \in Nat \ {0}
        /\ \A i \in DOMAIN tx[r].new :
              /\ IsPlan(i, tx[r].new[i]) /\ IsDraft(tx[r].new[i]) /\ Fits(tx[r].new, i)
              /\ i[1] = r /\ i[2] \notin tx[r].left
              /\ <<"shortage", i[2]>> \in held[r] /\ ActivePlans(i[2]) = {}
        /\ pc[r] = "plan" => tx[r].quantity \in tx[r].left /\ <<"shortage", tx[r].quantity>> \in held[r]

Relies(r) == Holds(r) /\ Decided(r) /\ HasRead(r) /\ Drafted(r)

PlanInv == Shape /\ Exclusive /\ Rows /\ \A r \in Requests : Relies(r)

-----------------------------------------------------------------------------
(* The steps of a request.                                                 *)

(* The transaction of r is over: its locks are free.                       *)
Over(r) ==
    /\ pc' = [pc EXCEPT ![r] = "done"] /\ held' = [held EXCEPT ![r] = {}]
    /\ req' = [req EXCEPT ![r] = NoOne] /\ tx' = [tx EXCEPT ![r] = EmptyTx]
    /\ UNCHANGED load
(* It ends without having changed anything.                                *)
Ends(r) == Over(r) /\ UNCHANGED tables
(* It goes on to a label with more rows locked and x in memory.            *)
Moves(r, label, rows, x) ==
    /\ pc' = [pc EXCEPT ![r] = label] /\ held' = [held EXCEPT ![r] = @ \cup rows]
    /\ tx' = [tx EXCEPT ![r] = x]
    /\ UNCHANGED <<req, tables>>

(* A step that returns ends the transaction.                               *)
LEMMA ReturnEnds == ASSUME NEW r, NEW code, Return(r, code) PROVE Ends(r)
  BY DEF Return, Finish, Ends, Over, tables

(* What leaves the locks as they are adds none.                            *)
LEMMA MovesOn ==
    ASSUME Shape, NEW r \in Requests, NEW label, Goto(r, label), UNCHANGED held,
           NEW x, tx' = [tx EXCEPT ![r] = x]
    PROVE  Moves(r, label, {}, x)
  BY DEF Goto, Moves, Shape

(* What leaves the memory as it is moves with the memory it has.           *)
LEMMA MovesKept ==
    ASSUME Shape, NEW r \in Requests, NEW label, Goto(r, label), UNCHANGED tx,
           NEW row, Take(row, r)
    PROVE  Moves(r, label, {row}, tx[r])
  BY DEF Goto, Moves, Shape, Take

(* What becomes of a document.                                             *)
LivesOn(r) == ShipTransfer(r) \/ ReceiveTransfer(r) \/ ReceiveGoods(r) \/ SubmitOrder(r) \/ CancelDoc(r)

(* The steps that end with a write.                                        *)
Writes(r) ==
    \/ CommitPlans(r) \/ MovePlan(r) \/ (Revalidate(r) /\ MarkStale(r)) \/ ExecutePlan(r)
    \/ AddPrice(r) \/ SetSupplierActive(r) \/ MoveStock(r) \/ LivesOn(r)

(* Every step of a request begins it, ends it, takes it on or writes.      *)
LEMMA Cases ==
    ASSUME NEW r \in Requests, Submit(r) \/ Step(r) \/ Fail(r)
    PROVE  \/ Submit(r) \/ Ends(r)
           \/ ReadProducts(r) /\ ~Ends(r)
           \/ ReadInbound(r) \/ ReadOrders(r) \/ LockShortage(r) \/ PlanShortage(r)
           \/ BeginExecute(r) /\ ~Ends(r)
           \/ LockPlan(r) /\ ~Ends(r)
           \/ LockProduct(r)
           \/ Revalidate(r) /\ ~MarkStale(r)
           \/ Writes(r) /\ ~Ends(r) /\ Over(r)
<1>1. CASE Fail(r)
  BY <1>1, ReturnEnds DEF Fail
<1>2. ASSUME Finish(r), UNCHANGED load PROVE Over(r)
  BY <1>2 DEF Finish, Over
<1>3. Writes(r) => Ends(r) \/ Over(r)
  <2>1. CommitPlans(r) => Over(r)
    BY <1>2 DEF CommitPlans
  <2>2. MovePlan(r) => Ends(r) \/ Over(r)
    BY <1>2, ReturnEnds DEF MovePlan
  <2>3. MarkStale(r) => Over(r)
    BY <1>2 DEF MarkStale
  <2>4. ExecutePlan(r) => Ends(r) \/ Over(r)
    BY <1>2, ReturnEnds DEF ExecutePlan
  <2>5. AddPrice(r) => Ends(r) \/ Over(r)
    BY <1>2, ReturnEnds DEF AddPrice
  <2>6. SetSupplierActive(r) => Over(r)
    BY <1>2 DEF SetSupplierActive
  <2>7. ASSUME NEW p, NEW delta, NEW after, Movement(r, p, delta, after) PROVE Ends(r) \/ Over(r)
    BY <1>2, <2>7, ReturnEnds DEF Movement
  <2>8. MoveStock(r) => Ends(r) \/ Over(r)
    BY <2>7 DEF MoveStock
  <2>9. LivesOn(r) => Ends(r) \/ Over(r)
    <3>1. ShipTransfer(r) => Ends(r) \/ Over(r)
      BY <2>7, ReturnEnds DEF ShipTransfer
    <3>2. ReceiveTransfer(r) => Ends(r) \/ Over(r)
      BY <2>7, ReturnEnds DEF ReceiveTransfer
    <3>3. ReceiveGoods(r) => Ends(r) \/ Over(r)
      BY <2>7, ReturnEnds DEF ReceiveGoods
    <3>4. SubmitOrder(r) => Ends(r) \/ Over(r)
      BY <1>2, ReturnEnds DEF SubmitOrder, SetDoc
    <3>5. CancelDoc(r) => Ends(r) \/ Over(r)
      BY <1>2, ReturnEnds DEF CancelDoc, SetDoc
    <3>. QED  BY <3>1, <3>2, <3>3, <3>4, <3>5 DEF LivesOn
  <2>. QED  BY <2>1, <2>2, <2>3, <2>4, <2>5, <2>6, <2>8, <2>9 DEF Writes
<1>. QED  BY <1>1, <1>3 DEF Step, Writes, LivesOn

-----------------------------------------------------------------------------
(* Documents and sources.                                                  *)

(* The documents D are those of finitely many requests.                    *)
AreDocs(D) == \A d \in DOMAIN D : d \in Requests /\ D[d] \in Doc

(* Then what any of them count for adds up to a number.                    *)
LEMMA UnitsNat ==
    ASSUME NEW D, AreDocs(D), NEW S, S \subseteq DOMAIN D, NEW f, \A d \in S : f[d] \in Nat
    PROVE  IsFiniteSet(S) /\ SumFunctionOnSet(f, S) \in Nat
<1>1. DOMAIN D \subseteq Requests /\ IsFiniteSet(Requests)
  BY ReplenishmentAssumption DEF AreDocs
<1>2. IsFiniteSet(S)
  BY <1>1, FS_Subset
<1>. QED  BY <1>2, SumNat

(* What remains of a quantity is a number, and less when more is done.     *)
LEMMA RestNat ==
    ASSUME NEW n \in Nat, NEW a \in Nat, NEW b \in Nat
    PROVE  Rest(n, a) \in Nat /\ (a <= b => Rest(n, b) <= Rest(n, a))
  BY DEF Rest

(* So are the units on order, on their way and promised.                   *)
LEMMA PositionNat ==
    ASSUME DocsOK, NEW p
    PROVE  Inbound(p) \in Nat /\ OnOrder(p) \in Nat /\ Committed(p) \in Nat
<1>1. AreDocs(docs)
  BY DEF DocsOK, AreDocs
<1>2. \A d \in DOMAIN docs : docs[d].qty \in Nat /\ docs[d].shipped \in Nat /\ docs[d].received \in Nat
  BY DEF DocsOK, Doc
<1>3. \A d \in DOMAIN docs : Rest(docs[d].shipped, docs[d].received) \in Nat /\ Rest(docs[d].qty, docs[d].received) \in Nat
  BY <1>2, RestNat
<1>4. Inbound(p) \in Nat
  <2>. DEFINE S == Arriving(p)
              f == [d \in S |-> Rest(docs[d].shipped, docs[d].received)]
  <2>1. S \subseteq DOMAIN docs /\ \A d \in S : f[d] \in Nat
    BY <1>3 DEF Arriving
  <2>2. Inbound(p) = SumFunctionOnSet(f, S)
    BY DEF Inbound, SumOver
  <2>. HIDE DEF S, f
  <2>. QED  BY <1>1, <2>1, <2>2, UnitsNat
<1>5. OnOrder(p) \in Nat
  <2>. DEFINE S == OpenOrders(p)
              f == [d \in S |-> Rest(docs[d].qty, docs[d].received)]
  <2>1. S \subseteq DOMAIN docs /\ \A d \in S : f[d] \in Nat
    BY <1>3 DEF OpenOrders
  <2>2. OnOrder(p) = SumFunctionOnSet(f, S)
    BY DEF OnOrder, SumOver
  <2>. HIDE DEF S, f
  <2>. QED  BY <1>1, <2>1, <2>2, UnitsNat
<1>6. Committed(p) \in Nat
  <2>. DEFINE S == {d \in DOMAIN docs : docs[d].from = p /\ docs[d].status = "DRAFT"}
              f == [d \in S |-> docs[d].qty]
  <2>1. S \subseteq DOMAIN docs /\ \A d \in S : f[d] \in Nat
    BY <1>2
  <2>2. Committed(p) = SumFunctionOnSet(f, S)
    BY DEF Committed, SumOver
  <2>. HIDE DEF S, f
  <2>. QED  BY <1>1, <2>1, <2>2, UnitsNat
<1>. QED  BY <1>4, <1>5, <1>6

(* What is on order and promised after a step is a number, too.            *)
LEMMA NextNat == ASSUME AreDocs(docs'), NEW p PROVE OnOrder(p)' \in Nat /\ Committed(p)' \in Nat
<1>. PICK D : D = docs'
  OBVIOUS
<1>1. \A d \in DOMAIN D : D[d].qty \in Nat /\ D[d].received \in Nat
  BY DEF AreDocs, Doc
<1>2. \A d \in DOMAIN D : Rest(D[d].qty, D[d].received) \in Nat
  BY <1>1, RestNat
<1>3. OnOrder(p)' \in Nat
  <2>. DEFINE S == {d \in DOMAIN D : D[d].product = p /\ D[d].from = NoOne /\ D[d].status \in OpenOrderStatuses}
              f == [d \in S |-> Rest(D[d].qty, D[d].received)]
  <2>1. S \subseteq DOMAIN D /\ \A d \in S : f[d] \in Nat
    BY <1>2
  <2>2. OnOrder(p)' = SumFunctionOnSet(f, S)
    BY DEF OnOrder, OpenOrders, SumOver
  <2>. HIDE DEF S, f
  <2>. QED  BY <2>1, <2>2, UnitsNat
<1>4. Committed(p)' \in Nat
  <2>. DEFINE S == {d \in DOMAIN D : D[d].from = p /\ D[d].status = "DRAFT"}
              f == [d \in S |-> D[d].qty]
  <2>1. S \subseteq DOMAIN D /\ \A d \in S : f[d] \in Nat
    BY <1>1
  <2>2. Committed(p)' = SumFunctionOnSet(f, S)
    BY DEF Committed, SumOver
  <2>. HIDE DEF S, f
  <2>. QED  BY <2>1, <2>2, UnitsNat
<1>. QED  BY <1>3, <1>4

(* Reorder points and targets are numbers.                                 *)
LEMMA TargetNat == ASSUME NEW p \in Products PROVE ReorderOf(p) \in Nat /\ TargetOf(p) \in Nat
  BY ReplenishmentAssumption DEF ReorderOf, TargetOf

(* The source of a transfer plan is the product of a sister store.         *)
LEMMA SourceIn ==
    ASSUME NEW i \in DOMAIN plans, IsPlan(i, plans[i])
    PROVE  /\ plans[i].supplier # NoOne => SourceOf(i) = NoOne
           /\ plans[i].supplier = NoOne => SourceOf(i) \in Sisters(plans[i].product)
           /\ ProductsOf(i) \subseteq Products /\ plans[i].product \in ProductsOf(i)
           /\ plans[i].supplier = NoOne => SourceOf(i) \in ProductsOf(i)
<1>1. plans[i].product \in Products /\ (plans[i].from = NoOne <=> plans[i].supplier # NoOne)
  BY DEF IsPlan, Plan
<1>2. plans[i].supplier # NoOne => SourceOf(i) = NoOne
  BY <1>1 DEF SourceOf
<1>3. plans[i].supplier = NoOne => SourceOf(i) \in Sisters(plans[i].product)
  BY <1>1 DEF IsPlan, SourceOf
<1>4. Sisters(plans[i].product) \subseteq Products /\ NoOne \notin Products
  BY ReplenishmentAssumption DEF Sisters
<1>5. plans[i].supplier = NoOne => ProductsOf(i) = {plans[i].product, SourceOf(i)}
  BY <1>3, <1>4 DEF ProductsOf
<1>6. plans[i].supplier # NoOne => ProductsOf(i) = {plans[i].product}
  BY <1>2 DEF ProductsOf
<1>7. ProductsOf(i) \subseteq Products /\ plans[i].product \in ProductsOf(i)
  <2>1. CASE plans[i].supplier = NoOne
    BY <1>1, <1>3, <1>4, <1>5, <2>1
  <2>2. CASE plans[i].supplier # NoOne
    BY <1>1, <1>6, <2>2
  <2>. QED  BY <2>1, <2>2
<1>8. plans[i].supplier = NoOne => SourceOf(i) \in ProductsOf(i)
  BY <1>5
<1>. QED  BY <1>2, <1>3, <1>7, <1>8

-----------------------------------------------------------------------------
(* What other sessions leave alone.                                        *)

(* The two plans differ at most in status, key and executed quantity.      *)
SameCore(x, y) ==
    /\ x.product = y.product /\ x.needed = y.needed /\ x.suggested = y.suggested
    /\ x.supplier = y.supplier /\ x.from = y.from

KeepsPlans == \A i \in DOMAIN plans : i \in DOMAIN plans' /\ SameCore(plans'[i], plans[i])

(* The rows that o has locked stay what they are to o.                     *)
LeavesLocked(o) ==
    /\ \A i \in DOMAIN plans : <<"plan", i>> \in held[o] => plans'[i].status = plans[i].status
    /\ \A p \in Products : <<"shortage", p>> \in held[o] /\ ActivePlans(p) = {} => ActivePlans(p)' = {}
    /\ \A p \in Products : <<"product", p>> \in held[o] =>
          qty'[p] = qty[p] /\ OnOrder(p)' <= OnOrder(p) /\ Committed(p)' <= Committed(p)
    /\ prices \subseteq prices'

(* A plan keeps its source and its products.                               *)
LEMMA SourceKept ==
    ASSUME KeepsPlans, NEW i \in DOMAIN plans
    PROVE  SourceOf(i)' = SourceOf(i) /\ ProductsOf(i)' = ProductsOf(i)
<1>1. SameCore(plans'[i], plans[i])
  BY DEF KeepsPlans
<1>2. SourceOf(i)' = SourceOf(i)
  BY <1>1 DEF SourceOf, Sisters, SameCore
<1>. QED  BY <1>1, <1>2 DEF ProductsOf, SameCore

(* What o relies on stays true while others work on rows o has not locked. *)
LEMMA OtherRelies ==
    ASSUME PlanInv, NEW o \in Requests, pc'[o] = pc[o], held'[o] = held[o], req'[o] = req[o], tx'[o] = tx[o],
           KeepsPlans, LeavesLocked(o), AreDocs(docs')
    PROVE  Relies(o)'
<1>. PICK i : i = req[o].plan
  OBVIOUS
<1>0. Relies(o) /\ PlansOK /\ DocsOK
  BY DEF PlanInv, Rows
<1>1. Holds(o)'
  <2>. SUFFICES ASSUME pc[o] \in {"products", "revalidate", "execute"}
                PROVE  /\ i \in DOMAIN plans' /\ plans'[i].status = "APPROVED" /\ <<"plan", i>> \in held[o]
                       /\ pc[o] # "products" => \A p \in ProductsOf(i)' : <<"product", p>> \in held[o]
    BY DEF Holds
  <2>1. /\ i \in DOMAIN plans /\ plans[i].status = "APPROVED" /\ <<"plan", i>> \in held[o]
        /\ pc[o] # "products" => \A p \in ProductsOf(i) : <<"product", p>> \in held[o]
    BY <1>0 DEF Relies, Holds
  <2>2. ProductsOf(i)' = ProductsOf(i)
    BY <2>1, SourceKept
  <2>. QED  BY <2>1, <2>2 DEF KeepsPlans, LeavesLocked
<1>2. Decided(o)'
  <2>. SUFFICES ASSUME pc[o] = "execute"
                PROVE  /\ tx[o].quantity \in Nat \ {0}
                       /\ plans'[i].supplier # NoOne => InShortage(tx[o].quantity, i)'
                       /\ plans'[i].supplier = NoOne => Spared(tx[o].quantity, i)'
    BY DEF Decided, InShortage, Spared
  <2>1. /\ tx[o].quantity \in Nat \ {0} /\ i \in DOMAIN plans
        /\ plans[i].supplier # NoOne => InShortage(tx[o].quantity, i)
        /\ plans[i].supplier = NoOne => Spared(tx[o].quantity, i)
        /\ \A p \in ProductsOf(i) : <<"product", p>> \in held[o]
    BY <1>0 DEF Relies, Decided, Holds
  <2>2. SourceOf(i)' = SourceOf(i) /\ SameCore(plans'[i], plans[i]) /\ IsPlan(i, plans[i])
    BY <1>0, <2>1, SourceKept DEF KeepsPlans, PlansOK
  <2>3. /\ ProductsOf(i) \subseteq Products /\ plans[i].product \in ProductsOf(i)
        /\ plans[i].supplier = NoOne => SourceOf(i) \in ProductsOf(i)
    BY <2>1, <2>2, SourceIn
  <2>4. ASSUME plans[i].supplier # NoOne PROVE InShortage(tx[o].quantity, i)'
    <3>. PICK p \in Products : p = plans[i].product
      BY <2>3
    <3>1. qty'[p] = qty[p] /\ OnOrder(p)' <= OnOrder(p) /\ prices \subseteq prices'
      BY <2>1, <2>3 DEF LeavesLocked
    <3>0. qty[p] \in Int /\ TargetOf(p) \in Nat /\ OnOrder(p) \in Nat /\ OnOrder(p)' \in Nat
      BY <1>0, PositionNat, NextNat, TargetNat DEF PlanInv, Rows
    <3>2. \E k \in 1 .. TargetOf(p) - qty[p] - OnOrder(p) : \E c \in prices :
            c.product = p /\ c.supplier = plans[i].supplier /\ tx[o].quantity = Rounded(k, c)
      BY <2>1, <2>4 DEF InShortage
    <3>3. plans'[i].product = p /\ plans'[i].supplier = plans[i].supplier
      BY <2>2 DEF SameCore
    <3>4. \E k \in 1 .. TargetOf(p) - qty'[p] - OnOrder(p)' : \E c \in prices' :
            c.product = p /\ c.supplier = plans[i].supplier /\ tx[o].quantity = Rounded(k, c)
      <4>1. PICK k \in 1 .. TargetOf(p) - qty[p] - OnOrder(p) : \E c \in prices :
              c.product = p /\ c.supplier = plans[i].supplier /\ tx[o].quantity = Rounded(k, c)
        BY <3>2
      <4>2. k \in 1 .. TargetOf(p) - qty'[p] - OnOrder(p)'
        BY <3>0, <3>1
      <4>. QED  BY <3>1, <4>1, <4>2
    <3>. QED  BY <3>3, <3>4 DEF InShortage
  <2>5. ASSUME plans[i].supplier = NoOne PROVE Spared(tx[o].quantity, i)'
    <3>. PICK s \in Products : s = SourceOf(i)
      BY <2>3, <2>5
    <3>1. qty'[s] = qty[s] /\ Committed(s)' <= Committed(s)
      BY <2>1, <2>3, <2>5 DEF LeavesLocked
    <3>2. tx[o].quantity + Committed(s) <= qty[s] - ReorderOf(s)
      BY <2>1, <2>5 DEF Spared
    <3>3. Committed(s) \in Nat /\ qty[s] \in Int /\ ReorderOf(s) \in Nat
      BY <1>0, <3>1, PositionNat, TargetNat DEF PlanInv, Rows
    <3>4. Committed(s)' \in Nat
      BY NextNat
    <3>5. tx[o].quantity + Committed(s)' <= qty'[s] - ReorderOf(s)
      BY <2>1, <3>1, <3>2, <3>3, <3>4
    <3>. QED  BY <2>2, <3>5 DEF Spared
  <2>. QED  BY <2>1, <2>2, <2>4, <2>5 DEF SameCore
<1>3. HasRead(o)'
  BY <1>0 DEF Relies, HasRead
<1>4. Drafted(o)'
  <2>. SUFFICES ASSUME pc[o] \in {"shortage", "plan"}, NEW j \in DOMAIN tx[o].new
                PROVE  ActivePlans(j[2])' = {}
    BY <1>0 DEF Relies, Drafted
  <2>1. <<"shortage", j[2]>> \in held[o] /\ ActivePlans(j[2]) = {} /\ IsPlan(j, tx[o].new[j])
    BY <1>0 DEF Relies, Drafted
  <2>2. j[2] \in Products
    BY <2>1 DEF IsPlan, Plan
  <2>. QED  BY <2>1, <2>2 DEF LeavesLocked
<1>. QED  BY <1>1, <1>2, <1>3, <1>4 DEF Relies

(* Nothing changes in the tables while a session only reads and locks.     *)
LEMMA TablesKept ==
    ASSUME UNCHANGED tables
    PROVE  /\ UNCHANGED <<qty, prices, active, plans, docs, load>>
           /\ \A p : /\ ActivePlans(p)' = ActivePlans(p) /\ OnOrder(p)' = OnOrder(p)
                     /\ Committed(p)' = Committed(p) /\ Inbound(p)' = Inbound(p)
           /\ \A i : SourceOf(i)' = SourceOf(i) /\ ProductsOf(i)' = ProductsOf(i)
<1>1. UNCHANGED <<qty, prices, active, plans, docs, load>>
  BY DEF tables
<1>2. ASSUME NEW p
      PROVE  /\ ActivePlans(p)' = ActivePlans(p) /\ OnOrder(p)' = OnOrder(p)
             /\ Committed(p)' = Committed(p) /\ Inbound(p)' = Inbound(p)
  <2>1. ActivePlans(p)' = ActivePlans(p)
    BY <1>1 DEF ActivePlans
  <2>2. OnOrder(p)' = OnOrder(p)
    BY <1>1 DEF OnOrder, OpenOrders, SumOver
  <2>3. Inbound(p)' = Inbound(p)
    BY <1>1 DEF Inbound, Arriving, SumOver
  <2>4. Committed(p)' = Committed(p)
    BY <1>1 DEF Committed, SumOver
  <2>. QED  BY <2>1, <2>2, <2>3, <2>4
<1>3. ASSUME NEW i PROVE SourceOf(i)' = SourceOf(i) /\ ProductsOf(i)' = ProductsOf(i)
  BY <1>1 DEF SourceOf, ProductsOf, Sisters
<1>. QED  BY <1>1, <1>2, <1>3

(* The sessions after a step of r.                                         *)
LEMMA Sessions ==
    ASSUME Shape, Exclusive, NEW r \in Requests, UNCHANGED load,
           NEW label \in Labels, pc' = [pc EXCEPT ![r] = label],
           NEW rows, held' = [held EXCEPT ![r] = rows],
           NEW q, req' = [req EXCEPT ![r] = q],
           NEW x, tx' = [tx EXCEPT ![r] = x], IsTx(x),
           Served(r)', \A o \in Requests \ {r} : rows \cap held[o] = {}
    PROVE  /\ Shape' /\ Exclusive'
           /\ pc'[r] = label /\ held'[r] = rows /\ req'[r] = q /\ tx'[r] = x
           /\ \A o \in Requests : o # r => pc'[o] = pc[o] /\ held'[o] = held[o] /\ req'[o] = req[o] /\ tx'[o] = tx[o]
<1>1. pc'[r] = label /\ held'[r] = rows /\ req'[r] = q /\ tx'[r] = x
  BY DEF Shape
<1>2. ASSUME NEW o \in Requests, o # r
      PROVE  pc'[o] = pc[o] /\ held'[o] = held[o] /\ req'[o] = req[o] /\ tx'[o] = tx[o]
  BY <1>2 DEF Shape
<1>3. \A o \in Requests : Served(o)' /\ IsTx(tx'[o])
  <2>1. ASSUME NEW o \in Requests, o # r PROVE Served(o)' /\ IsTx(tx'[o])
    BY <1>2, <2>1 DEF Shape, Served, Pending
  <2>. QED  BY <1>1, <2>1
<1>4. Shape'
  <2>1. pc' \in [Requests -> Labels]
    BY DEF Shape
  <2>2. held' = [o \in Requests |-> held'[o]] /\ req' = [o \in Requests |-> req'[o]] /\ tx' = [o \in Requests |-> tx'[o]]
    BY DEF Shape
  <2>. QED  BY <1>3, <2>1, <2>2 DEF Shape
<1>5. Exclusive'
  BY <1>1, <1>2 DEF Exclusive
<1>. QED  BY <1>1, <1>2, <1>4, <1>5

(* A step that only reads and locks keeps everything.                      *)
LEMMA SessionStep ==
    ASSUME PlanInv, NEW r \in Requests, UNCHANGED tables,
           NEW label \in Labels, pc' = [pc EXCEPT ![r] = label], pc[r] = "done" => label = "done",
           NEW rows, held' = [held EXCEPT ![r] = rows],
           NEW q, req' = [req EXCEPT ![r] = q],
           NEW x, tx' = [tx EXCEPT ![r] = x], IsTx(x),
           Served(r)', Relies(r)', \A o \in Requests \ {r} : rows \cap held[o] = {}
    PROVE  PlanInv'
<1>1. /\ UNCHANGED <<qty, prices, active, plans, docs, load>>
      /\ \A p : ActivePlans(p)' = ActivePlans(p) /\ OnOrder(p)' = OnOrder(p) /\ Committed(p)' = Committed(p)
  BY TablesKept
<1>2. /\ Shape' /\ Exclusive' /\ pc'[r] = label
      /\ \A o \in Requests : o # r => pc'[o] = pc[o] /\ held'[o] = held[o] /\ req'[o] = req[o] /\ tx'[o] = tx[o]
  BY <1>1, Sessions DEF PlanInv
<1>3. Rows /\ PlansOK /\ DocsOK
  BY DEF PlanInv, Rows
<1>4. Rows'
  <2>1. \A o \in Requests : pc[o] = "done" => pc'[o] = "done"
    BY <1>2
  <2>2. PlansOK'
    <3>1. \A i \in DOMAIN plans : i[1] \in Requests
      BY <1>3 DEF PlansOK, IsPlan, PlanIds
    <3>. QED  BY <1>1, <1>3, <2>1, <3>1 DEF PlansOK
  <2>3. DocsOK'
    BY <1>1, <1>3, <2>1 DEF DocsOK
  <2>4. OneBatch'
    BY <1>1, <1>3 DEF Rows, OneBatch
  <2>5. OneDoc' /\ HasDoc' /\ OneKey'
    BY <1>1, <1>3 DEF Rows, OneDoc, HasDoc, OneKey
  <2>. QED  BY <1>1, <1>3, <2>2, <2>3, <2>4, <2>5 DEF Rows
<1>5. KeepsPlans
  BY <1>1 DEF KeepsPlans, SameCore
<1>6. ASSUME NEW o \in Requests, o # r PROVE Relies(o)'
  <2>1. LeavesLocked(o)
    <3>1. \A p : OnOrder(p)' <= OnOrder(p) /\ Committed(p)' <= Committed(p)
      BY <1>1, <1>3, PositionNat
    <3>. QED  BY <1>1, <3>1 DEF LeavesLocked
  <2>2. AreDocs(docs')
    BY <1>1, <1>3 DEF DocsOK, AreDocs
  <2>. QED  BY <1>2, <1>5, <1>6, <2>1, <2>2, OtherRelies
<1>. QED  BY <1>2, <1>4, <1>6 DEF PlanInv

(* An empty session relies on nothing.                                     *)
LEMMA DoneRelies == ASSUME NEW r \in Requests, pc'[r] = "done" PROVE Served(r)' /\ Relies(r)'
  BY DEF Served, Pending, Relies, Holds, Decided, HasRead, Drafted, Generates, Executes

(* A transaction that is over leaves no lock and nothing in memory.        *)
LEMMA OverSession ==
    ASSUME PlanInv, NEW r \in Requests, Over(r)
    PROVE  /\ Shape' /\ Exclusive' /\ pc'[r] = "done" /\ Served(r)' /\ Relies(r)' /\ load' = load
           /\ \A o \in Requests : o # r => pc'[o] = pc[o] /\ held'[o] = held[o] /\ req'[o] = req[o] /\ tx'[o] = tx[o]
<1>1. IsTx(EmptyTx)
  BY DEF IsTx, EmptyTx
<1>2. "done" \in Labels
  BY DEF Labels
<1>3. pc'[r] = "done"
  BY DEF Over, PlanInv, Shape
<1>4. Served(r)' /\ Relies(r)'
  BY <1>3, DoneRelies
<1>5. \A o \in Requests \ {r} : {} \cap held[o] = {}
  OBVIOUS
<1>6. Shape /\ Exclusive
  BY DEF PlanInv
<1>7. /\ pc' = [pc EXCEPT ![r] = "done"] /\ held' = [held EXCEPT ![r] = {}] /\ UNCHANGED load
      /\ req' = [req EXCEPT ![r] = NoOne] /\ tx' = [tx EXCEPT ![r] = EmptyTx]
  BY DEF Over
<1>8. /\ Shape' /\ Exclusive'
      /\ \A o \in Requests : o # r => pc'[o] = pc[o] /\ held'[o] = held[o] /\ req'[o] = req[o] /\ tx'[o] = tx[o]
  BY ONLY <1>1, <1>2, <1>4, <1>5, <1>6, <1>7, Sessions, r \in Requests
<1>. QED  BY <1>3, <1>4, <1>7, <1>8

(* Giving up keeps everything.                                             *)
LEMMA EndsKeeps == ASSUME PlanInv, NEW r \in Requests, Ends(r) PROVE PlanInv'
<1>1. IsTx(EmptyTx)
  BY DEF IsTx, EmptyTx
<1>2. "done" \in Labels
  BY DEF Labels
<1>3. Served(r)' /\ Relies(r)'
  BY OverSession DEF Ends
<1>4. /\ pc' = [pc EXCEPT ![r] = "done"] /\ held' = [held EXCEPT ![r] = {}] /\ UNCHANGED tables
      /\ req' = [req EXCEPT ![r] = NoOne] /\ tx' = [tx EXCEPT ![r] = EmptyTx]
  BY DEF Ends, Over
<1>5. \A o \in Requests \ {r} : {} \cap held[o] = {}
  OBVIOUS
<1>. QED  BY ONLY PlanInv, <1>1, <1>2, <1>3, <1>4, <1>5, SessionStep, r \in Requests

(* A step that writes keeps everything if it writes good rows and leaves   *)
(* alone what others have locked.                                          *)
LEMMA WriteStep ==
    ASSUME PlanInv, NEW r \in Requests, Over(r), Rows', KeepsPlans,
           \A o \in Requests : o # r => LeavesLocked(o)
    PROVE  PlanInv'
<1>1. /\ Shape' /\ Exclusive' /\ Relies(r)'
      /\ \A o \in Requests : o # r => pc'[o] = pc[o] /\ held'[o] = held[o] /\ req'[o] = req[o] /\ tx'[o] = tx[o]
  BY OverSession
<1>2. AreDocs(docs')
  BY DEF Rows, DocsOK, AreDocs
<1>3. ASSUME NEW o \in Requests, o # r PROVE Relies(o)'
  BY <1>1, <1>2, <1>3, OtherRelies
<1>. QED  BY <1>1, <1>3 DEF PlanInv

-----------------------------------------------------------------------------
(* Steps that read and lock.                                               *)

(* What an update of the memory of a session changes.                      *)
LEMMA TxQty ==
    ASSUME NEW x, IsTx(x), NEW v, NEW z, z = [x EXCEPT !.qty = v]
    PROVE  IsTx(z) /\ z.qty = v /\ z.inbound = x.inbound /\ z.left = x.left /\ z.new = x.new
  BY DEF IsTx

(* The same for the inbound units.                                         *)
LEMMA TxInbound ==
    ASSUME NEW x, IsTx(x), NEW v, NEW z, z = [x EXCEPT !.inbound = v]
    PROVE  IsTx(z) /\ z.qty = x.qty /\ z.inbound = v /\ z.left = x.left /\ z.new = x.new
  BY DEF IsTx

(* The same for the product or quantity at hand.                           *)
LEMMA TxQuantity ==
    ASSUME NEW x, IsTx(x), NEW v, NEW z, z = [x EXCEPT !.quantity = v]
    PROVE  IsTx(z) /\ z.qty = x.qty /\ z.inbound = x.inbound /\ z.left = x.left /\ z.new = x.new /\ z.quantity = v
  BY DEF IsTx

(* The same for the rows to write.                                         *)
LEMMA TxNew ==
    ASSUME NEW x, IsTx(x), NEW v, NEW w, NEW z, z = [x EXCEPT !.left = v, !.new = w]
    PROVE  IsTx(z) /\ z.qty = x.qty /\ z.inbound = x.inbound /\ z.left = v /\ z.new = w
  BY DEF IsTx

(* What a step that goes on leaves in the session and in the tables.       *)
LEMMA Moved ==
    ASSUME Shape, NEW r \in Requests, NEW label, NEW rows, NEW x, Moves(r, label, rows, x)
    PROVE  /\ pc'[r] = label /\ held'[r] = held[r] \cup rows /\ tx'[r] = x /\ req'[r] = req[r]
           /\ UNCHANGED <<qty, prices, active, plans, docs, load>>
           /\ \A p : ActivePlans(p)' = ActivePlans(p) /\ OnOrder(p)' = OnOrder(p) /\ Committed(p)' = Committed(p)
           /\ \A i : SourceOf(i)' = SourceOf(i) /\ ProductsOf(i)' = ProductsOf(i)
<1>1. UNCHANGED tables
  BY DEF Moves
<1>2. pc'[r] = label /\ held'[r] = held[r] \cup rows /\ tx'[r] = x /\ req'[r] = req[r]
  BY DEF Moves, Shape
<1>. QED  BY <1>1, <1>2, TablesKept

(* A session that goes on with rows nobody else holds keeps everything     *)
(* that it does not rely on itself.                                        *)
LEMMA MoveStep ==
    ASSUME PlanInv, NEW r \in Requests, NEW label \in Labels, NEW rows, NEW x, Moves(r, label, rows, x),
           pc[r] # "done", IsTx(x), \A row \in rows : Free(row, r), Served(r)', Relies(r)'
    PROVE  PlanInv'
<1>1. \A o \in Requests \ {r} : (held[r] \cup rows) \cap held[o] = {}
  BY DEF PlanInv, Exclusive, Free
<1>2. /\ UNCHANGED tables /\ pc' = [pc EXCEPT ![r] = label] /\ held' = [held EXCEPT ![r] = held[r] \cup rows]
      /\ req' = [req EXCEPT ![r] = req[r]] /\ tx' = [tx EXCEPT ![r] = x]
  BY DEF Moves, PlanInv, Shape
<1>. QED  BY <1>1, <1>2, SessionStep

(* A request arrives.                                                      *)
LEMMA SubmitKeeps == ASSUME PlanInv, NEW r \in Requests, Submit(r) PROVE PlanInv'
<1>1. PICK q \in load.sent[r] : req' = [req EXCEPT ![r] = q]
  BY DEF Submit
<1>2. pc[r] = "new" /\ pc' = [pc EXCEPT ![r] = "begin"] /\ UNCHANGED tables
  BY DEF Submit, tables
<1>3. held' = [held EXCEPT ![r] = held[r]] /\ tx' = [tx EXCEPT ![r] = tx[r]] /\ IsTx(tx[r])
  BY DEF Submit, PlanInv, Shape
<1>4. pc'[r] = "begin" /\ req'[r] = q /\ tx'[r] = tx[r] /\ load' = load
  BY <1>1, <1>2, <1>3 DEF PlanInv, Shape, tables
<1>5. Served(r)'
  BY <1>1, <1>4 DEF Served, Generates, Executes
<1>6. Relies(r)'
  <2>1. HasRead(r)
    BY DEF PlanInv, Relies
  <2>. QED  BY <1>2, <1>4, <2>1 DEF Relies, Holds, Decided, HasRead, Drafted, Generates
<1>7. \A o \in Requests \ {r} : held[r] \cap held[o] = {}
  BY DEF PlanInv, Exclusive
<1>8. "begin" \in Labels
  BY DEF Labels
<1>. QED  BY <1>1, <1>2, <1>3, <1>5, <1>6, <1>7, <1>8, SessionStep

(* The three reads of a generation.                                        *)
LEMMA ReadProductsKeeps == ASSUME PlanInv, NEW r \in Requests, ReadProducts(r), ~Ends(r) PROVE PlanInv'
<1>. DEFINE x == [tx[r] EXCEPT !.qty = qty]
<1>0. Shape /\ IsTx(tx[r]) /\ Served(r) /\ HasRead(r) /\ qty \in [Products -> Int]
  BY DEF PlanInv, Shape, Relies, Rows
<1>1. pc[r] = "begin" /\ req[r].kind = "GENERATE" /\ Goto(r, "inbound") /\ UNCHANGED held /\ tx' = [tx EXCEPT ![r] = x]
  BY ReturnEnds DEF ReadProducts, Is
<1>2. IsTx(x) /\ x.qty = qty /\ x.new = tx[r].new
  BY <1>0, TxQty
<1>. HIDE DEF x
<1>3. Moves(r, "inbound", {}, x)
  BY <1>0, <1>1, MovesOn
<1>4. pc'[r] = "inbound" /\ tx'[r] = x /\ req'[r] = req[r] /\ load' = load
  BY <1>0, <1>3, Moved
<1>5. Served(r)'
  BY <1>0, <1>1, <1>4 DEF Served, Pending, Generates, Executes
<1>6. Relies(r)'
  BY <1>0, <1>1, <1>2, <1>4 DEF Relies, Holds, Decided, HasRead, Drafted, Generates
<1>10. "inbound" \in Labels
  BY DEF Labels, Generates
<1>. QED  BY <1>1, <1>2, <1>3, <1>5, <1>6, <1>10, MoveStep

(* The second one.                                                         *)
LEMMA ReadInboundKeeps == ASSUME PlanInv, NEW r \in Requests, ReadInbound(r) PROVE PlanInv'
<1>. DEFINE f == [p \in Products |-> Inbound(p)]
            x == [tx[r] EXCEPT !.inbound = f]
<1>0. Shape /\ IsTx(tx[r]) /\ Served(r) /\ HasRead(r) /\ DocsOK
  BY DEF PlanInv, Shape, Relies, Rows
<1>1. pc[r] = "inbound" /\ req[r].kind = "GENERATE" /\ Goto(r, "orders") /\ UNCHANGED held /\ tx' = [tx EXCEPT ![r] = x]
  BY DEF ReadInbound, Is
<1>2. f \in [Products -> Nat]
  BY <1>0, PositionNat
<1>. HIDE DEF f
<1>3. IsTx(x) /\ x.qty = tx[r].qty /\ x.inbound = f /\ x.new = tx[r].new
  BY <1>0, TxInbound
<1>. HIDE DEF x
<1>4. Moves(r, "orders", {}, x)
  BY <1>0, <1>1, MovesOn
<1>5. pc'[r] = "orders" /\ tx'[r] = x /\ req'[r] = req[r] /\ load' = load
  BY <1>0, <1>4, Moved
<1>6. Served(r)'
  BY <1>0, <1>1, <1>5 DEF Served, Pending, Generates, Executes
<1>7. Relies(r)'
  BY <1>0, <1>1, <1>2, <1>3, <1>5 DEF Relies, Holds, Decided, HasRead, Drafted, Generates
<1>10. "orders" \in Labels
  BY DEF Labels, Generates
<1>. QED  BY <1>1, <1>3, <1>4, <1>6, <1>7, <1>10, MoveStep

(* The third one, which finds the shortages.                               *)
LEMMA ReadOrdersKeeps == ASSUME PlanInv, NEW r \in Requests, ReadOrders(r) PROVE PlanInv'
<1>. DEFINE position == [p \in Products |-> PositionRead(r, p) + OnOrder(p)]
            missing == {p \in req[r].products : Reorder[p] # NoOne /\ position[p] <= Reorder[p] /\ position[p] < TargetOf(p)}
            f == [p \in Products |-> TargetOf(p) - position[p]]
            x == [tx[r] EXCEPT !.inbound = f, !.left = missing]
<1>0. Shape /\ IsTx(tx[r]) /\ Served(r) /\ HasRead(r) /\ DocsOK
  BY DEF PlanInv, Shape, Relies, Rows
<1>1. pc[r] = "orders" /\ req[r].kind = "GENERATE" /\ Goto(r, "shortage") /\ UNCHANGED held /\ tx' = [tx EXCEPT ![r] = x]
  BY DEF ReadOrders, Is
<1>2. \A p \in Products : position[p] \in Int
  <2>1. tx[r].qty \in [Products -> Int] /\ tx[r].inbound \in [Products -> Nat]
    BY <1>0, <1>1 DEF HasRead, Generates
  <2>. QED  BY <1>0, <2>1, PositionNat DEF PositionRead
<1>3. missing \subseteq Products
  <2>1. req[r] \in Submission
    BY <1>0, <1>1, ReplenishmentAssumption DEF Shape, Served, Pending
  <2>2. req[r].products \subseteq Products
    BY <1>1, <2>1 DEF Submission
  <2>. QED  BY <2>2
<1>4. \A p \in missing : f[p] \in Nat \ {0}
  <2>. SUFFICES ASSUME NEW p \in missing PROVE f[p] \in Nat \ {0}
    OBVIOUS
  <2>1. p \in Products /\ position[p] < TargetOf(p) /\ position[p] \in Int /\ TargetOf(p) \in Nat
    BY <1>2, <1>3, TargetNat
  <2>2. f[p] = TargetOf(p) - position[p]
    BY <2>1
  <2>. HIDE DEF position, f
  <2>. QED  BY <2>1, <2>2
<1>. HIDE DEF f, missing
<1>5. IsTx(x) /\ x.qty = tx[r].qty /\ x.inbound = f /\ x.left = missing /\ x.new = tx[r].new
  <2>1. x = [tx[r] EXCEPT !.inbound = f, !.left = missing]
    OBVIOUS
  <2>. HIDE DEF x, position
  <2>. QED  BY ONLY <1>0, <2>1 DEF IsTx
<1>. HIDE DEF x
<1>6. Moves(r, "shortage", {}, x)
  BY <1>0, <1>1, MovesOn
<1>7. pc'[r] = "shortage" /\ tx'[r] = x /\ req'[r] = req[r] /\ load' = load
  BY <1>0, <1>6, Moved
<1>8. Served(r)'
  BY <1>0, <1>1, <1>7 DEF Served, Pending, Generates, Executes
<1>9. Relies(r)'
  <2>1. x.new = <<>> /\ DOMAIN <<>> = {} /\ x.qty \in [Products -> Int]
    BY <1>0, <1>1, <1>5 DEF HasRead, Generates
  <2>2. Drafted(r)'
    BY <1>3, <1>4, <1>5, <1>7, <2>1 DEF Drafted
  <2>. QED  BY <1>7, <2>1, <2>2 DEF Relies, Holds, Decided, HasRead
<1>10. "shortage" \in Labels
  BY DEF Labels, Generates
<1>. QED  BY <1>1, <1>5, <1>6, <1>8, <1>9, <1>10, MoveStep

(* The advisory lock of the next shortage.                                 *)
LEMMA LockShortageKeeps == ASSUME PlanInv, NEW r \in Requests, LockShortage(r) PROVE PlanInv'
<1>0. Shape /\ IsTx(tx[r]) /\ Served(r) /\ HasRead(r) /\ Drafted(r)
  BY DEF PlanInv, Shape, Relies
<1>1. pc[r] = "shortage" /\ req[r].kind = "GENERATE" /\ Goto(r, "plan")
  BY DEF LockShortage, Is
<1>2. PICK p \in tx[r].left : /\ Free(<<"shortage", p>>, r) /\ Take(<<"shortage", p>>, r)
                              /\ tx' = [tx EXCEPT ![r] = [tx[r] EXCEPT !.quantity = p]]
  BY DEF LockShortage
<1>. DEFINE x == [tx[r] EXCEPT !.quantity = p]
            row == <<"shortage", p>>
<1>3. IsTx(x) /\ x.qty = tx[r].qty /\ x.inbound = tx[r].inbound /\ x.left = tx[r].left /\ x.new = tx[r].new /\ x.quantity = p
  BY <1>0, TxQuantity
<1>4. Moves(r, "plan", {row}, x)
  BY <1>1, <1>2 DEF Moves, Goto, Take
<1>. HIDE DEF x
<1>5. /\ pc'[r] = "plan" /\ tx'[r] = x /\ req'[r] = req[r] /\ load' = load /\ held'[r] = held[r] \cup {row}
      /\ \A q : ActivePlans(q)' = ActivePlans(q)
  BY <1>0, <1>4, Moved
<1>6. Served(r)'
  BY <1>0, <1>1, <1>5 DEF Served, Pending, Generates, Executes
<1>7. Relies(r)'
  <2>1. Drafted(r)'
    <3>. HIDE DEF row
    <3>1. \A y \in held[r] : y \in held'[r]
      BY <1>5
    <3>2. <<"shortage", p>> \in held'[r]
      BY <1>5 DEF row
    <3>. QED  BY <1>0, <1>1, <1>2, <1>3, <1>5, <3>1, <3>2 DEF Drafted
  <2>2. HasRead(r)'
    BY <1>0, <1>1, <1>3, <1>5 DEF HasRead, Generates
  <2>. QED  BY <1>5, <2>1, <2>2 DEF Relies, Holds, Decided
<1>8. "plan" \in Labels /\ \A y \in {row} : Free(y, r)
  BY <1>2 DEF Labels, Generates
<1>. HIDE DEF row
<1>. QED  BY <1>1, <1>3, <1>4, <1>6, <1>7, <1>8, MoveStep

(* An execution that found no plan with its key goes on.                   *)
LEMMA BeginExecuteKeeps == ASSUME PlanInv, NEW r \in Requests, BeginExecute(r), ~Ends(r) PROVE PlanInv'
<1>0. Shape /\ IsTx(tx[r]) /\ Served(r)
  BY DEF PlanInv, Shape
<1>1. pc[r] = "begin" /\ req[r].kind = "EXECUTE" /\ Goto(r, "header") /\ UNCHANGED <<held, tx>>
  BY ReturnEnds DEF BeginExecute, Is
<1>2. tx' = [tx EXCEPT ![r] = tx[r]]
  BY <1>0, <1>1 DEF Shape
<1>3. Moves(r, "header", {}, tx[r])
  BY <1>0, <1>1, <1>2, MovesOn
<1>4. pc'[r] = "header" /\ req'[r] = req[r] /\ load' = load
  BY <1>0, <1>3, Moved
<1>5. Served(r)'
  BY <1>0, <1>1, <1>4 DEF Served, Pending, Generates, Executes
<1>6. Relies(r)'
  BY <1>4 DEF Relies, Holds, Decided, HasRead, Drafted, Generates
<1>7. "header" \in Labels
  BY DEF Labels, Executes
<1>. QED  BY <1>0, <1>1, <1>3, <1>5, <1>6, <1>7, MoveStep

(* The row lock of the plan, which must be APPROVED.                       *)
LEMMA LockPlanKeeps == ASSUME PlanInv, NEW r \in Requests, LockPlan(r), ~Ends(r) PROVE PlanInv'
<1>. DEFINE i == req[r].plan
            row == <<"plan", i>>
<1>0. Shape /\ IsTx(tx[r]) /\ Served(r)
  BY DEF PlanInv, Shape
<1>1. /\ pc[r] = "header" /\ req[r].kind = "EXECUTE" /\ Free(row, r)
      /\ i \in DOMAIN plans /\ plans[i].status = "APPROVED"
      /\ Take(row, r) /\ Goto(r, "products") /\ UNCHANGED tx
  BY ReturnEnds DEF LockPlan, Is
<1>2. Moves(r, "products", {row}, tx[r])
  BY <1>0, <1>1, MovesKept
<1>3. /\ pc'[r] = "products" /\ req'[r] = req[r] /\ load' = load /\ held'[r] = held[r] \cup {row}
      /\ plans' = plans
  BY <1>0, <1>2, Moved
<1>4. Served(r)'
  BY <1>0, <1>1, <1>3 DEF Served, Pending, Generates, Executes
<1>5. Relies(r)'
  BY <1>1, <1>3 DEF Relies, Holds, Decided, HasRead, Drafted, Generates
<1>6. "products" \in Labels /\ \A y \in {row} : Free(y, r)
  BY <1>1 DEF Labels, Executes
<1>. HIDE DEF row
<1>. QED  BY <1>0, <1>1, <1>2, <1>4, <1>5, <1>6, MoveStep

(* The row locks of its products.                                          *)
LEMMA LockProductKeeps == ASSUME PlanInv, NEW r \in Requests, LockProduct(r) PROVE PlanInv'
<1>. DEFINE i == req[r].plan
            p == NextProduct(i, Left(r))
            row == <<"product", p>>
            label == IF Left(r) = {p} THEN "revalidate" ELSE "products"
<1>0. Shape /\ IsTx(tx[r]) /\ Served(r) /\ Holds(r)
  BY DEF PlanInv, Shape, Relies
<1>1. /\ pc[r] = "products" /\ req[r].kind = "EXECUTE" /\ Free(row, r)
      /\ Take(row, r) /\ Goto(r, label) /\ UNCHANGED tx
  BY DEF LockProduct, Is
<1>2. Moves(r, label, {row}, tx[r])
  <2>. HIDE DEF row, label
  <2>. QED  BY <1>0, <1>1, MovesKept
<1>3. label \in {"products", "revalidate"}
  OBVIOUS
<1>4. /\ pc'[r] = label /\ req'[r] = req[r] /\ load' = load /\ held'[r] = held[r] \cup {row}
      /\ plans' = plans /\ \A j : ProductsOf(j)' = ProductsOf(j)
  <2>. HIDE DEF row, label
  <2>. QED  BY <1>0, <1>2, Moved
<1>5. Served(r)'
  <2>. HIDE DEF label
  <2>. QED  BY <1>0, <1>1, <1>3, <1>4 DEF Served, Pending, Generates, Executes
<1>6. Holds(r)'
  <2>1. i \in DOMAIN plans /\ plans[i].status = "APPROVED" /\ <<"plan", i>> \in held[r]
    BY <1>0, <1>1 DEF Holds
  <2>2. ASSUME label = "revalidate", NEW q \in ProductsOf(i) PROVE <<"product", q>> \in held[r] \cup {row}
    <3>1. Left(r) = {p}
      BY <2>2
    <3>2. CASE q \in Left(r)
      BY <3>1, <3>2
    <3>3. CASE q \notin Left(r)
      BY <3>3 DEF Left
    <3>. QED  BY <3>2, <3>3
  <2>. HIDE DEF label, row
  <2>3. ProductsOf(req[r].plan)' = ProductsOf(i)
    <3>. PICK j : j = req[r].plan
      OBVIOUS
    <3>1. ProductsOf(j)' = ProductsOf(j)
      BY <1>4
    <3>. QED  BY <1>4, <3>1 DEF ProductsOf, SourceOf, Sisters
  <2>. QED  BY <1>3, <1>4, <2>1, <2>2, <2>3 DEF Holds
<1>7. Relies(r)'
  <2>. HIDE DEF label
  <2>. QED  BY <1>3, <1>4, <1>6 DEF Relies, Decided, HasRead, Drafted, Generates
<1>8. label \in Labels /\ \A y \in {row} : Free(y, r)
  BY <1>1, <1>3 DEF Labels, Executes
<1>. HIDE DEF row, label
<1>. QED  BY <1>0, <1>1, <1>2, <1>5, <1>7, <1>8, MoveStep

(* apply_moq_and_pack_rounding never rounds down, and reaches the minimum  *)
(* order in whole packs.                                                   *)
LEMMA RoundedUp ==
    ASSUME NEW need \in Nat, NEW c \in Price
    PROVE  Rounded(need, c) \in Nat /\ Rounded(need, c) >= need
<1>. DEFINE n == IF need < c.moq THEN c.moq ELSE need
            m == n % c.pack
<1>1. c.moq \in Nat /\ c.pack \in Nat /\ c.pack > 0
  BY DEF Price
<1>2. n \in Nat /\ n >= need
  BY <1>1
<1>3. m \in 0 .. (c.pack - 1)
  <2>. HIDE DEF n
  <2>. QED  BY <1>1, <1>2
<1>4. Rounded(need, c) = IF m = 0 THEN n ELSE n + (c.pack - m)
  BY DEF Rounded
<1>. HIDE DEF n, m
<1>. QED  BY <1>1, <1>2, <1>3, <1>4

(* What is worked out from the position read under the locks is right      *)
(* until the commit.                                                       *)
LEMMA RevalidateKeeps == ASSUME PlanInv, NEW r \in Requests, Revalidate(r), ~MarkStale(r) PROVE PlanInv'
<1>0. Shape /\ IsTx(tx[r]) /\ Served(r) /\ Holds(r) /\ PlansOK /\ DocsOK /\ qty \in [Products -> Int] /\ prices \subseteq Price
  BY DEF PlanInv, Shape, Relies, Rows
<1>. PICK i : i = req[r].plan
  OBVIOUS
<1>1. /\ pc[r] = "revalidate" /\ req[r].kind = "EXECUTE" /\ Goto(r, "execute") /\ UNCHANGED held
  BY DEF Revalidate, Is
<1>2. /\ i \in DOMAIN plans /\ plans[i].status = "APPROVED" /\ <<"plan", i>> \in held[r]
      /\ \A p \in ProductsOf(i) : <<"product", p>> \in held[r]
  BY <1>0, <1>1 DEF Holds
<1>. PICK p : p = plans[i].product
  OBVIOUS
<1>. PICK s : s = plans[i].supplier
  OBVIOUS
<1>. DEFINE n == Executable(i)
            offers == IF s \in active THEN CurrentPrices(s, p) ELSE {}
            spare == qty[SourceOf(i)] - ReorderOf(SourceOf(i)) - Committed(SourceOf(i))
<1>3. /\ ~(TargetOf(p) <= Position(p))
      /\ s = NoOne => ~(spare <= 0)
      /\ \E c \in IF s = NoOne THEN {NoOne} ELSE offers :
            tx' = [tx EXCEPT ![r] = [tx[r] EXCEPT !.quantity = IF s = NoOne THEN Least(n, spare) ELSE Rounded(n, c)]]
  BY DEF Revalidate
<1>4. PICK c \in IF s = NoOne THEN {NoOne} ELSE offers :
            tx' = [tx EXCEPT ![r] = [tx[r] EXCEPT !.quantity = IF s = NoOne THEN Least(n, spare) ELSE Rounded(n, c)]]
  BY <1>3
<1>. DEFINE k == IF s = NoOne THEN Least(n, spare) ELSE Rounded(n, c)
            x == [tx[r] EXCEPT !.quantity = k]
<1>5. IsPlan(i, plans[i]) /\ p \in Products /\ plans[i].suggested \in Nat /\ plans[i].suggested > 0
  BY <1>0, <1>2 DEF PlansOK, IsPlan, Plan
<1>6. /\ TargetOf(p) \in Nat /\ qty[p] \in Int /\ Inbound(p) \in Nat /\ OnOrder(p) \in Nat
      /\ Position(p) = qty[p] + Inbound(p) + OnOrder(p)
  BY <1>0, <1>5, TargetNat, PositionNat DEF Position
<1>7. n \in Nat /\ n > 0 /\ n <= TargetOf(p) - qty[p] - OnOrder(p)
  <2>1. n = Least(plans[i].suggested, TargetOf(p) - Position(p))
    BY DEF Executable
  <2>. HIDE DEF n
  <2>2. TargetOf(p) - Position(p) \in Nat \ {0} /\ TargetOf(p) - Position(p) <= TargetOf(p) - qty[p] - OnOrder(p)
    BY ONLY <1>3, <1>6
  <2>3. n = plans[i].suggested \/ n = TargetOf(p) - Position(p)
    BY ONLY <2>1 DEF Least
  <2>4. n <= TargetOf(p) - Position(p)
    BY ONLY <1>5, <2>1, <2>2 DEF Least
  <2>. QED  BY ONLY <1>5, <1>6, <2>2, <2>3, <2>4
<1>8. s # NoOne => k \in Nat \ {0} /\ InShortage(k, i)
  <2>. SUFFICES ASSUME s # NoOne PROVE k \in Nat \ {0} /\ InShortage(k, i)
    OBVIOUS
  <2>1. c \in CurrentPrices(s, p) /\ k = Rounded(n, c)
    BY <1>4
  <2>2. c \in prices /\ c.supplier = s /\ c.product = p
    BY <2>1 DEF CurrentPrices
  <2>3. c \in Price
    BY <1>0, <2>2
  <2>. HIDE DEF n, k
  <2>4. k \in Nat \ {0}
    BY <1>7, <2>1, <2>3, RoundedUp
  <2>5. n \in 1 .. TargetOf(p) - qty[p] - OnOrder(p)
    BY <1>6, <1>7
  <2>6. InShortage(k, i)
    BY <2>1, <2>2, <2>5 DEF InShortage
  <2>. QED  BY <2>4, <2>6
<1>9. s = NoOne => k \in Nat \ {0} /\ Spared(k, i)
  <2>. SUFFICES ASSUME s = NoOne PROVE k \in Nat \ {0} /\ Spared(k, i)
    OBVIOUS
  <2>1. SourceOf(i) \in Products
    BY <1>2, <1>5, SourceIn
  <2>2. qty[SourceOf(i)] \in Int /\ ReorderOf(SourceOf(i)) \in Nat /\ Committed(SourceOf(i)) \in Nat
    BY <1>0, <2>1, TargetNat, PositionNat
  <2>3. spare \in Int /\ spare > 0 /\ k = Least(n, spare)
    BY <1>3, <2>2
  <2>. HIDE DEF n, k
  <2>4. k \in Nat \ {0} /\ k <= spare
    BY <1>7, <2>3 DEF Least
  <2>5. k + Committed(SourceOf(i)) <= qty[SourceOf(i)] - ReorderOf(SourceOf(i))
    BY <2>2, <2>4
  <2>. QED  BY <2>4, <2>5 DEF Spared
<1>10. tx' = [tx EXCEPT ![r] = x]
  BY <1>4
<1>. HIDE DEF k, n, offers, spare
<1>11. IsTx(x) /\ x.quantity = k
  BY <1>0, TxQuantity
<1>. HIDE DEF x
<1>12. Moves(r, "execute", {}, x)
  BY <1>0, <1>1, <1>10, MovesOn
<1>13. /\ pc'[r] = "execute" /\ tx'[r] = x /\ req'[r] = req[r] /\ load' = load /\ held'[r] = held[r] \cup {}
       /\ plans' = plans /\ qty' = qty /\ prices' = prices
       /\ \A o : OnOrder(o)' = OnOrder(o) /\ Committed(o)' = Committed(o)
       /\ \A j : SourceOf(j)' = SourceOf(j) /\ ProductsOf(j)' = ProductsOf(j)
  BY <1>0, <1>12, Moved
<1>14. Served(r)'
  BY <1>0, <1>1, <1>13 DEF Served, Pending, Generates, Executes
<1>15. Holds(r)'
  <2>1. req'[r].plan = i /\ plans' = plans /\ ProductsOf(i)' = ProductsOf(i) /\ held'[r] = held[r]
    BY <1>13
  <2>2. ProductsOf(req[r].plan)' = ProductsOf(i)'
    BY <2>1 DEF ProductsOf, SourceOf, Sisters
  <2>. QED  BY <1>2, <2>1, <2>2 DEF Holds
<1>16. Decided(r)'
  <2>. PICK m : m = k
    OBVIOUS
  <2>1. req'[r].plan = i /\ tx'[r].quantity = m /\ plans'[i].supplier = s /\ pc'[r] = "execute"
    BY <1>11, <1>13
  <2>2. s # NoOne => InShortage(m, i)'
    <3>. SUFFICES ASSUME s # NoOne PROVE InShortage(m, i)'
      OBVIOUS
    <3>1. \E j \in 1 .. TargetOf(p) - qty[p] - OnOrder(p) : \E e \in prices :
            e.product = p /\ e.supplier = s /\ m = Rounded(j, e)
      BY <1>8 DEF InShortage
    <3>2. \E j \in 1 .. TargetOf(p) - qty'[p] - OnOrder(p)' : \E e \in prices' :
            e.product = p /\ e.supplier = s /\ m = Rounded(j, e)
      BY <1>13, <3>1
    <3>. QED  BY <1>13, <3>2 DEF InShortage
  <2>3. s = NoOne => Spared(m, i)'
    <3>. SUFFICES ASSUME s = NoOne PROVE Spared(m, i)'
      OBVIOUS
    <3>. PICK source : source = SourceOf(i)
      OBVIOUS
    <3>1. m + Committed(source) <= qty[source] - ReorderOf(source)
      BY <1>9 DEF Spared
    <3>2. m + Committed(source)' <= qty'[source] - ReorderOf(source)
      BY <1>13, <3>1
    <3>3. SourceOf(i)' = source
      BY <1>13
    <3>. QED  BY <3>2, <3>3 DEF Spared
  <2>4. m \in Nat \ {0}
    BY <1>8, <1>9
  <2>5. s # NoOne => InShortage(tx[r].quantity, req[r].plan)'
    BY <2>1, <2>2 DEF InShortage
  <2>6. s = NoOne => Spared(tx[r].quantity, req[r].plan)'
    BY <2>1, <2>3 DEF Spared
  <2>. QED  BY <2>1, <2>4, <2>5, <2>6 DEF Decided
<1>17. Relies(r)'
  BY <1>13, <1>15, <1>16 DEF Relies, HasRead, Drafted, Generates
<1>18. "execute" \in Labels
  BY DEF Labels, Executes
<1>. QED  BY <1>1, <1>11, <1>12, <1>14, <1>17, <1>18, MoveStep

-----------------------------------------------------------------------------
(* The splitting of a shortage.                                            *)

(* g gives what the first stores, with a[n] to spare each, give together.  *)
IsGiven(g, need, a, K) ==
    g = [n \in 0 .. K |-> IF n = 0 THEN 0 ELSE g[n - 1] + Share(need, g[n - 1], a[n])]

(* Some of the first numbers have a least one.                             *)
LEMMA LeastUpTo ==
    ASSUME NEW K \in Nat, NEW T, T \subseteq 0 .. K, T # {}
    PROVE  \E m \in T : \A n \in T : m <= n
<1>1. 0 \in Int /\ K \in Int
  OBVIOUS
<1>2. IsFiniteSet(0 .. K)
  BY <1>1, FS_Interval
<1>3. IsFiniteSet(T)
  BY <1>2, FS_Subset
<1>4. T \subseteq Int
  OBVIOUS
<1>. QED  BY ONLY <1>3, <1>4, T # {}, FiniteMin

(* There is such a function for every number of stores.                    *)
LEMMA GivenExists ==
    ASSUME NEW need, NEW a, NEW K \in Nat
    PROVE  \E g : IsGiven(g, need, a, K)
<1>. DEFINE T == {k \in 0 .. K : ~\E g : IsGiven(g, need, a, k)}
<1>1. SUFFICES ASSUME T # {} PROVE FALSE
  OBVIOUS
<1>2. T \subseteq 0 .. K
  OBVIOUS
<1>3. PICK k \in T : \A m \in T : k <= m
  <2>. HIDE DEF T
  <2>. QED  BY ONLY <1>1, <1>2, LeastUpTo, K \in Nat
<1>4. k # 0
  <2>. DEFINE g == [n \in 0 .. 0 |-> 0]
  <2>1. IsGiven(g, need, a, 0)
    BY DEF IsGiven
  <2>. QED  BY <1>3, <2>1
<1>5. k - 1 \in 0 .. K /\ k - 1 \notin T
  BY <1>3, <1>4
<1>6. PICK g : IsGiven(g, need, a, k - 1)
  BY <1>5
<1>. DEFINE h == [n \in 0 .. k |-> IF n = k THEN g[k - 1] + Share(need, g[k - 1], a[k]) ELSE g[n]]
<1>7. \A n \in 0 .. k - 1 : g[n] = IF n = 0 THEN 0 ELSE g[n - 1] + Share(need, g[n - 1], a[n])
  BY <1>6 DEF IsGiven
<1>8. \A n \in 0 .. k : h[n] = IF n = 0 THEN 0 ELSE h[n - 1] + Share(need, h[n - 1], a[n])
  <2>. SUFFICES ASSUME NEW n \in 0 .. k PROVE h[n] = IF n = 0 THEN 0 ELSE h[n - 1] + Share(need, h[n - 1], a[n])
    OBVIOUS
  <2>1. CASE n = k
    <3>1. h[k - 1] = g[k - 1]
      BY <1>3, <1>4
    <3>. QED  BY <1>3, <1>4, <2>1, <3>1
  <2>2. CASE n # k
    <3>1. n \in 0 .. k - 1 /\ h[n] = g[n]
      BY <1>3, <2>2
    <3>2. n # 0 => h[n - 1] = g[n - 1]
      BY <1>3, <3>1
    <3>. QED  BY <1>7, <3>1, <3>2
  <2>. QED  BY <2>1, <2>2
<1>9. h = [n \in 0 .. k |-> h[n]]
  OBVIOUS
<1>. HIDE DEF h
<1>10. IsGiven(h, need, a, k)
  BY <1>8, <1>9 DEF IsGiven
<1>. QED  BY <1>3, <1>10

(* The stores never give more than is needed, nor take anything back.      *)
LEMMA GivenBounds ==
    ASSUME NEW need \in Nat, NEW K \in Nat, NEW a, \A n \in 1 .. K : a[n] \in Nat,
           NEW g, IsGiven(g, need, a, K)
    PROVE  \A n \in 0 .. K : g[n] \in Nat /\ g[n] <= need /\ (n # 0 => g[n - 1] <= g[n])
<1>. DEFINE Bad(n) == ~(g[n] \in Nat /\ g[n] <= need /\ (n # 0 => g[n - 1] <= g[n]))
            T == {n \in 0 .. K : Bad(n)}
<1>1. SUFFICES ASSUME T # {} PROVE FALSE
  OBVIOUS
<1>2. T \subseteq 0 .. K
  OBVIOUS
<1>3. PICK n \in T : \A m \in T : n <= m
  <2>. HIDE DEF T
  <2>. QED  BY ONLY <1>1, <1>2, LeastUpTo, K \in Nat
<1>4. \A m \in 0 .. K : g[m] = IF m = 0 THEN 0 ELSE g[m - 1] + Share(need, g[m - 1], a[m])
  BY DEF IsGiven
<1>5. n # 0
  BY <1>3, <1>4
<1>6. n - 1 \in 0 .. K /\ ~Bad(n - 1)
  BY <1>3, <1>5
<1>7. g[n - 1] \in Nat /\ g[n - 1] <= need
  BY <1>6
<1>8. g[n] = g[n - 1] + Share(need, g[n - 1], a[n]) /\ a[n] \in Nat
  BY <1>3, <1>4, <1>5
<1>9. ~Bad(n)
  BY <1>7, <1>8 DEF Share, Least
<1>. QED  BY <1>3, <1>9

(* The plans of a generation for one product, by number.                   *)
Ids(r, p, S) == {<<r, p, n>> : n \in S}

(* What the stores that give something give is what was given in all.      *)
LEMMA GivenSum ==
    ASSUME NEW K \in Nat, NEW g, \A n \in 0 .. K : g[n] \in Nat /\ (n # 0 => g[n - 1] <= g[n]), g[0] = 0,
           NEW r, NEW p, NEW f,
           \A n \in {k \in 1 .. K : g[k] > g[k - 1]} : f[<<r, p, n>>] = g[n] - g[n - 1]
    PROVE  SumFunctionOnSet(f, Ids(r, p, {k \in 1 .. K : g[k] > g[k - 1]})) = g[K]
<1>. DEFINE S(m) == {k \in 1 .. m : g[k] > g[k - 1]}
            Good(m) == IsFiniteSet(Ids(r, p, S(m))) /\ SumFunctionOnSet(f, Ids(r, p, S(m))) = g[m]
            T == {m \in 0 .. K : ~Good(m)}
<1>1. SUFFICES ASSUME T # {} PROVE FALSE
  <2>1. Good(K)
    <3>. HIDE DEF Good
    <3>. QED  BY <1>1
  <2>. QED  BY <2>1
<1>2. T \subseteq 0 .. K
  OBVIOUS
<1>3. PICK m \in T : \A n \in T : m <= n
  <2>. HIDE DEF T
  <2>. QED  BY ONLY <1>1, <1>2, LeastUpTo, K \in Nat
<1>4. m # 0
  <2>1. S(0) = {}
    OBVIOUS
  <2>2. Ids(r, p, S(0)) = {}
    BY <2>1 DEF Ids
  <2>3. Good(0)
    BY <2>2, SumEmpty, FS_EmptySet
  <2>. HIDE DEF Good
  <2>. QED  BY <1>3, <2>3
<1>5. Good(m - 1) /\ m \in 1 .. K
  <2>. HIDE DEF Good
  <2>. QED  BY <1>3, <1>4
<1>6. CASE g[m] > g[m - 1]
  <2>1. S(m) = S(m - 1) \cup {m} /\ m \notin S(m - 1)
    BY <1>5, <1>6
  <2>2. Ids(r, p, S(m)) = Ids(r, p, S(m - 1)) \cup {<<r, p, m>>} /\ <<r, p, m>> \notin Ids(r, p, S(m - 1))
    <3>. HIDE DEF S
    <3>. QED  BY <2>1 DEF Ids
  <2>3. \A i \in Ids(r, p, S(m)) : f[i] \in Int
    <3>. SUFFICES ASSUME NEW n \in S(m) PROVE f[<<r, p, n>>] \in Int
      BY DEF Ids
    <3>1. n \in 1 .. K /\ g[n] > g[n - 1]
      BY <1>5
    <3>. QED  BY <3>1
  <2>4. IsFiniteSet(Ids(r, p, S(m)))
    BY <1>5, <2>2, FS_AddElement
  <2>5. f[<<r, p, m>>] = g[m] - g[m - 1]
    BY <1>5, <1>6
  <2>6. SumFunctionOnSet(f, Ids(r, p, S(m))) = f[<<r, p, m>>] + SumFunctionOnSet(f, Ids(r, p, S(m - 1)))
    <3>. HIDE DEF S
    <3>1. \A i \in Ids(r, p, S(m - 1)) \cup {<<r, p, m>>} : f[i] \in Int
      BY <2>2, <2>3
    <3>. QED  BY ONLY <1>5, <2>2, <3>1, SumAdd
  <2>7. g[m] \in Nat /\ g[m - 1] \in Nat
    BY <1>5
  <2>8. SumFunctionOnSet(f, Ids(r, p, S(m))) = g[m]
    BY <1>5, <2>5, <2>6, <2>7
  <2>9. Good(m)
    BY <2>4, <2>8
  <2>. HIDE DEF Good
  <2>. QED  BY <1>3, <2>9
<1>7. CASE ~(g[m] > g[m - 1])
  <2>1. S(m) = S(m - 1) /\ g[m] = g[m - 1]
    BY <1>5, <1>7
  <2>2. Good(m)
    BY <1>5, <2>1
  <2>. HIDE DEF Good
  <2>. QED  BY <1>3, <2>2
<1>. QED  BY <1>6, <1>7

(* A ranking lists each candidate store once.                              *)
LEMMA RankedStores ==
    ASSUME PlanInv, NEW r \in Requests, pc[r] = "plan", NEW p \in Products, NEW ranked \in Rankings(r, p)
    PROVE  \E K \in Nat :
              /\ DOMAIN ranked = 1 .. K /\ Cardinality(DOMAIN ranked) = K
              /\ \A n \in 1 .. K : /\ ranked[n] \in Sisters(p) /\ Surplus(r, ranked[n]) \in Nat
                                   /\ Store[ranked[n]] \in Stores
              /\ \A m, n \in 1 .. K : Store[ranked[m]] = Store[ranked[n]] => m = n
<1>. DEFINE C == {s \in Sisters(p) : Surplus(r, s) > 0}
            K == Cardinality(C)
<1>1. ranked \in [1 .. K -> C] /\ \A m, n \in DOMAIN ranked : m < n => Outranks(r, ranked[m], ranked[n])
  BY DEF Rankings
<1>2. C \subseteq Products /\ IsFiniteSet(C)
  <2>1. C \subseteq Products
    BY DEF Sisters
  <2>. HIDE DEF C
  <2>. QED  BY <2>1, ReplenishmentAssumption, FS_Subset
<1>3. K \in Nat
  BY <1>2, FS_CardinalityType
<1>4. \A s \in Products : Surplus(r, s) \in Int
  <2>1. tx[r].qty \in [Products -> Int] /\ qty \in [Products -> Int]
    BY DEF PlanInv, Relies, HasRead, Rows, Generates
  <2>. QED  BY <2>1, TargetNat DEF Surplus
<1>5. \A s \in C : s \in Sisters(p) /\ Surplus(r, s) \in Nat /\ Surplus(r, s) \in Int /\ Store[s] \in Stores /\ Store[s] \in Int /\ Sku[s] = Sku[p]
  <2>. SUFFICES ASSUME NEW s \in C
                PROVE  s \in Sisters(p) /\ Surplus(r, s) \in Nat /\ Surplus(r, s) \in Int /\ Store[s] \in Stores /\ Store[s] \in Int /\ Sku[s] = Sku[p]
    OBVIOUS
  <2>1. s \in Products /\ s \in Sisters(p) /\ Surplus(r, s) > 0 /\ Sku[s] = Sku[p]
    BY <1>2 DEF Sisters
  <2>2. Surplus(r, s) \in Int
    BY <1>4, <2>1
  <2>3. Store[s] \in Stores /\ Store[s] \in Int
    BY <2>1, ReplenishmentAssumption DEF Stores
  <2>. QED  BY <2>1, <2>2, <2>3
<1>6. DOMAIN ranked = 1 .. K /\ \A n \in 1 .. K : ranked[n] \in C
  BY <1>1
<1>7. Cardinality(1 .. K) = K
  <2>1. 1 \in Int /\ K \in Int
    BY <1>3
  <2>2. Cardinality(1 .. K) = IF 1 <= K THEN K - 1 + 1 ELSE 0
    <3>. HIDE DEF K
    <3>. QED  BY <2>1, FS_Interval
  <2>. HIDE DEF K
  <2>. QED  BY <1>3, <2>2
<1>8. ASSUME NEW m \in 1 .. K, NEW n \in 1 .. K, m < n PROVE Store[ranked[m]] # Store[ranked[n]]
  <2>. SUFFICES ASSUME Store[ranked[m]] = Store[ranked[n]] PROVE FALSE
    OBVIOUS
  <2>1. ranked[m] \in C /\ ranked[n] \in C
    BY <1>6
  <2>2. ranked[m] = ranked[n]
    BY <1>2, <1>5, <2>1, ReplenishmentAssumption
  <2>3. Outranks(r, ranked[m], ranked[n])
    BY <1>1, <1>6, <1>8
  <2>4. Surplus(r, ranked[m]) \in Int /\ Store[ranked[m]] \in Int
    BY <1>5, <2>1
  <2>. QED  BY <2>2, <2>3, <2>4 DEF Outranks
<1>9. \A m, n \in 1 .. K : Store[ranked[m]] = Store[ranked[n]] => m = n
  <2>. SUFFICES ASSUME NEW m \in 1 .. K, NEW n \in 1 .. K, m # n PROVE Store[ranked[m]] # Store[ranked[n]]
    OBVIOUS
  <2>1. m < n \/ n < m
    BY <1>3
  <2>. QED  BY <1>8, <2>1
<1>. HIDE DEF C, K
<1>10. \A n \in 1 .. K : /\ ranked[n] \in Sisters(p) /\ Surplus(r, ranked[n]) \in Nat
                         /\ Store[ranked[n]] \in Stores
  BY <1>5, <1>6
<1>. QED  BY <1>3, <1>6, <1>7, <1>9, <1>10

(* The row of one source, and the rows of the stores.                      *)
PlanRow(p, need, n, s, f) ==
    [product |-> p, needed |-> need, suggested |-> n, supplier |-> s, from |-> f,
     status |-> "RECOMMENDED", key |-> NoOne, executed |-> 0]
StoreRows(g, p, need, ranked) ==
    [n \in {k \in DOMAIN ranked : g[k] > g[k - 1]} |-> PlanRow(p, need, g[n] - g[n - 1], NoOne, Store[ranked[n]])]

(* What splitting a shortage yields.                                       *)
LEMMA SplitIs ==
    ASSUME NEW r, NEW p, NEW rows \in Split(r, p)
    PROVE  \E ranked \in Rankings(r, p) :
              LET need == tx[r].inbound[p]
                  g == Given(r, need, ranked)
                  last == Cardinality(DOMAIN ranked)
                  rest == need - g[last]
              IN  \/ rows = StoreRows(g, p, need, ranked)
                  \/ /\ ~(rest <= 0)
                     /\ \E c \in BestPrices(p, rest) :
                           rows = With(StoreRows(g, p, need, ranked), last + 1, PlanRow(p, need, Rounded(rest, c), c.supplier, NoOne))
  BY DEF Split, StoreRows, PlanRow

(* What the ranked stores give satisfies its defining equation.            *)
LEMMA GivenIs ==
    ASSUME NEW r, NEW need, NEW ranked, NEW K \in Nat, DOMAIN ranked = 1 .. K,
           NEW a, \A n \in 1 .. K : a[n] = Surplus(r, ranked[n])
    PROVE  IsGiven(Given(r, need, ranked), need, a, K)
<1>. DEFINE D == {0} \cup DOMAIN ranked
            Eq(g) == g = [n \in D |-> IF n = 0 THEN 0 ELSE g[n - 1] + Share(need, g[n - 1], Surplus(r, ranked[n]))]
<1>1. D = 0 .. K
  OBVIOUS
<1>2. \A g : Eq(g) <=> IsGiven(g, need, a, K)
  <2>. SUFFICES ASSUME NEW g PROVE Eq(g) <=> IsGiven(g, need, a, K)
    OBVIOUS
  <2>1. [n \in D |-> IF n = 0 THEN 0 ELSE g[n - 1] + Share(need, g[n - 1], Surplus(r, ranked[n]))]
          = [n \in 0 .. K |-> IF n = 0 THEN 0 ELSE g[n - 1] + Share(need, g[n - 1], a[n])]
    BY <1>1
  <2>. QED  BY <2>1 DEF IsGiven
<1>3. Given(r, need, ranked) = CHOOSE g : Eq(g)
  BY DEF Given
<1>4. \E g : Eq(g)
  <2>. HIDE DEF Eq
  <2>. QED  BY <1>2, GivenExists
<1>5. Eq(CHOOSE g : Eq(g))
  <2>. HIDE DEF Eq
  <2>. QED  BY <1>4
<1>. HIDE DEF Eq
<1>. QED  BY <1>2, <1>3, <1>5

(* Which of K stores give something.                                       *)
Sources(K, g) == {k \in 1 .. K : g[k] > g[k - 1]}
(* The rows are one for each of K stores that gives something, and one for *)
(* a supplier if that leaves a rest.                                       *)
SplitAs(rows, p, need, K, ranked, g) ==
    /\ \A n \in 1 .. K : ranked[n] \in Sisters(p) /\ Store[ranked[n]] \in Stores
    /\ \A m, n \in 1 .. K : Store[ranked[m]] = Store[ranked[n]] => m = n
    /\ \A n \in 0 .. K : g[n] \in Nat /\ g[n] <= need /\ (n # 0 => g[n - 1] <= g[n])
    /\ g[0] = 0
    /\ Sources(K, g) \subseteq DOMAIN rows /\ DOMAIN rows \subseteq Sources(K, g) \cup {K + 1}
    /\ \A n \in Sources(K, g) : rows[n] = PlanRow(p, need, g[n] - g[n - 1], NoOne, Store[ranked[n]])
    /\ K + 1 \in DOMAIN rows =>
          /\ g[K] < need
          /\ \E c \in Price : rows[K + 1] = PlanRow(p, need, Rounded(need - g[K], c), c.supplier, NoOne)

(* A shortage is split in that way.                                        *)
LEMMA SplitRows ==
    ASSUME PlanInv, NEW r \in Requests, pc[r] = "plan", NEW p \in Products, NEW need \in Nat, need = tx[r].inbound[p],
           NEW rows \in Split(r, p)
    PROVE  \E K \in Nat : \E ranked, g : SplitAs(rows, p, need, K, ranked, g)
<1>1. PICK ranked \in Rankings(r, p) :
              LET g == Given(r, need, ranked)
                  last == Cardinality(DOMAIN ranked)
                  rest == need - g[last]
              IN  \/ rows = StoreRows(g, p, need, ranked)
                  \/ /\ ~(rest <= 0)
                     /\ \E c \in BestPrices(p, rest) :
                           rows = With(StoreRows(g, p, need, ranked), last + 1, PlanRow(p, need, Rounded(rest, c), c.supplier, NoOne))
  BY SplitIs
<1>2. PICK K \in Nat :
              /\ DOMAIN ranked = 1 .. K /\ Cardinality(DOMAIN ranked) = K
              /\ \A n \in 1 .. K : /\ ranked[n] \in Sisters(p) /\ Surplus(r, ranked[n]) \in Nat
                                   /\ Store[ranked[n]] \in Stores
              /\ \A m, n \in 1 .. K : Store[ranked[m]] = Store[ranked[n]] => m = n
  <2>1. PlanInv /\ r \in Requests /\ pc[r] = "plan" /\ p \in Products /\ ranked \in Rankings(r, p)
    BY <1>1
  <2>. QED  BY ONLY <2>1, RankedStores
<1>3. PICK g : g = Given(r, need, ranked)
  OBVIOUS
<1>. DEFINE a == [n \in 1 .. K |-> Surplus(r, ranked[n])]
            sources == Sources(K, g)
<1>4. IsGiven(g, need, a, K) /\ \A n \in 1 .. K : a[n] \in Nat
  <2>1. \A n \in 1 .. K : a[n] = Surplus(r, ranked[n]) /\ a[n] \in Nat
    BY <1>2
  <2>. HIDE DEF a
  <2>. QED  BY <1>2, <1>3, <2>1, GivenIs
<1>. HIDE DEF a
<1>5. /\ \A n \in 0 .. K : g[n] \in Nat /\ g[n] <= need /\ (n # 0 => g[n - 1] <= g[n])
      /\ g[0] = 0
  <2>1. g[0] = 0
    BY <1>4 DEF IsGiven
  <2>. QED  BY <1>4, <2>1, GivenBounds
<1>6. /\ DOMAIN StoreRows(g, p, need, ranked) = sources
      /\ \A n \in sources : StoreRows(g, p, need, ranked)[n] = PlanRow(p, need, g[n] - g[n - 1], NoOne, Store[ranked[n]])
  BY <1>2 DEF StoreRows, Sources
<1>7. K + 1 \notin sources
  BY DEF Sources
<1>8. CASE rows = StoreRows(g, p, need, ranked)
  <2>1. DOMAIN rows = sources /\ K + 1 \notin DOMAIN rows
    BY <1>6, <1>7, <1>8
  <2>2. \A n \in sources : rows[n] = PlanRow(p, need, g[n] - g[n - 1], NoOne, Store[ranked[n]])
    BY <1>6, <1>8
  <2>3. SplitAs(rows, p, need, K, ranked, g)
    BY <1>2, <1>5, <2>1, <2>2 DEF SplitAs
  <2>. QED  BY <2>3
<1>9. CASE rows # StoreRows(g, p, need, ranked)
  <2>1. PICK c \in BestPrices(p, need - g[K]) :
          /\ ~(need - g[K] <= 0)
          /\ rows = With(StoreRows(g, p, need, ranked), K + 1, PlanRow(p, need, Rounded(need - g[K], c), c.supplier, NoOne))
    BY <1>1, <1>2, <1>3, <1>9
  <2>2. c \in Price
    BY DEF BestPrices, CurrentPrices, PlanInv, Rows
  <2>3. /\ DOMAIN rows = sources \cup {K + 1}
        /\ rows[K + 1] = PlanRow(p, need, Rounded(need - g[K], c), c.supplier, NoOne)
        /\ \A n \in sources : rows[n] = StoreRows(g, p, need, ranked)[n]
    <3>. DEFINE stores == StoreRows(g, p, need, ranked)
                last == PlanRow(p, need, Rounded(need - g[K], c), c.supplier, NoOne)
    <3>1. rows = [n \in DOMAIN stores \cup {K + 1} |-> IF n = K + 1 THEN last ELSE stores[n]] /\ DOMAIN stores = sources
      BY <1>6, <2>1 DEF With
    <3>. HIDE DEF stores, last, sources
    <3>2. /\ DOMAIN rows = sources \cup {K + 1} /\ rows[K + 1] = last
          /\ \A n \in sources : rows[n] = stores[n]
      BY <1>7, <3>1
    <3>. QED  BY <3>2 DEF stores, last
  <2>4. g[K] < need
    BY <1>5, <2>1
  <2>5. \A n \in sources : rows[n] = PlanRow(p, need, g[n] - g[n - 1], NoOne, Store[ranked[n]])
    BY <1>6, <2>3
  <2>. HIDE DEF sources
  <2>6. sources \subseteq DOMAIN rows /\ DOMAIN rows \subseteq sources \cup {K + 1}
    BY <2>3
  <2>7. \E e \in Price : rows[K + 1] = PlanRow(p, need, Rounded(need - g[K], e), e.supplier, NoOne)
    BY <2>2, <2>3
  <2>8. SplitAs(rows, p, need, K, ranked, g)
    BY <1>2, <1>5, <2>4, <2>5, <2>6, <2>7 DEF SplitAs, sources
  <2>. QED  BY <2>8
<1>. QED  BY <1>8, <1>9

(* Whether plans fit a shortage depends on the plans of that shortage and  *)
(* on nothing that changes after they were written.                        *)
LEMMA FitsSame ==
    ASSUME NEW P, NEW Q, NEW i, i \in DOMAIN P, Family(P, i) = Family(Q, i),
           \A j \in Family(P, i) : SameCore(P[j], Q[j]), Fits(P, i)
    PROVE  Fits(Q, i)
<1>1. i \in Family(P, i)
  BY DEF Family
<1>2. P[i].needed = Q[i].needed
  BY <1>1 DEF SameCore
<1>3. FromStores(P, i) = FromStores(Q, i) /\ \A j \in FromStores(P, i) : P[j].suggested = Q[j].suggested /\ P[j].from = Q[j].from
  BY DEF FromStores, SameCore
<1>. DEFINE S == FromStores(P, i)
<1>4. [j \in S |-> P[j].suggested] = [j \in S |-> Q[j].suggested]
  BY <1>3
<1>5. Drawn(P, i) = Drawn(Q, i)
  BY <1>3, <1>4 DEF Drawn, SumOver
<1>. QED  BY <1>2, <1>3, <1>5 DEF Fits

(* Every row of a split is a good plan.                                    *)
LEMMA SplitPlans ==
    ASSUME NEW r \in Requests, NEW p \in Products, NEW need \in Nat, need > 0,
           NEW rows, NEW K \in Nat, NEW ranked, NEW g, SplitAs(rows, p, need, K, ranked, g), NEW n \in DOMAIN rows
    PROVE  IsPlan(<<r, p, n>>, rows[n]) /\ IsDraft(rows[n]) /\ n \in Nat \ {0} /\ rows[n].needed = need
<1>1. n \in Sources(K, g) \/ n = K + 1
  BY DEF SplitAs
<1>2. n \in Nat \ {0}
  BY <1>1 DEF Sources
<1>3. <<r, p, n>> \in PlanIds /\ <<r, p, n>>[2] = p
  BY <1>2 DEF PlanIds
<1>4. CASE n \in Sources(K, g)
  <2>. DEFINE m == g[n] - g[n - 1]
              f == Store[ranked[n]]
  <2>1. n \in 1 .. K /\ g[n] > g[n - 1]
    BY <1>4 DEF Sources
  <2>2. g[n] \in Nat /\ g[n - 1] \in Nat
    BY <2>1 DEF SplitAs
  <2>3. m \in Nat /\ m > 0
    BY <2>1, <2>2
  <2>4. f \in Stores /\ f # NoOne /\ \E s \in Sisters(p) : Store[s] = f
    BY <2>1, ReplenishmentAssumption DEF SplitAs
  <2>5. rows[n] = PlanRow(p, need, m, NoOne, f)
    BY <1>4 DEF SplitAs
  <2>. HIDE DEF m, f
  <2>6. rows[n] \in Plan
    BY <2>3, <2>4, <2>5 DEF PlanRow, Plan, PlanStatuses
  <2>7. /\ rows[n].product = p /\ rows[n].needed = need /\ rows[n].suggested = m /\ rows[n].supplier = NoOne
        /\ rows[n].from = f /\ rows[n].status = "RECOMMENDED" /\ rows[n].key = NoOne
    BY <2>5 DEF PlanRow
  <2>. QED  BY <1>2, <1>3, <2>3, <2>4, <2>6, <2>7 DEF IsPlan, IsDraft
<1>5. CASE n = K + 1
  <2>1. g[K] < need /\ g[K] \in Nat
    BY <1>5 DEF SplitAs
  <2>2. PICK c \in Price : rows[n] = PlanRow(p, need, Rounded(need - g[K], c), c.supplier, NoOne)
    BY <1>5 DEF SplitAs
  <2>. DEFINE m == Rounded(need - g[K], c)
  <2>3. m \in Nat /\ m > 0
    <3>1. need - g[K] \in Nat /\ need - g[K] > 0
      BY <2>1
    <3>2. Rounded(need - g[K], c) \in Nat /\ Rounded(need - g[K], c) >= need - g[K]
      BY <3>1, RoundedUp
    <3>. QED  BY <3>1, <3>2
  <2>4. c.supplier \in Suppliers /\ c.supplier # NoOne
    BY ReplenishmentAssumption DEF Price
  <2>. HIDE DEF m
  <2>5. rows[n] = PlanRow(p, need, m, c.supplier, NoOne)
    BY <2>2 DEF m
  <2>6. rows[n] \in Plan
    BY <2>3, <2>4, <2>5 DEF PlanRow, Plan, PlanStatuses
  <2>7. /\ rows[n].product = p /\ rows[n].needed = need /\ rows[n].suggested = m /\ rows[n].supplier = c.supplier
        /\ rows[n].from = NoOne /\ rows[n].status = "RECOMMENDED" /\ rows[n].key = NoOne
    BY <2>5 DEF PlanRow
  <2>. QED  BY <1>2, <1>3, <2>3, <2>4, <2>6, <2>7 DEF IsPlan, IsDraft
<1>. QED  BY <1>1, <1>4, <1>5

(* The rows of a split fit the shortage.                                   *)
LEMMA SplitFits ==
    ASSUME NEW r \in Requests, NEW p \in Products, NEW need \in Nat, need > 0,
           NEW rows, NEW K \in Nat, NEW ranked, NEW g, SplitAs(rows, p, need, K, ranked, g),
           NEW P, NEW i \in DOMAIN P, Family(P, i) = Ids(r, p, DOMAIN rows),
           \A n \in DOMAIN rows : P[<<r, p, n>>] = rows[n]
    PROVE  Fits(P, i)
<1>. DEFINE S == Ids(r, p, Sources(K, g))
            f == [j \in S |-> P[j].suggested]
<1>1. PICK k \in DOMAIN rows : i = <<r, p, k>>
  <2>1. i \in Family(P, i)
    BY DEF Family
  <2>. QED  BY <2>1 DEF Ids
<1>2. P[i].needed = need
  BY <1>1, SplitPlans
<1>3. \A n \in Sources(K, g) :
        /\ n \in 1 .. K /\ P[<<r, p, n>>].from = Store[ranked[n]] /\ P[<<r, p, n>>].suggested = g[n] - g[n - 1]
        /\ Store[ranked[n]] # NoOne
  <2>. SUFFICES ASSUME NEW n \in Sources(K, g)
                PROVE  /\ n \in 1 .. K /\ P[<<r, p, n>>].from = Store[ranked[n]] /\ P[<<r, p, n>>].suggested = g[n] - g[n - 1]
                       /\ Store[ranked[n]] # NoOne
    OBVIOUS
  <2>1. n \in DOMAIN rows /\ rows[n] = PlanRow(p, need, g[n] - g[n - 1], NoOne, Store[ranked[n]])
    BY DEF SplitAs
  <2>2. n \in 1 .. K
    BY DEF Sources
  <2>3. Store[ranked[n]] # NoOne
    BY <2>2, ReplenishmentAssumption DEF SplitAs
  <2>. QED  BY <2>1, <2>2, <2>3 DEF PlanRow
<1>4. K + 1 \in DOMAIN rows => P[<<r, p, K + 1>>].from = NoOne
  <2>. SUFFICES ASSUME K + 1 \in DOMAIN rows PROVE P[<<r, p, K + 1>>].from = NoOne
    OBVIOUS
  <2>1. PICK c \in Price : rows[K + 1] = PlanRow(p, need, Rounded(need - g[K], c), c.supplier, NoOne)
    BY DEF SplitAs
  <2>2. rows[K + 1].from = NoOne
    BY <2>1 DEF PlanRow
  <2>3. P[<<r, p, K + 1>>] = rows[K + 1]
    OBVIOUS
  <2>. QED  BY <2>2, <2>3
<1>5. FromStores(P, i) = S
  <2>1. ASSUME NEW n \in DOMAIN rows PROVE P[<<r, p, n>>].from # NoOne <=> n \in Sources(K, g)
    <3>1. n \in Sources(K, g) \/ n = K + 1
      BY DEF SplitAs
    <3>2. K + 1 \notin Sources(K, g)
      BY DEF Sources
    <3>. QED  BY <1>3, <1>4, <3>1, <3>2
  <2>2. Sources(K, g) \subseteq DOMAIN rows
    BY DEF SplitAs
  <2>. QED  BY <2>1, <2>2 DEF FromStores, Ids
<1>6. Drawn(P, i) = g[K]
  <2>1. \A n \in Sources(K, g) : f[<<r, p, n>>] = g[n] - g[n - 1]
    BY <1>3 DEF Ids
  <2>. HIDE DEF f
  <2>2. SumFunctionOnSet(f, S) = g[K]
    <3>1. \A n \in 0 .. K : g[n] \in Nat /\ (n # 0 => g[n - 1] <= g[n])
      BY DEF SplitAs
    <3>2. g[0] = 0
      BY DEF SplitAs
    <3>. QED  BY <2>1, <3>1, <3>2, GivenSum DEF Sources
  <2>. QED  BY <1>5, <2>2 DEF Drawn, SumOver, f
<1>7. g[K] \in Nat /\ g[K] <= need
  BY DEF SplitAs
<1>8. Family(P, i) \ FromStores(P, i) \subseteq {<<r, p, K + 1>>}
  BY <1>5 DEF Ids, SplitAs
<1>9. Cardinality(Family(P, i) \ FromStores(P, i)) <= 1
  <2>1. CASE Family(P, i) \ FromStores(P, i) = {}
    BY <2>1, FS_EmptySet
  <2>2. CASE Family(P, i) \ FromStores(P, i) # {}
    <3>1. Family(P, i) \ FromStores(P, i) = {<<r, p, K + 1>>}
      BY <1>8, <2>2
    <3>2. Cardinality({<<r, p, K + 1>>}) = 1
      BY FS_Singleton
    <3>. QED  BY <3>1, <3>2
  <2>. QED  BY <2>1, <2>2
<1>10. Family(P, i) # FromStores(P, i) => g[K] < need
  <2>. SUFFICES ASSUME Family(P, i) # FromStores(P, i) PROVE g[K] < need
    OBVIOUS
  <2>1. K + 1 \in DOMAIN rows
    BY <1>5 DEF Ids, SplitAs
  <2>. QED  BY <2>1 DEF SplitAs
<1>11. \A a, b \in FromStores(P, i) : P[a].from = P[b].from => a = b
  <2>. SUFFICES ASSUME NEW m \in Sources(K, g), NEW n \in Sources(K, g), P[<<r, p, m>>].from = P[<<r, p, n>>].from
                PROVE  <<r, p, m>> = <<r, p, n>>
    BY <1>5 DEF Ids
  <2>1. Store[ranked[m]] = Store[ranked[n]] /\ m \in 1 .. K /\ n \in 1 .. K
    BY <1>3
  <2>. QED  BY <2>1 DEF SplitAs
<1>. QED  BY <1>2, <1>6, <1>7, <1>9, <1>10, <1>11 DEF Fits

(* The rows of the next shortage join those the generation holds already.  *)
LEMMA PlanShortageKeeps == ASSUME PlanInv, NEW r \in Requests, PlanShortage(r) PROVE PlanInv'
<1>0. Shape /\ IsTx(tx[r]) /\ Served(r) /\ HasRead(r) /\ Drafted(r)
  BY DEF PlanInv, Shape, Relies
<1>1. pc[r] = "plan" /\ req[r].kind = "GENERATE" /\ Goto(r, "shortage") /\ UNCHANGED held
  BY DEF PlanShortage, Is
<1>. DEFINE p == tx[r].quantity
            need == tx[r].inbound[p]
            old == tx[r].new
<1>2. /\ p \in tx[r].left /\ tx[r].left \subseteq Products /\ p \in Products /\ need \in Nat /\ need > 0
      /\ <<"shortage", p>> \in held[r]
  BY <1>0, <1>1, SMTT(40) DEF Drafted
<1>3. PICK rows \in (IF ActivePlans(p) # {} THEN {<<>>} ELSE Split(r, p)) :
        LET ids == {<<r, p, n>> : n \in DOMAIN rows}
            all == [i \in DOMAIN old \cup ids |-> IF i \in ids THEN rows[i[3]] ELSE old[i]]
        IN  tx' = [tx EXCEPT ![r] = [tx[r] EXCEPT !.left = @ \ {p}, !.new = all]]
  BY DEF PlanShortage
<1>. DEFINE ids == Ids(r, p, DOMAIN rows)
            all == [i \in DOMAIN old \cup ids |-> IF i \in ids THEN rows[i[3]] ELSE old[i]]
            x == [tx[r] EXCEPT !.left = @ \ {p}, !.new = all]
<1>4. tx' = [tx EXCEPT ![r] = x]
  BY <1>3 DEF Ids
<1>. HIDE DEF p
<1>5. \A i \in DOMAIN old :
         /\ IsPlan(i, old[i]) /\ IsDraft(old[i]) /\ Fits(old, i) /\ i[1] = r /\ i[2] # p /\ i[2] \notin tx[r].left
         /\ <<"shortage", i[2]>> \in held[r] /\ ActivePlans(i[2]) = {}
  BY <1>0, <1>1, <1>2 DEF Drafted
<1>6. \A i \in ids : i[1] = r /\ i[2] = p
  BY DEF Ids
<1>7. /\ DOMAIN all = DOMAIN old \cup ids
      /\ \A i \in DOMAIN old : all[i] = old[i]
      /\ \A n \in DOMAIN rows : all[<<r, p, n>>] = rows[n]
  <2>1. \A i \in DOMAIN old : i \notin ids
    BY <1>5, <1>6
  <2>2. \A n \in DOMAIN rows : <<r, p, n>> \in ids /\ <<r, p, n>>[3] = n
    BY DEF Ids
  <2>. HIDE DEF ids
  <2>. QED  BY <2>1, <2>2
<1>. HIDE DEF all
<1>8. ASSUME NEW i \in DOMAIN old PROVE Fits(all, i)
  <2>1. Family(all, i) = Family(old, i)
    <3>1. \A j \in ids : ~(j[1] = i[1] /\ j[2] = i[2])
      BY <1>5, <1>6
    <3>. HIDE DEF ids
    <3>. QED  BY <1>7, <3>1 DEF Family
  <2>2. \A j \in Family(old, i) : SameCore(old[j], all[j])
    BY <1>7 DEF Family, SameCore
  <2>. QED  BY <1>5, <2>1, <2>2, FitsSame
<1>9. ASSUME NEW n \in DOMAIN rows
      PROVE  /\ IsPlan(<<r, p, n>>, rows[n]) /\ IsDraft(rows[n]) /\ Fits(all, <<r, p, n>>)
             /\ ActivePlans(p) = {}
  <2>1. ActivePlans(p) = {} /\ rows \in Split(r, p)
    <3>1. ActivePlans(p) # {} => rows = <<>> /\ DOMAIN <<>> = {}
      BY <1>3
    <3>. QED  BY <1>3, <1>9, <3>1
  <2>2. PICK K \in Nat : \E ranked, g : SplitAs(rows, p, need, K, ranked, g)
    BY <1>1, <1>2, <2>1, SplitRows
  <2>3. PICK ranked, g : SplitAs(rows, p, need, K, ranked, g)
    BY <2>2
  <2>4. IsPlan(<<r, p, n>>, rows[n]) /\ IsDraft(rows[n])
    BY <1>2, <2>3, SplitPlans
  <2>5. Family(all, <<r, p, n>>) = ids
    <3>1. \A j \in DOMAIN old : j[2] # p
      BY <1>5
    <3>2. <<r, p, n>>[1] = r /\ <<r, p, n>>[2] = p
      OBVIOUS
    <3>. HIDE DEF ids
    <3>. QED  BY <1>6, <1>7, <3>1, <3>2 DEF Family
  <2>6. <<r, p, n>> \in DOMAIN all
    BY <1>7 DEF Ids
  <2>7. Fits(all, <<r, p, n>>)
    BY <1>2, <1>7, <2>3, <2>5, <2>6, SplitFits
  <2>. QED  BY <2>1, <2>4, <2>7
<1>10. IsTx(x) /\ x.qty = tx[r].qty /\ x.inbound = tx[r].inbound /\ x.left = tx[r].left \ {p} /\ x.new = all
  <2>1. x = [tx[r] EXCEPT !.left = @ \ {p}, !.new = all]
    OBVIOUS
  <2>. HIDE DEF x
  <2>. QED  BY ONLY <1>0, <2>1 DEF IsTx
<1>. HIDE DEF x
<1>11. Moves(r, "shortage", {}, x)
  BY <1>0, <1>1, <1>4, MovesOn
<1>12. /\ pc'[r] = "shortage" /\ tx'[r] = x /\ req'[r] = req[r] /\ load' = load /\ held'[r] = held[r] \cup {}
       /\ \A q : ActivePlans(q)' = ActivePlans(q)
  BY <1>0, <1>11, Moved
<1>13. Served(r)'
  BY <1>0, <1>1, <1>12 DEF Served, Pending, Generates, Executes
<1>14. ASSUME NEW i \in DOMAIN all
       PROVE  /\ IsPlan(i, all[i]) /\ IsDraft(all[i]) /\ Fits(all, i) /\ i[1] = r /\ i[2] \notin x.left
              /\ <<"shortage", i[2]>> \in held[r] /\ ActivePlans(i[2]) = {}
  <2>1. CASE i \in DOMAIN old
    BY <1>5, <1>7, <1>8, <1>10, <2>1
  <2>2. CASE i \in ids
    <3>1. PICK n \in DOMAIN rows : i = <<r, p, n>>
      BY <2>2 DEF Ids
    <3>2. i[1] = r /\ i[2] = p /\ all[i] = rows[n]
      BY <1>6, <1>7, <2>2, <3>1
    <3>. QED  BY <1>2, <1>9, <1>10, <3>1, <3>2
  <2>. QED  BY <1>7, <2>1, <2>2
<1>15. Drafted(r)'
  <2>1. x.left \subseteq Products /\ \A q \in x.left : x.inbound[q] \in Nat \ {0}
    BY <1>0, <1>1, <1>10 DEF Drafted
  <2>2. tx'[r] = x /\ x.new = all /\ held'[r] = held[r]
    BY <1>10, <1>12
  <2>3. \A i \in DOMAIN all : ActivePlans(i[2])' = {}
    BY <1>12, <1>14
  <2>. QED  BY <1>12, <1>14, <2>1, <2>2, <2>3 DEF Drafted
<1>16. Relies(r)'
  <2>1. HasRead(r)'
    BY <1>0, <1>1, <1>10, <1>12 DEF HasRead, Generates
  <2>. QED  BY <1>12, <1>15, <2>1 DEF Relies, Holds, Decided
<1>17. "shortage" \in Labels
  BY DEF Labels, Generates
<1>. QED  BY <1>1, <1>10, <1>11, <1>13, <1>16, <1>17, MoveStep

-----------------------------------------------------------------------------
(* Steps that write.                                                       *)

(* A step that leaves the documents alone leaves what they add up to.      *)
LEMMA DocsKept ==
    ASSUME docs' = docs
    PROVE  \A p : OnOrder(p)' = OnOrder(p) /\ Committed(p)' = Committed(p)
<1>. SUFFICES ASSUME NEW p PROVE OnOrder(p)' = OnOrder(p) /\ Committed(p)' = Committed(p)
  OBVIOUS
<1>1. OnOrder(p)' = OnOrder(p)
  BY DEF OnOrder, OpenOrders, SumOver
<1>2. Committed(p)' = Committed(p)
  BY DEF Committed, SumOver
<1>. QED  BY <1>1, <1>2

(* Whoever has written a plan or a document is done.                       *)
LEMMA Fresh ==
    ASSUME PlanInv, NEW r \in Requests, pc[r] # "done"
    PROVE  (\A i \in DOMAIN plans : i[1] # r) /\ r \notin DOMAIN docs
  BY DEF PlanInv, Rows, PlansOK, DocsOK

(* The commit of a generation.                                             *)
LEMMA CommitPlansKeeps == ASSUME PlanInv, NEW r \in Requests, CommitPlans(r), Over(r) PROVE PlanInv'
<1>. DEFINE new == tx[r].new
<1>0. Rows /\ PlansOK /\ DocsOK /\ Drafted(r) /\ Exclusive
  BY DEF PlanInv, Rows, Relies
<1>1. /\ pc[r] = "shortage" /\ UNCHANGED <<qty, prices, active, docs, load>>
      /\ plans' = [i \in DOMAIN plans \cup DOMAIN new |-> IF i \in DOMAIN plans THEN plans[i] ELSE new[i]]
  BY DEF CommitPlans, Is
<1>2. \A i \in DOMAIN plans : i[1] # r /\ i[1] \in Requests
  BY <1>0, <1>1, Fresh DEF PlansOK, IsPlan, PlanIds
<1>3. \A i \in DOMAIN new :
         /\ IsPlan(i, new[i]) /\ IsDraft(new[i]) /\ Fits(new, i) /\ i[1] = r
         /\ <<"shortage", i[2]>> \in held[r] /\ ActivePlans(i[2]) = {}
  BY <1>0, <1>1 DEF Drafted
<1>4. /\ DOMAIN plans' = DOMAIN plans \cup DOMAIN new
      /\ \A i \in DOMAIN plans : plans'[i] = plans[i]
      /\ \A i \in DOMAIN new : plans'[i] = new[i]
  BY <1>1, <1>2, <1>3
<1>5. /\ pc'[r] = "done"
      /\ \A o \in Requests : pc[o] = "done" => pc'[o] = "done"
  BY OverSession
<1>6. PlansOK'
  <2>1. ASSUME NEW i \in DOMAIN plans PROVE IsPlan(i, plans'[i]) /\ pc'[i[1]] = "done" /\ Fits(plans', i)
    <3>1. Family(plans', i) = Family(plans, i)
      BY <1>2, <1>3, <1>4 DEF Family
    <3>2. \A j \in Family(plans, i) : SameCore(plans[j], plans'[j])
      BY <1>4 DEF Family, SameCore
    <3>3. Fits(plans', i)
      BY <1>0, <3>1, <3>2, FitsSame DEF PlansOK
    <3>. QED  BY <1>0, <1>2, <1>4, <1>5, <3>3 DEF PlansOK
  <2>2. ASSUME NEW i \in DOMAIN new PROVE IsPlan(i, plans'[i]) /\ pc'[i[1]] = "done" /\ Fits(plans', i)
    <3>0. i[1] = r /\ \A j \in DOMAIN plans : j[1] # i[1]
      BY <1>2, <1>3
    <3>. HIDE DEF new
    <3>1. Family(plans', i) = Family(new, i)
      BY <1>4, <3>0 DEF Family
    <3>2. \A j \in Family(new, i) : SameCore(new[j], plans'[j])
      BY <1>4 DEF Family, SameCore
    <3>3. Fits(plans', i)
      BY <1>3, <3>1, <3>2, FitsSame
    <3>. QED  BY <1>3, <1>4, <1>5, <3>3
  <2>. QED  BY <1>4, <2>1, <2>2 DEF PlansOK
<1>7. DocsOK' /\ OneDoc'
  <2>1. DocsOK'
    BY <1>0, <1>1, <1>4, <1>5 DEF DocsOK
  <2>2. OneDoc'
    BY <1>0, <1>1 DEF Rows, OneDoc
  <2>. QED  BY <2>1, <2>2
<1>8. HasDoc'
  <2>. SUFFICES ASSUME NEW i \in DOMAIN plans', plans'[i].status = "EXECUTED" PROVE \E d \in DOMAIN docs : docs[d].plan = i
    BY <1>1 DEF HasDoc
  <2>1. i \in DOMAIN plans
    BY <1>3, <1>4 DEF IsDraft
  <2>. QED  BY <1>0, <1>4, <2>1 DEF Rows, HasDoc
<1>9. OneKey'
  <2>1. OneKey
    BY <1>0 DEF Rows
  <2>2. \A i \in DOMAIN new : plans'[i].key = NoOne
    BY <1>3, <1>4 DEF IsDraft
  <2>. QED  BY <1>4, <2>1, <2>2 DEF OneKey
<1>10. ASSUME NEW p, NEW i \in ActivePlans(p)' PROVE i \in ActivePlans(p) \/ (i \in DOMAIN new /\ i[2] = p)
  <2>1. i \in DOMAIN plans' /\ plans'[i].product = p /\ plans'[i].status \in {"RECOMMENDED", "APPROVED"}
    BY <1>10 DEF ActivePlans
  <2>2. CASE i \in DOMAIN plans
    BY <1>4, <2>1, <2>2 DEF ActivePlans
  <2>3. CASE i \in DOMAIN new
    BY <1>3, <1>4, <2>1, <2>3 DEF IsPlan
  <2>. QED  BY <1>4, <2>1, <2>2, <2>3
<1>11. OneBatch'
  <2>. SUFFICES ASSUME NEW p \in Products, NEW i \in ActivePlans(p)', NEW j \in ActivePlans(p)' PROVE i[1] = j[1]
    BY DEF OneBatch
  <2>1. i \in ActivePlans(p) \/ (i \in DOMAIN new /\ i[2] = p)
    BY <1>10
  <2>2. j \in ActivePlans(p) \/ (j \in DOMAIN new /\ j[2] = p)
    BY <1>10
  <2>3. CASE ActivePlans(p) = {}
    <3>1. i \in DOMAIN new /\ j \in DOMAIN new
      BY <2>1, <2>2, <2>3
    <3>2. i[1] = r
      BY <1>3, <3>1
    <3>3. j[1] = r
      BY <1>3, <3>1
    <3>. QED  BY <3>2, <3>3
  <2>4. CASE ActivePlans(p) # {}
    <3>1. i \in ActivePlans(p) /\ j \in ActivePlans(p)
      <4>1. ASSUME NEW k \in DOMAIN new, k[2] = p PROVE FALSE
        <5>1. ActivePlans(k[2]) = {}
          BY <1>3
        <5>. QED  BY <2>4, <4>1, <5>1
      <4>. QED  BY <2>1, <2>2, <4>1
    <3>. QED  BY <1>0, <3>1 DEF Rows, OneBatch
  <2>. QED  BY <2>3, <2>4
<1>12. Rows'
  BY <1>0, <1>1, <1>6, <1>7, <1>8, <1>9, <1>11 DEF Rows
<1>13. KeepsPlans
  BY <1>4 DEF KeepsPlans, SameCore
<1>14. ASSUME NEW o \in Requests, o # r PROVE LeavesLocked(o)
  <2>1. \A p : OnOrder(p)' = OnOrder(p) /\ Committed(p)' = Committed(p) /\ OnOrder(p) \in Nat /\ Committed(p) \in Nat
    BY <1>0, <1>1, DocsKept, PositionNat
  <2>2. ASSUME NEW p \in Products, <<"shortage", p>> \in held[o], ActivePlans(p) = {} PROVE ActivePlans(p)' = {}
    <3>1. \A i \in DOMAIN new : i[2] # p
      BY <1>0, <1>3, <1>14, <2>2 DEF Exclusive
    <3>. QED  BY <1>10, <2>2, <3>1
  <2>3. \A p : OnOrder(p)' <= OnOrder(p) /\ Committed(p)' <= Committed(p)
    BY <2>1
  <2>. QED  BY <1>1, <1>4, <2>1, <2>2, <2>3 DEF LeavesLocked
<1>. QED  BY <1>12, <1>13, <1>14, WriteStep

(* A change of one plan that nobody else has locked: what it is about      *)
(* stays, and what was settled is not made active again.                   *)
LEMMA PlanChange ==
    ASSUME PlanInv, NEW r \in Requests, Over(r), NEW i \in DOMAIN plans, NEW z, plans' = [plans EXCEPT ![i] = z],
           z \in Plan, SameCore(z, plans[i]),
           z.status \in {"RECOMMENDED", "APPROVED"} => plans[i].status \in {"RECOMMENDED", "APPROVED"}
    PROVE  /\ DOMAIN plans' = DOMAIN plans /\ plans'[i] = z /\ \A j \in DOMAIN plans : j # i => plans'[j] = plans[j]
           /\ PlansOK' /\ OneBatch' /\ KeepsPlans
           /\ \A p : ActivePlans(p)' \subseteq ActivePlans(p)
           /\ \A o \in Requests : o # r /\ <<"plan", i>> \notin held[o] =>
                 \A j \in DOMAIN plans : <<"plan", j>> \in held[o] => plans'[j].status = plans[j].status
<1>0. Rows /\ PlansOK
  BY DEF PlanInv, Rows
<1>1. DOMAIN plans' = DOMAIN plans /\ plans'[i] = z /\ \A j \in DOMAIN plans : j # i => plans'[j] = plans[j]
  OBVIOUS
<1>2. \A j \in DOMAIN plans : SameCore(plans'[j], plans[j]) /\ SameCore(plans[j], plans'[j]) /\ plans'[j] \in Plan
  BY <1>0, <1>1 DEF SameCore, PlansOK, IsPlan
<1>3. KeepsPlans
  BY <1>1, <1>2 DEF KeepsPlans
<1>4. PlansOK'
  <2>. SUFFICES ASSUME NEW j \in DOMAIN plans PROVE IsPlan(j, plans'[j]) /\ pc'[j[1]] = "done" /\ Fits(plans', j)
    BY <1>1 DEF PlansOK
  <2>1. IsPlan(j, plans[j]) /\ pc[j[1]] = "done" /\ Fits(plans, j) /\ j[1] \in Requests
    BY <1>0 DEF PlansOK, IsPlan, PlanIds
  <2>2. Family(plans', j) = Family(plans, j)
    BY <1>1 DEF Family
  <2>3. \A k \in Family(plans, j) : SameCore(plans[k], plans'[k])
    BY <1>2 DEF Family
  <2>4. Fits(plans', j)
    BY <2>1, <2>2, <2>3, FitsSame
  <2>5. IsPlan(j, plans'[j])
    BY <1>2, <2>1 DEF IsPlan, SameCore
  <2>6. pc'[j[1]] = "done"
    BY <2>1, OverSession
  <2>. QED  BY <2>4, <2>5, <2>6
<1>5. ASSUME NEW p PROVE ActivePlans(p)' \subseteq ActivePlans(p)
  <2>. SUFFICES ASSUME NEW j \in ActivePlans(p)' PROVE j \in ActivePlans(p)
    OBVIOUS
  <2>1. j \in DOMAIN plans /\ plans'[j].product = p /\ plans'[j].status \in {"RECOMMENDED", "APPROVED"}
    BY <1>1 DEF ActivePlans
  <2>2. plans[j].product = p /\ plans[j].status \in {"RECOMMENDED", "APPROVED"}
    BY <1>1, <1>2, <2>1 DEF SameCore
  <2>. QED  BY <2>1, <2>2 DEF ActivePlans
<1>6. OneBatch'
  BY <1>0, <1>5 DEF Rows, OneBatch
<1>. QED  BY <1>1, <1>3, <1>4, <1>5, <1>6

(* A status change that creates no document.                               *)
LEMMA StatusKeeps ==
    ASSUME PlanInv, NEW r \in Requests, Over(r), NEW i \in DOMAIN plans, NEW status \in PlanStatuses \ {"EXECUTED"},
           plans' = [plans EXCEPT ![i] = [plans[i] EXCEPT !.status = status]],
           UNCHANGED <<qty, prices, active, docs>>, plans[i].status # "EXECUTED",
           status \in {"RECOMMENDED", "APPROVED"} => plans[i].status \in {"RECOMMENDED", "APPROVED"},
           \A o \in Requests : o # r => <<"plan", i>> \notin held[o]
    PROVE  PlanInv'
<1>. DEFINE z == [plans[i] EXCEPT !.status = status]
<1>0. Rows /\ PlansOK /\ DocsOK /\ plans[i] \in Plan
  BY DEF PlanInv, Rows, PlansOK, IsPlan
<1>1. z \in Plan /\ SameCore(z, plans[i]) /\ z.status = status /\ z.key = plans[i].key
  BY <1>0 DEF Plan, SameCore
<1>2. plans' = [plans EXCEPT ![i] = z]
  OBVIOUS
<1>. HIDE DEF z
<1>3. /\ DOMAIN plans' = DOMAIN plans /\ plans'[i] = z /\ \A j \in DOMAIN plans : j # i => plans'[j] = plans[j]
      /\ PlansOK' /\ OneBatch' /\ KeepsPlans
      /\ \A p : ActivePlans(p)' \subseteq ActivePlans(p)
      /\ \A o \in Requests : o # r /\ <<"plan", i>> \notin held[o] =>
            \A j \in DOMAIN plans : <<"plan", j>> \in held[o] => plans'[j].status = plans[j].status
  BY <1>1, <1>2, PlanChange
<1>4. \A o \in Requests : pc[o] = "done" => pc'[o] = "done"
  BY OverSession
<1>5. \A d \in DOMAIN docs : docs[d].plan # i
  BY <1>0 DEF DocsOK
<1>6. DocsOK'
  BY <1>0, <1>3, <1>4, <1>5 DEF DocsOK
<1>7. OneDoc' /\ HasDoc'
  BY <1>0, <1>1, <1>3 DEF Rows, OneDoc, HasDoc
<1>8. OneKey'
  <2>1. OneKey /\ \A j \in DOMAIN plans : plans'[j].key = plans[j].key
    BY <1>0, <1>1, <1>3 DEF Rows
  <2>. QED  BY <1>3, <2>1 DEF OneKey
<1>9. Rows'
  BY <1>0, <1>3, <1>6, <1>7, <1>8 DEF Rows
<1>10. ASSUME NEW o \in Requests, o # r PROVE LeavesLocked(o)
  <2>1. \A p : OnOrder(p)' = OnOrder(p) /\ Committed(p)' = Committed(p) /\ OnOrder(p) \in Nat /\ Committed(p) \in Nat
    BY <1>0, DocsKept, PositionNat
  <2>2. \A p : OnOrder(p)' <= OnOrder(p) /\ Committed(p)' <= Committed(p)
    BY <2>1
  <2>3. \A p \in Products : ActivePlans(p) = {} => ActivePlans(p)' = {}
    BY <1>3
  <2>4. \A j \in DOMAIN plans : <<"plan", j>> \in held[o] => plans'[j].status = plans[j].status
    BY <1>3, <1>10
  <2>. QED  BY <2>1, <2>2, <2>3, <2>4 DEF LeavesLocked
<1>. QED  BY <1>3, <1>9, <1>10, WriteStep

(* An approval or a cancellation.                                          *)
LEMMA MovePlanKeeps == ASSUME PlanInv, NEW r \in Requests, MovePlan(r), ~Ends(r), Over(r) PROVE PlanInv'
<1>. PICK i : i = req[r].plan
  OBVIOUS
<1>. PICK status : status = IF req[r].kind = "APPROVE" THEN "APPROVED" ELSE "CANCELLED"
  OBVIOUS
<1>1. /\ i \in DOMAIN plans /\ SetPlan(i, status) /\ Free(<<"plan", i>>, r) /\ UNCHANGED <<qty, prices, active, docs, load>>
      /\ plans[i].status \in (IF req[r].kind = "APPROVE" THEN {"RECOMMENDED"} ELSE {"RECOMMENDED", "APPROVED", "STALE"})
  BY ReturnEnds DEF MovePlan
<1>2. \A o \in Requests : o # r => <<"plan", i>> \notin held[o]
  BY <1>1 DEF Free
<1>3. status \in PlanStatuses \ {"EXECUTED"} /\ plans[i].status # "EXECUTED"
  BY <1>1 DEF PlanStatuses
<1>4. status \in {"RECOMMENDED", "APPROVED"} => plans[i].status \in {"RECOMMENDED", "APPROVED"}
  BY <1>1
<1>. QED  BY <1>1, <1>2, <1>3, <1>4, StatusKeeps DEF SetPlan

(* A plan whose revalidation fails.                                        *)
LEMMA MarkStaleKeeps == ASSUME PlanInv, NEW r \in Requests, Revalidate(r), MarkStale(r), Over(r) PROVE PlanInv'
<1>. PICK i : i = req[r].plan
  OBVIOUS
<1>1. SetPlan(i, "STALE") /\ UNCHANGED <<qty, prices, active, docs, load>> /\ pc[r] = "revalidate"
  BY DEF MarkStale, Revalidate, Is
<1>2. i \in DOMAIN plans /\ plans[i].status = "APPROVED" /\ <<"plan", i>> \in held[r]
  BY <1>1 DEF PlanInv, Relies, Holds
<1>3. \A o \in Requests : o # r => <<"plan", i>> \notin held[o]
  BY <1>2 DEF PlanInv, Exclusive
<1>4. "STALE" \in PlanStatuses \ {"EXECUTED"}
  BY DEF PlanStatuses
<1>. QED  BY <1>1, <1>2, <1>3, <1>4, StatusKeeps DEF SetPlan

(* What a body says, by its kind.                                          *)
LEMMA Bodies ==
    ASSUME PlanInv, NEW r \in Requests, pc[r] = "begin"
    PROVE  /\ req[r].kind = "PRICE" => req[r].price \in Price
           /\ req[r].kind = "SUPPLIER" => req[r].supplier \in Suppliers
           /\ req[r].kind = "STOCK" => req[r].product \in Products /\ req[r].delta \in Int
           /\ req[r].kind \in {"SHIP", "GOODS"} => req[r].units \in Nat \ {0}
           /\ req[r].kind = "ARRIVE" => req[r].good \in Nat /\ req[r].lost \in Nat
<1>1. req[r] \in load.sent[r] /\ load \in Workloads
  BY DEF PlanInv, Shape, Served, Pending
<1>2. req[r] \in Submission
  BY <1>1, ReplenishmentAssumption
<1>. QED  BY <1>2 DEF Submission

(* A step that touches neither plans nor documents keeps everything if it  *)
(* leaves the stock of locked products and the old prices alone.           *)
LEMMA PlainKeeps ==
    ASSUME PlanInv, NEW r \in Requests, Over(r), UNCHANGED <<plans, docs>>,
           qty' \in [Products -> Int], \A p \in Products : qty'[p] >= 0 \/ p \in AllowNegative,
           prices \subseteq prices', prices' \subseteq Price, active' \subseteq Suppliers,
           \A o \in Requests, p \in Products : o # r /\ <<"product", p>> \in held[o] => qty'[p] = qty[p]
    PROVE  PlanInv'
<1>0. Rows /\ PlansOK /\ DocsOK
  BY DEF PlanInv, Rows
<1>1. \A o \in Requests : pc[o] = "done" => pc'[o] = "done"
  BY OverSession
<1>2. \A p : ActivePlans(p)' = ActivePlans(p)
  BY DEF ActivePlans
<1>3. PlansOK'
  <2>1. \A i \in DOMAIN plans : i[1] \in Requests
    BY <1>0 DEF PlansOK, IsPlan, PlanIds
  <2>. QED  BY <1>0, <1>1, <2>1 DEF PlansOK
<1>4. DocsOK'
  BY <1>0, <1>1 DEF DocsOK
<1>5. OneBatch'
  BY <1>0, <1>2 DEF Rows, OneBatch
<1>6. OneDoc' /\ HasDoc' /\ OneKey'
  BY <1>0 DEF Rows, OneDoc, HasDoc, OneKey
<1>7. Rows'
  BY <1>3, <1>4, <1>5, <1>6 DEF Rows
<1>8. KeepsPlans
  BY DEF KeepsPlans, SameCore
<1>9. ASSUME NEW o \in Requests, o # r PROVE LeavesLocked(o)
  <2>1. \A p : OnOrder(p)' = OnOrder(p) /\ Committed(p)' = Committed(p) /\ OnOrder(p) \in Nat /\ Committed(p) \in Nat
    BY <1>0, DocsKept, PositionNat
  <2>2. \A p : OnOrder(p)' <= OnOrder(p) /\ Committed(p)' <= Committed(p)
    BY <2>1
  <2>. QED  BY <1>2, <1>9, <2>1, <2>2 DEF LeavesLocked
<1>. QED  BY <1>7, <1>8, <1>9, WriteStep

(* A new price.                                                            *)
LEMMA AddPriceKeeps == ASSUME PlanInv, NEW r \in Requests, AddPrice(r), ~Ends(r), Over(r) PROVE PlanInv'
<1>1. /\ prices' = prices \cup {req[r].price} /\ UNCHANGED <<qty, active, plans, docs, load>>
      /\ pc[r] = "begin" /\ req[r].kind = "PRICE"
  BY ReturnEnds DEF AddPrice, Is
<1>2. /\ qty \in [Products -> Int] /\ (\A p \in Products : qty[p] >= 0 \/ p \in AllowNegative)
      /\ prices \subseteq Price /\ active \subseteq Suppliers
  BY DEF PlanInv, Rows
<1>3. prices' \subseteq Price /\ prices \subseteq prices'
  BY <1>1, <1>2, Bodies
<1>. QED  BY <1>1, <1>2, <1>3, PlainKeeps

(* A supplier is switched on or off.                                       *)
LEMMA SetSupplierActiveKeeps == ASSUME PlanInv, NEW r \in Requests, SetSupplierActive(r), Over(r) PROVE PlanInv'
<1>1. /\ active' \subseteq active \cup {req[r].supplier} /\ UNCHANGED <<qty, prices, plans, docs, load>>
      /\ pc[r] = "begin" /\ req[r].kind = "SUPPLIER"
  BY DEF SetSupplierActive, Is
<1>2. /\ qty \in [Products -> Int] /\ (\A p \in Products : qty[p] >= 0 \/ p \in AllowNegative)
      /\ prices \subseteq Price /\ active \subseteq Suppliers
  BY DEF PlanInv, Rows
<1>3. active' \subseteq Suppliers
  BY <1>1, <1>2, Bodies
<1>. QED  BY <1>1, <1>2, <1>3, PlainKeeps

(* A movement under the product's lock keeps stock as the column allows    *)
(* it, and what others have locked.                                        *)
LEMMA MovementIs ==
    ASSUME PlanInv, NEW r \in Requests, NEW p \in Products, NEW delta \in Int, NEW after,
           Movement(r, p, delta, after), ~Ends(r)
    PROVE  /\ qty' \in [Products -> Int] /\ (\A q \in Products : qty'[q] >= 0 \/ q \in AllowNegative)
           /\ \A o \in Requests, q \in Products : o # r /\ <<"product", q>> \in held[o] => qty'[q] = qty[q]
           /\ docs' = after /\ UNCHANGED <<prices, active, plans, load>>
<1>1. /\ Free(<<"product", p>>, r) /\ ~(qty[p] + delta < 0 /\ p \notin AllowNegative)
      /\ qty' = [qty EXCEPT ![p] = @ + delta] /\ docs' = after /\ UNCHANGED <<prices, active, plans, load>>
  BY ReturnEnds DEF Movement
<1>2. qty \in [Products -> Int] /\ (\A q \in Products : qty[q] >= 0 \/ q \in AllowNegative)
  BY DEF PlanInv, Rows
<1>. PICK n : n = qty[p] + delta
  OBVIOUS
<1>3. n \in Int /\ (n >= 0 \/ p \in AllowNegative)
  BY <1>1, <1>2
<1>4. qty' = [qty EXCEPT ![p] = n]
  BY <1>1
<1>5. qty' \in [Products -> Int] /\ qty'[p] = n /\ \A q \in Products : q # p => qty'[q] = qty[q]
  BY <1>2, <1>3, <1>4
<1>6. \A o \in Requests, q \in Products : o # r /\ <<"product", q>> \in held[o] => qty'[q] = qty[q]
  BY <1>1, <1>5 DEF Free
<1>. QED  BY <1>1, <1>2, <1>3, <1>5, <1>6

(* A sale, a return or an adjustment moves stock.                          *)
LEMMA MoveStockKeeps == ASSUME PlanInv, NEW r \in Requests, MoveStock(r), ~Ends(r), Over(r) PROVE PlanInv'
<1>1. pc[r] = "begin" /\ req[r].kind = "STOCK" /\ Movement(r, req[r].product, req[r].delta, docs)
  BY DEF MoveStock, Is
<1>2. req[r].product \in Products /\ req[r].delta \in Int
  BY <1>1, Bodies
<1>3. /\ qty' \in [Products -> Int] /\ (\A q \in Products : qty'[q] >= 0 \/ q \in AllowNegative)
      /\ \A o \in Requests, q \in Products : o # r /\ <<"product", q>> \in held[o] => qty'[q] = qty[q]
      /\ docs' = docs /\ UNCHANGED <<prices, active, plans, load>>
  BY <1>1, <1>2, MovementIs
<1>4. prices \subseteq Price /\ active \subseteq Suppliers
  BY DEF PlanInv, Rows
<1>. QED  BY <1>3, <1>4, PlainKeeps

(* Fewer and smaller numbers add up to less.                               *)
LEMMA SumFewer ==
    ASSUME NEW A, IsFiniteSet(A), NEW B, B \subseteq A, NEW f, NEW g,
           \A e \in A : f[e] \in Nat, \A e \in B : g[e] \in Nat /\ g[e] <= f[e]
    PROVE  SumFunctionOnSet(g, B) <= SumFunctionOnSet(f, A)
<1>. DEFINE a == [e \in B |-> f[e] - g[e]]
            E == A \ B
<1>1. IsFiniteSet(B) /\ IsFiniteSet(E)
  BY FS_Subset, FS_Difference
<1>2. /\ \A e \in B : f[e] \in Int /\ a[e] \in Int /\ a[e] \in Nat /\ g[e] = f[e] - a[e]
      /\ \A e \in B : e \notin B => g[e] = f[e]
  OBVIOUS
<1>. HIDE DEF a
<1>3. SumFunctionOnSet(g, B) = SumFunctionOnSet(f, B) - SumFunctionOnSet(a, B)
  BY <1>1, <1>2, SumMinus
<1>4. B \cup E = A /\ B \cap E = {} /\ E \subseteq A /\ \A e \in A : f[e] \in Int
  OBVIOUS
<1>. HIDE DEF E
<1>5. SumFunctionOnSet(f, A) = SumFunctionOnSet(f, B) + SumFunctionOnSet(f, E)
  BY <1>4, SumSplit
<1>6. SumFunctionOnSet(a, B) \in Nat
  BY <1>1, <1>2, SumNat
<1>7. SumFunctionOnSet(f, B) \in Nat
  BY <1>1, SumNat
<1>8. SumFunctionOnSet(f, E) \in Nat
  BY <1>1, <1>4, SumNat
<1>. QED  BY <1>3, <1>5, <1>6, <1>7, <1>8

(* The document x becomes z: the same order or transfer, never less of it  *)
(* received, and neither an open order nor a draft unless it was one.      *)
GoesOn(x, z) ==
    /\ z \in Doc /\ Accounted(z)
    /\ z.plan = x.plan /\ z.product = x.product /\ z.from = x.from /\ z.qty = x.qty /\ x.received <= z.received
    /\ z.status \in OpenOrderStatuses /\ z.from = NoOne => x.status \in OpenOrderStatuses
    /\ z.status = "DRAFT" => x.status = "DRAFT"

(* Then it counts for no more than before.                                 *)
LEMMA DocChange ==
    ASSUME DocsOK, NEW d \in DOMAIN docs, NEW z, docs' = With(docs, d, z), GoesOn(docs[d], z)
    PROVE  \A p : OnOrder(p)' <= OnOrder(p) /\ Committed(p)' <= Committed(p)
<1>. PICK D : D = docs'
  OBVIOUS
<1>1. DOMAIN D = DOMAIN docs /\ D[d] = z /\ \A e \in DOMAIN docs : e # d => D[e] = docs[e]
  BY DEF With
<1>2. \A e \in DOMAIN docs : docs[e].qty \in Nat /\ docs[e].received \in Nat
  BY DEF DocsOK, Doc
<1>3. /\ z.qty = docs[d].qty /\ z.product = docs[d].product /\ z.from = docs[d].from
      /\ z.received \in Nat /\ docs[d].received <= z.received
      /\ z.status \in OpenOrderStatuses /\ z.from = NoOne => docs[d].status \in OpenOrderStatuses
      /\ z.status = "DRAFT" => docs[d].status = "DRAFT"
  BY DEF GoesOn, Doc
<1>4. \A e \in DOMAIN docs : D[e].qty = docs[e].qty /\ D[e].received \in Nat /\ docs[e].received <= D[e].received
  BY <1>1, <1>2, <1>3
<1>5. AreDocs(docs)
  BY DEF DocsOK, AreDocs
<1>6. ASSUME NEW p PROVE OnOrder(p)' <= OnOrder(p)
  <2>. DEFINE A == OpenOrders(p)
              B == {e \in DOMAIN D : D[e].product = p /\ D[e].from = NoOne /\ D[e].status \in OpenOrderStatuses}
              f == [e \in A |-> Rest(docs[e].qty, docs[e].received)]
              g == [e \in B |-> Rest(D[e].qty, D[e].received)]
  <2>1. B \subseteq A /\ A \subseteq DOMAIN docs
    BY <1>1, <1>3 DEF OpenOrders
  <2>2. OnOrder(p) = SumFunctionOnSet(f, A) /\ OnOrder(p)' = SumFunctionOnSet(g, B)
    BY DEF OnOrder, OpenOrders, SumOver
  <2>3. \A e \in A : f[e] \in Nat
    BY <1>2, <2>1, RestNat
  <2>4. \A e \in B : g[e] \in Nat /\ g[e] <= f[e]
    <3>. SUFFICES ASSUME NEW e \in B PROVE g[e] \in Nat /\ g[e] <= f[e]
      OBVIOUS
    <3>1. e \in DOMAIN docs /\ e \in A
      BY <2>1
    <3>2. g[e] = Rest(docs[e].qty, D[e].received) /\ f[e] = Rest(docs[e].qty, docs[e].received)
      BY <1>4, <3>1
    <3>. HIDE DEF f, g
    <3>. QED  BY <1>2, <1>4, <3>1, <3>2, RestNat
  <2>. HIDE DEF A, B, f, g
  <2>5. IsFiniteSet(A)
    BY <1>5, <2>1, <2>3, UnitsNat
  <2>6. SumFunctionOnSet(g, B) <= SumFunctionOnSet(f, A)
    BY ONLY <2>1, <2>3, <2>4, <2>5, SumFewer
  <2>. QED  BY <2>2, <2>6
<1>7. ASSUME NEW p PROVE Committed(p)' <= Committed(p)
  <2>. DEFINE A == {e \in DOMAIN docs : docs[e].from = p /\ docs[e].status = "DRAFT"}
              B == {e \in DOMAIN D : D[e].from = p /\ D[e].status = "DRAFT"}
              f == [e \in A |-> docs[e].qty]
              g == [e \in B |-> D[e].qty]
  <2>1. B \subseteq A /\ A \subseteq DOMAIN docs
    BY <1>1, <1>3
  <2>2. Committed(p) = SumFunctionOnSet(f, A) /\ Committed(p)' = SumFunctionOnSet(g, B)
    BY DEF Committed, SumOver
  <2>3. \A e \in A : f[e] \in Nat
    BY <1>2
  <2>4. \A e \in B : g[e] \in Nat /\ g[e] <= f[e]
    BY <1>2, <1>4, <2>1
  <2>. HIDE DEF A, B, f, g
  <2>5. IsFiniteSet(A)
    BY <1>5, <2>1, <2>3, UnitsNat
  <2>6. SumFunctionOnSet(g, B) <= SumFunctionOnSet(f, A)
    BY ONLY <2>1, <2>3, <2>4, <2>5, SumFewer
  <2>. QED  BY <2>2, <2>6
<1>. QED  BY <1>6, <1>7

(* Document d becomes z, and the stock moves where nobody else has locked  *)
(* it.                                                                     *)
DocMoves(r, d, z) ==
    /\ GoesOn(docs[d], z) /\ docs' = With(docs, d, z) /\ UNCHANGED <<prices, active, plans, load>>
    /\ qty' \in [Products -> Int] /\ (\A q \in Products : qty'[q] >= 0 \/ q \in AllowNegative)
    /\ \A o \in Requests, q \in Products : o # r /\ <<"product", q>> \in held[o] => qty'[q] = qty[q]

(* The rows of a document.                                                 *)
IsDoc(x) ==
    x = [plan |-> x.plan, product |-> x.product, from |-> x.from, qty |-> x.qty,
         shipped |-> x.shipped, received |-> x.received, lost |-> x.lost, status |-> x.status]

(* A shipment under way.                                                   *)
LEMMA ShipIs ==
    ASSUME PlanInv, NEW r \in Requests, ShipTransfer(r), ~Ends(r)
    PROVE  \E d \in DOMAIN docs : \E z : DocMoves(r, d, z)
<1>. PICK d, n : d = req[r].doc /\ n = req[r].units
  OBVIOUS
<1>. PICK x : x = docs[d]
  OBVIOUS
<1>. PICK z : z = [x EXCEPT !.status = "SHIPPED", !.shipped = n]
  OBVIOUS
<1>1. /\ pc[r] = "begin" /\ req[r].kind = "SHIP" /\ d \in TransferIds /\ x.status = "DRAFT" /\ ~(n > x.qty)
      /\ Movement(r, x.from, -n, With(docs, d, z))
  BY ReturnEnds DEF ShipTransfer, Is
<1>2. d \in DOMAIN docs /\ x \in Doc /\ Accounted(x) /\ x.from # NoOne
  BY <1>1 DEF PlanInv, Rows, DocsOK, TransferIds, OrderIds
<1>3. n \in Nat /\ x.from \in Products /\ -n \in Int
  BY <1>1, <1>2, Bodies DEF Doc
<1>4. GoesOn(x, z)
  <2>1. IsDoc(x)
    BY <1>2 DEF Doc, IsDoc
  <2>2. z = [plan |-> x.plan, product |-> x.product, from |-> x.from, qty |-> x.qty,
             shipped |-> n, received |-> x.received, lost |-> x.lost, status |-> "SHIPPED"]
    BY ONLY <2>1, z = [x EXCEPT !.status = "SHIPPED", !.shipped = n] DEF IsDoc
  <2>3. "SHIPPED" \in DocStatuses /\ "SHIPPED" \notin OpenOrderStatuses /\ "SHIPPED" # "DRAFT"
    BY DEF DocStatuses, OpenOrderStatuses
  <2>4. x.received = 0 /\ x.lost = 0
    BY <1>1, <1>2 DEF Accounted, Doc
  <2>5. z \in Doc
    <3>1. n \in Nat
      BY <1>3
    <3>. QED  BY ONLY <1>2, <2>2, <2>3, <3>1 DEF Doc
  <2>6. n <= x.qty
    BY <1>1, <1>2, <1>3 DEF Doc
  <2>7. Accounted(z)
    BY <1>3, <2>2, <2>4, <2>6 DEF Accounted
  <2>8. x.received <= z.received
    BY <2>2, <2>4
  <2>. QED  BY <2>2, <2>3, <2>5, <2>7, <2>8 DEF GoesOn
<1>5. DocMoves(r, d, z)
  BY <1>1, <1>3, <1>4, MovementIs DEF DocMoves
<1>. QED  BY <1>2, <1>5

(* A part of a shipment arrives.                                           *)
LEMMA ReceiveTransferIs ==
    ASSUME PlanInv, NEW r \in Requests, ReceiveTransfer(r), ~Ends(r)
    PROVE  \E d \in DOMAIN docs : \E z : DocMoves(r, d, z)
<1>. PICK d, good, lost : d = req[r].doc /\ good = req[r].good /\ lost = req[r].lost
  OBVIOUS
<1>. PICK x : x = docs[d]
  OBVIOUS
<1>. PICK z : z = [x EXCEPT !.received = @ + good, !.lost = @ + lost]
  OBVIOUS
<1>1. /\ pc[r] = "begin" /\ req[r].kind = "ARRIVE" /\ d \in TransferIds /\ x.status = "SHIPPED"
      /\ ~(good + lost > x.shipped - x.received - x.lost)
      /\ Movement(r, x.product, good, With(docs, d, z))
  BY ReturnEnds DEF ReceiveTransfer, Is
<1>2. d \in DOMAIN docs /\ x \in Doc /\ Accounted(x) /\ x.from # NoOne
  BY <1>1 DEF PlanInv, Rows, DocsOK, TransferIds, OrderIds
<1>3. good \in Nat /\ lost \in Nat /\ x.product \in Products
  BY <1>1, <1>2, Bodies, SMTT(40) DEF Doc
<1>4. GoesOn(x, z)
  <2>1. IsDoc(x)
    BY <1>2 DEF Doc, IsDoc
  <2>2. z = [plan |-> x.plan, product |-> x.product, from |-> x.from, qty |-> x.qty,
             shipped |-> x.shipped, received |-> x.received + good, lost |-> x.lost + lost, status |-> x.status]
    BY ONLY <2>1, z = [x EXCEPT !.received = @ + good, !.lost = @ + lost] DEF IsDoc
  <2>3. x.shipped \in Nat /\ x.received \in Nat /\ x.lost \in Nat /\ x.qty \in Nat
    BY <1>2 DEF Doc
  <2>4. x.received + good \in Nat /\ x.lost + lost \in Nat /\ x.received <= x.received + good
    BY <1>3, <2>3
  <2>5. (x.received + good) + (x.lost + lost) <= x.shipped
    BY <1>1, <1>3, <2>3
  <2>6. Accounted(z)
    BY <1>2, <2>2, <2>5 DEF Accounted
  <2>7. z \in Doc
    BY <1>2, <2>2, <2>4 DEF Doc
  <2>. QED  BY <2>2, <2>4, <2>6, <2>7 DEF GoesOn
<1>5. DocMoves(r, d, z)
  BY <1>1, <1>3, <1>4, MovementIs DEF DocMoves
<1>. QED  BY <1>2, <1>5

(* A part of an order arrives, or more than was ordered.                   *)
LEMMA ReceiveGoodsIs ==
    ASSUME PlanInv, NEW r \in Requests, ReceiveGoods(r), ~Ends(r)
    PROVE  \E d \in DOMAIN docs : \E z : DocMoves(r, d, z)
<1>. PICK d, n : d = req[r].doc /\ n = req[r].units
  OBVIOUS
<1>. PICK x : x = docs[d]
  OBVIOUS
<1>. PICK total : total = x.received + n
  OBVIOUS
<1>. PICK status : status = IF total >= x.qty THEN "RECEIVED" ELSE "PARTIALLY_RECEIVED"
  OBVIOUS
<1>. PICK z : z = [x EXCEPT !.received = total, !.status = status]
  OBVIOUS
<1>1. /\ pc[r] = "begin" /\ req[r].kind = "GOODS" /\ d \in OrderIds /\ x.status \in {"ORDERED", "PARTIALLY_RECEIVED"}
      /\ Movement(r, x.product, n, With(docs, d, z))
  BY ReturnEnds DEF ReceiveGoods, Is
<1>2. d \in DOMAIN docs /\ x \in Doc /\ x.from = NoOne
  BY <1>1 DEF PlanInv, Rows, DocsOK, OrderIds
<1>3. n \in Nat /\ x.product \in Products /\ x.received \in Nat
  BY <1>1, <1>2, Bodies DEF Doc
<1>4. GoesOn(x, z)
  <2>1. IsDoc(x)
    BY <1>2 DEF Doc, IsDoc
  <2>2. z = [plan |-> x.plan, product |-> x.product, from |-> x.from, qty |-> x.qty,
             shipped |-> x.shipped, received |-> total, lost |-> x.lost, status |-> status]
    BY ONLY <2>1, z = [x EXCEPT !.received = total, !.status = status] DEF IsDoc
  <2>3. status \in DocStatuses /\ status # "DRAFT" /\ x.status \in OpenOrderStatuses
    BY <1>1 DEF DocStatuses, OpenOrderStatuses
  <2>4. total \in Nat /\ x.received <= total
    BY <1>3
  <2>5. z \in Doc
    BY <1>2, <2>2, <2>3, <2>4 DEF Doc
  <2>. QED  BY <1>2, <2>2, <2>3, <2>4, <2>5 DEF GoesOn, Accounted
<1>5. DocMoves(r, d, z)
  BY <1>1, <1>3, <1>4, MovementIs DEF DocMoves
<1>. QED  BY <1>2, <1>5

(* An order is submitted, or a document cancelled.                         *)
LEMMA SetDocIs ==
    ASSUME PlanInv, NEW r \in Requests, NEW d \in DOMAIN docs, NEW status, SetDoc(r, d, status),
           \/ status = "ORDERED" /\ d \in OrderIds /\ docs[d].status = "DRAFT"
           \/ status = "CANCELLED" /\ (d \in TransferIds => docs[d].status = "DRAFT")
    PROVE  \E z : DocMoves(r, d, z)
<1>. PICK x : x = docs[d]
  OBVIOUS
<1>. PICK z : z = [x EXCEPT !.status = status]
  OBVIOUS
<1>1. docs' = With(docs, d, z) /\ UNCHANGED <<qty, prices, active, plans, load>>
  BY DEF SetDoc
<1>2. x \in Doc /\ Accounted(x)
  BY DEF PlanInv, Rows, DocsOK
<1>3. qty \in [Products -> Int] /\ (\A q \in Products : qty[q] >= 0 \/ q \in AllowNegative)
  BY DEF PlanInv, Rows
<1>4. GoesOn(x, z)
  <2>1. IsDoc(x)
    BY <1>2 DEF Doc, IsDoc
  <2>2. z = [plan |-> x.plan, product |-> x.product, from |-> x.from, qty |-> x.qty,
             shipped |-> x.shipped, received |-> x.received, lost |-> x.lost, status |-> status]
    BY ONLY <2>1, z = [x EXCEPT !.status = status] DEF IsDoc
  <2>3. /\ status \in DocStatuses /\ status # "DRAFT" /\ status # "SHIPPED"
        /\ status \in OpenOrderStatuses => x.status \in OpenOrderStatuses
    BY DEF DocStatuses, OpenOrderStatuses
  <2>4. x.received \in Nat /\ x.received <= x.received
    BY <1>2 DEF Doc
  <2>5. z \in Doc
    BY <1>2, <2>2, <2>3 DEF Doc
  <2>6. x.from # NoOne => x.status = "DRAFT"
    BY DEF TransferIds, OrderIds
  <2>7. Accounted(z)
    BY <1>2, <2>2, <2>6 DEF Accounted
  <2>. QED  BY <2>2, <2>3, <2>4, <2>5, <2>7 DEF GoesOn
<1>. QED  BY <1>1, <1>3, <1>4 DEF DocMoves

(* So that is all that becomes of a document.                              *)
LEMMA LivesOnIs ==
    ASSUME PlanInv, NEW r \in Requests, LivesOn(r), ~Ends(r)
    PROVE  \E d \in DOMAIN docs : \E z : DocMoves(r, d, z)
<1>. PICK d : d = req[r].doc
  OBVIOUS
<1>1. CASE SubmitOrder(r)
  <2>1. d \in OrderIds /\ docs[d].status = "DRAFT" /\ SetDoc(r, d, "ORDERED")
    BY <1>1, ReturnEnds DEF SubmitOrder
  <2>2. d \in DOMAIN docs
    BY <2>1 DEF OrderIds
  <2>. QED  BY <2>1, <2>2, SetDocIs
<1>2. CASE CancelDoc(r)
  <2>1. d \in DOMAIN docs /\ SetDoc(r, d, "CANCELLED") /\ docs[d].status \in (IF d \in OrderIds THEN OpenOrderStatuses ELSE {"DRAFT"})
    BY <1>2, ReturnEnds DEF CancelDoc
  <2>2. d \in TransferIds => docs[d].status = "DRAFT"
    BY <2>1 DEF TransferIds
  <2>. QED  BY <2>1, <2>2, SetDocIs
<1>. QED  BY <1>1, <1>2, ShipIs, ReceiveTransferIs, ReceiveGoodsIs DEF LivesOn

(* A document ships, arrives or is dropped.                                *)
LEMMA LivesOnKeeps == ASSUME PlanInv, NEW r \in Requests, LivesOn(r), ~Ends(r), Over(r) PROVE PlanInv'
<1>0. Rows /\ PlansOK /\ DocsOK
  BY DEF PlanInv, Rows
<1>a. PICK d \in DOMAIN docs : \E z : DocMoves(r, d, z)
  BY LivesOnIs
<1>b. PICK z : DocMoves(r, d, z)
  BY <1>a
<1>1. /\ GoesOn(docs[d], z) /\ docs' = With(docs, d, z) /\ UNCHANGED <<prices, active, plans, load>>
      /\ qty' \in [Products -> Int] /\ (\A q \in Products : qty'[q] >= 0 \/ q \in AllowNegative)
      /\ \A o \in Requests, q \in Products : o # r /\ <<"product", q>> \in held[o] => qty'[q] = qty[q]
  BY <1>b DEF DocMoves
<1>2. DOMAIN docs' = DOMAIN docs /\ docs'[d] = z /\ \A e \in DOMAIN docs : e # d => docs'[e] = docs[e]
  BY <1>1 DEF With
<1>3. z \in Doc /\ Accounted(z) /\ z.plan = docs[d].plan /\ z.qty = docs[d].qty
  BY <1>1 DEF GoesOn
<1>5. \A q : OnOrder(q)' <= OnOrder(q) /\ Committed(q)' <= Committed(q)
  BY <1>0, <1>1, DocChange
<1>6. \A e \in DOMAIN docs : docs'[e] \in Doc /\ Accounted(docs'[e]) /\ docs'[e].plan = docs[e].plan /\ docs'[e].qty = docs[e].qty
  BY <1>0, <1>2, <1>3 DEF DocsOK
<1>7. \A o \in Requests : pc[o] = "done" => pc'[o] = "done"
  BY OverSession
<1>8. plans' = plans /\ prices' = prices /\ active' = active
  BY <1>1
<1>9. \A q : ActivePlans(q)' = ActivePlans(q)
  BY <1>8 DEF ActivePlans
<1>10. Rows'
  <2>1. PlansOK'
    <3>1. \A i \in DOMAIN plans : i[1] \in Requests
      BY <1>0 DEF PlansOK, IsPlan, PlanIds
    <3>. QED  BY <1>0, <1>7, <1>8, <3>1 DEF PlansOK
  <2>2. DocsOK'
    BY <1>0, <1>2, <1>6, <1>7, <1>8 DEF DocsOK
  <2>3. OneBatch'
    BY <1>0, <1>9 DEF Rows, OneBatch
  <2>4. OneDoc'
    BY <1>0, <1>2, <1>6 DEF Rows, OneDoc
  <2>5. HasDoc'
    BY <1>0, <1>2, <1>6, <1>8 DEF Rows, HasDoc
  <2>6. OneKey'
    BY <1>0, <1>8 DEF Rows, OneKey
  <2>. QED  BY <1>0, <1>1, <1>8, <2>1, <2>2, <2>3, <2>4, <2>5, <2>6 DEF Rows
<1>11. KeepsPlans
  BY <1>8 DEF KeepsPlans, SameCore
<1>12. ASSUME NEW o \in Requests, o # r PROVE LeavesLocked(o)
  BY <1>1, <1>5, <1>8, <1>9, <1>12 DEF LeavesLocked
<1>. QED  BY <1>10, <1>11, <1>12, WriteStep

(* A new document is counted for its product or its source, and nowhere    *)
(* else.                                                                   *)
LEMMA DocAdded ==
    ASSUME DocsOK, NEW r \in Requests, r \notin DOMAIN docs, NEW z \in Doc, docs' = With(docs, r, z)
    PROVE  /\ DOMAIN docs' = DOMAIN docs \cup {r} /\ docs'[r] = z /\ \A e \in DOMAIN docs : docs'[e] = docs[e]
           /\ \A p : p # z.product => OnOrder(p)' = OnOrder(p)
           /\ \A p : p # z.from \/ z.status # "DRAFT" => Committed(p)' = Committed(p)
           /\ \A p : p = z.from /\ z.status = "DRAFT" => Committed(p)' = z.qty + Committed(p)
<1>1. DOMAIN docs' = DOMAIN docs \cup {r} /\ docs'[r] = z /\ \A e \in DOMAIN docs : docs'[e] = docs[e]
  BY DEF With
<1>2. ASSUME NEW p, p # z.product PROVE OnOrder(p)' = OnOrder(p)
  <2>. DEFINE S == OpenOrders(p)
  <2>1. OpenOrders(p)' = S
    BY <1>1, <1>2 DEF OpenOrders
  <2>2. [e \in S |-> Rest(docs'[e].qty, docs'[e].received)] = [e \in S |-> Rest(docs[e].qty, docs[e].received)]
    BY <1>1 DEF OpenOrders
  <2>. QED  BY <2>1, <2>2 DEF OnOrder, SumOver
<1>3. ASSUME NEW p
      PROVE  /\ p # z.from \/ z.status # "DRAFT" => Committed(p)' = Committed(p)
             /\ p = z.from /\ z.status = "DRAFT" => Committed(p)' = z.qty + Committed(p)
  <2>. DEFINE A == {e \in DOMAIN docs : docs[e].from = p /\ docs[e].status = "DRAFT"}
              B == {e \in DOMAIN docs' : docs'[e].from = p /\ docs'[e].status = "DRAFT"}
              f == [e \in A |-> docs[e].qty]
              g == [e \in B |-> docs'[e].qty]
  <2>1. Committed(p) = SumFunctionOnSet(f, A) /\ Committed(p)' = SumFunctionOnSet(g, B)
    BY DEF Committed, SumOver
  <2>2. CASE p # z.from \/ z.status # "DRAFT"
    <3>1. B = A
      BY <1>1, <2>2
    <3>2. f = g
      BY <1>1, <3>1
    <3>. HIDE DEF A, B, f, g
    <3>. QED  BY <2>1, <2>2, <3>1, <3>2
  <2>3. CASE p = z.from /\ z.status = "DRAFT"
    <3>1. B = A \cup {r} /\ r \notin A
      BY <1>1, <2>3
    <3>2. AreDocs(docs) /\ A \subseteq DOMAIN docs
      BY DEF DocsOK, AreDocs
    <3>3. IsFiniteSet(A)
      BY <3>2, FS_Subset, ReplenishmentAssumption DEF AreDocs
    <3>4. \A e \in A : g[e] = f[e] /\ f[e] \in Int
      BY <1>1, <3>1 DEF DocsOK, Doc
    <3>5. g[r] = z.qty /\ z.qty \in Int
      BY <1>1, <3>1 DEF Doc
    <3>. HIDE DEF A, B, f, g
    <3>6. SumFunctionOnSet(g, B) = g[r] + SumFunctionOnSet(f, A)
      BY <3>1, <3>3, <3>4, <3>5, SumGrow
    <3>. QED  BY <2>1, <2>3, <3>5, <3>6
  <2>. QED  BY <2>2, <2>3
<1>. QED  BY <1>1, <1>2, <1>3

(* The document an execution creates.                                      *)
NewDoc(r, i) ==
    [plan |-> i, product |-> plans[i].product, from |-> SourceOf(i), qty |-> tx[r].quantity,
     shipped |-> 0, received |-> 0, lost |-> 0, status |-> "DRAFT"]

(* What an execution that commits has seen, and what it writes.            *)
ExecutesAs(r, i) ==
    /\ i \in DOMAIN plans /\ plans[i].status = "APPROVED" /\ <<"plan", i>> \in held[r]
    /\ \A p \in ProductsOf(i) : <<"product", p>> \in held[r]
    /\ IsPlan(i, plans[i]) /\ pc[r] = "execute" /\ Decided(r) /\ req[r].key \in Keys
    /\ r \notin DOMAIN docs /\ (\A d \in DOMAIN docs : docs[d].plan # i)
    /\ \A j \in DOMAIN plans : plans[j].key # req[r].key
    /\ NewDoc(r, i) \in Doc /\ NewDoc(r, i).qty > 0 /\ docs' = With(docs, r, NewDoc(r, i))
    /\ plans' = [plans EXCEPT ![i] = [plans[i] EXCEPT !.status = "EXECUTED", !.executed = tx[r].quantity, !.key = req[r].key]]
    /\ UNCHANGED <<qty, prices, active, load>>

(* An execution writes one document for a plan that had none.              *)
LEMMA ExecuteIs ==
    ASSUME PlanInv, NEW r \in Requests, ExecutePlan(r), ~Ends(r), NEW i, i = req[r].plan
    PROVE  ExecutesAs(r, i)
<1>1. pc[r] = "execute" /\ req[r].kind = "EXECUTE"
  BY DEF ExecutePlan, Is
<1>2. Rows /\ PlansOK /\ DocsOK /\ Holds(r) /\ Decided(r) /\ Shape
  BY DEF PlanInv, Rows, Relies
<1>3. /\ i \in DOMAIN plans /\ plans[i].status = "APPROVED" /\ <<"plan", i>> \in held[r]
      /\ \A p \in ProductsOf(i) : <<"product", p>> \in held[r]
  BY <1>1, <1>2 DEF Holds
<1>4. IsPlan(i, plans[i])
  BY <1>2, <1>3 DEF PlansOK
<1>5. r \notin DOMAIN docs
  BY <1>1, Fresh
<1>6. \A d \in DOMAIN docs : docs[d].plan # i
  BY <1>2, <1>3 DEF DocsOK
<1>7. req[r].key \in Keys
  <2>1. req[r] \in load.sent[r] /\ load \in Workloads
    BY <1>1, <1>2 DEF Shape, Served, Pending
  <2>2. req[r] \in Submission
    BY <2>1, ReplenishmentAssumption
  <2>. QED  BY <1>1, <2>2 DEF Submission
<1>8. /\ \A j \in DOMAIN plans : plans[j].key # req[r].key
      /\ docs' = With(docs, r, NewDoc(r, i))
      /\ plans' = [plans EXCEPT ![i] = [plans[i] EXCEPT !.status = "EXECUTED", !.executed = tx[r].quantity, !.key = req[r].key]]
      /\ UNCHANGED <<qty, prices, active, load>>
  BY <1>6, ReturnEnds DEF ExecutePlan, NewDoc
<1>9. tx[r].quantity \in Nat \ {0}
  BY <1>1, <1>2 DEF Decided
<1>10. SourceOf(i) \in Products \cup {NoOne}
  BY <1>3, <1>4, SourceIn DEF Sisters
<1>11. NewDoc(r, i) \in Doc /\ NewDoc(r, i).qty > 0
  <2>1. i \in PlanIds /\ plans[i].product \in Products
    BY <1>4 DEF IsPlan, Plan
  <2>2. "DRAFT" \in DocStatuses
    BY DEF DocStatuses, OpenOrderStatuses
  <2>. QED  BY <1>9, <1>10, <2>1, <2>2 DEF NewDoc, Doc
<1>. QED  BY <1>1, <1>2, <1>3, <1>4, <1>5, <1>6, <1>7, <1>8, <1>11 DEF ExecutesAs

(* The commit of an execution.                                             *)
LEMMA ExecutePlanKeeps == ASSUME PlanInv, NEW r \in Requests, ExecutePlan(r), ~Ends(r), Over(r) PROVE PlanInv'
<1>. PICK i : i = req[r].plan
  OBVIOUS
<1>1. /\ i \in DOMAIN plans /\ plans[i].status = "APPROVED" /\ <<"plan", i>> \in held[r]
      /\ \A p \in ProductsOf(i) : <<"product", p>> \in held[r]
      /\ IsPlan(i, plans[i]) /\ pc[r] = "execute" /\ Decided(r) /\ req[r].key \in Keys
      /\ r \notin DOMAIN docs /\ (\A d \in DOMAIN docs : docs[d].plan # i)
      /\ \A j \in DOMAIN plans : plans[j].key # req[r].key
      /\ NewDoc(r, i) \in Doc /\ NewDoc(r, i).qty > 0 /\ docs' = With(docs, r, NewDoc(r, i))
      /\ plans' = [plans EXCEPT ![i] = [plans[i] EXCEPT !.status = "EXECUTED", !.executed = tx[r].quantity, !.key = req[r].key]]
      /\ UNCHANGED <<qty, prices, active, load>>
  <2>1. ExecutesAs(r, i)
    BY ExecuteIs
  <2>. QED  BY ONLY <2>1 DEF ExecutesAs
<1>. PICK z : z = [plans[i] EXCEPT !.status = "EXECUTED", !.executed = tx[r].quantity, !.key = req[r].key]
  OBVIOUS
<1>2. Rows /\ PlansOK /\ DocsOK /\ Exclusive /\ plans[i] \in Plan /\ tx[r].quantity \in Nat
  BY <1>1 DEF PlanInv, Rows, IsPlan, Decided
<1>3. /\ z \in Plan /\ SameCore(z, plans[i]) /\ z.status = "EXECUTED" /\ z.key = req[r].key /\ z.executed = tx[r].quantity
  <2>. PICK x, n, k : x = plans[i] /\ n = tx[r].quantity /\ k = req[r].key
    OBVIOUS
  <2>1. x = [product |-> x.product, needed |-> x.needed, suggested |-> x.suggested, supplier |-> x.supplier,
             from |-> x.from, status |-> x.status, key |-> x.key, executed |-> x.executed]
    BY <1>2 DEF Plan
  <2>2. z = [x EXCEPT !.status = "EXECUTED", !.executed = n, !.key = k]
    OBVIOUS
  <2>3. z = [product |-> x.product, needed |-> x.needed, suggested |-> x.suggested, supplier |-> x.supplier,
             from |-> x.from, status |-> "EXECUTED", key |-> k, executed |-> n]
    BY ONLY <2>1, <2>2
  <2>4. "EXECUTED" \in PlanStatuses
    BY DEF PlanStatuses
  <2>5. x \in Plan /\ n \in Nat /\ k \in Keys
    BY <1>1, <1>2
  <2>6. z \in Plan /\ SameCore(z, x) /\ z.status = "EXECUTED" /\ z.key = k /\ z.executed = n
    BY ONLY <2>3, <2>4, <2>5 DEF Plan, SameCore
  <2>. QED  BY <2>6
<1>4. plans' = [plans EXCEPT ![i] = z]
  BY <1>1
<1>5. /\ DOMAIN plans' = DOMAIN plans /\ plans'[i] = z /\ \A j \in DOMAIN plans : j # i => plans'[j] = plans[j]
      /\ PlansOK' /\ OneBatch' /\ KeepsPlans
      /\ \A p : ActivePlans(p)' \subseteq ActivePlans(p)
      /\ \A o \in Requests : o # r /\ <<"plan", i>> \notin held[o] =>
            \A j \in DOMAIN plans : <<"plan", j>> \in held[o] => plans'[j].status = plans[j].status
  <2>1. z.status \notin {"RECOMMENDED", "APPROVED"}
    BY <1>3
  <2>. QED  BY <1>1, <1>3, <1>4, <2>1, PlanChange
<1>. PICK y : y = NewDoc(r, i)
  OBVIOUS
<1>6. /\ y \in Doc /\ y.plan = i /\ y.product = plans[i].product /\ y.from = SourceOf(i) /\ y.qty = tx[r].quantity /\ y.qty > 0
      /\ Accounted(y)
  BY <1>1, <1>2 DEF NewDoc, Accounted
<1>7. /\ DOMAIN docs' = DOMAIN docs \cup {r} /\ docs'[r] = y /\ \A e \in DOMAIN docs : docs'[e] = docs[e]
      /\ \A p : p # y.product => OnOrder(p)' = OnOrder(p)
      /\ \A p : p # y.from \/ y.status # "DRAFT" => Committed(p)' = Committed(p)
  <2>1. docs' = With(docs, r, y)
    BY <1>1
  <2>. QED  BY <1>1, <1>2, <1>6, <2>1, DocAdded
<1>8. pc'[r] = "done" /\ \A o \in Requests : pc[o] = "done" => pc'[o] = "done"
  BY OverSession
<1>9. DocsOK'
  <2>1. ASSUME NEW d \in DOMAIN docs
        PROVE  /\ d \in Requests /\ pc'[d] = "done" /\ docs'[d] \in Doc /\ docs'[d].qty > 0 /\ Accounted(docs'[d])
               /\ docs'[d].plan \in DOMAIN plans' /\ plans'[docs'[d].plan].status = "EXECUTED"
               /\ docs'[d].qty = plans'[docs'[d].plan].executed
    BY <1>1, <1>2, <1>5, <1>7, <1>8 DEF DocsOK
  <2>2. /\ docs'[r] \in Doc /\ docs'[r].qty > 0 /\ Accounted(docs'[r])
        /\ docs'[r].plan \in DOMAIN plans' /\ plans'[docs'[r].plan].status = "EXECUTED"
        /\ docs'[r].qty = plans'[docs'[r].plan].executed
    BY <1>1, <1>3, <1>5, <1>6, <1>7
  <2>. QED  BY <1>7, <1>8, <2>1, <2>2 DEF DocsOK
<1>10. OneDoc'
  BY <1>1, <1>2, <1>6, <1>7 DEF Rows, OneDoc
<1>11. HasDoc'
  <2>. SUFFICES ASSUME NEW j \in DOMAIN plans, plans'[j].status = "EXECUTED" PROVE \E d \in DOMAIN docs' : docs'[d].plan = j
    BY <1>5 DEF HasDoc
  <2>1. CASE j = i
    BY <1>6, <1>7, <2>1
  <2>2. CASE j # i
    BY <1>2, <1>5, <1>7, <2>2 DEF Rows, HasDoc
  <2>. QED  BY <2>1, <2>2
<1>12. OneKey'
  <2>1. OneKey
    BY <1>2 DEF Rows
  <2>. QED  BY <1>1, <1>3, <1>5, <2>1 DEF OneKey
<1>13. Rows'
  BY <1>1, <1>2, <1>5, <1>9, <1>10, <1>11, <1>12 DEF Rows
<1>14. ASSUME NEW o \in Requests, o # r PROVE LeavesLocked(o)
  <2>1. ASSUME NEW p \in Products, <<"product", p>> \in held[o]
        PROVE  qty'[p] = qty[p] /\ OnOrder(p)' <= OnOrder(p) /\ Committed(p)' <= Committed(p)
    <3>1. p \notin ProductsOf(i)
      BY <1>1, <1>2, <1>14, <2>1 DEF Exclusive
    <3>2. p # y.product /\ p # y.from
      BY <1>1, <1>6, <2>1, <3>1, SourceIn, ReplenishmentAssumption
    <3>3. OnOrder(p)' = OnOrder(p) /\ Committed(p)' = Committed(p) /\ OnOrder(p) \in Nat /\ Committed(p) \in Nat
      BY <1>2, <1>7, <3>2, PositionNat
    <3>. QED  BY <1>1, <3>3
  <2>2. <<"plan", i>> \notin held[o]
    BY <1>1, <1>2, <1>14 DEF Exclusive
  <2>3. \A j \in DOMAIN plans : <<"plan", j>> \in held[o] => plans'[j].status = plans[j].status
    BY <1>5, <1>14, <2>2
  <2>4. \A p \in Products : ActivePlans(p) = {} => ActivePlans(p)' = {}
    BY <1>5
  <2>. QED  BY <1>1, <2>1, <2>3, <2>4 DEF LeavesLocked
<1>. QED  BY <1>5, <1>13, <1>14, WriteStep

-----------------------------------------------------------------------------
(* The invariant.                                                          *)

(* It holds at first.                                                      *)
LEMMA InitKeeps == Init => PlanInv
<1>. SUFFICES ASSUME Init PROVE PlanInv
  OBVIOUS
<1>1. /\ load \in Workloads /\ qty = InitialQty /\ prices = load.prices /\ active = Suppliers /\ DOMAIN plans = {} /\ DOMAIN docs = {}
      /\ pc = [r \in Requests |-> "new"] /\ held = [r \in Requests |-> {}]
      /\ req = [r \in Requests |-> NoOne] /\ tx = [r \in Requests |-> EmptyTx]
  BY DEF Init
<1>2. IsTx(EmptyTx) /\ EmptyTx.new = <<>>
  BY DEF IsTx, EmptyTx
<1>3. Shape
  <2>1. "new" \in Labels
    BY DEF Labels
  <2>2. pc \in [Requests -> Labels]
    BY <1>1, <2>1
  <2>3. \A r \in Requests : Served(r) /\ IsTx(tx[r])
    BY <1>1, <1>2 DEF Served, Pending, Generates, Executes
  <2>. QED  BY <1>1, <2>2, <2>3 DEF Shape
<1>4. Exclusive
  BY <1>1 DEF Exclusive
<1>5. Rows
  <2>1. /\ qty \in [Products -> Int] /\ (\A p \in Products : qty[p] >= 0 \/ p \in AllowNegative)
        /\ prices \subseteq Price /\ active \subseteq Suppliers
    BY <1>1, ReplenishmentAssumption
  <2>2. PlansOK /\ DocsOK /\ OneDoc /\ HasDoc /\ OneKey
    BY <1>1 DEF PlansOK, DocsOK, OneDoc, HasDoc, OneKey
  <2>3. OneBatch
    BY <1>1 DEF OneBatch, ActivePlans
  <2>. QED  BY <2>1, <2>2, <2>3 DEF Rows
<1>6. ASSUME NEW r \in Requests PROVE Relies(r)
  <2>1. pc[r] = "new" /\ tx[r].new = <<>>
    BY <1>1, <1>2
  <2>. QED  BY <2>1 DEF Relies, Holds, Decided, HasRead, Drafted, Generates
<1>. QED  BY <1>3, <1>4, <1>5, <1>6 DEF PlanInv

(* It is kept by every step.                                               *)
LEMMA StepKeeps == ASSUME PlanInv, NEW r \in Requests, Submit(r) \/ Step(r) \/ Fail(r) PROVE PlanInv'
<1>1. CASE Submit(r)
  BY <1>1, SubmitKeeps
<1>2. CASE Ends(r)
  BY <1>2, EndsKeeps
<1>3. CASE ReadProducts(r) /\ ~Ends(r)
  BY <1>3, ReadProductsKeeps
<1>4. CASE ReadInbound(r)
  BY <1>4, ReadInboundKeeps
<1>5. CASE ReadOrders(r)
  BY <1>5, ReadOrdersKeeps
<1>6. CASE LockShortage(r)
  BY <1>6, LockShortageKeeps
<1>7. CASE PlanShortage(r)
  BY <1>7, PlanShortageKeeps
<1>8. CASE BeginExecute(r) /\ ~Ends(r)
  BY <1>8, BeginExecuteKeeps
<1>9. CASE LockPlan(r) /\ ~Ends(r)
  BY <1>9, LockPlanKeeps
<1>10. CASE LockProduct(r)
  BY <1>10, LockProductKeeps
<1>11. CASE Revalidate(r) /\ ~MarkStale(r)
  BY <1>11, RevalidateKeeps
<1>12. CASE Writes(r) /\ ~Ends(r) /\ Over(r)
  BY <1>12, CommitPlansKeeps, MovePlanKeeps, MarkStaleKeeps, ExecutePlanKeeps, AddPriceKeeps,
     SetSupplierActiveKeeps, MoveStockKeeps, LivesOnKeeps DEF Writes
<1>. QED  BY <1>1, <1>2, <1>3, <1>4, <1>5, <1>6, <1>7, <1>8, <1>9, <1>10, <1>11, <1>12, Cases

(* A step that changes nothing keeps it.                                   *)
LEMMA StutterKeeps == ASSUME PlanInv, UNCHANGED vars PROVE PlanInv'
<1>1. UNCHANGED <<qty, prices, active, plans, docs, load, held, pc, req, tx>> /\ UNCHANGED tables
  BY DEF vars, session, tables
<1>2. \A p : ActivePlans(p)' = ActivePlans(p) /\ OnOrder(p)' = OnOrder(p) /\ Committed(p)' = Committed(p)
  BY <1>1, TablesKept
<1>3. Shape' /\ Exclusive'
  BY <1>1 DEF PlanInv, Shape, Exclusive, Served, Pending
<1>4. Rows'
  <2>1. OneBatch'
    BY <1>2 DEF PlanInv, Rows, OneBatch
  <2>2. PlansOK' /\ DocsOK' /\ OneDoc' /\ HasDoc' /\ OneKey'
    BY <1>1 DEF PlanInv, Rows, PlansOK, DocsOK, OneDoc, HasDoc, OneKey
  <2>. QED  BY <1>1, <2>1, <2>2 DEF PlanInv, Rows
<1>5. ASSUME NEW o \in Requests PROVE Relies(o)'
  <2>1. DocsOK
    BY DEF PlanInv, Rows
  <2>2. \A p : OnOrder(p)' <= OnOrder(p) /\ Committed(p)' <= Committed(p)
    BY <1>2, <2>1, PositionNat
  <2>3. LeavesLocked(o)
    BY <1>1, <1>2, <2>2 DEF LeavesLocked
  <2>4. KeepsPlans /\ AreDocs(docs')
    BY <1>1, <2>1 DEF KeepsPlans, SameCore, DocsOK, AreDocs
  <2>. QED  BY <1>1, <2>3, <2>4, OtherRelies
<1>. QED  BY <1>3, <1>4, <1>5 DEF PlanInv

(* So it always holds.                                                     *)
LEMMA PlanInvKept == Spec => []PlanInv
<1>1. PlanInv /\ [Next]_vars => PlanInv'
  BY StepKeeps, StutterKeeps DEF Next
<1>. QED  BY <1>1, InitKeeps, PTL DEF Spec

-----------------------------------------------------------------------------
(* The properties.                                                         *)

(* A plan is EXECUTED exactly when one document exists for it, for the     *)
(* quantity the plan records, and an idempotency key is used once, however *)
(* many executions of the plan race or are repeated (execute_plan).        *)
THEOREM ExecutedCorrect == Spec => []ExecutedOnce
<1>1. PlanInv => ExecutedOnce
  <2>. SUFFICES ASSUME PlanInv PROVE ExecutedOnce
    OBVIOUS
  <2>0. DocsOK /\ OneDoc /\ HasDoc /\ OneKey
    BY DEF PlanInv, Rows
  <2>1. ASSUME NEW i \in DOMAIN plans
        PROVE  IF plans[i].status = "EXECUTED"
               THEN /\ Cardinality({d \in DOMAIN docs : docs[d].plan = i}) = 1
                    /\ \A d \in {d \in DOMAIN docs : docs[d].plan = i} : docs[d].qty = plans[i].executed
               ELSE {d \in DOMAIN docs : docs[d].plan = i} = {}
    <3>1. CASE plans[i].status = "EXECUTED"
      <4>1. PICK d \in DOMAIN docs : docs[d].plan = i
        BY <2>0, <3>1 DEF HasDoc
      <4>2. {e \in DOMAIN docs : docs[e].plan = i} = {d}
        BY <2>0, <4>1 DEF OneDoc
      <4>3. Cardinality({d}) = 1
        BY FS_Singleton
      <4>4. docs[d].qty = plans[i].executed
        BY <2>0, <4>1 DEF DocsOK
      <4>. QED  BY <3>1, <4>2, <4>3, <4>4
    <3>2. CASE plans[i].status # "EXECUTED"
      BY <2>0, <3>2 DEF DocsOK
    <3>. QED  BY <3>1, <3>2
  <2>. QED  BY <2>0, <2>1 DEF ExecutedOnce, OneKey
<1>. QED  BY <1>1, PlanInvKept, PTL

(* The active plans of a product come from one generation, and the plans   *)
(* of a generation fit the shortage it saw: no more from the sister stores *)
(* than the shortage, one store once, at most one order, and none once the *)
(* stores cover it (generate_replenishment_plans).                         *)
THEOREM BatchesCorrect == Spec => []OneActiveBatch
<1>1. PlanInv => OneActiveBatch
  <2>. SUFFICES ASSUME PlanInv PROVE OneActiveBatch
    OBVIOUS
  <2>0. Rows /\ PlansOK /\ DocsOK
    BY DEF PlanInv, Rows
  <2>1. TypeOK
    BY <2>0 DEF Rows, PlansOK, DocsOK, IsPlan, TypeOK
  <2>2. BatchFitsShortage
    BY <2>0 DEF PlansOK, Fits, Drawn, FromStores, Family, BatchFitsShortage
  <2>. QED  BY <2>0, <2>1, <2>2 DEF Rows, OneBatch, OneActiveBatch
<1>. QED  BY <1>1, PlanInvKept, PTL

(* Only an execution creates a document, and it is its own.                *)
LEMMA NewDocs ==
    ASSUME PlanInv, [Next]_vars, NEW d \in DOMAIN docs' \ DOMAIN docs
    PROVE  d \in Requests /\ ExecutePlan(d) /\ ~Ends(d)
<1>1. CASE UNCHANGED vars
  BY <1>1 DEF vars, tables
<1>2. CASE Next
  <2>1. PICK r \in Requests : Submit(r) \/ Step(r) \/ Fail(r)
    BY <1>2 DEF Next
  <2>2. docs' # docs
    OBVIOUS
  <2>3. ~Submit(r) /\ ~Ends(r) /\ ~UNCHANGED tables
    BY <2>2 DEF Submit, Ends, tables
  <2>4. ~(ReadProducts(r) /\ ~Ends(r)) /\ ~ReadInbound(r) /\ ~ReadOrders(r) /\ ~LockShortage(r) /\ ~PlanShortage(r)
    BY <2>3, ReturnEnds DEF ReadProducts, ReadInbound, ReadOrders, LockShortage, PlanShortage, Goto, tables
  <2>5. ~(BeginExecute(r) /\ ~Ends(r)) /\ ~(LockPlan(r) /\ ~Ends(r)) /\ ~LockProduct(r)
    BY <2>3, ReturnEnds DEF BeginExecute, LockPlan, LockProduct, Goto, tables
  <2>6. ~(Revalidate(r) /\ ~MarkStale(r))
    BY <2>3 DEF Revalidate, Goto, tables
  <2>7. Writes(r)
    BY <2>1, <2>3, <2>4, <2>5, <2>6, Cases
  <2>8. LivesOn(r) => DOMAIN docs' = DOMAIN docs
    <3>. SUFFICES ASSUME LivesOn(r) PROVE DOMAIN docs' = DOMAIN docs
      OBVIOUS
    <3>1. PICK e \in DOMAIN docs : \E z : DocMoves(r, e, z)
      BY <2>3, LivesOnIs
    <3>. QED  BY <3>1 DEF DocMoves, With
  <2>9. ExecutePlan(r)
    BY <2>2, <2>3, <2>7, <2>8, ReturnEnds
    DEF Writes, CommitPlans, MovePlan, MarkStale, AddPrice, SetSupplierActive, MoveStock, Movement
  <2>10. docs' = With(docs, r, NewDoc(r, req[r].plan))
    BY <2>3, <2>9, ExecuteIs DEF ExecutesAs
  <2>11. d = r
    BY <2>10 DEF With
  <2>. QED  BY <2>3, <2>9, <2>11
<1>. QED  BY <1>1, <1>2

(* An order is created only for a shortage that is still there, rounded up *)
(* by one price in force, whatever was ordered, received or sold while the *)
(* plan waited: the decision rests on rows the execution holds.            *)
THEOREM OrdersCorrect == Spec => NoOverbuying
<1>1. ASSUME PlanInv, [Next]_vars, NEW d \in DOMAIN docs' \ DOMAIN docs, docs'[d].from = NoOne
      PROVE  LET p == docs'[d].product IN
             \E n \in 1 .. TargetOf(p) - qty[p] - OnOrder(p) : \E c \in prices :
                c.product = p /\ c.supplier = plans[docs'[d].plan].supplier /\ docs'[d].qty = Rounded(n, c)
  <2>1. d \in Requests /\ ExecutePlan(d) /\ ~Ends(d)
    BY <1>1, NewDocs
  <2>. PICK i : i = req[d].plan
    OBVIOUS
  <2>2. pc[d] = "execute" /\ Decided(d) /\ docs' = With(docs, d, NewDoc(d, i)) /\ i \in DOMAIN plans /\ IsPlan(i, plans[i])
    BY <1>1, <2>1, ExecuteIs DEF ExecutesAs
  <2>3. docs'[d] = NewDoc(d, i)
    BY <2>2 DEF With
  <2>4. /\ docs'[d].plan = i /\ docs'[d].product = plans[i].product /\ docs'[d].qty = tx[d].quantity
        /\ SourceOf(i) = NoOne
    BY <1>1, <2>3 DEF NewDoc
  <2>6. plans[i].supplier # NoOne
    BY <2>2, <2>4, SourceIn, ReplenishmentAssumption DEF Sisters
  <2>5. InShortage(tx[d].quantity, i)
    BY <2>2, <2>6 DEF Decided
  <2>. QED  BY <2>4, <2>5 DEF InShortage
<1>2. PlanInv /\ [Next]_vars =>
        [\A d \in DOMAIN docs' \ DOMAIN docs :
           LET p == docs'[d].product IN
           docs'[d].from = NoOne =>
              \E n \in 1 .. TargetOf(p) - qty[p] - OnOrder(p) : \E c \in prices :
                  c.product = p /\ c.supplier = plans[docs'[d].plan].supplier /\ docs'[d].qty = Rounded(n, c)]_vars
  BY <1>1
<1>. QED  BY <1>2, PlanInvKept, PTL DEF Spec, NoOverbuying

(* The drafts drawing on a source store, the new one included, leave it    *)
(* its own reorder point at the moment one is created (Design Decision 6): *)
(* the spare stock was read, and is still held, under the source's lock.   *)
THEOREM SourcesCorrect == Spec => SourceIsProtected
<1>1. ASSUME PlanInv, [Next]_vars, NEW d \in DOMAIN docs' \ DOMAIN docs, docs'[d].from # NoOne
      PROVE  LET s == docs'[d].from
                 drafts == {e \in DOMAIN docs' : docs'[e].from = s /\ docs'[e].status = "DRAFT"}
             IN  SumOver(drafts, LAMBDA e : docs'[e].qty) <= qty[s] - ReorderOf(s)
  <2>1. d \in Requests /\ ExecutePlan(d) /\ ~Ends(d)
    BY <1>1, NewDocs
  <2>. PICK i : i = req[d].plan
    OBVIOUS
  <2>2. /\ pc[d] = "execute" /\ Decided(d) /\ docs' = With(docs, d, NewDoc(d, i)) /\ NewDoc(d, i) \in Doc /\ d \notin DOMAIN docs
        /\ i \in DOMAIN plans /\ IsPlan(i, plans[i])
    BY <1>1, <2>1, ExecuteIs DEF ExecutesAs
  <2>. PICK z, s : z = NewDoc(d, i) /\ s = SourceOf(i)
    OBVIOUS
  <2>3. docs'[d] = z
    BY <2>2 DEF With
  <2>4. z.from = s /\ z.qty = tx[d].quantity /\ z.status = "DRAFT" /\ s # NoOne
    BY <1>1, <2>3 DEF NewDoc
  <2>8. plans[i].supplier = NoOne
    BY <2>2, <2>4, SourceIn
  <2>5. tx[d].quantity + Committed(s) <= qty[s] - ReorderOf(s)
    BY <2>2, <2>8 DEF Decided, Spared
  <2>6. Committed(s)' = z.qty + Committed(s)
    <3>1. DocsOK /\ z \in Doc /\ docs' = With(docs, d, z)
      BY <1>1, <2>2 DEF PlanInv, Rows
    <3>. QED  BY <2>1, <2>2, <2>4, <3>1, DocAdded
  <2>7. Committed(s)' <= qty[s] - ReorderOf(s)
    BY <2>4, <2>5, <2>6
  <2>. QED  BY <2>3, <2>4, <2>7 DEF Committed, SumOver
<1>2. PlanInv /\ [Next]_vars =>
        [\A d \in DOMAIN docs' \ DOMAIN docs :
           LET s == docs'[d].from
               drafts == {e \in DOMAIN docs' : docs'[e].from = s /\ docs'[e].status = "DRAFT"}
           IN  s # NoOne => SumOver(drafts, LAMBDA e : docs'[e].qty) <= qty[s] - ReorderOf(s)]_vars
  BY <1>1
<1>. QED  BY <1>2, PlanInvKept, PTL DEF Spec, SourceIsProtected

=============================================================================
