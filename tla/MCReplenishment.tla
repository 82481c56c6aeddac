--------------------------- MODULE MCReplenishment ---------------------------
(* Small instances of Replenishment for TLC.                               *)
EXTENDS Replenishment

CONSTANTS r1, r2, r3, r4, r5, r6, r7, r8, r9, k1, k2

(* One article in four stores: stores 1 and 3 are short, 2 and 4 have a    *)
(* surplus that both of them would draw on.                                *)
MCStore      == <<1, 2, 3, 4>>
MCSku        == <<1, 1, 1, 1>>
MCReorder    == <<4, 1, 1, NoOne>>
MCTarget     == <<6, 2, 2, 0>>
MCPreferred  == <<2, NoOne, NoOne, NoOne>>
MCInitialQty == <<1, 3, 0, 1>>

P(s, p, pack, cost, moq, day) == [supplier |-> s, product |-> p, pack |-> pack, cost |-> cost, moq |-> moq, lead |-> 1, day |-> day]
List == {P(1, 1, 4, 5, 3, 0), P(2, 1, 4, 7, 0, 0), P(2, 1, 1, 6, 0, 1), P(2, 1, 1, 1, 9, 3), P(1, 2, 1, 5, 0, 0)}

Generate(S) == [kind |-> "GENERATE", products |-> S, access |-> TRUE]
Approve(i)  == [kind |-> "APPROVE", plan |-> i, access |-> TRUE]
Cancel(i)   == [kind |-> "CANCEL", plan |-> i, access |-> TRUE]
Execute(i, k) == [kind |-> "EXECUTE", plan |-> i, key |-> k, access |-> TRUE]
Stock(p, n) == [kind |-> "STOCK", product |-> p, delta |-> n]
Order(d)    == [kind |-> "ORDER", doc |-> d]
Drop(d)     == [kind |-> "DROP", doc |-> d]
Ship(d, n)  == [kind |-> "SHIP", doc |-> d, units |-> n]
Goods(d, n) == [kind |-> "GOODS", doc |-> d, units |-> n]
Arrive(d, good, lost) == [kind |-> "ARRIVE", doc |-> d, good |-> good, lost |-> lost]
PriceReq(c) == [kind |-> "PRICE", price |-> c]
SupplierReq(s, b) == [kind |-> "SUPPLIER", supplier |-> s, active |-> b]
Denied(q) == [q EXCEPT !.access = FALSE]

None == [r \in Requests |-> {}]
Chain == [r \in Requests |-> CASE r = r1 -> {} [] r = r2 -> {r1} [] r = r3 -> {r2} [] r = r4 -> {r3} [] r = r5 -> {r4} [] OTHER -> {r4}]

(* Two generations meet a sale, below zero where that is allowed, and a    *)
(* supplier who leaves.                                                    *)
Generating ==
    [prices |-> List, after |-> [None EXCEPT ![r4] = {r1}, ![r5] = {r2}],
     sent |-> [None EXCEPT ![r1] = {Generate({1}), Generate({1, 3})}, ![r2] = {Generate({1}), Generate({1, 2, 3, 4})},
                           ![r3] = {Stock(2, -1), Stock(1, -2), SupplierReq(2, FALSE)},
                           ![r4] = {Cancel(<<r1, 1, 1>>), Approve(<<r2, 1, 1>>)},
                           ![r5] = {Generate({1}), Denied(Generate({1}))}]]

(* The plans of one generation are approved, then executed, cancelled and  *)
(* retried by several clients while the price list and the stock change.   *)
A1 == <<r1, 1, 1>>
A2 == <<r1, 1, 2>>
A3 == <<r1, 1, 3>>
C1 == <<r1, 3, 1>>
Executing ==
    [prices |-> List, after |-> [Chain EXCEPT ![r8] = {r5}],
     sent |-> [None EXCEPT ![r1] = {Generate({1, 3})}, ![r2] = {Approve(A1)}, ![r3] = {Approve(A3)}, ![r4] = {Approve(C1), Approve(A2)},
                           ![r5] = {Execute(A1, k1), Execute(A3, k1)},
                           ![r6] = {Execute(A1, k1), Execute(A1, k2), Execute(A3, k2), Cancel(A3), Execute(A2, k1)},
                           ![r7] = {Execute(C1, k1), Execute(C1, k2), PriceReq(P(2, 1, 1, 6, 8, 2)), SupplierReq(2, FALSE), Stock(2, -2), Stock(1, 4)},
                           ![r8] = {Ship(r5, 2), Order(r5), Drop(r5), Stock(1, -2), Generate({1})}]]

(* A transfer ships and arrives in parts, or an order does, while the      *)
(* sibling plans are executed.                                             *)
Following ==
    [prices |-> List, after |-> [Chain EXCEPT ![r5] = {r4}, ![r6] = {r5}, ![r7] = {r5}, ![r8] = {r5}, ![r9] = {r6}],
     sent |-> [None EXCEPT ![r1] = {Generate({1})}, ![r2] = {Approve(A1)}, ![r3] = {Approve(A3)}, ![r4] = {Approve(A2)},
                           ![r5] = {Execute(A1, k1), Execute(A3, k1)},
                           ![r6] = {Ship(r5, 2), Ship(r5, 1), Ship(r5, 3), Order(r5), Drop(r5)},
                           ![r7] = {Execute(A2, k2), Execute(A3, k2)},
                           ![r8] = {Stock(1, -2), Stock(4, -1), Cancel(A2), Arrive(r5, 1, 0), Goods(r5, 2), Goods(r5, 9)},
                           ![r9] = {Arrive(r5, 1, 0), Arrive(r5, 0, 1), Arrive(r5, 0, 0), Goods(r5, 1), Order(r5), Drop(r5), Ship(r5, 1), Ship(r7, 1)}]]

(* Store 1 recovers and store 2 runs short, so that plans in both          *)
(* directions between them are executed at once.                           *)
B1 == <<r5, 2, 1>>
BothWays ==
    [prices |-> {},
     after |-> [None EXCEPT ![r2] = {r1}, ![r3] = {r2}, ![r4] = {r3}, ![r5] = {r4}, ![r6] = {r5}, ![r7] = {r6}, ![r8] = {r6}],
     sent |-> [None EXCEPT ![r1] = {Generate({1})}, ![r2] = {Approve(A1)}, ![r3] = {Stock(1, 6)}, ![r4] = {Stock(2, -3)},
                           ![r5] = {Generate({2})}, ![r6] = {Approve(B1)},
                           ![r7] = {Execute(B1, k1)}, ![r8] = {Execute(A1, k1), Execute(A1, k2)}]]

(* The bodies that are refused at each step.                               *)
Refusing ==
    [prices |-> List, after |-> Chain,
     sent |-> [None EXCEPT ![r1] = {Generate({3})}, ![r2] = {Approve(C1), Denied(Approve(C1)), Execute(C1, k1), Execute(A1, k1), Cancel(A1)},
                           ![r3] = {Approve(C1), Denied(Execute(C1, k1)), Denied(Cancel(C1)), Stock(3, -9)},
                           ![r4] = {Execute(C1, k1), PriceReq(P(2, 1, 1, 1, 1, 1))},
                           ![r5] = {Execute(C1, k1), Cancel(C1), Approve(C1)}]]

(* A generation has read the position when the order of an earlier one is  *)
(* placed and its siblings are dropped: it finds no active plan, writes    *)
(* one of its own for the shortage of then, and that is executed too.      *)
(* Goods may have come in by then.                                         *)
PlannedTwice ==
    [prices |-> List,
     after |-> [None EXCEPT ![r2] = {r1}, ![r3] = {r2}, ![r4] = {r3}, ![r5] = {r4}, ![r7] = {r5, r6}, ![r8] = {r7}, ![r9] = {r3}],
     sent |-> [None EXCEPT ![r1] = {Generate({1})}, ![r2] = {Approve(A3)}, ![r3] = {Execute(A3, k1)},
                           ![r4] = {Cancel(A1)}, ![r5] = {Cancel(A2)}, ![r6] = {Generate({1})},
                           ![r7] = {Approve(<<r6, 1, n>>) : n \in {1, 3}}, ![r8] = {Execute(<<r6, 1, n>>, k2) : n \in {1, 3}},
                           ![r9] = {Stock(1, 6)}]]

Days == {Generating, Executing, Following, PlannedTwice, BothWays, Refusing}
=============================================================================
