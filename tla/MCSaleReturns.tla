--------------------------- MODULE MCSaleReturns ---------------------------
(* Small instances of SaleReturns for TLC.                                 *)
EXTENDS SaleReturns, TLC

CONSTANTS r1, r2, r3, k1, k2, u1, u2, u3, u4, u5, s1, s2, s3, s4,
          a, b, c, d, e, f1, f2, home, strict, away

RequestSymmetry == Permutations(Requests)

(* Sale s1 has an item of product 1 and one of product 2, sale s2 one of   *)
(* product 1, sale s3 one of each, and sale s4 one of product 1 and one of *)
(* product 3.  Quantities are fifths, and neither the prices nor the       *)
(* discount and tax divide evenly.                                         *)
MCSaleStore == [s \in Sales |-> IF s = s4 THEN strict ELSE home]
MCItem ==
    [i \in Items |->
        CASE i = a -> [sale |-> s1, product |-> 1, qty |-> 4, price |-> 51, discount |-> 7, tax |-> 5, cost |-> 31]
          [] i = b -> [sale |-> s1, product |-> 2, qty |-> 2, price |-> 10, discount |-> 0, tax |-> 0, cost |-> 8]
          [] i = c -> [sale |-> s2, product |-> 1, qty |-> 8, price |-> 1, discount |-> 2, tax |-> 0, cost |-> 20]
          [] i = d -> [sale |-> s3, product |-> 1, qty |-> 1, price |-> 30, discount |-> 0, tax |-> 0, cost |-> 20]
          [] i = e -> [sale |-> s3, product |-> 2, qty |-> 1, price |-> 30, discount |-> 0, tax |-> 0, cost |-> 9]
          [] i = f1 -> [sale |-> s4, product |-> 1, qty |-> 4, price |-> 51, discount |-> 7, tax |-> 5, cost |-> 31]
          [] i = f2 -> [sale |-> s4, product |-> 3, qty |-> 2, price |-> 10, discount |-> 0, tax |-> 0, cost |-> 8]]
MCInitialQty  == [p \in Products |-> IF p = 1 THEN 2 ELSE -3]
MCInitialCost == [p \in Products |-> IF p = 1 THEN 33 ELSE 8]

(* u2 works in every store; u1 and u5 are on shift.                        *)
MCUserStore   == [u \in Users |-> CASE u \in {u1, u3} -> home [] u = u2 -> NoOne
                                    [] u = u4 -> away [] u = u5 -> strict]
MCThreshold   == [s \in Stores |-> IF s = strict THEN 39 ELSE NoOne]

Line(i, q, back) == [item |-> i, qty |-> q, restock |-> back]

Body(kind, key, user, sale, lines, approver) ==
    [kind |-> kind, key |-> key, user |-> user, store |-> IF sale = s4 THEN strict ELSE home, sale |-> sale, method |-> "CASH",
     lines |-> lines, approver |-> approver, closedDate |-> FALSE]
ReturnOf(key, user, sale, lines) == Body("RETURN", key, user, sale, lines, NoOne)
VoidOf(key, user, sale)          == Body("VOID", key, user, sale, <<>>, NoOne)
CloseOf(user)                    == Body("CLOSE", k1, user, NoOne, <<>>, NoOne)

(* Partial returns that overlap on one sale and one product, beside a void. *)
StockSubmissions ==
    {ReturnOf(k1, u3, s1, <<Line(a, 2, TRUE)>>),
     ReturnOf(k2, u3, s1, <<Line(b, 1, FALSE), Line(a, 3, TRUE)>>),
     ReturnOf(k2, u3, s1, <<Line(a, 1, TRUE), Line(a, 1, FALSE)>>),
     ReturnOf(k1, u3, s2, <<Line(c, 1, FALSE)>>),
     VoidOf(k2, u3, s1)}

(* The cashier's own shift closes while refunds are paid out of it.        *)
ShiftSubmissions ==
    {ReturnOf(k1, u1, s1, <<Line(a, 1, TRUE)>>), ReturnOf(k2, u1, s2, <<Line(c, 3, TRUE)>>),
     ReturnOf(k2, u2, s1, <<Line(b, 2, FALSE)>>), CloseOf(u1)}

(* Returns in the store with a threshold, by and with everybody who may,   *)
(* or may not, and all else a return or void is refused for.               *)
GateSubmissions ==
    LET full == <<Line(f1, 4, TRUE)>>
        half == <<Line(f1, 2, FALSE)>>
        of(q) == ReturnOf(k1, u5, s4, q)
    IN  {of(full), of(half), of(<<Line(c, 1, TRUE)>>), of(<<Line(f2, 1, TRUE)>>),
         ReturnOf(k1, u1, s2, <<Line(c, 2, TRUE)>>),
         Body("RETURN", k2, u2, s4, full, u2), Body("RETURN", k2, u5, s4, full, "BAD"),
         Body("RETURN", k2, u5, s4, full, u2), Body("RETURN", k2, u5, s4, full, u3),
         Body("RETURN", k2, u5, s4, full, u4), ReturnOf(k2, u5, NoOne, full),
         ReturnOf(k2, u4, s4, full), Body("VOID", k2, u5, s4, <<>>, u2),
         [VoidOf(k2, u4, s4) EXCEPT !.store = away], VoidOf(k2, u4, s4),
         [of(full) EXCEPT !.store = away, !.user = u2], [of(full) EXCEPT !.store = away, !.user = u4],
         [of(half) EXCEPT !.closedDate = TRUE], CloseOf(u5), CloseOf(u2)}

(* Returns that list products 1 and 2 from both ends, under one cashier.   *)
WaitingSubmissions ==
    {ReturnOf(k1, u1, s1, <<Line(b, 1, TRUE), Line(a, 1, TRUE)>>),
     ReturnOf(k1, u1, s3, <<Line(d, 1, TRUE), Line(e, 1, TRUE)>>),
     VoidOf(k2, u1, s1), CloseOf(u1)}

(* Those in R send a body of S each; the others send nothing.              *)
Sending(R, S) ==
    {[sent |-> R, body |-> [r \in Requests |-> IF r \in R THEN w[r] ELSE CloseOf(u1)]] : w \in [R -> S]}

(* Three returns at once, of the same goods or under one shift, or two in  *)
(* the store with a threshold, or of sales that share two products.        *)
DayWorkloads ==
    Sending(Requests, StockSubmissions) \cup Sending(Requests, ShiftSubmissions)
      \cup Sending({r1, r2}, GateSubmissions) \cup Sending({r1, r2}, WaitingSubmissions)
DaySubmissions == StockSubmissions \cup ShiftSubmissions \cup GateSubmissions \cup WaitingSubmissions
=============================================================================
