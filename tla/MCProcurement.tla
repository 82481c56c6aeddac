--------------------------- MODULE MCProcurement ---------------------------
(* Small instances of Procurement for TLC.                                 *)
EXTENDS Procurement, TLC

CONSTANTS r1, r2, r3, o1, o2, k1, k2

(* Order o1 has two lines for product 1 and one for product 2; o2, which   *)
(* is not created yet, one for product 1.                                  *)
MCItemOrder   == [i \in Items |-> IF i = 4 THEN o2 ELSE o1]
MCItemProduct == [i \in Items |-> IF i = 2 THEN 2 ELSE 1]
MCOrdered     == [i \in Items |-> IF i = 1 THEN 2 ELSE 1]
MCQty         == [p \in Products |-> IF p = 2 THEN 0 ELSE 1]
MCCost        == [p \in Products |-> IF p = 2 THEN 0 ELSE 3]
MCStatus      == [o \in Orders |-> IF o = o1 THEN "ORDERED" ELSE "NONE"]

Create(o, k)  == [kind |-> "CREATE", order |-> o, key |-> k, access |-> TRUE]
Change(k, o)  == [kind |-> k, order |-> o, access |-> TRUE]
Line(i, n, c) == [item |-> i, qty |-> n, cost |-> c]
Receive(o, k, lines) == [kind |-> "RECEIVE", order |-> o, key |-> k, lines |-> lines, access |-> TRUE]
Back(p, n)    == [product |-> p, qty |-> n]
SendBack(o, k, lines) ==
    [kind |-> "RETURN", order |-> o, key |-> k, lines |-> lines, access |-> TRUE, sameStore |-> TRUE]
Denied(q)     == [q EXCEPT !.access = FALSE]

Deliveries ==
    {Receive(o1, k1, <<Line(1, 2, 4)>>), Receive(o1, k2, <<Line(2, 1, 0), Line(1, 1, 2)>>),
     Receive(o1, k1, <<Line(1, 1, 5), Line(2, 1, 1)>>), Receive(o2, k1, <<Line(4, 1, 4)>>)}

Returns ==
    {SendBack(o1, k1, <<Back(1, 1)>>), SendBack(o1, k2, <<Back(1, 1), Back(1, 1)>>),
     SendBack(o1, k2, <<Back(2, 1), Back(1, 1)>>)}

Refused ==
    {Receive(o1, k1, <<>>), Receive(o1, k1, <<Line(4, 1, 1)>>), Receive(o1, k2, <<Line(1, 0, 1)>>),
     Denied(Receive(o1, k1, <<Line(1, 1, 1)>>)), Denied(Change("CANCEL", o1)), Change("SUBMIT", o2),
     SendBack(o2, k1, <<Back(1, 1)>>), SendBack(o1, k1, <<>>), SendBack(o1, k1, <<Back(1, 0)>>),
     [SendBack(o1, k1, <<Back(1, 1)>>) EXCEPT !.sameStore = FALSE], Denied(SendBack(o1, k1, <<Back(1, 1)>>)),
     Denied(Create(o2, k1)), Create(o2, k2)}

(* Everything at once.                                                     *)
Complete == Receive(o1, k1, <<Line(1, 2, 4), Line(2, 1, 1), Line(3, 1, 4)>>)

(* A delivery, something that races it, and a third that may be refused.   *)
DaySubmissions ==
    (r1 :> Deliveries \cup {Complete, Create(o2, k1)}
      @@ r2 :> Deliveries \cup {Change("CANCEL", o1), Change("SUBMIT", o1)} \cup Returns
      @@ r3 :> Returns \cup Refused)
=============================================================================
