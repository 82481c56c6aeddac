----------------------------- MODULE MCCheckout -----------------------------
(* Small instances of Checkout for TLC.                                    *)
EXTENDS Checkout, TLC

CONSTANTS r1, r2, r3, r4, k1, k2, u1, u2, u3, u4

RequestSymmetry == Permutations(Requests)

(* Two products, one of them sold by weight in half units; product 1 is    *)
(* short for two of the carts together.                                    *)
MCInitialQty == [p \in Products |-> IF p = 1 THEN 4 ELSE 3]
MCPrice      == [p \in Products |-> IF p = 1 THEN 33 ELSE 10]
MCCost       == [p \in Products |-> IF p = 1 THEN 21 ELSE 0]
MCTax        == [p \in Products |-> IF p = 1 THEN 15 ELSE 0]

Line(p, q, d) == [product |-> p, qty |-> q, discount |-> d]

(* Carts that overlap on product 1, scan it twice, list the products in    *)
(* the opposite order, or are refused for one of the reasons the code has. *)
BothWays   == <<Line(2, 2, 0), Line(1, 3, 5)>>
TwiceOne   == <<Line(1, 1, 0), Line(1, 1, 0)>>
OneTwo     == <<Line(1, 2, 0), Line(2, 1, 0)>>
StockSubmissions ==
    {SaleCreate(k1, u1, BothWays, 100, 0), SaleCreate(k1, u1, OneTwo, 50, 30),
     SaleCreate(k2, u1, TwiceOne, 40, 0),  SaleCreate(k2, u2, OneTwo, 20, 30)}

RefusedSubmissions ==
    {SaleCreate(k1, u1, <<>>, 10, 0), SaleCreate(k1, u1, OneTwo, 0, 0),
     SaleCreate(k1, u1, <<Line(3, 1, 0)>>, 10, 0), SaleCreate(k1, u3, OneTwo, 100, 0),
     SaleCreate(k1, u1, <<Line(2, 1, 9)>>, 10, 0), SaleCreate(k1, u1, OneTwo, 0, 99),
     SaleCreate(k1, u1, OneTwo, 1, 0), SaleCreate(k1, u1, <<Line(4, 1, 0)>>, 10, 0),
     SaleCreate(k2, u2, OneTwo, 99, 0)}

AllSales == StockSubmissions \cup RefusedSubmissions

(* A day at the till: the cashier u1 opens, sells for cash, moves cash and *)
(* counts; u4, holding shift.override, closes.                             *)
OpenTill == ShiftOpenCreate(k1, u1, 7)
TillSubmissions ==
    {OpenTill, SaleCreate(k1, u1, <<Line(2, 2, 0)>>, 12, 0)}
      \cup {CashMovementCreate(k1, u1, s, "PAID_OUT", 3) : s \in {r1, r2}}
      \cup {ShiftCloseCreate(k1, u4, s, 15) : s \in {r1, r2}}

(* Two cashiers: u1 opens under two keys, u2 closes its own and tries u1's *)
(* shift under one key, u1 pays in.                                        *)
ShiftSubmissions ==
    {OpenTill, ShiftOpenCreate(k2, u1, 7), ShiftOpenCreate(k2, u2, 0)}
      \cup {CashMovementCreate(k1, u1, s, "PAID_IN", 2) : s \in {r1, r2}}
      \cup {ShiftCloseCreate(k1, u2, s, 0) : s \in {r1, r2}}

(* What record_cash_movement and close_shift refuse, beside one that works. *)
RefusedShiftSubmissions ==
    {OpenTill, ShiftOpenCreate(k1, u3, 7)}
      \cup UNION {{CashMovementCreate(k1, u2, s, "PAID_IN", 2),
                   CashMovementCreate(k1, u3, s, "PAID_IN", 2),
                   CashMovementCreate(k1, u1, s, "PAID_IN", 0),
                   ShiftCloseCreate(k1, u1, s, 7), ShiftCloseCreate(k1, u2, s, 7),
                   ShiftCloseCreate(k2, u1, s, 0), ShiftCloseCreate(k2, u3, s, 7)} : s \in {r1, r2}}

(* Requests carry bodies of S, r1 one of S1; those not in R are not sent.  *)
Sending(R, S1, S) ==
    {[sent |-> R, body |-> [r \in Requests |-> IF r \in R THEN f[r] ELSE OpenTill]] :
        f \in {g \in [R -> S] : g[r1] \in S1}}

(* A day of the store: three sales at once, or four requests at the till,  *)
(* or of two cashiers, or three that are mostly refused.  Somebody opens   *)
(* the till, and it is no matter who: call it r1.                          *)
DayWorkloads ==
    Sending({r1, r2, r3}, AllSales, AllSales) \cup Sending(Requests, {OpenTill}, TillSubmissions)
      \cup Sending(Requests, {OpenTill}, ShiftSubmissions)
      \cup Sending({r1, r2, r3}, {OpenTill}, RefusedShiftSubmissions)
DaySubmissions ==
    AllSales \cup {[q EXCEPT !.shift = IF q.shift = NoOne THEN NoOne ELSE s] :
                      q \in TillSubmissions \cup ShiftSubmissions \cup RefusedShiftSubmissions,
                      s \in Requests}

Everyone == Sending(Requests, Submissions, Submissions)

(* Quantities of half a quantum: at one cent a unit a line of three half   *)
(* quanta comes to what its stored quantity comes to, at ten it does not.  *)
FinePrice == [p \in Products |-> IF p = 1 THEN 1 ELSE 10]

(* Sales and shift operations that lock rows in every combination, the     *)
(* sales with more digits than the columns keep.                           *)
WaitingSubmissions ==
    {SaleCreate(k1, u1, <<Line(2, 2, 0), Line(1, 3, 0)>>, 20, 0),
     SaleCreate(k2, u1, <<Line(1, 3, 0), Line(1, 2, 0), Line(2, 2, 0)>>, 10, 2), SaleCreate(k1, u1, <<Line(2, 1, 0)>>, 20, 0),
     ShiftOpenCreate(k1, u1, 7), ShiftCloseCreate(k1, u1, r1, 15)}
=============================================================================
