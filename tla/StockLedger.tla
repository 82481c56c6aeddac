---------------------------- MODULE StockLedger ----------------------------
(***************************************************************************)
(* The inventory_movements of a product as a sequence of rows, each with   *)
(* its quantity_delta (delta) and resulting_quantity_on_hand (result).     *)
(***************************************************************************)
EXTENDS Integers, Sequences

Before(q, rows, i) == IF i = 1 THEN q ELSE rows[i - 1].result

(* rows lead from quantity q to quantity w, the resulting_quantity_on_hand *)
(* of the last: each result is its predecessor's plus the row's own delta, *)
(* give or take slack quanta of the columns.                               *)
ChainedWithin(slack, q, rows, w) ==
    /\ \A i \in 1 .. Len(rows) :
          rows[i].result - Before(q, rows, i) - rows[i].delta \in -slack .. slack
    /\ w = Before(q, rows, Len(rows) + 1)

(* ... exactly.                                                            *)
Chained(q, rows, w) ==
    /\ \A i \in 1 .. Len(rows) : rows[i].result = Before(q, rows, i) + rows[i].delta
    /\ w = Before(q, rows, Len(rows) + 1)
=============================================================================
