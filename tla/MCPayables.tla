----------------------------- MODULE MCPayables -----------------------------
(* Small instances of Payables for TLC.                                    *)
EXTENDS Payables, TLC

CONSTANTS r1, r2, r3, r4, k1, k2, n1, n2, n3, n4, ret

Lot(n, c) == [qty |-> n, cost |-> c]
(* Item 1 of order 1 arrives in two lots of different cost; item 2 is of   *)
(* order 2.                                                                *)
MCDeliveries == (1 :> <<Lot(1, 4), Lot(1, 6)>> @@ 2 :> <<Lot(2, 2)>>)
MCArrived    == (1 :> 1 @@ 2 :> 1)
MCItemOrder  == (1 :> 1 @@ 2 :> 2)
MCOverdue    == (1 :> 30 @@ 2 :> 31 @@ 3 :> 0 @@ 4 :> 91)
MCReturn     == (ret :> 2)

Fine == [access |-> TRUE, supplierActive |-> TRUE, periodOpen |-> TRUE]

LineOf(i, n, p) == [item |-> i, qty |-> n, price |-> p, discount |-> 0, tax |-> 0]
Taxed(l)        == [l EXCEPT !.discount = 1, !.tax = 2]
Draft(n, lines, total) ==
    [status |-> "DRAFT", key |-> NoOne, number |-> n, lines |-> lines, total |-> total, paid |-> 0,
     credited |-> 0]
(* Invoices 1 and 2 bill one item each; invoice 3 both orders.             *)
MCInvoices ==
    (1 :> Draft(n1, <<Taxed(LineOf(1, 1, 4))>>, 3) @@ 2 :> Draft(n2, <<LineOf(2, 2, 3)>>, 3)
      @@ 3 :> Draft(n3, <<LineOf(2, 1, 2), LineOf(1, 1, 6)>>, 4) @@ 4 :> NoOne)

Bill(i, k, n, lines) ==
    [kind |-> "CREATE", invoice |-> i, key |-> k, number |-> n, lines |-> lines, more |-> Fine]
On(kind, i) == [kind |-> kind, invoice |-> i, more |-> Fine]
To(i, n)    == [invoice |-> i, amount |-> n]
Pay(k, n, alloc) ==
    [kind |-> "PAY", key |-> k, method |-> "CASH", amount |-> n, alloc |-> alloc, more |-> Fine]
Credit(k, n, reason, back, lines, alloc) ==
    [kind |-> "CREDIT", key |-> k, number |-> n, reason |-> reason, return |-> back, lines |-> lines, alloc |-> alloc,
     more |-> Fine]
Undo(id) == [kind |-> "REVERSE", id |-> id, reasoned |-> TRUE, more |-> Fine]
Denied(q) == [q EXCEPT !.more.access = FALSE]
Locked(q) == [q EXCEPT !.more.periodOpen = FALSE]
Inactive(q) == [q EXCEPT !.more.supplierActive = FALSE]

PayBoth  == Pay(k1, 3, <<To(2, 1), To(1, 2)>>)
PayOther == Pay(k2, 3, <<To(1, 1), To(2, 2)>>)
Discount == Credit(k1, n1, "COMMERCIAL_DISCOUNT", NoOne, <<1, 1>>, <<To(1, 2)>>)
Goods    == Credit(k2, n1, "GOODS_RETURN", ret, <<1>>, <<To(2, 1)>>)

(* Two payments name their invoices in opposite orders, credit notes and   *)
(* duplicates compete for the rest, and any of them may be undone.         *)
Settling ==
    [posted |-> {1, 2},
     sent |-> (r1 :> {PayBoth, Discount}
                 @@ r2 :> {PayOther, Pay(k1, 3, <<To(2, 3)>>), Goods, Undo(r1)}
                 @@ r3 :> {Undo(r1), Undo(r2), PayBoth, On("VOID", 1)}
                 @@ r4 :> {PayOther, Undo(r2), On("VOID", 1)})]

(* Postings, voids and a new invoice race for the same received units.     *)
Matching ==
    [posted |-> {},
     sent |-> (r1 :> {On("POST", 1), Bill(4, k1, n4, <<LineOf(1, 1, 4)>>)}
                 @@ r2 :> {On("POST", 3), On("VOID", 1), Bill(4, k1, n4, <<LineOf(1, 1, 4)>>)}
                 @@ r3 :> {On("POST", 1), On("VOID", 1), On("POST", 3), On("VOID", 3), On("POST", 4), PayBoth}
                 @@ r4 :> {On("VOID", 1), On("POST", 3)})]

Refusals ==
    [posted |-> {1, 2},
     sent |-> (r1 :> {PayBoth, Goods, Discount, Bill(4, k1, n4, <<LineOf(1, 1, 4)>>)}
                 @@ r2 :> {Pay(k1, 2, <<To(2, 1)>>), Pay(k2, 4, <<To(2, 4)>>), Pay(k1, 1, <<To(4, 1)>>),
                           Pay(k1, 1, <<>>), [PayBoth EXCEPT !.method = NoOne], Denied(PayBoth),
                           Credit(k1, n1, "GOODS_RETURN", NoOne, <<1>>, <<To(1, 1)>>),
                           Credit(k1, n1, "GOODS_RETURN", ret, <<2>>, <<To(1, 2)>>),
                           Credit(k1, n2, "COMMERCIAL_DISCOUNT", NoOne, <<>>, <<To(1, 1)>>),
                           Discount, [Discount EXCEPT !.lines = <<2>>], Inactive(Discount), Locked(Discount), Denied(Discount), Locked(PayOther),
                           Denied(Undo(r1)), [Undo(r1) EXCEPT !.reasoned = FALSE], Locked(Undo(r1)),
                           Denied(On("POST", 3)), Locked(On("POST", 3)), Denied(On("VOID", 1)), Locked(On("VOID", 1)),
                           On("POST", 4), Bill(4, k2, n1, <<LineOf(1, 1, 3)>>), Bill(4, k2, n4, <<LineOf(1, 0, 3)>>),
                           Bill(4, k1, n4, <<LineOf(1, 1, 5)>>), Bill(4, k2, n4, <<>>),
                           Denied(Bill(4, k2, n4, <<LineOf(1, 1, 3)>>)), Inactive(Bill(4, k2, n4, <<LineOf(1, 1, 3)>>))}
                 @@ r3 :> {} @@ r4 :> {})]

(* A payment names a draft that is being posted and an invoice that is     *)
(* being voided, of the same order.                                        *)
Crossing ==
    [posted |-> {3},
     sent |-> (r1 :> {On("POST", 1)} @@ r2 :> {On("VOID", 3)} @@ r3 :> {Pay(k1, 2, <<To(3, 1), To(1, 1)>>)} @@ r4 :> {})]

Days == {Settling, Matching, Refusals, Crossing}
=============================================================================
