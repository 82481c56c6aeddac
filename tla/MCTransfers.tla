----------------------------- MODULE MCTransfers -----------------------------
(* Small instances of Transfers for TLC.                                   *)
EXTENDS Transfers, TLC

CONSTANTS r1, r2, r3, r4, r5, r6, r7, r8, k1, k2, t1, t2, north, ann, bob, eve, kim

(* Both transfers carry the same two products, in opposite orders.         *)
MCLineTransfer == (1 :> t1 @@ 2 :> t1 @@ 3 :> t2 @@ 4 :> t2)
MCSource       == (1 :> 1 @@ 2 :> 2 @@ 3 :> 2 @@ 4 :> 1)
MCDestination  == (1 :> 3 @@ 2 :> 4 @@ 3 :> 4 @@ 4 :> 3)
MCWanted       == (1 :> 3 @@ 2 :> 2 @@ 3 :> 2 @@ 4 :> 2)
MCFromStore    == (t1 :> north @@ t2 :> north)
MCInitialQty   == (1 :> 3 @@ 2 :> 2 @@ 3 :> 1 @@ 4 :> -1)
MCInitialCost  == (1 :> 9 @@ 2 :> 1 @@ 3 :> 5 @@ 4 :> 3)
MCRoleOf       == (ann :> "MANAGER" @@ bob :> "MANAGER" @@ eve :> "ADMIN" @@ kim :> "CASHIER")

S(l, n) == [line |-> l, qty |-> n]
I(l, g, d, m) == [line |-> l, good |-> g, damaged |-> d, short |-> m]
Ship(t, k, ls)    == [kind |-> "SHIP", transfer |-> t, key |-> k, lines |-> ls, access |-> TRUE, open |-> TRUE]
Receive(t, k, ls) == [kind |-> "RECEIVE", transfer |-> t, key |-> k, lines |-> ls, access |-> TRUE, open |-> TRUE]
Create(t) == [kind |-> "CREATE", transfer |-> t, access |-> TRUE, stocked |-> TRUE]
Cancel(t) == [kind |-> "CANCEL", transfer |-> t, access |-> TRUE]
Investigate(d) == [kind |-> "INVESTIGATE", disc |-> d, access |-> TRUE]
Resolve(d, f)  == [kind |-> "RESOLVE", disc |-> d, finding |-> f, access |-> TRUE]
WriteOffReq(d, n, k, u) == [kind |-> "WRITEOFF", disc |-> d, qty |-> n, key |-> k, by |-> u, access |-> TRUE]
Decide3(kind, w, u) == [kind |-> kind, id |-> w, by |-> u, open |-> TRUE]
AskRule(u) == [kind |-> "RULE", rule |-> u]

Denied(q) == [q EXCEPT !.access = FALSE]
Locked(q) == [q EXCEPT !.open = FALSE]

SmallSums == [scope |-> NoOne, min |-> 0, max |-> 7, role |-> "MANAGER"]
OwnRule   == [scope |-> north, min |-> 0, max |-> NoOne, role |-> "ADMIN"]

None == [r \in Requests |-> {}]

(* Two shipments take the products in opposite orders, one is sent twice   *)
(* or cancelled, and receipts of it compete for the units under way.       *)
ShipBoth == Ship(t1, k1, <<S(1, 3), S(2, 1)>>)
Moving ==
    [drafted |-> {t1, t2}, rules |-> {}, after |-> None,
     sent |-> [None EXCEPT ![r1] = {ShipBoth},
                           ![r2] = {Ship(t2, k2, <<S(3, 2), S(4, 1)>>), ShipBoth, Cancel(t1), Ship(t1, k2, <<S(1, 2)>>)},
                           ![r3] = {Receive(t1, k1, <<I(1, 2, 1, 0), I(2, 1, 0, 0)>>), Receive(t1, k1, <<I(1, 1, 0, 1)>>)},
                           ![r4] = {Receive(t1, k2, <<I(2, 0, 0, 1), I(1, 1, 0, 0)>>), Receive(t1, k1, <<I(1, 1, 0, 0), I(1, 1, 0, 1)>>)}]]

(* A loss of three half units is investigated, and its write-offs, their   *)
(* decisions, another receipt and a change of policy overlap.              *)
Loss == <<r2, 1>>
Deciding ==
    [drafted |-> {t1}, rules |-> {SmallSums},
     after |-> (r1 :> {} @@ r2 :> {r1} @@ r3 :> {r2} @@ r4 :> {r3} @@ r5 :> {r4} @@ r6 :> {r4} @@ r7 :> {r5} @@ r8 :> {r6}),
     sent |-> (r1 :> {ShipBoth} @@ r2 :> {Receive(t1, k1, <<I(1, 0, 1, 1), I(2, 1, 0, 0)>>)}
                 @@ r3 :> {Investigate(Loss)} @@ r4 :> {Resolve(Loss, "UNKNOWN")}
                 @@ r5 :> {WriteOffReq(Loss, 1, k1, ann), WriteOffReq(Loss, 2, k1, ann)}
                 @@ r6 :> {WriteOffReq(Loss, 1, k1, ann), WriteOffReq(Loss, 1, k2, bob), Decide3("APPROVE", r5, bob)}
                 @@ r7 :> {Decide3("DENY", r5, eve), Decide3("APPROVE", r5, eve), Decide3("APPROVE", r6, ann), Receive(t1, k2, <<I(1, 1, 0, 0)>>)}
                 @@ r8 :> {Decide3("REVERSE", r5, eve), Decide3("REVERSE", r6, eve), Resolve(Loss, "VENDOR_CAUSED"), Investigate(Loss), WriteOffReq(Loss, 2, k2, eve)})]

(* The life of one loss up to its reversal, and the bodies that are        *)
(* refused at each of its steps.                                           *)
Life == <<r1, r2, r3, r4, r5, r6, r7>>
Body == (r1 :> ShipBoth @@ r2 :> Receive(t1, k1, <<I(1, 0, 1, 1), I(2, 1, 0, 0)>>) @@ r3 :> Investigate(Loss)
           @@ r4 :> Resolve(Loss, "SOURCE_STORE_CAUSED") @@ r5 :> WriteOffReq(Loss, 1, k1, ann)
           @@ r6 :> Decide3("APPROVE", r5, eve) @@ r7 :> Decide3("REVERSE", r5, eve))
Bad ==
    (r1 :> {Create(t2), Denied(Create(t2)), [Create(t2) EXCEPT !.stocked = FALSE], Cancel(t2), Denied(Cancel(t1)),
            Ship(t1, k1, <<>>), Ship(t1, k1, <<S(1, 0)>>), Ship(t1, k1, <<S(3, 1)>>), Ship(t1, k1, <<S(1, 4)>>),
            Denied(ShipBoth), Locked(ShipBoth), Ship(t2, k1, <<S(3, 1)>>)}
       @@ r2 :> {Receive(t1, k1, <<>>), Receive(t1, k1, <<I(1, 0, 0, 0)>>), Receive(t1, k1, <<I(1, 2, 1, 0), I(1, 1, 0, 0)>>),
                 Cancel(t1), Denied(Body[r2]), Locked(Body[r2]), Receive(t1, k1, <<I(3, 1, 0, 0)>>)}
       @@ r3 :> {Denied(Investigate(Loss)), Resolve(Loss, "UNKNOWN"), AskRule(OwnRule)}
       @@ r4 :> {Resolve(Loss, "VENDOR_CAUSED"), WriteOffReq(Loss, 1, k1, ann)}
       @@ r5 :> {WriteOffReq(Loss, 0, k1, ann), WriteOffReq(Loss, 3, k1, ann), Denied(Body[r5])}
       @@ r6 :> {Decide3("APPROVE", r5, ann), Decide3("APPROVE", r5, kim), Decide3("REVERSE", r5, bob),
                 Decide3("REVERSE", r5, eve), Locked(Body[r6]), Decide3("DENY", r5, bob)}
       @@ r7 :> {Locked(Body[r7]), Decide3("DENY", r5, eve)})
Refusing(n) ==
    [drafted |-> {t1}, rules |-> {SmallSums},
     after |-> [r \in Requests |-> {Life[i - 1] : i \in {j \in 2 .. 7 : Life[j] = r}}],
     sent |-> [r \in Requests |-> UNION {IF i < n THEN {Body[r]} ELSE IF i = n \/ i = n + 1 THEN {Body[r]} \cup Bad[r] ELSE {}
                                          : i \in {j \in 1 .. 7 : Life[j] = r}}]]

(* Product 4 has been oversold: two units of product 2 would leave it with *)
(* a negative average, one unit after the other would not.                 *)
Oversold ==
    [drafted |-> {t1}, rules |-> {}, after |-> [None EXCEPT ![r2] = {r1}, ![r3] = {r1}],
     sent |-> [None EXCEPT ![r1] = {Ship(t1, k1, <<S(2, 2)>>)}, ![r2] = {Receive(t1, k1, <<I(2, 2, 0, 0)>>), Receive(t1, k1, <<I(2, 1, 0, 0)>>)},
                           ![r3] = {Receive(t1, k2, <<I(2, 1, 0, 0), I(2, 1, 0, 0)>>), Receive(t1, k2, <<I(2, 1, 0, 0)>>)}]]

(* The lines of a transfer are drafted while the same products are shipped *)
(* and received, and the drafted transfer is shipped in its turn.          *)
Drafting ==
    [drafted |-> {t1}, rules |-> {}, after |-> [None EXCEPT ![r3] = {r2}],
     sent |-> [None EXCEPT ![r1] = {ShipBoth}, ![r2] = {Create(t2)}, ![r4] = {Create(t2), Receive(t1, k1, <<I(1, 1, 0, 0)>>)},
                           ![r3] = {Ship(t2, k2, <<S(3, 2), S(4, 1)>>)}]]

Days == {Moving, Deciding, Oversold, Drafting} \cup {Refusing(n) : n \in 1 .. 6}

(* One body names a transfer line twice.                                   *)
Twice == {[drafted |-> {t1}, rules |-> {}, after |-> None, sent |-> [None EXCEPT ![r1] = {Ship(t1, k1, <<S(1, 1), S(1, 2)>>), ShipBoth},
            ![r2] = {Receive(t1, k1, <<I(1, 1, 0, 0)>>)}, ![r3] = {Cancel(t1)}]]}
=============================================================================
