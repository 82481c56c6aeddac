---------------------------- MODULE MCStockRoom ----------------------------
(* Small instances of StockRoom for TLC.                                   *)
EXTENDS StockRoom, TLC

CONSTANTS w1, w2, k1, c1, c2

WorkerSymmetry == Permutations(Workers)

(* Product 3 costs nothing, so its corrections have no value.              *)
MCCost       == [p \in Products |-> IF p = 3 THEN 0 ELSE 7]
MCInitialQty == [p \in Products |-> IF p = 3 THEN -1 ELSE 2]
BothProducts == [c \in Counts |-> {1, 2}]
OneEach      == [c \in Counts |-> IF c = c1 THEN {1, 3} ELSE {}]

None == [p \in Products |-> NoOne]
NoCount  == [c \in Counts |-> [status |-> "NONE", expected |-> None, counted |-> None]]
Reviewed == [c \in Counts |-> [status |-> "REVIEWED", expected |-> [None EXCEPT ![1] = 2, ![2] = 2],
                               counted |-> [None EXCEPT ![1] = 1, ![2] = 1]]]

Of(kind, c)       == [kind |-> kind, count |-> c, inStore |-> TRUE]
Enter(c, p, n)    == [kind |-> "ENTER", count |-> c, product |-> p, qty |-> n, inStore |-> TRUE]
Adjust(p, d, key) == [kind |-> "ADJUST", product |-> p, delta |-> d, key |-> key, inStore |-> TRUE]
Refused(q)        == [q EXCEPT !.inStore = FALSE]

(* The whole life of one count, with recounts and cancellation.            *)
LifeSubmissions ==
    {Of(kind, c1) : kind \in {"CREATE", "OPEN", "MARK", "REVIEW", "REOPEN", "POST", "CANCEL"}}
      \cup {Enter(c1, 1, 1), Enter(c1, 2, 2)}

(* Two counts of the same products, ready to be posted or recounted.       *)
RivalSubmissions ==
    {Of(kind, c) : kind \in {"POST", "REOPEN", "REVIEW"}, c \in Counts} \cup {Enter(c1, 2, 0)}

(* Adjustments under a shared key and without one.                         *)
AdjustSubmissions ==
    {Adjust(1, -1, k1), Adjust(1, 1, NoOne), Adjust(3, -1, k1), Adjust(1, -9, NoOne),
     Refused(Adjust(1, 1, k1))}

OneProductAdjustments == {q \in AdjustSubmissions : q.product = 1}

(* Requests that are refused, and a product whose book quantity is below   *)
(* zero, which cannot be counted before an adjustment lifts it.            *)
RefusedSubmissions ==
    {Of("CREATE", c1), Of("CREATE", c2), Refused(Of("CREATE", c1)), Of("OPEN", c1), Refused(Of("OPEN", c1)),
     Of("CANCEL", c1), Enter(c1, 2, 1), Of("POST", c1), Adjust(3, 1, NoOne), Enter(c1, 3, 0),
     Of("MARK", c1), Of("REVIEW", c1)}

Load(S, scope, counts, others, most) ==
    [sent |-> S, scope |-> scope, counts |-> counts, others |-> others, adjustments |-> most]

Days == {Load(LifeSubmissions, BothProducts, NoCount, 1, 4), Load(RivalSubmissions, BothProducts, Reviewed, 0, 6),
         Load(AdjustSubmissions \cup RefusedSubmissions, OneEach, NoCount, 0, 2)}
StaleDays == {Load(OneProductAdjustments, BothProducts, NoCount, 1, 3)}
=============================================================================
