----------------------------- MODULE Settlement -----------------------------
(***************************************************************************)
(* What accounts payable promises about supplier invoices, whatever runs   *)
(* at once: an invoice that is billed is owed; a payment or a credit note  *)
(* settles part of several invoices in one step, never more than is owed;  *)
(* undoing one gives back exactly what it settled, once; an invoice is     *)
(* voided only while nothing is settled on it.                             *)
(***************************************************************************)
EXTENDS Integers

CONSTANTS
    Bills,   \* invoice ids
    Ids      \* names of payments and credit notes

VARIABLES
    open,    \* the bills that stand
    owed,    \* what is still owed on each
    live,    \* settlements that stand: [id, amounts], amounts a function of some bills
    used     \* the ids that were ever used

svars == <<open, owed, live, used>>

Init ==
    /\ open \subseteq Bills
    /\ owed \in [Bills -> Nat] /\ \A b \in Bills \ open : owed[b] = 0
    /\ live = {} /\ used = {}

Bill(b) ==
    /\ b \notin open
    /\ open' = open \cup {b}
    /\ owed'[b] \in Nat
    /\ owed' = [owed EXCEPT ![b] = owed'[b]]
    /\ UNCHANGED <<live, used>>

Void(b) ==
    /\ b \in open
    /\ \A s \in live : b \notin DOMAIN s.amounts
    /\ open' = open \ {b}
    /\ owed' = [owed EXCEPT ![b] = 0]
    /\ UNCHANGED <<live, used>>

Settle ==
    \E s \in live' \ live :
        /\ s.id \in Ids \ used
        /\ \A b \in DOMAIN s.amounts : b \in open /\ s.amounts[b] \in 1 .. owed[b]
        /\ owed' = [b \in Bills |-> IF b \in DOMAIN s.amounts THEN owed[b] - s.amounts[b] ELSE owed[b]]
        /\ live' = live \cup {s} /\ used' = used \cup {s.id}
        /\ UNCHANGED open

Undo ==
    \E s \in live :
        /\ owed' = [b \in Bills |-> IF b \in DOMAIN s.amounts THEN owed[b] + s.amounts[b] ELSE owed[b]]
        /\ live' = live \ {s}
        /\ UNCHANGED <<open, used>>

Next == (\E b \in Bills : Bill(b) \/ Void(b)) \/ Settle \/ Undo

Spec == Init /\ [][Next]_svars
=============================================================================
