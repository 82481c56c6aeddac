----------------------------- MODULE MoneyMath -----------------------------
(***************************************************************************)
(* The rounding arithmetic every money-carrying service shares.  The code  *)
(* computes with Decimal and quantizes with ROUND_HALF_UP; here a decimal  *)
(* is an integer number of its column's smallest unit (a cent, one         *)
(* thousandth of a kilogram, one millionth of a currency unit), so a       *)
(* quantize is the division below.                                         *)
(***************************************************************************)
EXTENDS Integers, Functions

(* value.quantize(quantum, rounding=ROUND_HALF_UP) of the fraction n / d,  *)
(* d > 0: ties go away from zero.                                          *)
RoundHalfUp(n, d) ==
    IF n >= 0 THEN (2 * n + d) \div (2 * d) ELSE -((2 * (-n) + d) \div (2 * d))

(* sum(...) over the rows of a set, and over the lines of a document.       *)
SumOver(S, Amount(_))       == SumFunctionOnSet([x \in S |-> Amount(x)], S)
SumLines(lines, Amount(_)) == SumFunctionOnSet([n \in DOMAIN lines |-> Amount(lines[n])], DOMAIN lines)

(* Weighted Average Cost after received_qty units come in at               *)
(* received_unit_cost.                                                     *)
compute_new_wac(existing_qty, existing_wac, received_qty, received_unit_cost) ==
    LET total_qty   == existing_qty + received_qty
        total_value == existing_qty * existing_wac + received_qty * received_unit_cost
    IN  CASE total_qty = 0 -> received_unit_cost
          [] total_qty > 0 -> RoundHalfUp(total_value, total_qty)
          [] OTHER         -> RoundHalfUp(-total_value, -total_qty)

(* What has been given back of a line-level amount once qty of the line's  *)
(* original_qty units are returned.                                        *)
Entitled(total, qty, original_qty) == RoundHalfUp(total * qty, original_qty)

(* This return's share of the amount: entitlement after it minus           *)
(* entitlement before it.                                                  *)
proportional_share(total, original_qty, already_returned_qty, this_return_qty) ==
    IF total = 0 THEN 0
    ELSE Entitled(total, already_returned_qty + this_return_qty, original_qty)
           - Entitled(total, already_returned_qty, original_qty)
=============================================================================
