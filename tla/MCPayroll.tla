------------------------------ MODULE MCPayroll ------------------------------
(* Small instances of Payroll for TLC.                                     *)
EXTENDS Payroll, TLC

CONSTANTS r0, r1, r2, r3, r4, r5, r6, r7, r8, r9, k1, k2, north, south, ann, bob, eve, p1, p2

(* Two periods of three days in one store; a day has three hours of two    *)
(* ticks, and begins one tick late.                                        *)
MCBoundary == (north :> 1 @@ south :> 0)
MCPayStore == (p1 :> north @@ p2 :> north)
MCPayStart == (p1 :> 0 @@ p2 :> 3)
MCPayEnd   == (p1 :> 2 @@ p2 :> 5)
MCDeductions ==
    <<[employer |-> FALSE, method |-> "FLAT_AMOUNT", value |-> 1, brackets |-> <<>>],
      [employer |-> TRUE, method |-> "PERCENT_OF_GROSS", value |-> 15, brackets |-> <<>>],
      [employer |-> FALSE, method |-> "BRACKETED", value |-> 0, brackets |-> <<[upto |-> 4, percent |-> 0], [upto |-> NoOne, percent |-> 30]>>]>>

Hourly(n) == [type |-> "HOURLY", rate |-> n, overtime |-> TRUE]
Salary(n) == [type |-> "SALARY", rate |-> n, overtime |-> FALSE]
R(d, v) == <<[from |-> d, to |-> NoOne, value |-> v]>>

(* ann is paid by the hour and has worked five ticks of day 0; bob has a   *)
(* salary that changed on day 1; eve is not hired.                         *)
Staff ==
    [status |-> (ann :> R(0, "ACTIVE") @@ bob :> R(0, "ACTIVE") @@ eve :> <<>>),
     assigned |-> (ann :> R(0, north) @@ bob :> R(0, north) @@ eve :> <<>>),
     paid |-> (ann :> R(0, Hourly(5)) @@ bob :> <<[from |-> 0, to |-> 0, value |-> Salary(10)], [from |-> 1, to |-> NoOne, value |-> Salary(7)]>>
                 @@ eve :> <<>>),
     shifts |-> (r0 :> [employee |-> ann, store |-> north, date |-> 0, in |-> 1, out |-> 6, status |-> "CLOSED", of |-> NoOne, updated |-> 0])]

Hire(e, s, d) == [kind |-> "HIRE", employee |-> e, store |-> s, from |-> d, allowed |-> TRUE]
Reassign(e, s, d) == [Hire(e, s, d) EXCEPT !.kind = "REASSIGN"]
Status(e, v, d) == [kind |-> "STATUS", employee |-> e, status |-> v, from |-> d, allowed |-> TRUE]
PayReq(e, v, d) == [kind |-> "PAY", employee |-> e, pay |-> v, from |-> d, allowed |-> TRUE]
In(e, t) == [kind |-> "CLOCKIN", employee |-> e, store |-> north, at |-> t, allowed |-> TRUE]
Out(s, t) == [kind |-> "CLOCKOUT", shift |-> s, at |-> t, allowed |-> TRUE]
Correct(s, i, o) == [kind |-> "CORRECT", shift |-> s, in |-> i, out |-> o, allowed |-> TRUE]
Do(kind, p) == [kind |-> kind, period |-> p, allowed |-> TRUE]
Calculate(p, k) == [kind |-> "CALCULATE", period |-> p, key |-> k, allowed |-> TRUE]
Post(p, k) == [kind |-> "POST", period |-> p, key |-> k, allowed |-> TRUE, open |-> TRUE]
ReverseReq(p) == [kind |-> "REVERSE", period |-> p, allowed |-> TRUE, open |-> TRUE]
Denied(q) == [q EXCEPT !.allowed = FALSE]
Locked(q) == [q EXCEPT !.open = FALSE]

None == [r \in Requests |-> {}]

(* One period is calculated twice over, approved, cancelled and posted     *)
(* while a record of it is corrected.                                      *)
Paying ==
    [staff |-> Staff,
     after |-> [None EXCEPT ![r2] = {r1}, ![r3] = {r2}, ![r4] = {r2}, ![r5] = {r2}, ![r6] = {r3}, ![r7] = {r6}, ![r8] = {r6}, ![r9] = {r7}],
     sent |-> [None EXCEPT ![r1] = {Do("CREATE", p1)}, ![r2] = {Do("OPEN", p1)}, ![r3] = {Calculate(p1, k1)},
                           ![r4] = {Calculate(p1, k1), Calculate(p1, k2), Calculate(p1, NoOne)},
                           ![r5] = {Do("CANCEL", p1), Correct(r0, 2, 6), In(ann, 8), PayReq(ann, Hourly(9), 1)},
                           ![r6] = {Do("APPROVE", p1)}, ![r7] = {Post(p1, k1), Post(p1, NoOne)}, ![r8] = {Post(p1, k1), Post(p1, k2), Do("CANCEL", p1)},
                           ![r9] = {ReverseReq(p1), Post(p1, k1)}]]

Reversing ==
    [Paying EXCEPT !.after[r4] = {r3}, !.after[r5] = {r4}, !.after[r6] = {r5}, !.after[r7] = {r5}, !.after[r8] = {r5}, !.after[r9] = {r5},
                   !.sent[r4] = {Do("APPROVE", p1)}, !.sent[r5] = {Post(p1, k1)}, !.sent[r6] = {ReverseReq(p1), Do("CANCEL", p1)},
                   !.sent[r7] = {ReverseReq(p1), Locked(ReverseReq(p1)), Denied(ReverseReq(p1))}, !.sent[r8] = {Post(p1, k1), Calculate(p1, k2)},
                   !.sent[r9] = {Correct(r0, 2, 6), PayReq(ann, Hourly(9), 2)}]

(* Two periods share a key; a record moves from one to the other.          *)
Neighbours ==
    [staff |-> Staff,
     after |-> [None EXCEPT ![r2] = {r1}, ![r3] = {r2}, ![r4] = {r3}, ![r5] = {r4}, ![r6] = {r4}, ![r7] = {r5}, ![r8] = {r6}],
     sent |-> [None EXCEPT ![r1] = {Do("CREATE", p1)}, ![r2] = {Do("OPEN", p1)}, ![r3] = {Do("CREATE", p2)}, ![r4] = {Do("OPEN", p2)},
                           ![r5] = {Calculate(p1, k1)}, ![r6] = {Calculate(p2, k1)}, ![r7] = {Do("APPROVE", p1)},
                           ![r8] = {Do("APPROVE", p2)}, ![r9] = {Correct(r0, 20, 24)}]]

(* Clock-ins, corrections and changes of every history overlap.            *)
Staffing ==
    [staff |-> Staff,
     after |-> [None EXCEPT ![r4] = {r1}, ![r5] = {r2}, ![r7] = {r6}, ![r8] = {r3}],
     sent |-> [None EXCEPT ![r1] = {In(ann, 8), In(ann, 3), In(eve, 8)}, ![r2] = {In(ann, 9), Correct(r0, 2, 9), Correct(r0, 2, NoOne)},
                           ![r3] = {Status(ann, "TERMINATED", 2), Status(ann, "ON_LEAVE", 1), Correct(r0, 1, 5)},
                           ![r4] = {Out(r1, 10), Out(r1, 7), Correct(r1, 8, 12)}, ![r5] = {Out(r2, 12), Correct(r2, 7, 8)},
                           ![r6] = {Hire(eve, north, 1)}, ![r7] = {Hire(eve, south, 2), PayReq(eve, Salary(9), 2), Reassign(eve, south, 2)},
                           ![r8] = {Status(ann, "ACTIVE", 3), In(ann, 14)}]]

(* Bodies that are refused, and calculations that are rolled back.         *)
Refusing ==
    [staff |-> Staff,
     after |-> [None EXCEPT ![r3] = {r2}, ![r4] = {r3}, ![r5] = {r4}, ![r6] = {r5}, ![r7] = {r6}],
     sent |-> [None EXCEPT ![r1] = {Hire(eve, north, 0), Denied(Hire(eve, north, 0)), PayReq(bob, Salary(1), 2), PayReq(bob, Salary(1), 1), PayReq(eve, Salary(1), 1),
                                    Denied(PayReq(bob, Salary(1), 2)), Reassign(ann, south, 0), Denied(Reassign(ann, south, 1)), Reassign(eve, south, 1),
                                    Status(bob, "ACTIVE", 1), Status(bob, "SUSPENDED", 0), Status(eve, "ACTIVE", 1), Denied(Status(bob, "SUSPENDED", 1)),
                                    Denied(In(ann, 9)), Denied(Out(r0, 9)), Out(r9, 9), Out(r0, 9), Denied(Correct(r0, 2, 3)), Correct(r9, 2, 3), Correct(r0, 3, 2)},
                           ![r2] = {Do("CREATE", p1), Denied(Do("CREATE", p1))}, ![r3] = {Do("CREATE", p1), Do("OPEN", p1), Denied(Do("OPEN", p1))},
                           ![r4] = {Calculate(p1, k1), Denied(Calculate(p1, k1)), ReverseReq(p1)},
                           ![r5] = {Do("APPROVE", p1), Do("CANCEL", p1)}, ![r6] = {Post(p1, k1), Locked(Post(p1, k1)), Denied(Post(p1, k1)), ReverseReq(p2)},
                           ![r7] = {Post(p2, k1), Do("OPEN", p1)}]]

(* One request after the other: a record of the first period is corrected  *)
(* into the second one, which has been calculated.                         *)
Moving ==
    [staff |-> Staff,
     after |-> [None EXCEPT ![r2] = {r1}, ![r3] = {r2}, ![r4] = {r3}, ![r5] = {r4}],
     sent |-> [None EXCEPT ![r1] = {Do("CREATE", p2)}, ![r2] = {Do("OPEN", p2)}, ![r3] = {Calculate(p2, NoOne)},
                           ![r4] = {Correct(r0, 20, 24)}, ![r5] = {Do("APPROVE", p2)}]]
Moves == {Moving}
NoDeductions == <<>>

(* One key posts two periods of bob's, and a store without staff.          *)
Bob == [Staff EXCEPT !.shifts = <<>>, !.status[ann] = <<>>, !.assigned[ann] = <<>>, !.paid[ann] = <<>>]
Nobody == [Bob EXCEPT !.status[bob] = <<>>, !.assigned[bob] = <<>>, !.paid[bob] = <<>>]
Sharing ==
    [staff |-> Bob,
     after |-> [None EXCEPT ![r1] = {r0}, ![r2] = {r1}, ![r3] = {r2}, ![r4] = {r3}, ![r6] = {r5}, ![r7] = {r6}, ![r8] = {r7}, ![r9] = {r8}],
     sent |-> [None EXCEPT ![r0] = {Do("CREATE", p1)}, ![r1] = {Do("OPEN", p1)}, ![r2] = {Calculate(p1, NoOne)}, ![r3] = {Do("APPROVE", p1)}, ![r4] = {Post(p1, k1)},
                           ![r5] = {Do("CREATE", p2)}, ![r6] = {Do("OPEN", p2)}, ![r7] = {Calculate(p2, NoOne)}, ![r8] = {Do("APPROVE", p2)}, ![r9] = {Post(p2, k1)}]]
Vacant == [Sharing EXCEPT !.staff = Nobody]

Months == {Paying, Reversing, Neighbours, Staffing, Refusing, Sharing, Vacant}
=============================================================================
