------------------------------- MODULE Payroll -------------------------------
(***************************************************************************)
(* Payroll periods: created, opened, calculated from the attendance and    *)
(* the compensation that Workforce keeps, approved, posted to the journal  *)
(* and reversed.  Calculation reads one employee after another, statement  *)
(* by statement, while clock-outs, corrections and pay changes go on, and  *)
(* holds only the lock of the period.                                      *)
(***************************************************************************)
EXTENDS Workforce, MoneyMath

CONSTANTS
    Periods,                      \* a period is its store and date range (uq_payroll_periods_store_range)
    PayStore, PayStart, PayEnd,   \* functions of Periods
    Keys,
    TicksPerHour,
    OvertimeThreshold,            \* in ticks, NoOne without a policy
    OvertimeNum, OvertimeDen,     \* the multiplier
    Deductions                    \* the deduction rates in force, a sequence

VARIABLES
    periods,    \* payroll_periods
    results,    \* payroll_employee_results of each period
    books       \* payroll journal entries, a sequence

vars == <<hr, now, load, session, periods, results, books>>
payroll == <<periods, results, books>>

-----------------------------------------------------------------------------
(* Rows and bodies.                                                        *)

PeriodStatuses == {"DRAFT", "OPEN", "CALCULATED", "APPROVED", "POSTED", "CANCELLED"}
Amounts == [gross : Nat, deductions : Nat, contributions : Nat, net : Nat]
PeriodRow == [status : PeriodStatuses, calculated : Nat, calcKey : Keys \cup {NoOne}, postKey : Keys \cup {NoOne}, total : Amounts]
Result == [hours : Nat, pay : Amounts]
(* A bracket table is a sequence of [upto, percent], the last one open.    *)
Deduction == [employer : BOOLEAN, method : {"FLAT_AMOUNT", "PERCENT_OF_GROSS", "BRACKETED"}, value : Nat,
              brackets : Seq([upto : Nat \cup {NoOne}, percent : Nat])]

Submission ==
    StaffSubmission
      \cup [kind : {"CREATE", "OPEN", "APPROVE", "CANCEL"}, period : Periods, allowed : BOOLEAN]
      \cup [kind : {"CALCULATE"}, period : Periods, key : Keys \cup {NoOne}, allowed : BOOLEAN]
      \cup [kind : {"POST"}, period : Periods, key : Keys \cup {NoOne}, allowed : BOOLEAN, open : BOOLEAN]
      \cup [kind : {"REVERSE"}, period : Periods, allowed : BOOLEAN, open : BOOLEAN]

ASSUME PayrollAssumption ==
    /\ PayStore \in [Periods -> Stores] /\ PayStart \in [Periods -> Int] /\ PayEnd \in [Periods -> Int]
    /\ \A p \in Periods : PayStart[p] <= PayEnd[p]
    /\ TicksPerHour \in Nat \ {0} /\ OvertimeThreshold \in (Nat \ {0}) \cup {NoOne}
    /\ OvertimeDen \in Nat \ {0} /\ OvertimeNum \in Nat /\ OvertimeNum >= OvertimeDen
    /\ Deductions \in Seq(Deduction) /\ NoOne \notin Keys
    /\ \A d \in ToSet(Deductions) : \A i \in DOMAIN d.brackets : d.brackets[i].upto = NoOne => i = Len(d.brackets)
    /\ \A w \in Workloads : \A r \in Requests : w.sent[r] \subseteq Submission /\ w.after[r] \subseteq Requests

Nil == [gross |-> 0, deductions |-> 0, contributions |-> 0, net |-> 0]
Total(rows) == [f \in DOMAIN Nil |-> SumOver(DOMAIN rows, LAMBDA e : rows[e].pay[f])]

Init ==
    /\ StaffInit
    /\ periods = <<>> /\ books = <<>>
    /\ results = [p \in Periods |-> <<>>]

Return(r, code) == Refuse(r, code) /\ UNCHANGED payroll
Free(p, r) == \A o \in Requests \ {r} : p \notin held[o]

-----------------------------------------------------------------------------
(* calculate_employee_pay, a pure function of compensation and attendance. *)

(* _resolve_compensation_segments: the pay periods clipped to the period.  *)
(* Variant: the last day of a segment is left out.                         *)
Days_exclusive(from, to) == to - from
Days(from, to) == to - from + 1
Segments(e, p) ==
    LET last(c) == IF c.to = NoOne THEN PayEnd[p] ELSE Min({c.to, PayEnd[p]})
    IN  {[from |-> Max({c.from, PayStart[p]}), to |-> last(c), pay |-> c.value] :
            c \in {c \in ToSet(paid[e]) : c.from <= PayEnd[p] /\ (c.to = NoOne \/ c.to >= PayStart[p])}}

(* MissingCompensationCoverageError otherwise.                             *)
Covered(segments, p) == \A d \in PayStart[p] .. PayEnd[p] : \E s \in segments : s.from <= d /\ d <= s.to

(* _sum_attendance_hours: only CLOSED records of this store count.         *)
Worked(e, p, from, to) ==
    SumOver({s \in DOMAIN shifts : /\ shifts[s].employee = e /\ shifts[s].store = PayStore[p]
                                   /\ from <= shifts[s].date /\ shifts[s].date <= to /\ shifts[s].status = "CLOSED"},
            LAMBDA s : shifts[s].out - shifts[s].in)

(* What was worked in each segment, read all at once.                      *)
Attendance(e, p) == [s \in Segments(e, p) |-> Worked(e, p, s.from, s.to)]

(* The hours a result row keeps: salaried segments have none.              *)
Hours(worked) == SumOver({s \in DOMAIN worked : s.pay.type = "HOURLY"}, LAMBDA s : worked[s])

(* The threshold is applied to each segment.                               *)
Earned(p, s, ticks) ==
    LET over == IF s.pay.overtime /\ OvertimeThreshold # NoOne THEN Max({0, ticks - OvertimeThreshold}) ELSE 0
    IN  IF s.pay.type = "SALARY" THEN RoundHalfUp(s.pay.rate * Days(s.from, s.to), PayEnd[p] - PayStart[p] + 1)
        ELSE RoundHalfUp((ticks - over) * s.pay.rate, TicksPerHour)
               + RoundHalfUp(over * s.pay.rate * OvertimeNum, TicksPerHour * OvertimeDen)
Gross(p, worked) == SumOver(DOMAIN worked, LAMBDA s : Earned(p, s, worked[s]))

(* _apply_bracketed, in hundredths: each slice at its own percentage.      *)
Bracketed(base, table) ==
    LET lower(i) == IF i = 1 THEN 0 ELSE table[i - 1].upto
        upper(i) == IF table[i].upto = NoOne THEN base ELSE Min({base, table[i].upto})
    IN  SumOver(DOMAIN table, LAMBDA i : Max({0, upper(i) - lower(i)}) * table[i].percent)

(* _apply_deduction, quantized.                                            *)
Withheld(d, gross) ==
    CASE d.method = "FLAT_AMOUNT" -> d.value
      [] d.method = "PERCENT_OF_GROSS" -> RoundHalfUp(gross * d.value, 100)
      [] OTHER -> RoundHalfUp(Bracketed(gross, d.brackets), 100)

Pay(p, worked) ==
    LET gross == Gross(p, worked)
        sum(employer) == SumOver({i \in DOMAIN Deductions : Deductions[i].employer = employer},
                                 LAMBDA i : Withheld(Deductions[i], gross))
    IN  [gross |-> gross, deductions |-> sum(FALSE), contributions |-> sum(TRUE), net |-> gross - sum(FALSE)]

-----------------------------------------------------------------------------
(* create, open, approve, cancel.                                          *)

CreatePeriod(r) ==
    /\ Is(r, "CREATE", "begin")
    /\ LET p == req[r].period IN
       IF ~req[r].allowed THEN Return(r, "STORE_ACCESS_DENIED")
       ELSE IF p \in DOMAIN periods THEN Return(r, "DUPLICATE_PAYROLL_PERIOD")
       ELSE /\ periods' = With(periods, p, [status |-> "DRAFT", calculated |-> 0, calcKey |-> NoOne, postKey |-> NoOne, total |-> Nil])
            /\ Finish(r) /\ UNCHANGED <<hr, now, load, results, books>>

InRange(s, p) == /\ shifts[s].store = PayStore[p] /\ PayStart[p] <= shifts[s].date /\ shifts[s].date <= PayEnd[p]
(* Attendance whose updated_at is later than calculated_at.                *)
Stale(p) == \E s \in DOMAIN shifts : InRange(s, p) /\ shifts[s].updated # NoOne /\ shifts[s].updated >= periods[p].calculated

From(kind) == CASE kind = "OPEN" -> {"DRAFT"} [] kind = "APPROVE" -> {"CALCULATED"}
                [] kind = "CANCEL" -> {"DRAFT", "OPEN", "CALCULATED", "APPROVED"}
To(kind) == CASE kind = "OPEN" -> "OPEN" [] kind = "APPROVE" -> "APPROVED" [] kind = "CANCEL" -> "CANCELLED"

SetStatus(p, new) == periods' = [periods EXCEPT ![p] = [periods[p] EXCEPT !.status = new]]
MovePeriod(r) ==
    /\ pc[r] = "begin" /\ req[r].kind \in {"OPEN", "APPROVE", "CANCEL"}
    /\ LET p == req[r].period IN
       /\ Free(p, r)
       /\ IF p \notin DOMAIN periods THEN Return(r, "NOT_FOUND")
          ELSE IF ~req[r].allowed THEN Return(r, "STORE_ACCESS_DENIED")
          ELSE IF periods[p].status = To(req[r].kind) THEN Return(r, "OK")
          ELSE IF periods[p].status \notin From(req[r].kind) THEN Return(r, "INVALID_PERIOD_STATE")
          ELSE IF req[r].kind = "APPROVE" /\ Stale(p) THEN Return(r, "STALE_CALCULATION")
          ELSE SetStatus(p, To(req[r].kind)) /\ Finish(r) /\ UNCHANGED <<hr, now, load, results, books>>

-----------------------------------------------------------------------------
(* calculate_payroll_period.                                               *)

BeginCalculate(r) ==
    /\ Is(r, "CALCULATE", "begin")
    /\ LET p == req[r].period IN
       IF p \in DOMAIN periods /\ req[r].key # NoOne /\ periods[p].calcKey = req[r].key THEN Return(r, "OK")
       ELSE pc' = [pc EXCEPT ![r] = "lock"] /\ UNCHANGED <<hr, now, load, held, req, began, tx, payroll>>

(* _employees_assigned_to_store_during.                                    *)
AssignedDuring(p) ==
    {e \in Employees : \E a \in ToSet(assigned[e]) :
        a.value = PayStore[p] /\ a.from <= PayEnd[p] /\ (a.to = NoOne \/ a.to >= PayStart[p])}

Start(r, p) ==
    /\ tx' = [tx EXCEPT ![r] = [EmptyTx EXCEPT !.left = AssignedDuring(p)]]
    /\ pc' = [pc EXCEPT ![r] = "employees"]
    /\ UNCHANGED <<hr, now, load, req, began, payroll>>

(* Variant: the period is read without FOR UPDATE.                         *)
LockPeriod_no_lock(r) ==
    /\ Is(r, "CALCULATE", "lock")
    /\ LET p == req[r].period IN
       IF p \notin DOMAIN periods THEN Return(r, "NOT_FOUND")
       ELSE IF periods[p].status \notin {"OPEN", "CALCULATED"} THEN Return(r, "INVALID_PERIOD_STATE")
       ELSE Start(r, p) /\ UNCHANGED held

LockPeriod(r) ==
    /\ Is(r, "CALCULATE", "lock")
    /\ LET p == req[r].period IN
       /\ Free(p, r)
       /\ IF p \notin DOMAIN periods THEN Return(r, "NOT_FOUND")
          ELSE IF ~req[r].allowed THEN Return(r, "STORE_ACCESS_DENIED")
          ELSE IF periods[p].status \notin {"OPEN", "CALCULATED"} THEN Return(r, "INVALID_PERIOD_STATE")
          ELSE Start(r, p) /\ held' = [held EXCEPT ![r] = {p}]

(* ck_payroll_employee_results_net_pay.                                    *)
Storable(pay) == pay.net >= 0

Reading(r) == UNCHANGED <<hr, now, load, held, pc, req, began, payroll>>

(* One employee after the other: the pay of the period in one statement,   *)
(* the attendance of each segment in one more, the earliest first.         *)
ReadSegments(r) ==
    /\ Is(r, "CALCULATE", "employees") /\ tx[r].employee = NoOne
    /\ \E e \in tx[r].left :
          tx' = [tx EXCEPT ![r] = [tx[r] EXCEPT !.employee = e, !.segments = Segments(e, req[r].period), !.worked = <<>>]]
    /\ Reading(r)

Unread(r) == tx[r].segments \ DOMAIN tx[r].worked
ReadAttendance(r) ==
    /\ Is(r, "CALCULATE", "employees") /\ tx[r].employee # NoOne
    /\ \E s \in Unread(r) :
          /\ \A o \in Unread(r) : s.from <= o.from
          /\ tx' = [tx EXCEPT ![r] = [tx[r] EXCEPT !.worked = With(tx[r].worked, s, Worked(tx[r].employee, req[r].period, s.from, s.to))]]
    /\ Reading(r)

(* A gap in the compensation, or deductions beyond the gross, roll the     *)
(* whole calculation back.                                                 *)
CalculateEmployee(r) ==
    /\ Is(r, "CALCULATE", "employees") /\ tx[r].employee # NoOne /\ Unread(r) = {}
    /\ LET p == req[r].period
           e == tx[r].employee
           row == [hours |-> Hours(tx[r].worked), pay |-> Pay(p, tx[r].worked)]
       IN  IF ~Covered(tx[r].segments, p) THEN Return(r, "MISSING_COMPENSATION_COVERAGE")
           ELSE IF ~Storable(row.pay) THEN Return(r, "FAILED")
           ELSE /\ tx' = [tx EXCEPT ![r] = [EmptyTx EXCEPT !.left = tx[r].left \ {e}, !.rows = With(tx[r].rows, e, row)]]
                /\ Reading(r)

(* The old rows are replaced wholesale, and calculated_at is taken now.    *)
CommitCalculation(r) ==
    /\ Is(r, "CALCULATE", "employees") /\ tx[r].left = {}
    /\ LET p == req[r].period
           k == req[r].key
       IN  IF k # NoOne /\ \E o \in DOMAIN periods \ {p} : periods[o].calcKey = k THEN Return(r, "DUPLICATE_CALCULATION_REQUEST")
           ELSE /\ periods' = [periods EXCEPT ![p] = [periods[p] EXCEPT !.status = "CALCULATED", !.calculated = now + 1,
                                                                        !.calcKey = k, !.total = Total(tx[r].rows)]]
                /\ results' = [results EXCEPT ![p] = tx[r].rows]
                /\ now' = now + 1
                /\ Finish(r) /\ UNCHANGED <<hr, load, books>>

-----------------------------------------------------------------------------
(* post and reverse, with their journal entries.                           *)

(* _payroll_journal_lines has nothing to post for a period without pay.    *)
Entry(kind, p) == Append(books, [kind |-> kind, period |-> p, amounts |-> Total(results[p])])
Empty(p) == Total(results[p]).gross = 0 /\ Total(results[p]).contributions = 0

PostPeriod(r) ==
    /\ Is(r, "POST", "begin")
    /\ LET p == req[r].period
           k == req[r].key
       IN  \/ /\ p \in DOMAIN periods /\ k # NoOne /\ periods[p].postKey = k
              /\ Return(r, "OK")
           \/ /\ Free(p, r)
              /\ IF p \notin DOMAIN periods THEN Return(r, "NOT_FOUND")
                 ELSE IF ~req[r].allowed THEN Return(r, "STORE_ACCESS_DENIED")
                 ELSE IF periods[p].status = "POSTED" THEN Return(r, "OK")
                 ELSE IF periods[p].status # "APPROVED" THEN Return(r, "INVALID_PERIOD_STATE")
                 ELSE IF DOMAIN results[p] = {} THEN Return(r, "NO_CALCULATED_RESULTS")
                 ELSE IF Empty(p) THEN Return(r, "EMPTY_JOURNAL_ENTRY")
                 ELSE IF ~req[r].open THEN Return(r, "PERIOD_CLOSED")
                 ELSE IF k # NoOne /\ \E o \in DOMAIN periods : periods[o].postKey = k THEN Return(r, "DUPLICATE_POSTING_REQUEST")
                 ELSE /\ periods' = [periods EXCEPT ![p] = [periods[p] EXCEPT !.status = "POSTED", !.postKey = k]]
                      /\ books' = Entry("PAYROLL_POSTING", p)
                      /\ Finish(r) /\ UNCHANGED <<hr, now, load, results>>

(* Variant: the earlier reversal is not looked for.                        *)
Reversed_never(p) == FALSE
Reversed(p) == \E b \in ToSet(books) : b.kind = "PAYROLL_REVERSAL" /\ b.period = p

ReversePeriod(r) ==
    /\ Is(r, "REVERSE", "begin")
    /\ LET p == req[r].period IN
       /\ Free(p, r)
       /\ IF p \notin DOMAIN periods THEN Return(r, "NOT_FOUND")
          ELSE IF ~req[r].allowed THEN Return(r, "STORE_ACCESS_DENIED")
          ELSE IF periods[p].status # "POSTED" THEN Return(r, "INVALID_PERIOD_STATE")
          ELSE IF Reversed(p) THEN Return(r, "OK")
          ELSE IF ~req[r].open THEN Return(r, "PERIOD_CLOSED")
          ELSE /\ books' = Entry("PAYROLL_REVERSAL", p)
               /\ Finish(r) /\ UNCHANGED <<hr, now, load, periods, results>>

-----------------------------------------------------------------------------

(* A worker dies and its transaction is rolled back.                       *)
Fail(r) == pc[r] \notin {"new", "done"} /\ Return(r, "FAILED")

Step(r) ==
    \/ CreatePeriod(r)   \/ MovePeriod(r)
    \/ BeginCalculate(r) \/ LockPeriod(r)
    \/ ReadSegments(r)   \/ ReadAttendance(r) \/ CalculateEmployee(r) \/ CommitCalculation(r)
    \/ PostPeriod(r)     \/ ReversePeriod(r)

Next == \E r \in Requests : (Submit(r) /\ UNCHANGED payroll) \/ (StaffStep(r) /\ UNCHANGED payroll) \/ Step(r) \/ Fail(r)

Spec == Init /\ [][Next]_vars

-----------------------------------------------------------------------------
(* Correctness.                                                            *)

(* The columns and CHECKs of the workforce and payroll tables: no amount is*)
(* negative, whatever is deducted.                                         *)
TypeOK ==
    /\ StaffTypeOK
    /\ \A p \in DOMAIN periods : p \in Periods /\ periods[p] \in PeriodRow
    /\ \A p \in Periods : \A e \in DOMAIN results[p] : results[p][e] \in Result

(* "Balances by construction", and never diverging from what was actually  *)
(* posted: the stored totals are those of the results, a POSTED period has *)
(* one posting and at most one mirrored reversal, both for exactly those   *)
(* totals, and every cent of gross is either net pay or withheld.          *)
BooksMatchResults ==
    /\ TypeOK
    /\ \A b \in ToSet(books) : b.period \in DOMAIN periods
    /\ \A p \in DOMAIN periods :
          LET entries(kind) == {i \in DOMAIN books : books[i].kind = kind /\ books[i].period = p}
              posted == IF periods[p].status = "POSTED" THEN 1 ELSE 0
          IN  /\ periods[p].total = Total(results[p])
              /\ periods[p].total.gross = periods[p].total.net + periods[p].total.deductions
              /\ Cardinality(entries("PAYROLL_POSTING")) = posted /\ Cardinality(entries("PAYROLL_REVERSAL")) <= posted
              /\ \A b \in ToSet(books) : b.period = p => b.amounts = Total(results[p])

(* "pro-rated across a split boundary by calendar days": however often the *)
(* salary changed, the gross is the sum of the days at their own rates, up *)
(* to half a cent for each segment.                                        *)
ProratedByDay ==
    \A e \in Employees, p \in Periods :
        LET n == PayEnd[p] - PayStart[p] + 1
            rate(d) == (CHOOSE s \in Segments(e, p) : s.from <= d /\ d <= s.to).pay.rate
            exact == SumOver(PayStart[p] .. PayEnd[p], rate)
            slack == n * Cardinality(Segments(e, p))
            gross == Gross(p, Attendance(e, p))
        IN  Covered(Segments(e, p), p) /\ (\A s \in Segments(e, p) : s.pay.type = "SALARY") =>
                2 * (n * gross - exact) <= slack /\ 2 * (exact - n * gross) <= slack

(* A manager's approval holds for the numbers seen: from APPROVED on, no   *)
(* recalculation, however it was timed, changes results or totals, and a   *)
(* POSTED period never changes again.                                      *)
ApprovedIsFrozen ==
    [][\A p \in DOMAIN periods :
         /\ periods[p].status \in {"APPROVED", "POSTED"} =>
               /\ results'[p] = results[p] /\ periods'[p].total = periods[p].total
               /\ periods'[p].status \in {"APPROVED", "POSTED", "CANCELLED"}
         /\ periods[p].status = "POSTED" => periods'[p] = periods[p]]_vars

(* approve_payroll_period: "if any AttendanceRecord within this period's   *)
(* store/date range was created or corrected AFTER calculated_at, the      *)
(* calculated numbers may be stale and approval is refused".               *)
ApprovedIsCurrent ==
    [][\A p \in DOMAIN periods : periods[p].status = "CALCULATED" /\ periods'[p].status = "APPROVED" =>
         \A e \in DOMAIN results[p] : results[p][e].hours = Hours(Attendance(e, p))]_vars
=============================================================================
