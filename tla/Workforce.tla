------------------------------ MODULE Workforce ------------------------------
(***************************************************************************)
(* Employees: the effective-dated histories of their status, their store   *)
(* and their pay, and the attendance records clocked, corrected and voided *)
(* against them.  Payroll extends this module with the periods that pay    *)
(* for those records.                                                      *)
(*                                                                         *)
(* A request is a database session under READ COMMITTED.  A history change *)
(* locks the employee's row first, reads the history after that and holds  *)
(* the lock to the commit, so it is one step; clocking in reads the status and inserts later without a lock.    *)
(* Dates and times are integers; shifts are named by the request that      *)
(* inserted them.                                                          *)
(***************************************************************************)
EXTENDS Integers, Sequences, SequencesExt, FiniteSets, FiniteSetsExt

CONSTANTS
    Requests,
    Employees, Stores,
    DayTicks,          \* ticks of the clock in a day
    Boundary,          \* [Stores -> attendance_day_boundary_hour less the time zone's offset, in ticks]
    Workloads,         \* [staff, sent, after]: the histories at the start, the bodies of each request, whom it waits for
    NoOne

VARIABLES
    status, assigned, paid,   \* the three histories of each employee
    shifts,                   \* attendance_records
    now,                      \* the time, as far as it is ever compared: payroll calculations stamped so far
    load, held, pc, req, began, tx

hr      == <<status, assigned, paid, shifts>>
session == <<held, pc, req, began, tx>>

-----------------------------------------------------------------------------
(* Rows and bodies.                                                        *)

EmploymentStatuses == {"ACTIVE", "ON_LEAVE", "SUSPENDED", "TERMINATED"}
Clockable == {"ACTIVE", "ON_LEAVE"}
ValidTransitions ==
    [s \in EmploymentStatuses |->
       CASE s = "ACTIVE" -> {"ON_LEAVE", "SUSPENDED", "TERMINATED"}
         [] s \in {"ON_LEAVE", "SUSPENDED"} -> {"ACTIVE", "TERMINATED"}
         [] s = "TERMINATED" -> {"ACTIVE"}]

Compensation == [type : {"HOURLY", "SALARY"}, rate : Nat, overtime : BOOLEAN]
(* A period of a history: both days belong to it, to = NoOne is open.      *)
Row(V) == [from : Int, to : Int \cup {NoOne}, value : V]
(* updated is updated_at, NoOne until the first UPDATE.                    *)
Shift == [employee : Employees, store : Stores, date : Int, in : Int, out : Int \cup {NoOne},
          status : {"OPEN", "CLOSED", "VOIDED"}, of : Requests \cup {NoOne}, updated : Nat \cup {NoOne}]

(* allowed: the caller reaches the stores involved and every department,   *)
(* position and manager the body names exists.                             *)
StaffSubmission ==
    [kind : {"HIRE", "REASSIGN"}, employee : Employees, store : Stores, from : Int, allowed : BOOLEAN]
      \cup [kind : {"STATUS"}, employee : Employees, status : EmploymentStatuses, from : Int, allowed : BOOLEAN]
      \cup [kind : {"PAY"}, employee : Employees, pay : Compensation, from : Int, allowed : BOOLEAN]
      \cup [kind : {"CLOCKIN"}, employee : Employees, store : Stores, at : Int, allowed : BOOLEAN]
      \cup [kind : {"CLOCKOUT"}, shift : Requests, at : Int, allowed : BOOLEAN]
      \cup [kind : {"CORRECT"}, shift : Requests, in : Int, out : Int \cup {NoOne}, allowed : BOOLEAN]

ASSUME StaffAssumption ==
    /\ DayTicks \in Nat \ {0} /\ Boundary \in [Stores -> Int]
    /\ NoOne \notin Requests \cup Employees \cup Stores \cup Int

With(f, x, v) == [y \in DOMAIN f \cup {x} |-> IF y = x THEN v ELSE f[y]]
EmptyTx == [left |-> {}, rows |-> <<>>, employee |-> NoOne, segments |-> {}, worked |-> <<>>]

StaffInit ==
    /\ load \in Workloads
    /\ status = load.staff.status /\ assigned = load.staff.assigned /\ paid = load.staff.paid
    /\ shifts = load.staff.shifts
    /\ now = 0
    /\ held = [r \in Requests |-> {}]
    /\ pc = [r \in Requests |-> "new"]
    /\ req = [r \in Requests |-> NoOne]
    /\ began = [r \in Requests |-> 0]
    /\ tx = [r \in Requests |-> EmptyTx]

-----------------------------------------------------------------------------
(* Sessions.                                                               *)

Finish(r) ==
    /\ pc' = [pc EXCEPT ![r] = "done"]
    /\ req' = [req EXCEPT ![r] = NoOne]
    /\ began' = [began EXCEPT ![r] = 0]
    /\ tx' = [tx EXCEPT ![r] = EmptyTx]
    /\ held' = [held EXCEPT ![r] = {}]
Is(r, kind, label) == pc[r] = label /\ req[r].kind = kind

(* A request arrives and its transaction begins: func.now() is this time.  *)
Submit(r) ==
    /\ pc[r] = "new"
    /\ \A o \in load.after[r] : pc[o] = "done"
    /\ \E q \in load.sent[r] : req' = [req EXCEPT ![r] = q]
    /\ began' = [began EXCEPT ![r] = now]
    /\ pc' = [pc EXCEPT ![r] = "begin"]
    /\ UNCHANGED <<held, tx, now, load, hr>>

(* An answer that changes nothing: an early return or an error.            *)
Refuse(r, code) == Finish(r) /\ UNCHANGED <<hr, now, load>>

-----------------------------------------------------------------------------
(* Histories.                                                              *)

Hired(e) == status[e] # <<>>
Current(h) == h[Len(h)]

(* Variant: the old period ends a day too early.                           *)
LastDay_early(d) == d - 2
LastDay(d) == d - 1

(* The open period is closed the day before the new one begins.            *)
Supersede(h, d, v) ==
    Append([i \in DOMAIN h |-> IF i = Len(h) THEN [h[i] EXCEPT !.to = LastDay(d)] ELSE h[i]],
           [from |-> d, to |-> NoOne, value |-> v])

(* The CHECK and the exclusion constraint of each history: no period ends  *)
(* before it begins and no day is in two of them.  Days in none are not    *)
(* refused.                                                                *)
Until(d, end) == end = NoOne \/ d <= end
Refused(h) ==
    \/ \E i \in DOMAIN h : ~Until(h[i].from, h[i].to)
    \/ \E i, j \in DOMAIN h : i # j /\ Until(h[i].from, h[j].to) /\ Until(h[j].from, h[i].to)

HireEmployee(r) ==
    /\ Is(r, "HIRE", "begin")
    /\ LET q == req[r] IN
       IF ~q.allowed THEN Refuse(r, "STORE_ACCESS_DENIED")
       ELSE IF Hired(q.employee) THEN Refuse(r, "DUPLICATE_EMPLOYEE_NUMBER")
       ELSE /\ status' = [status EXCEPT ![q.employee] = Supersede(<<>>, q.from, "ACTIVE")]
            /\ assigned' = [assigned EXCEPT ![q.employee] = Supersede(<<>>, q.from, q.store)]
            /\ Finish(r) /\ UNCHANGED <<paid, shifts, now, load>>

ChangeEmploymentStatus(r) ==
    /\ Is(r, "STATUS", "begin")
    /\ LET q == req[r]
           h == status[q.employee]
       IN  IF ~Hired(q.employee) THEN Refuse(r, "NOT_FOUND")
           ELSE IF ~q.allowed THEN Refuse(r, "STORE_ACCESS_DENIED")
           ELSE IF q.status \notin ValidTransitions[Current(h).value] THEN Refuse(r, "INVALID_STATUS_TRANSITION")
           ELSE IF q.from <= Current(h).from THEN Refuse(r, "INVALID_EFFECTIVE_DATE")
           ELSE IF Refused(Supersede(h, q.from, q.status)) THEN Refuse(r, "FAILED")
           ELSE /\ status' = [status EXCEPT ![q.employee] = Supersede(h, q.from, q.status)]
                /\ Finish(r) /\ UNCHANGED <<assigned, paid, shifts, now, load>>

ReassignEmployee(r) ==
    /\ Is(r, "REASSIGN", "begin")
    /\ LET q == req[r]
           h == assigned[q.employee]
       IN  IF ~Hired(q.employee) THEN Refuse(r, "NOT_FOUND")
           ELSE IF ~q.allowed THEN Refuse(r, "STORE_ACCESS_DENIED")
           ELSE IF q.from <= Current(h).from THEN Refuse(r, "INVALID_EFFECTIVE_DATE")
           ELSE IF Refused(Supersede(h, q.from, q.store)) THEN Refuse(r, "FAILED")
           ELSE /\ assigned' = [assigned EXCEPT ![q.employee] = Supersede(h, q.from, q.store)]
                /\ Finish(r) /\ UNCHANGED <<status, paid, shifts, now, load>>

(* The first compensation of an employee has nothing to close.             *)
ChangeCompensation(r) ==
    /\ Is(r, "PAY", "begin")
    /\ LET q == req[r]
           h == paid[q.employee]
       IN  IF ~Hired(q.employee) THEN Refuse(r, "NOT_FOUND")
           ELSE IF ~q.allowed THEN Refuse(r, "STORE_ACCESS_DENIED")
           ELSE IF h # <<>> /\ q.from <= Current(h).from THEN Refuse(r, "INVALID_EFFECTIVE_DATE")
           ELSE IF Refused(Supersede(h, q.from, q.pay)) THEN Refuse(r, "INVALID_COMPENSATION_PERIOD")
           ELSE /\ paid' = [paid EXCEPT ![q.employee] = Supersede(h, q.from, q.pay)]
                /\ Finish(r) /\ UNCHANGED <<status, assigned, shifts, now, load>>

-----------------------------------------------------------------------------
(* Attendance.                                                             *)

(* resolve_work_date: a shift that begins before the store's boundary hour *)
(* belongs to the day before.                                              *)
WorkDate(store, t) == (t - Boundary[store]) \div DayTicks

(* Variant: a record that is still open covers nothing.                    *)
Before_empty(t, end) == end # NoOne /\ t < end
(* tstzrange: a missing end is unbounded.                                  *)
Before(t, end) == end = NoOne \/ t < end

(* excl_attendance_records_no_overlap, which leaves VOIDED records out.    *)
Overlapping(e, in, out) ==
    {s \in DOMAIN shifts : /\ shifts[s].employee = e /\ shifts[s].status # "VOIDED"
                           /\ Before(in, shifts[s].out) /\ Before(shifts[s].in, out)}

(* clock_in reads the open status period, whatever its date, ...           *)
ReadStatus(r) ==
    /\ Is(r, "CLOCKIN", "begin")
    /\ LET q == req[r] IN
       IF ~q.allowed THEN Refuse(r, "STORE_ACCESS_DENIED")
       ELSE IF ~Hired(q.employee) THEN Refuse(r, "EMPLOYEE_NOT_CLOCKABLE")
       ELSE IF Current(status[q.employee]).value \notin Clockable THEN Refuse(r, "EMPLOYEE_NOT_CLOCKABLE")
       ELSE pc' = [pc EXCEPT ![r] = "insert"] /\ UNCHANGED <<held, req, began, tx, hr, now, load>>

(* ... and inserts; the exclusion constraint decides.                      *)
ClockIn(r) ==
    /\ Is(r, "CLOCKIN", "insert")
    /\ LET q == req[r] IN
       IF Overlapping(q.employee, q.at, NoOne) # {} THEN Refuse(r, "OVERLAPPING_ATTENDANCE")
       ELSE /\ shifts' = With(shifts, r, [employee |-> q.employee, store |-> q.store, date |-> WorkDate(q.store, q.at), in |-> q.at,
                                          out |-> NoOne, status |-> "OPEN", of |-> NoOne, updated |-> NoOne])
            /\ Finish(r) /\ UNCHANGED <<status, assigned, paid, now, load>>

ClockOut(r) ==
    /\ Is(r, "CLOCKOUT", "begin")
    /\ LET q == req[r] IN
       IF q.shift \notin DOMAIN shifts THEN Refuse(r, "NOT_FOUND")
       ELSE IF ~q.allowed THEN Refuse(r, "STORE_ACCESS_DENIED")
       ELSE IF shifts[q.shift].status # "OPEN" THEN Refuse(r, "ATTENDANCE_NOT_OPEN")
       ELSE IF q.at <= shifts[q.shift].in THEN Refuse(r, "INVALID_CLOCK_OUT")
       ELSE /\ shifts' = [shifts EXCEPT ![q.shift] = [shifts[q.shift] EXCEPT !.out = q.at, !.status = "CLOSED", !.updated = began[r]]]
            /\ Finish(r) /\ UNCHANGED <<status, assigned, paid, now, load>>

Correctable(s) == shifts[s].status # "VOIDED"

(* The original is voided and a replacement inserted, in one commit.       *)
CorrectAttendance(r) ==
    /\ Is(r, "CORRECT", "begin")
    /\ LET q == req[r] IN
       IF q.shift \notin DOMAIN shifts THEN Refuse(r, "NOT_FOUND")
       ELSE LET s == shifts[q.shift] IN
       IF ~q.allowed THEN Refuse(r, "STORE_ACCESS_DENIED")
       ELSE IF ~Correctable(q.shift) THEN Refuse(r, "ALREADY_CORRECTED")
       ELSE IF ~Before(q.in, q.out) THEN Refuse(r, "INVALID_CLOCK_OUT")
       ELSE IF Overlapping(s.employee, q.in, q.out) \ {q.shift} # {} THEN Refuse(r, "OVERLAPPING_ATTENDANCE")
       ELSE /\ shifts' = With([shifts EXCEPT ![q.shift] = [s EXCEPT !.status = "VOIDED", !.updated = began[r]]], r,
                              [s EXCEPT !.date = WorkDate(s.store, q.in), !.in = q.in, !.out = q.out, !.of = q.shift, !.updated = NoOne,
                                        !.status = IF q.out = NoOne THEN "OPEN" ELSE "CLOSED"])
            /\ Finish(r) /\ UNCHANGED <<status, assigned, paid, now, load>>

StaffStep(r) ==
    \/ HireEmployee(r) \/ ChangeEmploymentStatus(r) \/ ReassignEmployee(r) \/ ChangeCompensation(r)
    \/ ReadStatus(r)   \/ ClockIn(r) \/ ClockOut(r) \/ CorrectAttendance(r)

-----------------------------------------------------------------------------
(* Correctness.                                                            *)

StaffTypeOK ==
    /\ status \in [Employees -> Seq(Row(EmploymentStatuses))]
    /\ assigned \in [Employees -> Seq(Row(Stores))]
    /\ paid \in [Employees -> Seq(Row(Compensation))]
    /\ \A s \in DOMAIN shifts : shifts[s] \in Shift /\ (shifts[s].status = "OPEN" => shifts[s].out = NoOne)

Unbroken(h) ==
    /\ h # <<>> => Current(h).to = NoOne
    /\ \A i \in 1 .. Len(h) - 1 : h[i].to # NoOne /\ h[i].from <= h[i].to /\ h[i + 1].from = h[i].to + 1

UnbrokenSince(states, stores, pays) ==
    /\ Unbroken(states) /\ Unbroken(stores) /\ Unbroken(pays)
    /\ states # <<>> => states[1].from = stores[1].from

(* "no two periods for the same employee/dimension may overlap", and       *)
(* closing one opens the next: each day since the hire has exactly one     *)
(* status and one store, each day since the first pay one compensation.    *)
HistoriesUnbroken == \A e \in Employees : UnbrokenSince(status[e], assigned[e], paid[e])

(* "both the original and the correction remain permanently visible": a    *)
(* record is voided exactly when one other record replaces it.             *)
CorrectedOnce(rows) ==
    \A s \in DOMAIN rows :
        Cardinality({t \in DOMAIN rows : rows[t].of = s}) = IF rows[s].status = "VOIDED" THEN 1 ELSE 0

Apart(a, b) ==
    a.employee = b.employee /\ "VOIDED" \notin {a.status, b.status} =>
        \/ a.out # NoOne /\ a.out <= b.in
        \/ b.out # NoOne /\ b.out <= a.in

DisjointRows(rows) == CorrectedOnce(rows) /\ \A s, t \in DOMAIN rows : s # t => Apart(rows[s], rows[t])

(* "no two OPEN-or-CLOSED records for the same employee may have           *)
(* overlapping ranges", however clock-ins and corrections interleave, so   *)
(* no tick of an employee's time is ever paid by two records, and a        *)
(* corrected record is replaced once.                                      *)
ShiftsDisjoint == DisjointRows(shifts)

(* The staff and the records that a workload starts with: all of it was    *)
(* written by requests that are over.                                      *)
ASSUME StartAssumption ==
    /\ IsFiniteSet(Requests)
    /\ \A w \in Workloads :
          /\ w.staff.status \in [Employees -> Seq(Row(EmploymentStatuses))]
          /\ w.staff.assigned \in [Employees -> Seq(Row(Stores))]
          /\ w.staff.paid \in [Employees -> Seq(Row(Compensation))]
          /\ \A e \in Employees :
                /\ UnbrokenSince(w.staff.status[e], w.staff.assigned[e], w.staff.paid[e])
                /\ w.staff.status[e] = <<>> <=> w.staff.assigned[e] = <<>>
          /\ DOMAIN w.staff.shifts \subseteq Requests /\ DisjointRows(w.staff.shifts)
          /\ \A s \in DOMAIN w.staff.shifts :
                LET row == w.staff.shifts[s] IN
                /\ row \in Shift /\ row.of \in DOMAIN w.staff.shifts \cup {NoOne} /\ w.sent[s] = {}
                /\ row.status = "OPEN" => row.out = NoOne
                /\ row.status = "CLOSED" => row.out # NoOne /\ row.in < row.out
=============================================================================
