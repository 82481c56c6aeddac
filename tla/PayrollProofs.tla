---------------------------- MODULE PayrollProofs ----------------------------
(***************************************************************************)
(* Proofs about Payroll and the Workforce it extends: the histories of an  *)
(* employee stay unbroken, attendance records stay disjoint, a period that *)
(* was approved is frozen, the books of a period are its results, and a    *)
(* salary is paid by the day.                                              *)
(***************************************************************************)
EXTENDS Payroll, Sums, TLAPS

-----------------------------------------------------------------------------
(* Sessions.                                                               *)

Labels == {"new", "begin", "insert", "lock", "employees", "done"}
Pending(r) == pc[r] \notin {"new", "done"}

(* A session that has begun serves a body its client may send.             *)
Shape ==
    /\ load \in Workloads
    /\ pc \in [Requests -> Labels]
    /\ req = [r \in Requests |-> req[r]]
    /\ \A r \in Requests : Pending(r) => req[r] \in load.sent[r]

(* The transaction of r ends without having changed anything.              *)
Ends(r) == Finish(r) /\ UNCHANGED <<hr, now, load, payroll>>
(* r goes on, or ends; of the tables its step may change none.             *)
Moves(r, label) == pc' = [pc EXCEPT ![r] = label] /\ UNCHANGED <<hr, now, load, req, payroll>>

Written(r) ==
    \/ HireEmployee(r) \/ ChangeEmploymentStatus(r) \/ ReassignEmployee(r) \/ ChangeCompensation(r)
    \/ ClockIn(r) \/ ClockOut(r) \/ CorrectAttendance(r)
    \/ CreatePeriod(r) \/ MovePeriod(r) \/ CommitCalculation(r) \/ PostPeriod(r) \/ ReversePeriod(r)

(* The steps of the calculation that read, or give up.                     *)
Reads(r) == ReadSegments(r) \/ ReadAttendance(r) \/ CalculateEmployee(r)

(* Such a step changes nothing but what the session knows.                 *)
LEMMA ReadsOnly == ASSUME NEW r, Reads(r) PROVE Reading(r) \/ Ends(r)
  BY DEF Reads, ReadSegments, ReadAttendance, CalculateEmployee, Return, Refuse, Ends

(* Every step of a request begins it, ends it, moves it on or writes.      *)
LEMMA Cases ==
    ASSUME NEW r \in Requests,
           (Submit(r) /\ UNCHANGED payroll) \/ (StaffStep(r) /\ UNCHANGED payroll) \/ Step(r) \/ Fail(r)
    PROVE  \/ Submit(r) /\ UNCHANGED payroll
           \/ Ends(r)
           \/ ReadStatus(r) /\ Moves(r, "insert") /\ UNCHANGED held
           \/ BeginCalculate(r) /\ Moves(r, "lock") /\ UNCHANGED held
           \/ LockPeriod(r) /\ Moves(r, "employees")
           \/ Reading(r)
           \/ Written(r) /\ ~Ends(r) /\ Finish(r) /\ UNCHANGED load
<1>1. CASE Submit(r) /\ UNCHANGED payroll
  BY <1>1
<1>2. CASE StaffStep(r) /\ UNCHANGED payroll
  <2>1. CASE ReadStatus(r)
    BY <2>1, <1>2 DEF ReadStatus, Refuse, Ends, Moves, hr
  <2>2. CASE HireEmployee(r) \/ ChangeEmploymentStatus(r) \/ ReassignEmployee(r) \/ ChangeCompensation(r)
    <3>1. Finish(r) /\ UNCHANGED load
      BY <2>2 DEF HireEmployee, ChangeEmploymentStatus, ReassignEmployee, ChangeCompensation, Refuse
    <3>. QED  BY <2>2, <3>1 DEF Written
  <2>3. CASE ClockIn(r) \/ ClockOut(r) \/ CorrectAttendance(r)
    <3>1. Finish(r) /\ UNCHANGED load
      BY <2>3 DEF ClockIn, ClockOut, CorrectAttendance, Refuse
    <3>. QED  BY <2>3, <3>1 DEF Written
  <2>. QED  BY <1>2, <2>1, <2>2, <2>3 DEF StaffStep
<1>3. CASE Fail(r)
  BY <1>3 DEF Fail, Return, Refuse, Ends
<1>4. CASE Step(r)
  <2>1. CASE BeginCalculate(r)
    BY <2>1 DEF BeginCalculate, Return, Refuse, Ends, Moves
  <2>2. CASE LockPeriod(r)
    BY <2>2 DEF LockPeriod, Return, Refuse, Ends, Moves, Start
  <2>3. CASE Reads(r)
    BY <2>3, ReadsOnly
  <2>4. CASE CreatePeriod(r) \/ MovePeriod(r)
    <3>1. Finish(r) /\ UNCHANGED load
      BY <2>4 DEF CreatePeriod, MovePeriod, Return, Refuse
    <3>. QED  BY <2>4, <3>1 DEF Written
  <2>5. CASE CommitCalculation(r)
    <3>1. Finish(r) /\ UNCHANGED load
      BY <2>5 DEF CommitCalculation, Return, Refuse
    <3>. QED  BY <2>5, <3>1 DEF Written
  <2>6. CASE PostPeriod(r) \/ ReversePeriod(r)
    <3>1. Finish(r) /\ UNCHANGED load
      BY <2>6 DEF PostPeriod, ReversePeriod, Return, Refuse
    <3>. QED  BY <2>6, <3>1 DEF Written
  <2>. QED  BY <1>4, <2>1, <2>2, <2>3, <2>4, <2>5, <2>6 DEF Step, Reads
<1>. QED  BY <1>1, <1>2, <1>3, <1>4

(* Init establishes it and every step keeps it.                            *)
LEMMA ShapeInit == Init => Shape
  BY DEF Init, StaffInit, Shape, Labels, Pending

(* Every step keeps the sessions well formed.                              *)
LEMMA ShapeKept == Shape /\ [Next]_vars => Shape'
<1>. SUFFICES ASSUME Shape, [Next]_vars PROVE Shape'
  OBVIOUS
<1>1. CASE UNCHANGED vars
  BY <1>1 DEF Shape, vars, session, Pending
<1>2. CASE Next
  <2>1. PICK r \in Requests :
          (Submit(r) /\ UNCHANGED payroll) \/ (StaffStep(r) /\ UNCHANGED payroll) \/ Step(r) \/ Fail(r)
    BY <1>2 DEF Next
  <2>2. CASE Submit(r)
    BY <2>2 DEF Submit, Shape, Labels, Pending
  <2>3. CASE Finish(r) /\ UNCHANGED load
    BY <2>3 DEF Finish, Shape, Labels, Pending
  <2>4. CASE (\E l \in {"insert", "lock", "employees"} : Moves(r, l)) /\ Pending(r)
    BY <2>4 DEF Moves, Shape, Labels, Pending
  <2>5. CASE Reading(r)
    BY <2>5 DEF Reading, Shape, Pending
  <2>6. ReadStatus(r) \/ BeginCalculate(r) \/ LockPeriod(r) => Pending(r)
    BY DEF ReadStatus, BeginCalculate, LockPeriod, Is, Pending
  <2>. QED  BY <2>1, Cases, <2>2, <2>3, <2>4, <2>5, <2>6 DEF Ends
<1>. QED  BY <1>1, <1>2

(* Spec => []Shape.                                                        *)
LEMMA ShapeAlways == Spec => []Shape
  BY ShapeInit, ShapeKept, PTL DEF Spec

(* The body of a pending session.                                          *)
LEMMA Asked ==
    ASSUME Shape, NEW r \in Requests, Pending(r)
    PROVE  req[r] \in Submission
  BY PayrollAssumption DEF Shape

-----------------------------------------------------------------------------
(* Histories.                                                              *)

(* Closing the open period the day before a later one begins keeps a       *)
(* history typed and unbroken, and its first day.                          *)
LEMMA Superseded ==
    ASSUME NEW V, NEW h \in Seq(Row(V)), Unbroken(h), NEW d \in Int, NEW v \in V,
           h # <<>> => Current(h).from < d
    PROVE  /\ Supersede(h, d, v) \in Seq(Row(V)) /\ Supersede(h, d, v) # <<>>
           /\ Unbroken(Supersede(h, d, v))
           /\ Supersede(h, d, v)[1].from = IF h = <<>> THEN d ELSE h[1].from
<1>. DEFINE n == Len(h)
            old == [i \in DOMAIN h |-> IF i = Len(h) THEN [h[i] EXCEPT !.to = LastDay(d)] ELSE h[i]]
            row == [from |-> d, to |-> NoOne, value |-> v]
            new == Supersede(h, d, v)
<1>1. n \in Nat /\ DOMAIN h = 1 .. n /\ \A i \in 1 .. n : h[i] \in Row(V)
  OBVIOUS
<1>2. row \in Row(V)
  BY DEF Row
<1>3. \A i \in 1 .. n : old[i] \in Row(V) /\ old[i].from = h[i].from /\ old[i].to = IF i = n THEN d - 1 ELSE h[i].to
  <2>. SUFFICES ASSUME NEW i \in 1 .. n
                PROVE old[i] \in Row(V) /\ old[i].from = h[i].from /\ old[i].to = IF i = n THEN d - 1 ELSE h[i].to
    OBVIOUS
  <2>1. h[i] \in Row(V)
    BY <1>1
  <2>2. old[i] = IF i = n THEN [h[i] EXCEPT !.to = d - 1] ELSE h[i]
    BY <1>1 DEF LastDay
  <2>. QED  BY <2>1, <2>2 DEF Row
<1>4. old \in Seq(Row(V)) /\ Len(old) = n
  BY <1>1, <1>3
<1>5. new = Append(old, row)
  BY DEF Supersede
<1>6. new \in Seq(Row(V)) /\ Len(new) = n + 1 /\ new[n + 1] = row /\ \A i \in 1 .. n : new[i] = old[i]
  <2>. HIDE DEF old, new, row, n
  <2>. QED  BY <1>2, <1>4, <1>5
<1>7. \A i \in 1 .. n : new[i].from = h[i].from /\ new[i].to = IF i = n THEN d - 1 ELSE h[i].to
  BY <1>3, <1>6
<1>8. row.from = d /\ row.to = NoOne
  OBVIOUS
<1>. HIDE DEF old, new, row
<1>9. Current(new).to = NoOne /\ new # <<>>
  BY <1>1, <1>6, <1>8 DEF Current
<1>10. \A i \in 1 .. n : h[i].from \in Int
  BY <1>1 DEF Row
<1>11. ASSUME NEW i \in 1 .. n
       PROVE  new[i].to # NoOne /\ new[i].from <= new[i].to /\ new[i + 1].from = new[i].to + 1
  <2>1. CASE i = n
    <3>1. d - 1 # NoOne
      BY StaffAssumption
    <3>. QED  BY <2>1, <3>1, <1>1, <1>6, <1>7, <1>8, <1>10 DEF Current
  <2>2. CASE i # n
    <3>1. i \in 1 .. n - 1 /\ i + 1 \in 1 .. n
      <4>1. n \in Nat
        BY <1>1
      <4>. HIDE DEF n
      <4>. QED  BY <2>2, <4>1
    <3>2. h[i].to # NoOne /\ h[i].from <= h[i].to /\ h[i + 1].from = h[i].to + 1
      BY <3>1 DEF Unbroken
    <3>. QED  BY <2>2, <3>1, <3>2, <1>7
  <2>. QED  BY <2>1, <2>2
<1>12. Len(new) - 1 = n
  BY <1>1, <1>6
<1>13. Unbroken(new)
  BY <1>9, <1>11, <1>12 DEF Unbroken
<1>14. new[1].from = IF h = <<>> THEN d ELSE h[1].from
  BY <1>1, <1>6, <1>7, <1>8
<1>. QED  BY <1>6, <1>9, <1>13, <1>14 DEF new

(* The first period of a history.                                          *)
LEMMA Founded ==
    ASSUME NEW V, NEW d \in Int, NEW v \in V
    PROVE  /\ Supersede(<<>>, d, v) \in Seq(Row(V)) /\ Supersede(<<>>, d, v) # <<>>
           /\ Unbroken(Supersede(<<>>, d, v))
           /\ Supersede(<<>>, d, v)[1].from = d
<1>1. <<>> \in Seq(Row(V)) /\ Unbroken(<<>>)
  BY DEF Unbroken
<1>. QED  BY <1>1, Superseded

(* What the bodies that change a history carry.                            *)
LEMMA StaffBody ==
    ASSUME NEW q \in Submission
    PROVE  /\ q.kind \in {"HIRE", "REASSIGN"} => q.employee \in Employees /\ q.store \in Stores /\ q.from \in Int
           /\ q.kind = "STATUS" => q.employee \in Employees /\ q.status \in EmploymentStatuses /\ q.from \in Int
           /\ q.kind = "PAY" => q.employee \in Employees /\ q.pay \in Compensation /\ q.from \in Int
           /\ q.kind = "CLOCKIN" => q.employee \in Employees /\ q.store \in Stores /\ q.at \in Int
           /\ q.kind = "CLOCKOUT" => q.shift \in Requests /\ q.at \in Int
           /\ q.kind = "CORRECT" => q.shift \in Requests /\ q.in \in Int /\ q.out \in Int \cup {NoOne}
           /\ q.kind \in {"CREATE", "OPEN", "APPROVE", "CANCEL", "CALCULATE", "POST", "REVERSE"} => q.period \in Periods
  BY DEF Submission, StaffSubmission

(* One employee's three histories: typed, unbroken, and begun together.    *)
Sound(states, stores, pays) ==
    /\ states \in Seq(Row(EmploymentStatuses)) /\ stores \in Seq(Row(Stores)) /\ pays \in Seq(Row(Compensation))
    /\ UnbrokenSince(states, stores, pays)
    /\ states = <<>> <=> stores = <<>>

HistoryInv ==
    /\ status = [e \in Employees |-> status[e]] /\ assigned = [e \in Employees |-> assigned[e]]
    /\ paid = [e \in Employees |-> paid[e]]
    /\ \A e \in Employees : Sound(status[e], assigned[e], paid[e])

(* The histories a workload starts with are sound.                         *)
LEMMA HistoryInit == Init => HistoryInv
  BY StartAssumption DEF Init, StaffInit, HistoryInv, Sound

(* The histories of the employee a body names, before and after a step     *)
(* that supersedes one of them, or founds two.                             *)
LEMMA HireSound ==
    ASSUME NEW r \in Requests, Shape, HistoryInv, HireEmployee(r), ~Ends(r), UNCHANGED payroll
    PROVE  HistoryInv'
<1>. DEFINE q == req[r]
            e == q.employee
<1>1. Pending(r) /\ q.kind = "HIRE"
  BY DEF HireEmployee, Is, Pending
<1>2. e \in Employees /\ q.store \in Stores /\ q.from \in Int
  BY <1>1, Asked, StaffBody
<1>3. /\ ~Hired(e)
      /\ status' = [status EXCEPT ![e] = Supersede(<<>>, q.from, "ACTIVE")]
      /\ assigned' = [assigned EXCEPT ![e] = Supersede(<<>>, q.from, q.store)]
      /\ UNCHANGED paid
  BY DEF HireEmployee, Refuse, Ends, hr
<1>4. Sound(status[e], assigned[e], paid[e])
  BY <1>2 DEF HistoryInv
<1>6. /\ Supersede(<<>>, q.from, "ACTIVE") \in Seq(Row(EmploymentStatuses))
      /\ Unbroken(Supersede(<<>>, q.from, "ACTIVE")) /\ Supersede(<<>>, q.from, "ACTIVE") # <<>>
      /\ Supersede(<<>>, q.from, "ACTIVE")[1].from = q.from
  BY ONLY <1>2, Founded, "ACTIVE" \in EmploymentStatuses DEF EmploymentStatuses
<1>7. /\ Supersede(<<>>, q.from, q.store) \in Seq(Row(Stores))
      /\ Unbroken(Supersede(<<>>, q.from, q.store)) /\ Supersede(<<>>, q.from, q.store) # <<>>
      /\ Supersede(<<>>, q.from, q.store)[1].from = q.from
  BY ONLY <1>2, Founded
<1>8. Sound(Supersede(<<>>, q.from, "ACTIVE"), Supersede(<<>>, q.from, q.store), paid[e])
  BY <1>4, <1>6, <1>7 DEF Sound, UnbrokenSince
<1>. HIDE DEF q, e
<1>. QED  BY <1>2, <1>3, <1>8 DEF HistoryInv

(* A date that is not refused is later than the open period's.             *)
LEMMA Later ==
    ASSUME NEW V, NEW h \in Seq(Row(V)), h # <<>>, NEW d \in Int, ~(d <= Current(h).from)
    PROVE  Current(h).from < d
<1>1. Len(h) \in 1 .. Len(h)
  OBVIOUS
<1>2. h[Len(h)] \in Row(V)
  BY <1>1
<1>3. Current(h).from \in Int
  BY <1>2 DEF Row, Current
<1>. QED  BY <1>3

(* change_employment_status closes the open status the day before the new  *)
(* one begins.                                                             *)
LEMMA StatusSound ==
    ASSUME NEW r \in Requests, Shape, HistoryInv, ChangeEmploymentStatus(r), ~Ends(r), UNCHANGED payroll
    PROVE  HistoryInv'
<1>. DEFINE q == req[r]
            e == q.employee
            new == Supersede(status[e], q.from, q.status)
<1>1. Pending(r) /\ q.kind = "STATUS"
  BY DEF ChangeEmploymentStatus, Is, Pending
<1>2. e \in Employees /\ q.status \in EmploymentStatuses /\ q.from \in Int
  BY <1>1, Asked, StaffBody
<1>3. /\ Hired(e) /\ ~(q.from <= Current(status[e]).from)
      /\ status' = [status EXCEPT ![e] = new] /\ UNCHANGED <<assigned, paid>>
  BY DEF ChangeEmploymentStatus, Refuse, Ends, hr
<1>4. Sound(status[e], assigned[e], paid[e])
  BY <1>2 DEF HistoryInv
<1>5. Current(status[e]).from < q.from
  BY <1>2, <1>3, <1>4, Later DEF Sound, Hired
<1>6. new \in Seq(Row(EmploymentStatuses)) /\ Unbroken(new) /\ new # <<>> /\ new[1].from = status[e][1].from
  <2>1. status[e] \in Seq(Row(EmploymentStatuses)) /\ Unbroken(status[e]) /\ status[e] # <<>>
    BY <1>3, <1>4 DEF Sound, UnbrokenSince, Hired
  <2>. QED  BY ONLY <1>2, <1>5, <2>1, Superseded
<1>7. Sound(new, assigned[e], paid[e])
  BY <1>3, <1>4, <1>6 DEF Sound, UnbrokenSince, Hired
<1>. HIDE DEF q, e, new
<1>. QED  BY <1>2, <1>3, <1>7 DEF HistoryInv

(* reassign_employee does the same to the store assignments.               *)
LEMMA ReassignSound ==
    ASSUME NEW r \in Requests, Shape, HistoryInv, ReassignEmployee(r), ~Ends(r), UNCHANGED payroll
    PROVE  HistoryInv'
<1>. DEFINE q == req[r]
            e == q.employee
            new == Supersede(assigned[e], q.from, q.store)
<1>1. Pending(r) /\ q.kind = "REASSIGN"
  BY DEF ReassignEmployee, Is, Pending
<1>2. e \in Employees /\ q.store \in Stores /\ q.from \in Int
  BY <1>1, Asked, StaffBody
<1>3. /\ Hired(e) /\ ~(q.from <= Current(assigned[e]).from)
      /\ assigned' = [assigned EXCEPT ![e] = new] /\ UNCHANGED <<status, paid>>
  BY DEF ReassignEmployee, Refuse, Ends, hr
<1>4. Sound(status[e], assigned[e], paid[e])
  BY <1>2 DEF HistoryInv
<1>5. assigned[e] # <<>> /\ Current(assigned[e]).from < q.from
  BY <1>2, <1>3, <1>4, Later DEF Sound, Hired
<1>6. new \in Seq(Row(Stores)) /\ Unbroken(new) /\ new # <<>> /\ new[1].from = assigned[e][1].from
  <2>1. assigned[e] \in Seq(Row(Stores)) /\ Unbroken(assigned[e])
    BY <1>4 DEF Sound, UnbrokenSince
  <2>. QED  BY ONLY <1>2, <1>5, <2>1, Superseded
<1>7. Sound(status[e], new, paid[e])
  BY <1>3, <1>4, <1>6 DEF Sound, UnbrokenSince, Hired
<1>. HIDE DEF q, e, new
<1>. QED  BY <1>2, <1>3, <1>7 DEF HistoryInv

(* change_compensation does the same to the compensation, or founds it.    *)
LEMMA PaySound ==
    ASSUME NEW r \in Requests, Shape, HistoryInv, ChangeCompensation(r), ~Ends(r), UNCHANGED payroll
    PROVE  HistoryInv'
<1>. DEFINE q == req[r]
            e == q.employee
            new == Supersede(paid[e], q.from, q.pay)
<1>1. Pending(r) /\ q.kind = "PAY"
  BY DEF ChangeCompensation, Is, Pending
<1>2. e \in Employees /\ q.pay \in Compensation /\ q.from \in Int
  BY <1>1, Asked, StaffBody
<1>3. /\ paid[e] # <<>> => ~(q.from <= Current(paid[e]).from)
      /\ paid' = [paid EXCEPT ![e] = new] /\ UNCHANGED <<status, assigned>>
  BY DEF ChangeCompensation, Refuse, Ends, hr
<1>4. Sound(status[e], assigned[e], paid[e])
  BY <1>2 DEF HistoryInv
<1>5. paid[e] # <<>> => Current(paid[e]).from < q.from
  BY <1>2, <1>3, <1>4, Later DEF Sound
<1>6. new \in Seq(Row(Compensation)) /\ Unbroken(new)
  <2>1. paid[e] \in Seq(Row(Compensation)) /\ Unbroken(paid[e])
    BY <1>4 DEF Sound, UnbrokenSince
  <2>. QED  BY ONLY <1>2, <1>5, <2>1, Superseded
<1>7. Sound(status[e], assigned[e], new)
  BY <1>4, <1>6 DEF Sound, UnbrokenSince
<1>. HIDE DEF q, e, new
<1>. QED  BY <1>2, <1>3, <1>7 DEF HistoryInv

(* No other step touches a history.                                        *)
LEMMA HistoryKept == Shape /\ HistoryInv /\ [Next]_vars => HistoryInv'
<1>. SUFFICES ASSUME Shape, HistoryInv, [Next]_vars PROVE HistoryInv'
  OBVIOUS
<1>1. CASE UNCHANGED <<status, assigned, paid>>
  BY <1>1 DEF HistoryInv
<1>2. CASE UNCHANGED vars
  BY <1>1, <1>2 DEF vars, hr
<1>3. CASE Next
  <2>1. PICK r \in Requests :
          (Submit(r) /\ UNCHANGED payroll) \/ (StaffStep(r) /\ UNCHANGED payroll) \/ Step(r) \/ Fail(r)
    BY <1>3 DEF Next
  <2>2. CASE Submit(r) \/ Ends(r) \/ UNCHANGED hr
    BY <2>2, <1>1 DEF Submit, Ends, hr
  <2>3. CASE StaffStep(r) /\ UNCHANGED payroll /\ ~Ends(r)
    <3>1. CASE ReadStatus(r)
      BY <3>1, <1>1 DEF ReadStatus, Refuse, hr
    <3>2. CASE ClockIn(r) \/ ClockOut(r) \/ CorrectAttendance(r)
      BY <3>2, <1>1 DEF ClockIn, ClockOut, CorrectAttendance, Refuse, hr
    <3>. QED  BY <2>3, <3>1, <3>2, HireSound, StatusSound, ReassignSound, PaySound DEF StaffStep
  <2>4. CASE Step(r)
    <3>1. UNCHANGED hr
      <4>1. CASE BeginCalculate(r) \/ LockPeriod(r) \/ CommitCalculation(r)
        BY <4>1 DEF BeginCalculate, LockPeriod, CommitCalculation, Return, Refuse, Start
      <4>3. CASE Reads(r)
        BY <4>3, ReadsOnly DEF Reading, Ends
      <4>2. CASE CreatePeriod(r) \/ MovePeriod(r) \/ PostPeriod(r) \/ ReversePeriod(r)
        BY <4>2 DEF CreatePeriod, MovePeriod, PostPeriod, ReversePeriod, Return, Refuse
      <4>. QED  BY <2>4, <4>1, <4>2, <4>3 DEF Step, Reads
    <3>. QED  BY <3>1, <2>2
  <2>5. CASE Fail(r)
    BY <2>5, <2>2 DEF Fail, Return, Refuse
  <2>. QED  BY <2>1, <2>2, <2>3, <2>4, <2>5
<1>. QED  BY <1>2, <1>3

(* However hires, status changes, transfers of staff and pay changes are   *)
(* interleaved, every employee has exactly one status, one store and one   *)
(* compensation on each day since the first (HistoriesUnbroken).           *)
THEOREM HistoriesCorrect == Spec => []HistoriesUnbroken
<1>1. Init => HistoryInv
  BY HistoryInit
<1>2. Shape /\ HistoryInv /\ [Next]_vars => HistoryInv'
  BY HistoryKept
<1>3. HistoryInv => HistoriesUnbroken
  BY DEF HistoryInv, Sound, HistoriesUnbroken
<1>. QED  BY <1>1, <1>2, <1>3, ShapeAlways, PTL DEF Spec

-----------------------------------------------------------------------------
(* Attendance.                                                             *)

(* What the proof needs of a record's columns.                             *)
Clocked(x) ==
    /\ x = [employee |-> x.employee, store |-> x.store, date |-> x.date, in |-> x.in, out |-> x.out,
            status |-> x.status, of |-> x.of, updated |-> x.updated]
    /\ x.in \in Int /\ x.out \in Int \cup {NoOne}
    /\ x.status = "OPEN" => x.out = NoOne

Corrections(rows, s) == {t \in DOMAIN rows : rows[t].of = s}

(* A VOIDED record has one correction, any other none; a correction refers *)
(* to a record.                                                            *)
Replaced(rows) ==
    \A s \in DOMAIN rows :
        /\ rows[s].of \in DOMAIN rows \cup {NoOne}
        /\ rows[s].status # "VOIDED" => Corrections(rows, s) = {}
        /\ rows[s].status = "VOIDED" => \E t \in DOMAIN rows : Corrections(rows, s) = {t}

(* A request whose client may still send it has inserted no record.        *)
Fresh == \A r \in DOMAIN shifts : pc[r] # "done" => load.sent[r] = {}

ShiftInv ==
    /\ DOMAIN shifts \subseteq Requests
    /\ \A s \in DOMAIN shifts : Clocked(shifts[s])
    /\ Replaced(shifts)
    /\ \A s, t \in DOMAIN shifts : s # t => Apart(shifts[s], shifts[t])
    /\ Fresh

(* The cardinalities of ShiftsDisjoint, from Replaced and back.            *)
LEMMA ReplacedOnce ==
    ASSUME NEW rows, DOMAIN rows \subseteq Requests,
           \A s \in DOMAIN rows : rows[s].of \in DOMAIN rows \cup {NoOne}
    PROVE  CorrectedOnce(rows) <=> Replaced(rows)
<1>1. ASSUME NEW s \in DOMAIN rows
      PROVE  IsFiniteSet(Corrections(rows, s))
  <2>1. Corrections(rows, s) \subseteq Requests
    BY DEF Corrections
  <2>. QED  BY <2>1, StartAssumption, FS_Subset
<1>2. ASSUME NEW s \in DOMAIN rows
      PROVE  Cardinality(Corrections(rows, s)) = 0 <=> Corrections(rows, s) = {}
  BY <1>1, FS_EmptySet
<1>3. ASSUME NEW s \in DOMAIN rows
      PROVE  Cardinality(Corrections(rows, s)) = 1 <=> \E t \in DOMAIN rows : Corrections(rows, s) = {t}
  <2>1. Cardinality(Corrections(rows, s)) = 1 <=> \E t : Corrections(rows, s) = {t}
    BY <1>1, FS_Singleton
  <2>2. \A t : Corrections(rows, s) = {t} => t \in DOMAIN rows
    BY DEF Corrections
  <2>. QED  BY <2>1, <2>2
<1>4. CorrectedOnce(rows) <=>
        \A s \in DOMAIN rows : Cardinality(Corrections(rows, s)) = IF rows[s].status = "VOIDED" THEN 1 ELSE 0
  BY DEF CorrectedOnce, Corrections
<1>. QED  BY <1>2, <1>3, <1>4 DEF Replaced

(* The records a workload starts with.                                     *)
LEMMA ShiftInit == Init => ShiftInv
<1>. SUFFICES ASSUME Init PROVE ShiftInv
  OBVIOUS
<1>1. /\ DOMAIN shifts \subseteq Requests /\ DisjointRows(shifts)
      /\ \A s \in DOMAIN shifts :
            /\ shifts[s] \in Shift /\ shifts[s].of \in DOMAIN shifts \cup {NoOne} /\ load.sent[s] = {}
            /\ shifts[s].status = "OPEN" => shifts[s].out = NoOne
  BY StartAssumption DEF Init, StaffInit
<1>2. \A s \in DOMAIN shifts : Clocked(shifts[s])
  BY <1>1 DEF Clocked, Shift
<1>3. Replaced(shifts)
  BY <1>1, ReplacedOnce DEF DisjointRows
<1>. QED  BY <1>1, <1>2, <1>3 DEF ShiftInv, DisjointRows, Fresh

(* The name of a record about to be inserted is new.                       *)
LEMMA NewShift ==
    ASSUME Shape, Fresh, NEW r \in Requests, Pending(r)
    PROVE  r \notin DOMAIN shifts
  BY DEF Shape, Fresh, Pending

(* A step that leaves the records alone.                                   *)
LEMMA SameShifts ==
    ASSUME ShiftInv, NEW r \in Requests, Shape, UNCHANGED <<shifts, load>>,
           \A o \in Requests : pc'[o] = "done" \/ pc'[o] = pc[o] \/ (o = r /\ pc[r] # "done")
    PROVE  ShiftInv'
  BY DEF ShiftInv, Fresh

(* clock_in adds one open record that no record of the employee in force   *)
(* reaches into.                                                           *)
LEMMA ClockInEffect ==
    ASSUME Shape, ShiftInv, NEW r \in Requests, ClockIn(r), ~Ends(r), UNCHANGED payroll
    PROVE  /\ r \notin DOMAIN shifts /\ DOMAIN shifts' = DOMAIN shifts \cup {r}
           /\ \A s \in DOMAIN shifts : shifts'[s] = shifts[s]
           /\ Clocked(shifts'[r]) /\ shifts'[r].of = NoOne /\ shifts'[r].status = "OPEN"
           /\ \A s \in DOMAIN shifts : Apart(shifts[s], shifts'[r])
           /\ pc' = [pc EXCEPT ![r] = "done"] /\ UNCHANGED load
<1>. DEFINE q == req[r]
            row == [employee |-> q.employee, store |-> q.store, date |-> WorkDate(q.store, q.at), in |-> q.at,
                    out |-> NoOne, status |-> "OPEN", of |-> NoOne, updated |-> NoOne]
<1>1. Pending(r) /\ q.kind = "CLOCKIN"
  BY DEF ClockIn, Is, Pending
<1>2. q.at \in Int
  BY <1>1, Asked, StaffBody
<1>3. /\ Overlapping(q.employee, q.at, NoOne) = {}
      /\ shifts' = With(shifts, r, row) /\ pc' = [pc EXCEPT ![r] = "done"] /\ UNCHANGED load
  BY DEF ClockIn, Refuse, Ends, Finish
<1>4. r \notin DOMAIN shifts
  BY <1>1, NewShift DEF ShiftInv
<1>5. DOMAIN shifts' = DOMAIN shifts \cup {r} /\ shifts'[r] = row /\ \A s \in DOMAIN shifts : shifts'[s] = shifts[s]
  BY <1>3, <1>4 DEF With
<1>6. Clocked(row) /\ row.of = NoOne /\ row.status = "OPEN" /\ row.in = q.at /\ row.out = NoOne /\ row.employee = q.employee
  BY <1>2 DEF Clocked
<1>7. ASSUME NEW s \in DOMAIN shifts
      PROVE  Apart(shifts[s], row)
  <2>1. shifts[s].out \in Int \cup {NoOne}
    BY DEF ShiftInv, Clocked
  <2>2. \/ shifts[s].employee # q.employee \/ shifts[s].status = "VOIDED"
        \/ ~Before(q.at, shifts[s].out) \/ ~Before(shifts[s].in, NoOne)
    BY <1>3 DEF Overlapping
  <2>. HIDE DEF row, q
  <2>. QED  BY <1>2, <1>6, <2>1, <2>2 DEF Before, Apart
<1>. QED  BY <1>3, <1>4, <1>5, <1>6, <1>7

(* clock_out closes an open record and changes no other.                   *)
LEMMA ClockOutEffect ==
    ASSUME Shape, ShiftInv, NEW r \in Requests, ClockOut(r), ~Ends(r), UNCHANGED payroll
    PROVE  \E x \in DOMAIN shifts :
           /\ shifts[x].status = "OPEN" /\ DOMAIN shifts' = DOMAIN shifts
           /\ \A s \in DOMAIN shifts \ {x} : shifts'[s] = shifts[s]
           /\ Clocked(shifts'[x]) /\ shifts'[x].of = shifts[x].of /\ shifts'[x].status = "CLOSED"
           /\ shifts'[x].in = shifts[x].in /\ shifts'[x].employee = shifts[x].employee
           /\ pc' = [pc EXCEPT ![r] = "done"] /\ UNCHANGED load
<1>. DEFINE q == req[r]
            x == q.shift
<1>1. Pending(r) /\ q.kind = "CLOCKOUT"
  BY DEF ClockOut, Is, Pending
<1>2. q.at \in Int
  BY <1>1, Asked, StaffBody
<1>3. /\ x \in DOMAIN shifts /\ shifts[x].status = "OPEN"
      /\ shifts' = [shifts EXCEPT ![x] = [shifts[x] EXCEPT !.out = q.at, !.status = "CLOSED", !.updated = began[r]]]
      /\ pc' = [pc EXCEPT ![r] = "done"] /\ UNCHANGED load
  BY DEF ClockOut, Refuse, Ends, Finish
<1>4. Clocked(shifts[x])
  BY <1>3 DEF ShiftInv
<1>5. shifts'[x] = [employee |-> shifts[x].employee, store |-> shifts[x].store, date |-> shifts[x].date, in |-> shifts[x].in,
                    out |-> q.at, status |-> "CLOSED", of |-> shifts[x].of, updated |-> began[r]]
  BY <1>3, <1>4 DEF Clocked
<1>6. Clocked(shifts'[x]) /\ shifts'[x].of = shifts[x].of /\ shifts'[x].status = "CLOSED"
           /\ shifts'[x].in = shifts[x].in /\ shifts'[x].employee = shifts[x].employee
  BY <1>2, <1>4, <1>5 DEF Clocked
<1>. HIDE DEF x, q
<1>. QED  BY <1>3, <1>6

(* The columns an UPDATE leaves alone.                                     *)
LEMMA VoidedRow ==
    ASSUME NEW y, Clocked(y), NEW u, NEW z, z = [y EXCEPT !.status = "VOIDED", !.updated = u]
    PROVE  z = [employee |-> y.employee, store |-> y.store, date |-> y.date, in |-> y.in,
                out |-> y.out, status |-> "VOIDED", of |-> y.of, updated |-> u]
  BY DEF Clocked

(* correct_attendance voids one record and adds the one that replaces it.  *)
LEMMA CorrectEffect ==
    ASSUME Shape, ShiftInv, NEW r \in Requests, CorrectAttendance(r), ~Ends(r), UNCHANGED payroll
    PROVE  \E x \in DOMAIN shifts :
           /\ r \notin DOMAIN shifts /\ DOMAIN shifts' = DOMAIN shifts \cup {r}
           /\ shifts[x].status # "VOIDED"
           /\ \A s \in DOMAIN shifts \ {x} : shifts'[s] = shifts[s]
           /\ Clocked(shifts'[x]) /\ shifts'[x].of = shifts[x].of /\ shifts'[x].status = "VOIDED"
           /\ Clocked(shifts'[r]) /\ shifts'[r].of = x /\ shifts'[r].status # "VOIDED"
           /\ \A s \in DOMAIN shifts \ {x} : Apart(shifts[s], shifts'[r])
           /\ pc' = [pc EXCEPT ![r] = "done"] /\ UNCHANGED load
<1>. DEFINE q == req[r]
            x == q.shift
            s0 == shifts[x]
            void == [s0 EXCEPT !.status = "VOIDED", !.updated = began[r]]
            row == [s0 EXCEPT !.date = WorkDate(s0.store, q.in), !.in = q.in, !.out = q.out, !.of = x, !.updated = NoOne,
                              !.status = IF q.out = NoOne THEN "OPEN" ELSE "CLOSED"]
<1>1. Pending(r) /\ q.kind = "CORRECT"
  BY DEF CorrectAttendance, Is, Pending
<1>2. q.in \in Int /\ q.out \in Int \cup {NoOne}
  BY <1>1, Asked, StaffBody
<1>3. /\ x \in DOMAIN shifts /\ s0.status # "VOIDED" /\ Overlapping(s0.employee, q.in, q.out) \ {x} = {}
      /\ shifts' = With([shifts EXCEPT ![x] = void], r, row)
      /\ pc' = [pc EXCEPT ![r] = "done"] /\ UNCHANGED load
  BY DEF CorrectAttendance, Refuse, Ends, Finish, Correctable
<1>4. r \notin DOMAIN shifts
  BY <1>1, NewShift DEF ShiftInv
<1>5. /\ DOMAIN shifts' = DOMAIN shifts \cup {r} /\ shifts'[r] = row /\ shifts'[x] = void
      /\ \A s \in DOMAIN shifts \ {x} : shifts'[s] = shifts[s]
  <2>. HIDE DEF row, void, x, q
  <2>. QED  BY <1>3, <1>4 DEF With
<1>6. Clocked(s0)
  BY <1>3 DEF ShiftInv
<1>7. void = [employee |-> s0.employee, store |-> s0.store, date |-> s0.date, in |-> s0.in,
              out |-> s0.out, status |-> "VOIDED", of |-> s0.of, updated |-> began[r]]
  BY ONLY <1>6, VoidedRow
<1>8. row = [employee |-> s0.employee, store |-> s0.store, date |-> WorkDate(s0.store, q.in), in |-> q.in,
             out |-> q.out, status |-> IF q.out = NoOne THEN "OPEN" ELSE "CLOSED", of |-> x, updated |-> NoOne]
  <2>. DEFINE st == IF q.out = NoOne THEN "OPEN" ELSE "CLOSED"
              wd == WorkDate(s0.store, q.in)
  <2>1. row = [s0 EXCEPT !.date = wd, !.in = q.in, !.out = q.out, !.of = x, !.updated = NoOne, !.status = st]
    BY Zenon
  <2>. DEFINE in0 == q.in
              out0 == q.out
  <2>. HIDE DEF st, wd, row, s0, x, in0, out0
  <2>2. row = [employee |-> s0.employee, store |-> s0.store, date |-> wd, in |-> in0,
               out |-> out0, status |-> st, of |-> x, updated |-> NoOne]
    <3>1. row = [s0 EXCEPT !.date = wd, !.in = in0, !.out = out0, !.of = x, !.updated = NoOne, !.status = st]
      BY <2>1, Zenon DEF in0, out0
    <3>. QED  BY ONLY <1>6, <3>1 DEF Clocked
  <2>. QED  BY <2>2, Zenon DEF st, wd, in0, out0
<1>9. Clocked(void) /\ void.of = s0.of /\ void.status = "VOIDED"
  <2>1. s0.in \in Int /\ s0.out \in Int \cup {NoOne}
    BY <1>6 DEF Clocked
  <2>. HIDE DEF void, s0
  <2>. QED  BY <1>7, <2>1 DEF Clocked
<1>10. Clocked(row) /\ row.of = x /\ row.status # "VOIDED" /\ row.in = q.in /\ row.out = q.out /\ row.employee = s0.employee
  <2>. HIDE DEF row, s0, x
  <2>. QED  BY <1>2, <1>8 DEF Clocked
<1>11. ASSUME NEW s \in DOMAIN shifts \ {x}
       PROVE  Apart(shifts[s], row)
  <2>1. shifts[s].out \in Int \cup {NoOne} /\ shifts[s].in \in Int
    BY DEF ShiftInv, Clocked
  <2>2. \/ shifts[s].employee # s0.employee \/ shifts[s].status = "VOIDED"
        \/ ~Before(q.in, shifts[s].out) \/ ~Before(shifts[s].in, q.out)
    BY <1>3 DEF Overlapping
  <2>. HIDE DEF row, q, s0, x
  <2>. QED  BY <1>2, <1>10, <2>1, <2>2 DEF Before, Apart
<1>. HIDE DEF row, void, x, q
<1>. QED  BY <1>3, <1>4, <1>5, <1>9, <1>10, <1>11

(* A clock-in adds a record that nothing refers to.                        *)
LEMMA ClockInKept ==
    ASSUME Shape, ShiftInv, NEW r \in Requests, ClockIn(r), ~Ends(r), UNCHANGED payroll
    PROVE  ShiftInv'
<1>. DEFINE D == DOMAIN shifts
<1>1. /\ r \notin D /\ DOMAIN shifts' = D \cup {r}
      /\ \A s \in D : shifts'[s] = shifts[s]
      /\ Clocked(shifts'[r]) /\ shifts'[r].of = NoOne /\ shifts'[r].status = "OPEN"
      /\ \A s \in D : Apart(shifts[s], shifts'[r])
      /\ pc' = [pc EXCEPT ![r] = "done"] /\ UNCHANGED load
  BY ClockInEffect
<1>2. D \subseteq Requests /\ \A s \in D : shifts[s].of \in D \cup {NoOne}
  BY DEF ShiftInv, Replaced
<1>3. r # NoOne
  BY StaffAssumption
<1>4. \A s \in D : Corrections(shifts', s) = Corrections(shifts, s)
  BY <1>1, <1>2, <1>3, StaffAssumption DEF Corrections
<1>5. Corrections(shifts', r) = {}
  BY <1>1, <1>2, <1>3 DEF Corrections
<1>6. Replaced(shifts')
  BY <1>1, <1>2, <1>4, <1>5 DEF Replaced, ShiftInv
<1>7. \A s, t \in DOMAIN shifts' : s # t => Apart(shifts'[s], shifts'[t])
  <2>1. \A a, b : Apart(a, b) <=> Apart(b, a)
    BY DEF Apart
  <2>. QED  BY <1>1, <2>1 DEF ShiftInv
<1>8. Fresh'
  BY <1>1, <1>2 DEF Fresh, ShiftInv, Shape
<1>. QED  BY <1>1, <1>2, <1>6, <1>7, <1>8 DEF ShiftInv

(* A clock-out closes a record that reached to the end of time.            *)
LEMMA ClockOutKept ==
    ASSUME Shape, ShiftInv, NEW r \in Requests, ClockOut(r), ~Ends(r), UNCHANGED payroll
    PROVE  ShiftInv'
<1>. DEFINE D == DOMAIN shifts
<1>1. PICK x \in D :
      /\ shifts[x].status = "OPEN" /\ DOMAIN shifts' = D
      /\ \A s \in D \ {x} : shifts'[s] = shifts[s]
      /\ Clocked(shifts'[x]) /\ shifts'[x].of = shifts[x].of /\ shifts'[x].status = "CLOSED"
      /\ shifts'[x].in = shifts[x].in /\ shifts'[x].employee = shifts[x].employee
      /\ pc' = [pc EXCEPT ![r] = "done"] /\ UNCHANGED load
  BY ClockOutEffect
<1>2. \A s \in D : shifts'[s].of = shifts[s].of
  BY <1>1
<1>3. \A s \in D : Corrections(shifts', s) = Corrections(shifts, s)
  BY <1>1, <1>2 DEF Corrections
<1>4. Replaced(shifts')
  BY <1>1, <1>2, <1>3 DEF Replaced, ShiftInv
<1>5. ASSUME NEW s \in D, NEW t \in D, s # t PROVE Apart(shifts'[s], shifts'[t])
  <2>1. shifts[x].out = NoOne
    BY <1>1 DEF ShiftInv, Clocked
  <2>2. Apart(shifts[s], shifts[t]) /\ Apart(shifts[t], shifts[s])
    BY <1>5 DEF ShiftInv
  <2>3. CASE s = x
    BY <2>1, <2>2, <2>3, <1>1, <1>5 DEF Apart
  <2>4. CASE t = x
    BY <2>1, <2>2, <2>4, <1>1, <1>5 DEF Apart
  <2>5. CASE s # x /\ t # x
    BY <2>2, <2>5, <1>1
  <2>. QED  BY <2>3, <2>4, <2>5
<1>6. Fresh'
  BY <1>1 DEF Fresh, ShiftInv, Shape
<1>. QED  BY <1>1, <1>4, <1>5, <1>6 DEF ShiftInv

(* A correction voids its record and adds the only replacement of it.      *)
LEMMA CorrectKept ==
    ASSUME Shape, ShiftInv, NEW r \in Requests, CorrectAttendance(r), ~Ends(r), UNCHANGED payroll
    PROVE  ShiftInv'
<1>. DEFINE D == DOMAIN shifts
<1>1. PICK x \in D :
      /\ r \notin D /\ DOMAIN shifts' = D \cup {r}
      /\ shifts[x].status # "VOIDED"
      /\ \A s \in D \ {x} : shifts'[s] = shifts[s]
      /\ Clocked(shifts'[x]) /\ shifts'[x].of = shifts[x].of /\ shifts'[x].status = "VOIDED"
      /\ Clocked(shifts'[r]) /\ shifts'[r].of = x /\ shifts'[r].status # "VOIDED"
      /\ \A s \in D \ {x} : Apart(shifts[s], shifts'[r])
      /\ pc' = [pc EXCEPT ![r] = "done"] /\ UNCHANGED load
  BY CorrectEffect
<1>2. D \subseteq Requests /\ \A s \in D : shifts[s].of \in D \cup {NoOne}
  BY DEF ShiftInv, Replaced
<1>3. r # NoOne /\ r # x
  BY <1>1, StaffAssumption
<1>4. \A s \in D : shifts'[s].of = shifts[s].of
  BY <1>1
<1>5. \A s \in D \ {x} : Corrections(shifts', s) = Corrections(shifts, s)
  BY <1>1, <1>4 DEF Corrections
<1>6. Corrections(shifts', x) = {r}
  <2>1. Corrections(shifts, x) = {}
    BY <1>1 DEF ShiftInv, Replaced
  <2>. QED  BY <1>1, <1>4, <2>1 DEF Corrections
<1>7. Corrections(shifts', r) = {}
  BY <1>1, <1>2, <1>3, <1>4 DEF Corrections
<1>8. Replaced(shifts')
  <2>1. \A s \in D \ {x} : /\ shifts[s].status # "VOIDED" => Corrections(shifts, s) = {}
                           /\ shifts[s].status = "VOIDED" => \E t \in D : Corrections(shifts, s) = {t}
    BY DEF ShiftInv, Replaced
  <2>. SUFFICES ASSUME NEW s \in D \cup {r}
                PROVE  /\ shifts'[s].of \in D \cup {r} \cup {NoOne}
                       /\ shifts'[s].status # "VOIDED" => Corrections(shifts', s) = {}
                       /\ shifts'[s].status = "VOIDED" => \E t \in D \cup {r} : Corrections(shifts', s) = {t}
    BY <1>1 DEF Replaced
  <2>2. CASE s = r
    BY <2>2, <1>1, <1>7
  <2>3. CASE s = x
    BY <2>3, <1>1, <1>2, <1>4, <1>6
  <2>4. CASE s \in D \ {x}
    BY <2>4, <2>1, <1>1, <1>2, <1>4, <1>5
  <2>. QED  BY <2>2, <2>3, <2>4
<1>9. \A s, t \in DOMAIN shifts' : s # t => Apart(shifts'[s], shifts'[t])
  <2>1. \A a, b : Apart(a, b) <=> Apart(b, a)
    BY DEF Apart
  <2>2. \A a, b : a.status = "VOIDED" => Apart(a, b)
    BY DEF Apart
  <2>. QED  BY <1>1, <2>1, <2>2 DEF ShiftInv
<1>10. Fresh'
  BY <1>1, <1>2 DEF Fresh, ShiftInv, Shape
<1>. QED  BY <1>1, <1>2, <1>8, <1>9, <1>10 DEF ShiftInv

(* Every step keeps the records disjoint.                                  *)
LEMMA ShiftKept == Shape /\ ShiftInv /\ [Next]_vars => ShiftInv'
<1>. SUFFICES ASSUME Shape, ShiftInv, [Next]_vars PROVE ShiftInv'
  OBVIOUS
<1>1. CASE UNCHANGED vars
  BY <1>1 DEF ShiftInv, Fresh, vars, hr, session
<1>2. CASE Next
  <2>1. PICK r \in Requests :
          (Submit(r) /\ UNCHANGED payroll) \/ (StaffStep(r) /\ UNCHANGED payroll) \/ Step(r) \/ Fail(r)
    BY <1>2 DEF Next
  <2>2. CASE UNCHANGED <<shifts, load>> /\ pc[r] # "done" /\ \E l : pc' = [pc EXCEPT ![r] = l]
    BY <2>2, SameShifts DEF Shape
  <2>3. CASE Submit(r)
    BY <2>3, <2>2 DEF Submit, hr
  <2>4. CASE UNCHANGED <<shifts, load>> /\ Finish(r)
    BY <2>4, SameShifts DEF Shape, Finish
  <2>5. CASE UNCHANGED <<shifts, load, pc>>
    BY <2>5, SameShifts DEF Shape
  <2>6. CASE StaffStep(r) /\ UNCHANGED payroll /\ ~Ends(r)
    <3>1. CASE ReadStatus(r)
      BY <3>1, <2>2, <2>4 DEF ReadStatus, Refuse, Is, hr
    <3>2. CASE HireEmployee(r) \/ ChangeEmploymentStatus(r) \/ ReassignEmployee(r) \/ ChangeCompensation(r)
      BY <3>2, <2>4 DEF HireEmployee, ChangeEmploymentStatus, ReassignEmployee, ChangeCompensation, Refuse, hr
    <3>. QED  BY <2>6, <3>1, <3>2, ClockInKept, ClockOutKept, CorrectKept DEF StaffStep
  <2>7. CASE Step(r)
    <3>1. CASE BeginCalculate(r) \/ LockPeriod(r)
      BY <3>1, <2>2, <2>4 DEF BeginCalculate, LockPeriod, Return, Refuse, Start, Is, hr
    <3>4. CASE Reads(r)
      BY <3>4, <2>4, <2>5, ReadsOnly DEF Reading, Ends, hr
    <3>2. CASE CommitCalculation(r) \/ CreatePeriod(r) \/ MovePeriod(r)
      BY <3>2, <2>4 DEF CommitCalculation, CreatePeriod, MovePeriod, Return, Refuse, hr
    <3>3. CASE PostPeriod(r) \/ ReversePeriod(r)
      BY <3>3, <2>4 DEF PostPeriod, ReversePeriod, Return, Refuse, hr
    <3>. QED  BY <2>7, <3>1, <3>2, <3>3, <3>4 DEF Step, Reads
  <2>8. CASE Fail(r) \/ Ends(r)
    BY <2>8, <2>4 DEF Fail, Return, Refuse, Ends, hr
  <2>. QED  BY <2>1, <2>3, <2>6, <2>7, <2>8
<1>. QED  BY <1>1, <1>2

(* However clock-ins, clock-outs and corrections are interleaved, no two   *)
(* records of an employee that count overlap, and a corrected record has   *)
(* exactly one replacement (ShiftsDisjoint): the freshness of the names    *)
(* and the reach of an open record are what makes it inductive.            *)
THEOREM ShiftsCorrect == Spec => []ShiftsDisjoint
<1>1. Init => ShiftInv
  BY ShiftInit
<1>2. Shape /\ ShiftInv /\ [Next]_vars => ShiftInv'
  BY ShiftKept
<1>3. ShiftInv => ShiftsDisjoint
  BY ReplacedOnce DEF ShiftInv, ShiftsDisjoint, DisjointRows, Replaced
<1>. QED  BY <1>1, <1>2, <1>3, ShapeAlways, PTL DEF Spec

-----------------------------------------------------------------------------
(* Periods.                                                                *)

IsPeriod(x) ==
    x = [status |-> x.status, calculated |-> x.calculated, calcKey |-> x.calcKey, postKey |-> x.postKey, total |-> x.total]

(* A calculation under way holds its period, which is still calculable.    *)
Calculating ==
    \A r \in Requests : pc[r] = "employees" =>
        LET p == req[r].period IN
        /\ held[r] = {p} /\ p \in DOMAIN periods /\ periods[p].status \in {"OPEN", "CALCULATED"}

PeriodInv ==
    /\ DOMAIN held = Requests
    /\ DOMAIN periods \subseteq Periods /\ \A p \in DOMAIN periods : IsPeriod(periods[p])
    /\ DOMAIN results = Periods
    /\ Calculating

(* What one step does to the periods and the sessions that calculate them: *)
(* nothing but period p changes.                                           *)
Touches(p) ==
    /\ p \in DOMAIN periods /\ DOMAIN periods' = DOMAIN periods /\ DOMAIN results' = DOMAIN results
    /\ \A o \in DOMAIN periods \ {p} : periods'[o] = periods[o] /\ results'[o] = results[o]
    /\ IsPeriod(periods'[p])

(* open, approve and cancel change one period's status, along the allowed  *)
(* moves.                                                                  *)
LEMMA MoveEffect ==
    ASSUME Shape, PeriodInv, NEW r \in Requests, MovePeriod(r), ~Ends(r)
    PROVE  LET p == req[r].period IN
           /\ Free(p, r) /\ Touches(p) /\ results' = results
           /\ periods'[p].total = periods[p].total
           /\ periods[p].status = "APPROVED" => periods'[p].status = "CANCELLED"
           /\ periods[p].status # "POSTED" /\ Finish(r)
<1>. DEFINE p == req[r].period
            new == [periods[p] EXCEPT !.status = To(req[r].kind)]
<1>1. /\ Free(p, r) /\ p \in DOMAIN periods
      /\ periods[p].status \in From(req[r].kind) /\ req[r].kind \in {"OPEN", "APPROVE", "CANCEL"}
      /\ periods' = [periods EXCEPT ![p] = new] /\ results' = results /\ Finish(r)
  BY DEF MovePeriod, Return, Refuse, Ends, SetStatus
<1>2. IsPeriod(periods[p])
  BY <1>1 DEF PeriodInv
<1>3. periods'[p] = [status |-> To(req[r].kind), calculated |-> periods[p].calculated, calcKey |-> periods[p].calcKey,
                     postKey |-> periods[p].postKey, total |-> periods[p].total]
  <2>1. periods'[p] = new
    BY <1>1
  <2>. QED  BY <1>2, <2>1 DEF IsPeriod
<1>4. periods[p].status = "APPROVED" => To(req[r].kind) = "CANCELLED"
  BY <1>1 DEF From, To
<1>5. periods[p].status # "POSTED"
  BY <1>1 DEF From
<1>6. IsPeriod(periods'[p]) /\ periods'[p].status = To(req[r].kind) /\ periods'[p].total = periods[p].total
  BY <1>3 DEF IsPeriod
<1>. HIDE DEF p, new
<1>. QED  BY <1>1, <1>4, <1>5, <1>6 DEF Touches, p

(* Posting takes an approved period to POSTED and leaves its results.      *)
LEMMA PostEffect ==
    ASSUME Shape, PeriodInv, NEW r \in Requests, PostPeriod(r), ~Ends(r)
    PROVE  LET p == req[r].period IN
           /\ Free(p, r) /\ Touches(p) /\ results' = results
           /\ periods'[p].total = periods[p].total
           /\ periods[p].status = "APPROVED" /\ periods'[p].status = "POSTED" /\ Finish(r)
<1>. DEFINE p == req[r].period
            k == req[r].key
            new == [periods[p] EXCEPT !.status = "POSTED", !.postKey = k]
<1>1. /\ Free(p, r) /\ p \in DOMAIN periods /\ periods[p].status = "APPROVED"
      /\ periods' = [periods EXCEPT ![p] = new] /\ results' = results /\ Finish(r)
  BY DEF PostPeriod, Return, Refuse, Ends
<1>2. IsPeriod(periods[p])
  BY <1>1 DEF PeriodInv
<1>3. periods'[p] = [status |-> "POSTED", calculated |-> periods[p].calculated, calcKey |-> periods[p].calcKey,
                     postKey |-> k, total |-> periods[p].total]
  <2>1. periods'[p] = new
    BY <1>1
  <2>. QED  BY <1>2, <2>1 DEF IsPeriod
<1>4. IsPeriod(periods'[p]) /\ periods'[p].status = "POSTED" /\ periods'[p].total = periods[p].total
  BY <1>3 DEF IsPeriod
<1>. HIDE DEF p, new
<1>. QED  BY <1>1, <1>4 DEF Touches, p

(* A calculation is written only to a period its session found open or     *)
(* calculated and still holds.                                             *)
LEMMA CommitEffect ==
    ASSUME Shape, PeriodInv, NEW r \in Requests, CommitCalculation(r), ~Ends(r)
    PROVE  LET p == req[r].period IN
           /\ Touches(p) /\ periods[p].status \in {"OPEN", "CALCULATED"}
           /\ periods'[p].status = "CALCULATED" /\ Finish(r)
<1>. DEFINE p == req[r].period
            k == req[r].key
            t == Total(tx[r].rows)
            new == [periods[p] EXCEPT !.status = "CALCULATED", !.calculated = now + 1, !.calcKey = k, !.total = t]
<1>1. /\ pc[r] = "employees" /\ periods' = [periods EXCEPT ![p] = new]
      /\ results' = [results EXCEPT ![p] = tx[r].rows] /\ Finish(r)
  BY DEF CommitCalculation, Return, Refuse, Ends, Is
<1>2. p \in DOMAIN periods /\ periods[p].status \in {"OPEN", "CALCULATED"}
  BY <1>1 DEF PeriodInv, Calculating
<1>3. IsPeriod(periods[p])
  BY <1>2 DEF PeriodInv
<1>4. periods'[p] = [status |-> "CALCULATED", calculated |-> now + 1, calcKey |-> k, postKey |-> periods[p].postKey, total |-> t]
  <2>1. periods'[p] = new
    BY <1>1, <1>2
  <2>. HIDE DEF t
  <2>. QED  BY <1>3, <2>1 DEF IsPeriod
<1>5. IsPeriod(periods'[p]) /\ periods'[p].status = "CALCULATED"
  <2>. HIDE DEF t
  <2>. QED  BY <1>4 DEF IsPeriod
<1>. HIDE DEF p, new, t
<1>. QED  BY <1>1, <1>2, <1>5 DEF Touches, PeriodInv, p

(* create_payroll_period adds a period and leaves the others.              *)
LEMMA CreateEffect ==
    ASSUME Shape, PeriodInv, NEW r \in Requests, CreatePeriod(r), ~Ends(r)
    PROVE  /\ DOMAIN periods \subseteq DOMAIN periods' /\ DOMAIN periods' \subseteq Periods /\ results' = results
           /\ \A p \in DOMAIN periods : periods'[p] = periods[p]
           /\ \A p \in DOMAIN periods' \ DOMAIN periods : IsPeriod(periods'[p])
           /\ Finish(r)
<1>. DEFINE p == req[r].period
            new == [status |-> "DRAFT", calculated |-> 0, calcKey |-> NoOne, postKey |-> NoOne, total |-> Nil]
<1>1. Pending(r) /\ req[r].kind = "CREATE"
  BY DEF CreatePeriod, Is, Pending
<1>2. p \in Periods
  BY <1>1, Asked, StaffBody
<1>3. p \notin DOMAIN periods /\ periods' = With(periods, p, new) /\ results' = results /\ Finish(r)
  BY DEF CreatePeriod, Return, Refuse, Ends
<1>4. IsPeriod(new)
  BY DEF IsPeriod
<1>. HIDE DEF p, new
<1>. QED  BY <1>2, <1>3, <1>4 DEF With, PeriodInv

(* The sessions that do not step, when r ends.                             *)
LEMMA OthersCalculate ==
    ASSUME Shape, PeriodInv, NEW r \in Requests, Finish(r),
           DOMAIN periods \subseteq DOMAIN periods',
           \A o \in Requests \ {r} : pc[o] = "employees" => periods'[req[o].period].status \in {"OPEN", "CALCULATED"}
    PROVE  Calculating' /\ DOMAIN held' = Requests
<1>1. /\ pc' = [pc EXCEPT ![r] = "done"] /\ req' = [req EXCEPT ![r] = NoOne] /\ held' = [held EXCEPT ![r] = {}]
  BY DEF Finish
<1>2. DOMAIN pc = Requests /\ DOMAIN req = Requests /\ DOMAIN held = Requests
  BY DEF Shape, PeriodInv
<1>3. \A o \in Requests \ {r} : pc'[o] = pc[o] /\ req'[o] = req[o] /\ held'[o] = held[o]
  BY <1>1, <1>2
<1>4. pc'[r] = "done"
  BY <1>1, <1>2
<1>. QED  BY <1>1, <1>2, <1>3, <1>4 DEF Calculating, PeriodInv

(* Steps that leave the periods alone: r ends, or nobody begins to         *)
(* calculate.                                                              *)
LEMMA EndKept ==
    ASSUME Shape, PeriodInv, NEW r \in Requests, UNCHANGED <<periods, results>>, Finish(r)
    PROVE  PeriodInv'
<1>1. Calculating' /\ DOMAIN held' = Requests
  BY OthersCalculate DEF PeriodInv, Calculating
<1>. QED  BY <1>1 DEF PeriodInv

(* A step that leaves the periods and their locks alone keeps what is      *)
(* known of calculations.                                                  *)
LEMMA SamePeriods ==
    ASSUME PeriodInv, UNCHANGED <<periods, results, held>>,
           \A o \in Requests : pc'[o] # "employees" \/ (pc'[o] = pc[o] /\ req'[o] = req[o])
    PROVE  PeriodInv'
  BY DEF PeriodInv, Calculating

(* A step of r that only touches its own period, which no other session    *)
(* holds, or which stays calculable.                                       *)
LEMMA TouchKept ==
    ASSUME Shape, PeriodInv, NEW r \in Requests, Finish(r), NEW p, Touches(p),
           Free(p, r) \/ periods'[p].status \in {"OPEN", "CALCULATED"}
    PROVE  PeriodInv'
<1>1. \A o \in Requests \ {r} : pc[o] = "employees" => periods'[req[o].period].status \in {"OPEN", "CALCULATED"}
  BY DEF Touches, Free, PeriodInv, Calculating
<1>2. Calculating' /\ DOMAIN held' = Requests
  BY <1>1, OthersCalculate DEF Touches
<1>. QED  BY <1>2 DEF PeriodInv, Touches

(* The steps of Payroll and of Workforce, as far as periods are concerned. *)
LEMMA PeriodCases ==
    ASSUME NEW r \in Requests, Shape,
           (Submit(r) /\ UNCHANGED payroll) \/ (StaffStep(r) /\ UNCHANGED payroll) \/ Step(r) \/ Fail(r)
    PROVE  \/ UNCHANGED <<periods, results>> /\ Finish(r)
           \/ UNCHANGED <<periods, results, held>> /\ \A o \in Requests : pc'[o] # "employees" \/ (pc'[o] = pc[o] /\ req'[o] = req[o])
           \/ LockPeriod(r) /\ Moves(r, "employees")
           \/ ~Ends(r) /\ (CreatePeriod(r) \/ MovePeriod(r) \/ CommitCalculation(r) \/ PostPeriod(r))
<1>1. CASE Submit(r) /\ UNCHANGED payroll
  BY <1>1 DEF Submit, payroll, Shape
<1>2. CASE Ends(r)
  BY <1>2 DEF Ends, payroll
<1>3. CASE \E l \in {"insert", "lock"} : Moves(r, l) /\ UNCHANGED held
  BY <1>3 DEF Moves, payroll, Shape
<1>4. CASE Reading(r)
  BY <1>4 DEF Reading, payroll
<1>5. CASE Written(r) /\ ~Ends(r) /\ Finish(r)
  <2>1. CASE (StaffStep(r) /\ UNCHANGED payroll) \/ ReversePeriod(r)
    BY <2>1, <1>5 DEF payroll, ReversePeriod, Return, Refuse
  <2>2. CASE Submit(r) /\ UNCHANGED payroll
    BY <2>2, <1>1
  <2>3. CASE Step(r) /\ ~ReversePeriod(r)
    <3>1. CASE BeginCalculate(r) \/ LockPeriod(r)
      BY <3>1, <1>5 DEF BeginCalculate, LockPeriod, Start, Return, Refuse, payroll
    <3>2. CASE Reads(r)
      BY <3>2, <1>4, <1>5, ReadsOnly
    <3>. QED  BY <3>1, <3>2, <2>3, <1>5 DEF Step, Reads
  <2>4. CASE Fail(r)
    BY <2>4, <1>5 DEF Fail, Return, Refuse, Ends
  <2>. QED  BY <2>1, <2>2, <2>3, <2>4
<1>. QED  BY <1>1, <1>2, <1>3, <1>4, <1>5, Cases

(* No period exists and nothing is calculated at the start.                *)
LEMMA PeriodInit == Init => PeriodInv
  BY DEF Init, StaffInit, PeriodInv, Calculating

(* Every step keeps the periods under calculation calculable.              *)
LEMMA PeriodKept == Shape /\ PeriodInv /\ [Next]_vars => PeriodInv'
<1>. SUFFICES ASSUME Shape, PeriodInv, [Next]_vars PROVE PeriodInv'
  OBVIOUS
<1>1. CASE UNCHANGED vars
  BY <1>1 DEF PeriodInv, Calculating, vars, session
<1>2. CASE Next
  <2>1. PICK r \in Requests :
          (Submit(r) /\ UNCHANGED payroll) \/ (StaffStep(r) /\ UNCHANGED payroll) \/ Step(r) \/ Fail(r)
    BY <1>2 DEF Next
  <2>2. CASE UNCHANGED <<periods, results>> /\ Finish(r)
    BY <2>2, EndKept
  <2>3. CASE UNCHANGED <<periods, results, held>> /\ \A o \in Requests : pc'[o] # "employees" \/ (pc'[o] = pc[o] /\ req'[o] = req[o])
    BY <2>3, SamePeriods
  <2>4. CASE LockPeriod(r) /\ Moves(r, "employees")
    <3>1. pc' = [pc EXCEPT ![r] = "employees"] /\ UNCHANGED <<req, periods, results>> /\ DOMAIN pc = Requests
      BY <2>4 DEF Moves, payroll, Shape
    <3>2. CASE Finish(r)
      BY <3>1, <3>2 DEF Finish
    <3>3. CASE ~Finish(r)
      <4>1. LET p == req[r].period IN
              p \in DOMAIN periods /\ periods[p].status \in {"OPEN", "CALCULATED"} /\ held' = [held EXCEPT ![r] = {p}]
        BY <2>4, <3>3 DEF LockPeriod, Return, Refuse
      <4>. QED  BY <3>1, <4>1 DEF PeriodInv, Calculating
    <3>. QED  BY <3>2, <3>3
  <2>5. CASE CreatePeriod(r) /\ ~Ends(r)
    <3>1. /\ DOMAIN periods \subseteq DOMAIN periods' /\ DOMAIN periods' \subseteq Periods /\ results' = results
          /\ \A p \in DOMAIN periods : periods'[p] = periods[p]
          /\ \A p \in DOMAIN periods' \ DOMAIN periods : IsPeriod(periods'[p])
          /\ Finish(r)
      BY <2>5, CreateEffect
    <3>2. Calculating' /\ DOMAIN held' = Requests
      BY <3>1, OthersCalculate DEF PeriodInv, Calculating
    <3>. QED  BY <3>1, <3>2 DEF PeriodInv
  <2>6. CASE MovePeriod(r) /\ ~Ends(r)
    <3>. DEFINE p == req[r].period
    <3>1. Free(p, r) /\ Touches(p) /\ Finish(r)
      BY <2>6, MoveEffect
    <3>. HIDE DEF p
    <3>. QED  BY <3>1, TouchKept
  <2>7. CASE PostPeriod(r) /\ ~Ends(r)
    <3>. DEFINE p == req[r].period
    <3>1. Free(p, r) /\ Touches(p) /\ Finish(r)
      BY <2>7, PostEffect
    <3>. HIDE DEF p
    <3>. QED  BY <3>1, TouchKept
  <2>8. CASE CommitCalculation(r) /\ ~Ends(r)
    <3>. DEFINE p == req[r].period
    <3>1. periods'[p].status \in {"OPEN", "CALCULATED"} /\ Touches(p) /\ Finish(r)
      BY <2>8, CommitEffect
    <3>. HIDE DEF p
    <3>. QED  BY <3>1, TouchKept
  <2>. QED  BY <2>1, <2>2, <2>3, <2>4, <2>5, <2>6, <2>7, <2>8, PeriodCases
<1>. QED  BY <1>1, <1>2

(* What a step may do to a period that was approved.                       *)
FrozenStep ==
    \A p \in DOMAIN periods :
         /\ periods[p].status \in {"APPROVED", "POSTED"} =>
               /\ results'[p] = results[p] /\ periods'[p].total = periods[p].total
               /\ periods'[p].status \in {"APPROVED", "POSTED", "CANCELLED"}
         /\ periods[p].status = "POSTED" => periods'[p] = periods[p]

(* No step of any session changes what an approval froze.                  *)
LEMMA FrozenKept == Shape /\ PeriodInv /\ Next => FrozenStep
<1>. SUFFICES ASSUME Shape, PeriodInv, Next PROVE FrozenStep
  OBVIOUS
<1>1. PICK r \in Requests :
        (Submit(r) /\ UNCHANGED payroll) \/ (StaffStep(r) /\ UNCHANGED payroll) \/ Step(r) \/ Fail(r)
  BY DEF Next
<1>2. CASE UNCHANGED <<periods, results>>
  BY <1>2 DEF FrozenStep
<1>3. CASE LockPeriod(r) /\ Moves(r, "employees")
  BY <1>2, <1>3 DEF Moves, payroll
<1>4. CASE CreatePeriod(r) /\ ~Ends(r)
  BY <1>4, CreateEffect DEF FrozenStep
<1>5. CASE MovePeriod(r) /\ ~Ends(r)
  BY <1>5, MoveEffect DEF FrozenStep, Touches
<1>6. CASE PostPeriod(r) /\ ~Ends(r)
  BY <1>6, PostEffect DEF FrozenStep, Touches
<1>7. CASE CommitCalculation(r) /\ ~Ends(r)
  BY <1>7, CommitEffect DEF FrozenStep, Touches
<1>. QED  BY <1>1, <1>2, <1>3, <1>4, <1>5, <1>6, <1>7, PeriodCases

(* From approval on no recalculation, however it was timed, changes the    *)
(* results or the totals of a period, and a POSTED period never changes    *)
(* again (ApprovedIsFrozen): a calculation under way holds the lock that   *)
(* approving, cancelling and posting need.                                 *)
THEOREM ApprovedStaysFrozen == Spec => ApprovedIsFrozen
<1>1. Init => PeriodInv
  BY PeriodInit
<1>2. Shape /\ PeriodInv /\ [Next]_vars => PeriodInv'
  BY PeriodKept
<1>3. Shape /\ PeriodInv /\ [Next]_vars => [FrozenStep]_vars
  BY FrozenKept
<1>4. ApprovedIsFrozen <=> [][FrozenStep]_vars
  BY DEF ApprovedIsFrozen, FrozenStep
<1>. QED  BY <1>1, <1>2, <1>3, <1>4, ShapeAlways, PTL DEF Spec

-----------------------------------------------------------------------------
(* What a calculation computes.                                            *)

(* The larger of two numbers.                                              *)
LEMMA MaxOfTwo == ASSUME NEW a \in Int, NEW b \in Int PROVE Max({a, b}) = IF a >= b THEN a ELSE b
  BY DEF Max

(* The smaller of two numbers.                                             *)
LEMMA MinOfTwo == ASSUME NEW a \in Int, NEW b \in Int PROVE Min({a, b}) = IF a <= b THEN a ELSE b
  BY DEF Min

(* Nothing negative comes out of rounding something that is not.           *)
LEMMA RoundedNat == ASSUME NEW n \in Nat, NEW d \in Nat \ {0} PROVE RoundHalfUp(n, d) \in Nat
  BY DEF RoundHalfUp

(* Neither does it out of a product.                                       *)
LEMMA ProductNat == ASSUME NEW a \in Nat, NEW b \in Nat PROVE a * b \in Nat
  OBVIOUS

(* A record with all its columns, and time that runs forward.              *)
Recorded(x) ==
    /\ x \in Shift
    /\ x.status = "OPEN" => x.out = NoOne
    /\ x.status = "CLOSED" => x.out # NoOne /\ x.in < x.out

TimeInv ==
    /\ now \in Nat /\ began \in [Requests -> Nat]
    /\ \A s \in DOMAIN shifts : Recorded(shifts[s])

(* The records a workload starts with have their columns.                  *)
LEMMA TimeInit == Init => TimeInv
  BY StartAssumption DEF Init, StaffInit, TimeInv, Recorded

(* The clock.                                                              *)
LEMMA ClockKept ==
    ASSUME TimeInv, NEW r \in Requests, Shape,
           (Submit(r) /\ UNCHANGED payroll) \/ (StaffStep(r) /\ UNCHANGED payroll) \/ Step(r) \/ Fail(r)
    PROVE  now' \in Nat /\ began' \in [Requests -> Nat]
<1>1. CASE Finish(r) /\ (UNCHANGED now \/ now' = now + 1)
  BY <1>1 DEF Finish, TimeInv
<1>2. CASE UNCHANGED <<now, began>>
  BY <1>2 DEF TimeInv
<1>3. CASE Submit(r)
  BY <1>3 DEF Submit, TimeInv
<1>4. CASE StaffStep(r)
  <2>1. CASE ReadStatus(r)
    BY <2>1, <1>1, <1>2 DEF ReadStatus, Refuse
  <2>2. CASE HireEmployee(r) \/ ChangeEmploymentStatus(r) \/ ReassignEmployee(r) \/ ChangeCompensation(r)
    BY <2>2, <1>1 DEF HireEmployee, ChangeEmploymentStatus, ReassignEmployee, ChangeCompensation, Refuse
  <2>3. CASE ClockIn(r) \/ ClockOut(r) \/ CorrectAttendance(r)
    BY <2>3, <1>1 DEF ClockIn, ClockOut, CorrectAttendance, Refuse
  <2>. QED  BY <1>4, <2>1, <2>2, <2>3 DEF StaffStep
<1>5. CASE Step(r)
  <2>1. CASE BeginCalculate(r) \/ LockPeriod(r)
    BY <2>1, <1>1, <1>2 DEF BeginCalculate, LockPeriod, Start, Return, Refuse
  <2>2. CASE CommitCalculation(r)
    BY <2>2, <1>1 DEF CommitCalculation, Return, Refuse
  <2>3. CASE CreatePeriod(r) \/ MovePeriod(r) \/ PostPeriod(r) \/ ReversePeriod(r)
    BY <2>3, <1>1 DEF CreatePeriod, MovePeriod, PostPeriod, ReversePeriod, Return, Refuse
  <2>4. CASE Reads(r)
    BY <2>4, <1>1, <1>2, ReadsOnly DEF Reading, Ends
  <2>. QED  BY <1>5, <2>1, <2>2, <2>3, <2>4 DEF Step, Reads
<1>6. CASE Fail(r)
  BY <1>6, <1>1 DEF Fail, Return, Refuse
<1>. QED  BY <1>3, <1>4, <1>5, <1>6

(* A work date is a date.                                                  *)
LEMMA WorkDateInt == ASSUME NEW s \in Stores, NEW t \in Int PROVE WorkDate(s, t) \in Int
  BY StaffAssumption DEF WorkDate

(* clock_in writes a whole record.                                         *)
LEMMA ClockInRecorded ==
    ASSUME Shape, TimeInv, NEW r \in Requests, ClockIn(r)
    PROVE  \A s \in DOMAIN shifts' : Recorded(shifts'[s])
<1>. DEFINE q == req[r]
            wd == WorkDate(q.store, q.at)
            row == [employee |-> q.employee, store |-> q.store, date |-> wd, in |-> q.at,
                    out |-> NoOne, status |-> "OPEN", of |-> NoOne, updated |-> NoOne]
<1>1. Pending(r) /\ q.kind = "CLOCKIN"
  BY DEF ClockIn, Is, Pending
<1>2. q.at \in Int /\ q.store \in Stores /\ q.employee \in Employees
  BY <1>1, Asked, StaffBody
<1>3. wd \in Int
  BY <1>2, WorkDateInt
<1>4. shifts' = shifts \/ shifts' = With(shifts, r, row)
  BY DEF ClockIn, Refuse, hr
<1>. HIDE DEF wd
<1>5. Recorded(row)
  BY <1>2, <1>3 DEF Recorded, Shift
<1>. HIDE DEF row
<1>. QED  BY <1>4, <1>5 DEF With, TimeInv

(* clock_out closes a record after it began.                               *)
LEMMA ClockOutRecorded ==
    ASSUME Shape, TimeInv, NEW r \in Requests, ClockOut(r)
    PROVE  \A s \in DOMAIN shifts' : Recorded(shifts'[s])
<1>. DEFINE q == req[r]
            x == q.shift
            b == began[r]
            row == [shifts[x] EXCEPT !.out = q.at, !.status = "CLOSED", !.updated = b]
<1>1. Pending(r) /\ q.kind = "CLOCKOUT"
  BY DEF ClockOut, Is, Pending
<1>2. q.at \in Int /\ b \in Nat
  BY <1>1, Asked, StaffBody DEF TimeInv
<1>3. shifts' = shifts \/ (x \in DOMAIN shifts /\ shifts[x].in < q.at /\ shifts' = [shifts EXCEPT ![x] = row])
  <2>1. shifts' = shifts \/ (x \in DOMAIN shifts /\ ~(q.at <= shifts[x].in) /\ shifts' = [shifts EXCEPT ![x] = row])
    BY DEF ClockOut, Refuse, hr
  <2>2. x \in DOMAIN shifts => shifts[x].in \in Int
    BY DEF TimeInv, Recorded, Shift
  <2>. QED  BY <1>2, <2>1, <2>2
<1>4. ASSUME x \in DOMAIN shifts, shifts[x].in < q.at
      PROVE  Recorded(row)
  <2>1. Recorded(shifts[x])
    BY <1>4 DEF TimeInv
  <2>. HIDE DEF b, q, x
  <2>. QED  BY <1>2, <1>4, <2>1, StaffAssumption DEF Recorded, Shift
<1>. HIDE DEF row, x
<1>. QED  BY <1>3, <1>4 DEF TimeInv

(* correct_attendance leaves the voided record and its replacement whole.  *)
LEMMA CorrectRecorded ==
    ASSUME Shape, TimeInv, NEW r \in Requests, CorrectAttendance(r)
    PROVE  \A s \in DOMAIN shifts' : Recorded(shifts'[s])
<1>. DEFINE q == req[r]
            x == q.shift
            s0 == shifts[x]
            b == began[r]
            wd == WorkDate(s0.store, q.in)
            st == IF q.out = NoOne THEN "OPEN" ELSE "CLOSED"
            void == [s0 EXCEPT !.status = "VOIDED", !.updated = b]
            row == [s0 EXCEPT !.date = wd, !.in = q.in, !.out = q.out, !.of = x, !.updated = NoOne, !.status = st]
<1>1. Pending(r) /\ q.kind = "CORRECT"
  BY DEF CorrectAttendance, Is, Pending
<1>2. q.in \in Int /\ q.out \in Int \cup {NoOne} /\ x \in Requests /\ b \in Nat
  BY <1>1, Asked, StaffBody DEF TimeInv
<1>3. \/ shifts' = shifts
      \/ x \in DOMAIN shifts /\ Before(q.in, q.out) /\ shifts' = With([shifts EXCEPT ![x] = void], r, row)
  BY DEF CorrectAttendance, Refuse, hr
<1>4. ASSUME x \in DOMAIN shifts, Before(q.in, q.out)
      PROVE  Recorded(void) /\ Recorded(row)
  <2>1. Recorded(s0)
    BY <1>4 DEF TimeInv
  <2>2. wd \in Int
    <3>1. s0.store \in Stores
      BY <2>1 DEF Recorded, Shift
    <3>. QED  BY <3>1, <1>2, WorkDateInt
  <2>3. (st = "OPEN" => q.out = NoOne) /\ (st = "CLOSED" => q.out \in Int /\ q.in < q.out) /\ st \in {"OPEN", "CLOSED"}
    BY <1>2, <1>4 DEF Before
  <2>. HIDE DEF b, q, x, s0, wd, st
  <2>4. Recorded(void)
    BY <1>2, <2>1 DEF Recorded, Shift
  <2>5. Recorded(row)
    BY <1>2, <2>1, <2>2, <2>3, StaffAssumption DEF Recorded, Shift
  <2>. QED  BY <2>4, <2>5
<1>. HIDE DEF row, void, x
<1>. QED  BY <1>3, <1>4 DEF With, TimeInv

(* Every step leaves whole records.                                        *)
LEMMA TimeKept == Shape /\ TimeInv /\ [Next]_vars => TimeInv'
<1>. SUFFICES ASSUME Shape, TimeInv, [Next]_vars PROVE TimeInv'
  OBVIOUS
<1>1. CASE UNCHANGED vars
  BY <1>1 DEF TimeInv, vars, hr, session
<1>2. CASE Next
  <2>1. PICK r \in Requests :
          (Submit(r) /\ UNCHANGED payroll) \/ (StaffStep(r) /\ UNCHANGED payroll) \/ Step(r) \/ Fail(r)
    BY <1>2 DEF Next
  <2>2. now' \in Nat /\ began' \in [Requests -> Nat]
    BY <2>1, ClockKept
  <2>3. CASE UNCHANGED shifts
    BY <2>2, <2>3 DEF TimeInv
  <2>4. CASE ClockIn(r) \/ ClockOut(r) \/ CorrectAttendance(r)
    BY <2>2, <2>4, ClockInRecorded, ClockOutRecorded, CorrectRecorded DEF TimeInv
  <2>5. CASE Submit(r) \/ Ends(r)
    BY <2>3, <2>5 DEF Submit, Ends, hr
  <2>6. CASE StaffStep(r)
    <3>1. CASE ReadStatus(r)
      BY <3>1, <2>3 DEF ReadStatus, Refuse, hr
    <3>2. CASE HireEmployee(r) \/ ChangeEmploymentStatus(r) \/ ReassignEmployee(r) \/ ChangeCompensation(r)
      BY <3>2, <2>3 DEF HireEmployee, ChangeEmploymentStatus, ReassignEmployee, ChangeCompensation, Refuse, hr
    <3>. QED  BY <2>6, <2>4, <3>1, <3>2 DEF StaffStep
  <2>7. CASE Step(r)
    <3>1. CASE BeginCalculate(r) \/ LockPeriod(r) \/ CommitCalculation(r)
      BY <3>1, <2>3 DEF BeginCalculate, LockPeriod, CommitCalculation, Return, Refuse, Start, hr
    <3>3. CASE Reads(r)
      BY <3>3, <2>3, ReadsOnly DEF Reading, Ends, hr
    <3>2. CASE CreatePeriod(r) \/ MovePeriod(r) \/ PostPeriod(r) \/ ReversePeriod(r)
      BY <3>2, <2>3 DEF CreatePeriod, MovePeriod, PostPeriod, ReversePeriod, Return, Refuse, hr
    <3>. QED  BY <2>7, <3>1, <3>2, <3>3 DEF Step, Reads
  <2>8. CASE Fail(r)
    BY <2>8, <2>3 DEF Fail, Return, Refuse, hr
  <2>. QED  BY <2>1, <2>5, <2>6, <2>7, <2>8
<1>. QED  BY <1>1, <1>2

(* The time of the records that count is not negative.                     *)
LEMMA WorkedNat ==
    ASSUME ShiftInv, TimeInv, NEW e, NEW p, NEW from, NEW to
    PROVE  Worked(e, p, from, to) \in Nat
<1>. DEFINE S == {s \in DOMAIN shifts : /\ shifts[s].employee = e /\ shifts[s].store = PayStore[p]
                                        /\ from <= shifts[s].date /\ shifts[s].date <= to /\ shifts[s].status = "CLOSED"}
            f == [s \in S |-> shifts[s].out - shifts[s].in]
<1>1. IsFiniteSet(S)
  <2>1. S \subseteq Requests
    BY DEF ShiftInv
  <2>. HIDE DEF S
  <2>. QED  BY <2>1, StartAssumption, FS_Subset
<1>2. \A s \in S : f[s] \in Nat
  <2>. SUFFICES ASSUME NEW s \in S PROVE f[s] \in Nat
    OBVIOUS
  <2>1. Recorded(shifts[s]) /\ shifts[s].status = "CLOSED"
    BY DEF TimeInv
  <2>2. shifts[s].in \in Int /\ shifts[s].out \in Int /\ shifts[s].in < shifts[s].out
    BY <2>1 DEF Recorded, Shift
  <2>3. f[s] = shifts[s].out - shifts[s].in
    BY Zenon
  <2>. QED  BY ONLY <2>2, <2>3
<1>3. Worked(e, p, from, to) = SumFunctionOnSet(f, S)
  BY DEF Worked, SumOver
<1>. HIDE DEF S, f
<1>4. SumFunctionOnSet(f, S) \in Nat
  BY ONLY <1>1, <1>2, SumNat
<1>. QED  BY <1>3, <1>4

(* A row of a history is not empty.                                        *)
LEMMA RowOrdered ==
    ASSUME NEW V, NEW h \in Seq(Row(V)), Unbroken(h), NEW c \in ToSet(h)
    PROVE  c \in Row(V) /\ (c.to # NoOne => c.from <= c.to)
<1>1. PICK i \in 1 .. Len(h) : c = h[i]
  BY DEF ToSet
<1>2. c \in Row(V)
  BY <1>1
<1>3. CASE i = Len(h)
  BY <1>1, <1>2, <1>3 DEF Unbroken, Current
<1>4. CASE i # Len(h)
  <2>1. i \in 1 .. Len(h) - 1
    BY <1>4
  <2>. QED  BY <1>1, <1>2, <2>1 DEF Unbroken
<1>. QED  BY <1>2, <1>3, <1>4

(* A segment as the calculation uses it.                                   *)
Clipped(s, p) ==
    /\ s.from \in Int /\ s.to \in Int /\ s.from <= s.to /\ s.pay \in Compensation
    /\ PayStart[p] <= s.from /\ s.to <= PayEnd[p]

(* The rows of a pay history that reach into a period, and what is left of *)
(* each.                                                                   *)
Reaching(e, p) == {c \in ToSet(paid[e]) : c.from <= PayEnd[p] /\ (c.to = NoOne \/ c.to >= PayStart[p])}
Clip(c, p) == [from |-> Max({c.from, PayStart[p]}), to |-> IF c.to = NoOne THEN PayEnd[p] ELSE Min({c.to, PayEnd[p]}), pay |-> c.value]

(* Segments, row by row.                                                   *)
LEMMA SegmentsClip == ASSUME NEW e, NEW p PROVE Segments(e, p) = {Clip(c, p) : c \in Reaching(e, p)}
  BY Zenon DEF Segments, Clip, Reaching

(* There are finitely many segments, none is empty and all lie within the  *)
(* period.                                                                 *)
LEMMA SegmentsClipped ==
    ASSUME HistoryInv, NEW e \in Employees, NEW p \in Periods
    PROVE  IsFiniteSet(Segments(e, p)) /\ \A s \in Segments(e, p) : Clipped(s, p)
<1>1. paid[e] \in Seq(Row(Compensation)) /\ Unbroken(paid[e])
  BY DEF HistoryInv, Sound, UnbrokenSince
<1>2. PayStart[p] \in Int /\ PayEnd[p] \in Int /\ PayStart[p] <= PayEnd[p]
  BY PayrollAssumption
<1>3. IsFiniteSet(Segments(e, p))
  <2>1. IsFiniteSet(DOMAIN paid[e])
    <3>1. PICK n \in Int : DOMAIN paid[e] = 1 .. n
      BY <1>1
    <3>2. IsFiniteSet(1 .. n)
      BY FS_Interval
    <3>. QED  BY ONLY <3>1, <3>2
  <2>. DEFINE h == paid[e]
              g == [c \in Reaching(e, p) |-> Clip(c, p)]
  <2>2. IsFiniteSet({h[x] : x \in DOMAIN h})
    <3>. HIDE DEF h
    <3>. QED  BY <2>1, FiniteImage DEF h
  <2>3. IsFiniteSet(Reaching(e, p))
    <3>1. Reaching(e, p) \subseteq {h[x] : x \in DOMAIN h}
      BY DEF Reaching, ToSet
    <3>. HIDE DEF h
    <3>. QED  BY <2>2, <3>1, FS_Subset
  <2>4. Segments(e, p) = {g[x] : x \in Reaching(e, p)}
    BY SegmentsClip
  <2>. HIDE DEF g
  <2>. QED  BY <2>3, <2>4, FiniteImage
<1>4. ASSUME NEW c \in Reaching(e, p)
      PROVE  Clipped(Clip(c, p), p)
  <2>1. c \in Row(Compensation) /\ (c.to # NoOne => c.from <= c.to)
    BY <1>1, RowOrdered DEF Reaching
  <2>2. c.from \in Int /\ c.to \in Int \cup {NoOne} /\ c.value \in Compensation
    BY <2>1 DEF Row
  <2>3. c.from <= PayEnd[p] /\ (c.to = NoOne \/ c.to >= PayStart[p])
    BY DEF Reaching
  <2>4. Max({c.from, PayStart[p]}) = IF c.from >= PayStart[p] THEN c.from ELSE PayStart[p]
    BY ONLY <1>2, <2>2, MaxOfTwo
  <2>5. c.to # NoOne => Min({c.to, PayEnd[p]}) = IF c.to <= PayEnd[p] THEN c.to ELSE PayEnd[p]
    BY ONLY <1>2, <2>2, MinOfTwo
  <2>. QED  BY <1>2, <2>1, <2>2, <2>3, <2>4, <2>5 DEF Clipped, Clip
<1>. QED  BY <1>3, <1>4, SegmentsClip

(* What a segment earns is not negative.                                   *)
LEMMA EarnedNat ==
    ASSUME NEW p \in Periods, NEW s, Clipped(s, p), NEW ticks \in Nat
    PROVE  Earned(p, s, ticks) \in Nat
<1>. DEFINE over == IF s.pay.overtime /\ OvertimeThreshold # NoOne THEN Max({0, ticks - OvertimeThreshold}) ELSE 0
            rate == s.pay.rate
            n == PayEnd[p] - PayStart[p] + 1
            days == Days(s.from, s.to)
            regular == RoundHalfUp((ticks - over) * rate, TicksPerHour)
            extra == RoundHalfUp(over * rate * OvertimeNum, TicksPerHour * OvertimeDen)
            salary == RoundHalfUp(rate * days, n)
<1>1. ticks \in Nat
  OBVIOUS
<1>2. rate \in Nat
  BY DEF Clipped, Compensation
<1>3. days \in Nat /\ n \in Nat \ {0}
  BY PayrollAssumption DEF Clipped, Days
<1>4. over \in Nat /\ ticks - over \in Nat
  <2>1. CASE s.pay.overtime /\ OvertimeThreshold # NoOne
    <3>1. OvertimeThreshold \in Nat
      BY <2>1, PayrollAssumption
    <3>2. Max({0, ticks - OvertimeThreshold}) = IF 0 >= ticks - OvertimeThreshold THEN 0 ELSE ticks - OvertimeThreshold
      <4>1. ticks - OvertimeThreshold \in Int
        BY <1>1, <3>1
      <4>. QED  BY ONLY <4>1, MaxOfTwo
    <3>. QED  BY <1>1, <2>1, <3>1, <3>2
  <2>2. CASE ~(s.pay.overtime /\ OvertimeThreshold # NoOne)
    <3>. QED  BY <1>1, <2>2
  <2>. QED  BY <2>1, <2>2
<1>5. TicksPerHour \in Nat \ {0} /\ OvertimeDen \in Nat \ {0} /\ OvertimeNum \in Nat
  BY PayrollAssumption
<1>6. TicksPerHour * OvertimeDen \in Nat \ {0}
  BY ONLY <1>5
<1>. HIDE DEF over, rate, n, days
<1>7. regular \in Nat
  <2>1. (ticks - over) * rate \in Nat
    BY ONLY <1>2, <1>4, ProductNat
  <2>. QED  BY ONLY <1>5, <2>1, RoundedNat DEF regular
<1>8. extra \in Nat
  <2>1. over * rate \in Nat
    BY ONLY <1>2, <1>4, ProductNat
  <2>2. over * rate * OvertimeNum \in Nat
    BY ONLY <1>5, <2>1, ProductNat
  <2>. QED  BY ONLY <1>6, <2>2, RoundedNat DEF extra
<1>9. salary \in Nat
  <2>1. rate * days \in Nat
    BY ONLY <1>2, <1>3, ProductNat
  <2>. QED  BY ONLY <1>3, <2>1, RoundedNat DEF salary
<1>10. Earned(p, s, ticks) = IF s.pay.type = "SALARY" THEN salary ELSE regular + extra
  BY Zenon DEF Earned, regular, extra, salary, over, rate, n, days
<1>. HIDE DEF regular, extra, salary
<1>. QED  BY <1>7, <1>8, <1>9, <1>10

(* The segments of one employee and the time worked in each, however old.  *)
Attended(worked, p) ==
    IsFiniteSet(DOMAIN worked) /\ \A s \in DOMAIN worked : Clipped(s, p) /\ worked[s] \in Nat

(* The hours of a result row.                                              *)
LEMMA HoursNat ==
    ASSUME NEW p, NEW worked, Attended(worked, p)
    PROVE  Hours(worked) \in Nat
<1>. DEFINE S == {s \in DOMAIN worked : s.pay.type = "HOURLY"}
            f == [s \in S |-> worked[s]]
<1>1. IsFiniteSet(S)
  <2>1. S \subseteq DOMAIN worked /\ IsFiniteSet(DOMAIN worked)
    BY DEF Attended
  <2>. HIDE DEF S
  <2>. QED  BY <2>1, FS_Subset
<1>2. \A s \in S : f[s] \in Nat
  BY DEF Attended
<1>3. Hours(worked) = SumFunctionOnSet(f, S)
  BY DEF Hours, SumOver
<1>. HIDE DEF S, f
<1>. QED  BY <1>1, <1>2, <1>3, SumNat

(* The gross pay.                                                          *)
LEMMA GrossNat ==
    ASSUME NEW p \in Periods, NEW worked, Attended(worked, p)
    PROVE  Gross(p, worked) \in Nat
<1>. DEFINE S == DOMAIN worked
            f == [s \in S |-> Earned(p, s, worked[s])]
<1>1. IsFiniteSet(S) /\ \A s \in S : Clipped(s, p) /\ worked[s] \in Nat
  BY DEF Attended
<1>2. \A s \in S : f[s] \in Nat
  BY <1>1, EarnedNat
<1>3. Gross(p, worked) = SumFunctionOnSet(f, S)
  BY DEF Gross, SumOver
<1>. HIDE DEF S, f
<1>. QED  BY <1>1, <1>2, <1>3, SumNat

(* A deduction with a well-formed bracket table.                           *)
Tabled(d) == d \in Deduction /\ \A i \in DOMAIN d.brackets : d.brackets[i].upto = NoOne => i = Len(d.brackets)

(* A member of a sequence.                                                 *)
LEMMA SeqMember == ASSUME NEW T, NEW s \in Seq(T), NEW i \in DOMAIN s PROVE i \in 1 .. Len(s) /\ s[i] \in T
  OBVIOUS

(* What the brackets withhold, in hundredths.                              *)
LEMMA BracketedNat ==
    ASSUME NEW d, Tabled(d), NEW base \in Nat
    PROVE  Bracketed(base, d.brackets) \in Nat
<1>1. PICK table \in Seq([upto : Nat \cup {NoOne}, percent : Nat]) :
        table = d.brackets /\ \A i \in DOMAIN table : table[i].upto = NoOne => i = Len(table)
  BY DEF Tabled, Deduction
<1>. DEFINE lower(i) == IF i = 1 THEN 0 ELSE table[i - 1].upto
            upper(i) == IF table[i].upto = NoOne THEN base ELSE Min({base, table[i].upto})
            f == [i \in DOMAIN table |-> Max({0, upper(i) - lower(i)}) * table[i].percent]
<1>2. IsFiniteSet(DOMAIN table)
  <2>1. PICK n \in Int : DOMAIN table = 1 .. n
    OBVIOUS
  <2>2. IsFiniteSet(1 .. n)
    BY FS_Interval
  <2>. QED  BY ONLY <2>1, <2>2
<1>3. ASSUME NEW i \in DOMAIN table
      PROVE  f[i] \in Nat
  <2>1. i \in 1 .. Len(table) /\ table[i].percent \in Nat /\ table[i].upto \in Nat \cup {NoOne}
    <3>1. i \in 1 .. Len(table) /\ table[i] \in [upto : Nat \cup {NoOne}, percent : Nat]
      BY SeqMember
    <3>. QED  BY ONLY <3>1
  <2>2. lower(i) \in Int
    <3>1. CASE i = 1
      BY <3>1
    <3>2. CASE i # 1
      <4>1. i - 1 \in DOMAIN table /\ i - 1 # Len(table)
        BY <2>1, <3>2
      <4>2. PICK j \in DOMAIN table : j = i - 1
        BY <4>1
      <4>3. table[j] \in [upto : Nat \cup {NoOne}, percent : Nat]
        BY SeqMember
      <4>4. table[j].upto # NoOne
        BY <4>1, <4>2, <1>1
      <4>5. table[i - 1].upto \in Nat
        BY ONLY <4>2, <4>3, <4>4
      <4>. QED  BY <3>2, <4>5
    <3>. QED  BY <3>1, <3>2
  <2>3. upper(i) \in Int
    <3>1. table[i].upto # NoOne => Min({base, table[i].upto}) = IF base <= table[i].upto THEN base ELSE table[i].upto
      BY <2>1, MinOfTwo
    <3>. QED  BY <2>1, <3>1
  <2>4. PICK u \in Int, l \in Int : u = upper(i) /\ l = lower(i)
    BY <2>2, <2>3
  <2>5. Max({0, u - l}) \in Nat
    <3>1. u - l \in Int
      OBVIOUS
    <3>2. Max({0, u - l}) = IF 0 >= u - l THEN 0 ELSE u - l
      BY ONLY <3>1, MaxOfTwo
    <3>. QED  BY ONLY <3>1, <3>2
  <2>6. f[i] = Max({0, u - l}) * table[i].percent
    BY <2>4
  <2>. QED  BY ONLY <2>1, <2>5, <2>6, ProductNat
<1>4. Bracketed(base, table) = SumFunctionOnSet(f, DOMAIN table)
  BY DEF Bracketed, SumOver
<1>. HIDE DEF f
<1>. QED  BY <1>1, <1>2, <1>3, <1>4, SumNat

(* What a deduction takes of a gross pay.                                  *)
LEMMA WithheldNat ==
    ASSUME NEW d, Tabled(d), NEW gross \in Nat
    PROVE  Withheld(d, gross) \in Nat
<1>1. d.value \in Nat
  BY DEF Tabled, Deduction
<1>2. RoundHalfUp(gross * d.value, 100) \in Nat
  <2>1. gross * d.value \in Nat
    BY ONLY <1>1, gross \in Nat, ProductNat
  <2>. QED  BY <2>1, RoundedNat
<1>3. RoundHalfUp(Bracketed(gross, d.brackets), 100) \in Nat
  BY BracketedNat, RoundedNat
<1>. QED  BY <1>1, <1>2, <1>3 DEF Withheld

(* A row of results: no amount is negative, and every cent of gross is net *)
(* pay or withheld.                                                        *)
Paid(row) == row \in Result /\ row.pay.gross = row.pay.net + row.pay.deductions

(* What calculate_employee_pay returns, once the CHECK has let it through. *)
LEMMA PayPaid ==
    ASSUME NEW p \in Periods, NEW worked, Attended(worked, p), Storable(Pay(p, worked))
    PROVE  Paid([hours |-> Hours(worked), pay |-> Pay(p, worked)])
<1>1. PICK h \in Nat, gross \in Nat : h = Hours(worked) /\ gross = Gross(p, worked)
  BY HoursNat, GrossNat
<1>. DEFINE S(employer) == {i \in DOMAIN Deductions : Deductions[i].employer = employer}
            f(employer) == [i \in S(employer) |-> Withheld(Deductions[i], gross)]
            sum(employer) == SumFunctionOnSet(f(employer), S(employer))
<1>2. ASSUME NEW b \in BOOLEAN
      PROVE  sum(b) \in Nat
  <2>1. IsFiniteSet(S(b))
    <3>1. PICK n \in Int : DOMAIN Deductions = 1 .. n
      BY PayrollAssumption
    <3>2. IsFiniteSet(1 .. n)
      BY FS_Interval
    <3>3. S(b) \subseteq 1 .. n
      BY <3>1
    <3>. QED  BY ONLY <3>2, <3>3, FS_Subset
  <2>2. ASSUME NEW i \in S(b)
        PROVE  f(b)[i] \in Nat
    <3>1. Tabled(Deductions[i])
      <4>1. Deductions[i] \in Deduction /\ Deductions[i] \in ToSet(Deductions)
        BY PayrollAssumption DEF ToSet
      <4>. QED  BY <4>1, PayrollAssumption DEF Tabled
    <3>2. f(b)[i] = Withheld(Deductions[i], gross)
      BY Zenon
    <3>. QED  BY <3>1, <3>2, WithheldNat
  <2>. HIDE DEF S, f
  <2>. QED  BY <2>1, <2>2, SumNat
<1>3. Pay(p, worked) = [gross |-> gross, deductions |-> sum(FALSE), contributions |-> sum(TRUE), net |-> gross - sum(FALSE)]
  BY <1>1 DEF Pay, SumOver
<1>4. PICK a \in Nat, c \in Nat : a = sum(FALSE) /\ c = sum(TRUE)
  BY <1>2
<1>. HIDE DEF sum
<1>5. Pay(p, worked) = [gross |-> gross, deductions |-> a, contributions |-> c, net |-> gross - a]
  BY <1>3, <1>4
<1>6. gross - a >= 0
  BY <1>5 DEF Storable
<1>. QED  BY ONLY <1>1, <1>5, <1>6, gross \in Nat, a \in Nat, c \in Nat, h \in Nat DEF Paid, Result, Amounts

(* Rows of results, and what they add up to.                               *)
Rows(rows) == IsFiniteSet(DOMAIN rows) /\ \A e \in DOMAIN rows : Paid(rows[e])

(* The totals of a period are amounts, and every cent of the gross is net  *)
(* pay or withheld.                                                        *)
LEMMA TotalAmounts ==
    ASSUME NEW rows, Rows(rows)
    PROVE  Total(rows) \in Amounts /\ Total(rows).gross = Total(rows).net + Total(rows).deductions
<1>. DEFINE S == DOMAIN rows
            Of(f) == [e \in S |-> rows[e].pay[f]]
            sum(f) == SumFunctionOnSet(Of(f), S)
<1>1. IsFiniteSet(S)
  BY DEF Rows
<1>2. ASSUME NEW f \in {"gross", "deductions", "contributions", "net"}
      PROVE  \A e \in S : Of(f)[e] \in Nat
  BY DEF Rows, Paid, Result, Amounts
<1>3. \A e \in S : Of("net")[e] = Of("gross")[e] - Of("deductions")[e]
  BY DEF Rows, Paid, Result, Amounts
<1>4. Total(rows) = [f \in {"gross", "deductions", "contributions", "net"} |-> sum(f)]
  BY DEF Total, Nil, SumOver
<1>. HIDE DEF S, Of
<1>5. ASSUME NEW f \in {"gross", "deductions", "contributions", "net"}
      PROVE  sum(f) \in Nat
  BY <1>1, <1>2, SumNat
<1>6. sum("net") = sum("gross") - sum("deductions")
  <2>1. PICK g, a, n : g = Of("gross") /\ a = Of("deductions") /\ n = Of("net")
    OBVIOUS
  <2>2. \A e \in S : g[e] \in Int /\ a[e] \in Int /\ n[e] = g[e] - a[e]
    BY <1>2, <1>3, <2>1
  <2>3. SumFunctionOnSet(n, S) = SumFunctionOnSet(g, S) - SumFunctionOnSet(a, S)
    BY ONLY <1>1, <2>2, SumMinus
  <2>. QED  BY <2>1, <2>3
<1>7. PICK x \in Nat, y \in Nat, z \in Nat, w \in Nat :
        x = sum("gross") /\ y = sum("deductions") /\ z = sum("contributions") /\ w = sum("net")
  BY <1>5
<1>. HIDE DEF sum
<1>8. Total(rows) = [gross |-> x, deductions |-> y, contributions |-> z, net |-> w]
  BY <1>4, <1>7
<1>9. w = x - y
  BY <1>6, <1>7
<1>. QED  BY ONLY <1>8, <1>9, x \in Nat, y \in Nat, z \in Nat, w \in Nat DEF Amounts

(* Nothing calculated, nothing to pay.                                     *)
LEMMA TotalOfNone == Total(<<>>) = Nil
<1>1. PICK none : none = <<>> /\ DOMAIN none = {}
  OBVIOUS
<1>2. \A f \in DOMAIN Nil : SumFunctionOnSet([e \in {} |-> none[e].pay[f]], {}) = 0
  BY SumEmpty
<1>3. Total(none) = [f \in DOMAIN Nil |-> SumFunctionOnSet([e \in DOMAIN none |-> none[e].pay[f]], DOMAIN none)]
  BY Zenon DEF Total, SumOver
<1>4. Total(none) = [f \in DOMAIN Nil |-> SumFunctionOnSet([e \in {} |-> none[e].pay[f]], {})]
  BY <1>1, <1>3
<1>5. Total(none) = [f \in DOMAIN Nil |-> 0]
  BY ONLY <1>2, <1>4
<1>. QED  BY ONLY <1>1, <1>5 DEF Nil

-----------------------------------------------------------------------------
(* Results and books.                                                      *)

(* A calculation under way has rows for the employees it has done, those   *)
(* left are employees, and of the one it is at it knows some segments'     *)
(* attendance.                                                             *)
Drafted(t, p) ==
    /\ t = [left |-> t.left, rows |-> t.rows, employee |-> t.employee, segments |-> t.segments, worked |-> t.worked]
    /\ Rows(t.rows) /\ t.left \subseteq Employees /\ t.employee \in Employees \cup {NoOne}
    /\ IsFiniteSet(t.segments) /\ \A s \in t.segments : Clipped(s, p)
    /\ DOMAIN t.worked \subseteq t.segments /\ \A s \in DOMAIN t.worked : t.worked[s] \in Nat
Drafts == DOMAIN tx = Requests /\ \A r \in Requests : pc[r] = "employees" => Drafted(tx[r], req[r].period)

(* What the tables of a period keep.                                       *)
Kept ==
    /\ \A p \in Periods : Rows(results[p])
    /\ \A p \in DOMAIN periods : periods[p] \in PeriodRow /\ periods[p].total = Total(results[p])
    /\ \A p \in Periods \ DOMAIN periods : results[p] = <<>>

(* No rows at all.                                                         *)
LEMMA RowsOfNone == Rows(<<>>)
<1>1. DOMAIN <<>> = {}
  OBVIOUS
<1>. QED  BY <1>1, FS_EmptySet DEF Rows

(* One more employee is done.                                              *)
LEMMA RowsGrow ==
    ASSUME NEW rows, Rows(rows), NEW e, NEW row, Paid(row)
    PROVE  Rows(With(rows, e, row))
<1>1. IsFiniteSet(DOMAIN rows \cup {e})
  BY FS_AddElement DEF Rows
<1>2. DOMAIN With(rows, e, row) = DOMAIN rows \cup {e}
  BY DEF With
<1>3. \A x \in DOMAIN rows \cup {e} : With(rows, e, row)[x] = IF x = e THEN row ELSE rows[x]
  BY DEF With
<1>. QED  BY <1>1, <1>2, <1>3 DEF Rows

(* The sessions that calculate, when r ends or goes on elsewhere.          *)
LEMMA DraftsEnd ==
    ASSUME Shape, Drafts, NEW r \in Requests, Finish(r)
    PROVE  Drafts'
<1>1. pc' = [pc EXCEPT ![r] = "done"] /\ tx' = [tx EXCEPT ![r] = EmptyTx] /\ req' = [req EXCEPT ![r] = NoOne]
  BY DEF Finish
<1>2. DOMAIN pc = Requests /\ DOMAIN req = Requests
  BY DEF Shape
<1>. QED  BY <1>1, <1>2 DEF Drafts

(* What r knows becomes new.                                               *)
LEMMA DraftsGoOn ==
    ASSUME Shape, Drafts, NEW r \in Requests, UNCHANGED req, NEW new, tx' = [tx EXCEPT ![r] = new], Drafted(new, req[r].period),
           UNCHANGED pc \/ pc' = [pc EXCEPT ![r] = "employees"]
    PROVE  Drafts'
<1>1. DOMAIN tx = Requests /\ DOMAIN pc = Requests
  BY DEF Drafts, Shape
<1>2. DOMAIN tx' = Requests /\ tx'[r] = new /\ \A o \in Requests \ {r} : tx'[o] = tx[o] /\ pc'[o] = pc[o]
  BY <1>1
<1>. QED  BY <1>2 DEF Drafts

(* The pay of the next employee is read.                                   *)
LEMMA DraftsSegments ==
    ASSUME Shape, HistoryInv, Drafts, NEW r \in Requests, ReadSegments(r)
    PROVE  Drafts'
<1>1. Pending(r) /\ pc[r] = "employees" /\ req[r].kind = "CALCULATE"
  BY DEF ReadSegments, Is, Pending
<1>2. PICK p \in Periods : p = req[r].period
  BY <1>1, Asked, StaffBody
<1>3. PICK t : t = tx[r] /\ Drafted(t, p)
  BY <1>1, <1>2 DEF Drafts
<1>4. PICK e \in t.left : tx' = [tx EXCEPT ![r] = [t EXCEPT !.employee = e, !.segments = Segments(e, p), !.worked = <<>>]]
  BY <1>2, <1>3 DEF ReadSegments
<1>5. PICK S : S = Segments(e, p) /\ IsFiniteSet(S) /\ \A s \in S : Clipped(s, p)
  <2>1. e \in Employees
    BY <1>3 DEF Drafted
  <2>. QED  BY <2>1, SegmentsClipped
<1>6. PICK new : /\ new = [t EXCEPT !.employee = e, !.segments = S, !.worked = <<>>]
                 /\ tx' = [tx EXCEPT ![r] = new]
  BY <1>4, <1>5
<1>7. new = [left |-> t.left, rows |-> t.rows, employee |-> e, segments |-> S, worked |-> <<>>]
  BY <1>3, <1>6 DEF Drafted
<1>8. PICK none : none = <<>> /\ DOMAIN none = {}
  OBVIOUS
<1>9. Drafted(new, p)
  BY <1>3, <1>5, <1>7, <1>8 DEF Drafted
<1>10. UNCHANGED <<pc, req>>
  BY DEF ReadSegments, Reading
<1>. QED  BY <1>2, <1>6, <1>9, <1>10, DraftsGoOn

(* The attendance of one of its segments is read.                          *)
LEMMA DraftsAttendance ==
    ASSUME Shape, ShiftInv, TimeInv, Drafts, NEW r \in Requests, ReadAttendance(r)
    PROVE  Drafts'
<1>1. Pending(r) /\ pc[r] = "employees" /\ req[r].kind = "CALCULATE"
  BY DEF ReadAttendance, Is, Pending
<1>2. PICK p \in Periods : p = req[r].period
  BY <1>1, Asked, StaffBody
<1>3. PICK t : t = tx[r] /\ Drafted(t, p)
  BY <1>1, <1>2 DEF Drafts
<1>4. PICK s \in t.segments :
        tx' = [tx EXCEPT ![r] = [t EXCEPT !.worked = With(t.worked, s, Worked(t.employee, p, s.from, s.to))]]
  BY <1>2, <1>3 DEF ReadAttendance, Unread
<1>5. PICK n \in Nat : n = Worked(t.employee, p, s.from, s.to)
  BY WorkedNat
<1>6. PICK w : w = With(t.worked, s, n)
  OBVIOUS
<1>7. PICK new : new = [t EXCEPT !.worked = w] /\ tx' = [tx EXCEPT ![r] = new]
  BY <1>4, <1>5, <1>6
<1>8. new = [left |-> t.left, rows |-> t.rows, employee |-> t.employee, segments |-> t.segments, worked |-> w]
  BY <1>3, <1>7 DEF Drafted
<1>9. DOMAIN w = DOMAIN t.worked \cup {s} /\ \A x \in DOMAIN w : w[x] = IF x = s THEN n ELSE t.worked[x]
  BY <1>6 DEF With
<1>10. DOMAIN w \subseteq t.segments /\ \A x \in DOMAIN w : w[x] \in Nat
  BY <1>3, <1>9 DEF Drafted
<1>11. Drafted(new, p)
  BY <1>3, <1>8, <1>10 DEF Drafted
<1>12. UNCHANGED <<pc, req>>
  BY DEF ReadAttendance, Reading
<1>. QED  BY <1>2, <1>7, <1>11, <1>12, DraftsGoOn

(* The employee is calculated from what was read.                          *)
LEMMA DraftsGrow ==
    ASSUME Shape, Drafts, NEW r \in Requests, CalculateEmployee(r)
    PROVE  Drafts'
<1>1. Pending(r) /\ pc[r] = "employees" /\ req[r].kind = "CALCULATE"
  BY DEF CalculateEmployee, Is, Pending
<1>2. PICK p \in Periods : p = req[r].period
  BY <1>1, Asked, StaffBody
<1>3. PICK t : t = tx[r] /\ Drafted(t, p)
  BY <1>1, <1>2 DEF Drafts
<1>4. CASE Finish(r)
  BY <1>4, DraftsEnd
<1>5. CASE ~Finish(r)
  <2>1. PICK e, w, row :
          /\ e = t.employee /\ w = t.worked /\ row = [hours |-> Hours(w), pay |-> Pay(p, w)]
          /\ t.segments \ DOMAIN w = {} /\ Storable(row.pay) /\ UNCHANGED <<pc, req>>
          /\ tx' = [tx EXCEPT ![r] = [EmptyTx EXCEPT !.left = t.left \ {e}, !.rows = With(t.rows, e, row)]]
    BY <1>2, <1>3, <1>5 DEF CalculateEmployee, Unread, Return, Refuse, Reading
  <2>2. Attended(w, p)
    <3>1. DOMAIN w = t.segments
      BY <1>3, <2>1 DEF Drafted
    <3>. QED  BY <1>3, <2>1, <3>1 DEF Drafted, Attended
  <2>3. Paid(row)
    BY <2>1, <2>2, PayPaid
  <2>4. PICK rows : rows = With(t.rows, e, row)
    OBVIOUS
  <2>5. Rows(rows)
    BY <1>3, <2>3, <2>4, RowsGrow DEF Drafted
  <2>6. PICK new : /\ new = [EmptyTx EXCEPT !.left = t.left \ {e}, !.rows = rows]
                   /\ tx' = [tx EXCEPT ![r] = new]
    BY <2>1, <2>4
  <2>7. PICK none : none = <<>> /\ DOMAIN none = {}
    OBVIOUS
  <2>8. new = [left |-> t.left \ {e}, rows |-> rows, employee |-> NoOne, segments |-> {}, worked |-> none]
    BY <2>6, <2>7 DEF EmptyTx
  <2>9. Drafted(new, p)
    BY <1>3, <2>5, <2>7, <2>8, FS_EmptySet DEF Drafted
  <2>. QED  BY <1>2, <2>1, <2>6, <2>9, DraftsGoOn
<1>. QED  BY <1>4, <1>5

(* A calculation begins.                                                   *)
LEMMA DraftsBegin ==
    ASSUME Shape, Drafts, NEW r \in Requests, LockPeriod(r)
    PROVE  Drafts'
<1>1. CASE Finish(r)
  BY <1>1, DraftsEnd
<1>2. CASE ~Finish(r)
  <2>1. PICK new : /\ new = [EmptyTx EXCEPT !.left = AssignedDuring(req[r].period)]
                   /\ tx' = [tx EXCEPT ![r] = new] /\ pc' = [pc EXCEPT ![r] = "employees"] /\ UNCHANGED req
    BY <1>2 DEF LockPeriod, Start, Return, Refuse
  <2>2. PICK none : none = <<>> /\ DOMAIN none = {}
    OBVIOUS
  <2>3. PICK left \in SUBSET Employees : left = AssignedDuring(req[r].period)
    BY DEF AssignedDuring
  <2>4. new = [left |-> left, rows |-> none, employee |-> NoOne, segments |-> {}, worked |-> none]
    BY <2>1, <2>2, <2>3 DEF EmptyTx
  <2>5. Drafted(new, req[r].period)
    BY <2>2, <2>4, RowsOfNone, FS_EmptySet DEF Drafted
  <2>. QED  BY <2>1, <2>5, DraftsGoOn
<1>. QED  BY <1>1, <1>2

(* Every step keeps the rows of the calculations under way.                *)
LEMMA DraftsKept ==
    ASSUME Shape, HistoryInv, ShiftInv, TimeInv, Drafts, NEW r \in Requests,
           (Submit(r) /\ UNCHANGED payroll) \/ (StaffStep(r) /\ UNCHANGED payroll) \/ Step(r) \/ Fail(r)
    PROVE  Drafts'
<1>1. CASE Finish(r)
  BY <1>1, DraftsEnd
<1>2. CASE UNCHANGED tx /\ (\A o \in Requests \ {r} : req'[o] = req[o]) /\ \E l \in Labels \ {"employees"} : pc' = [pc EXCEPT ![r] = l]
  BY <1>2 DEF Drafts, Shape
<1>3. CASE Submit(r)
  BY <1>3, <1>2 DEF Submit, Labels, Shape
<1>4. CASE StaffStep(r)
  <2>1. CASE ReadStatus(r)
    BY <2>1, <1>1, <1>2 DEF ReadStatus, Refuse, Labels
  <2>2. CASE HireEmployee(r) \/ ChangeEmploymentStatus(r) \/ ReassignEmployee(r) \/ ChangeCompensation(r)
    BY <2>2, <1>1 DEF HireEmployee, ChangeEmploymentStatus, ReassignEmployee, ChangeCompensation, Refuse
  <2>3. CASE ClockIn(r) \/ ClockOut(r) \/ CorrectAttendance(r)
    BY <2>3, <1>1 DEF ClockIn, ClockOut, CorrectAttendance, Refuse
  <2>. QED  BY <1>4, <2>1, <2>2, <2>3 DEF StaffStep
<1>5. CASE Step(r)
  <2>1. CASE BeginCalculate(r)
    BY <2>1, <1>1, <1>2 DEF BeginCalculate, Return, Refuse, Labels
  <2>2. CASE CommitCalculation(r)
    BY <2>2, <1>1 DEF CommitCalculation, Return, Refuse
  <2>3. CASE CreatePeriod(r) \/ MovePeriod(r) \/ PostPeriod(r) \/ ReversePeriod(r)
    BY <2>3, <1>1 DEF CreatePeriod, MovePeriod, PostPeriod, ReversePeriod, Return, Refuse
  <2>. QED  BY <1>5, <2>1, <2>2, <2>3, DraftsBegin, DraftsSegments, DraftsAttendance, DraftsGrow DEF Step
<1>6. CASE Fail(r)
  BY <1>6, <1>1 DEF Fail, Return, Refuse
<1>. QED  BY <1>3, <1>4, <1>5, <1>6

(* The entries of a kind for a period.                                     *)
Entries(kind, p) == {i \in DOMAIN books : books[i].kind = kind /\ books[i].period = p}
Booking == [kind : {"PAYROLL_POSTING", "PAYROLL_REVERSAL"}, period : Periods, amounts : Amounts]

(* Every entry is of a POSTED period, for exactly its totals; a POSTED     *)
(* period has one posting, and no period more than one reversal.           *)
Booked ==
    /\ books \in Seq(Booking)
    /\ \A i \in DOMAIN books :
          LET p == books[i].period IN
          p \in DOMAIN periods /\ periods[p].status = "POSTED" /\ books[i].amounts = Total(results[p])
    /\ \A p \in DOMAIN periods : periods[p].status = "POSTED" => \E i : Entries("PAYROLL_POSTING", p) = {i}
    /\ \A p \in Periods : Entries("PAYROLL_REVERSAL", p) = {} \/ \E i : Entries("PAYROLL_REVERSAL", p) = {i}

(* A step that books nothing and neither posts a period nor changes one    *)
(* that is posted.                                                         *)
LEMMA BookedSame ==
    ASSUME Booked, UNCHANGED books, DOMAIN periods \subseteq DOMAIN periods',
           \A p \in DOMAIN periods : periods[p].status = "POSTED" => periods'[p].status = "POSTED" /\ results'[p] = results[p],
           \A p \in DOMAIN periods' : periods'[p].status = "POSTED" => p \in DOMAIN periods /\ periods[p].status = "POSTED"
    PROVE  Booked'
<1>1. \A k, p : Entries(k, p)' = Entries(k, p)
  BY DEF Entries
<1>2. ASSUME NEW i \in DOMAIN books
      PROVE  LET p == books[i].period IN
             p \in DOMAIN periods' /\ periods'[p].status = "POSTED" /\ books[i].amounts = Total(results'[p])
  <2>1. PICK p : p = books[i].period
    OBVIOUS
  <2>2. p \in DOMAIN periods /\ periods[p].status = "POSTED" /\ books[i].amounts = Total(results[p])
    BY <2>1 DEF Booked
  <2>3. results'[p] = results[p]
    BY <2>2
  <2>. QED  BY <2>1, <2>2, <2>3
<1>. QED  BY <1>1, <1>2 DEF Booked

(* A step that appends one entry.                                          *)
LEMMA EntriesGrow ==
    ASSUME books \in Seq(Booking), NEW b \in Booking, books' = Append(books, b)
    PROVE  /\ books' \in Seq(Booking) /\ DOMAIN books' = DOMAIN books \cup {Len(books) + 1} /\ Len(books) + 1 \notin DOMAIN books
           /\ books'[Len(books) + 1] = b /\ \A i \in DOMAIN books : books'[i] = books[i]
           /\ Entries(b.kind, b.period)' = Entries(b.kind, b.period) \cup {Len(books) + 1}
           /\ \A k, p : k # b.kind \/ p # b.period => Entries(k, p)' = Entries(k, p)
<1>1. PICK n \in Nat : n = Len(books) /\ DOMAIN books = 1 .. n
  OBVIOUS
<1>2. /\ books' \in Seq(Booking) /\ DOMAIN books' = 1 .. n + 1 /\ books'[n + 1] = b /\ \A i \in 1 .. n : books'[i] = books[i]
  BY <1>1
<1>3. DOMAIN books' = DOMAIN books \cup {n + 1} /\ n + 1 \notin DOMAIN books
  BY <1>1, <1>2
<1>4. \A i \in DOMAIN books : books'[i] = books[i]
  BY <1>1, <1>2
<1>5. \A k, p : Entries(k, p)' = {i \in DOMAIN books' : books'[i].kind = k /\ books'[i].period = p}
  BY DEF Entries
<1>6. Entries(b.kind, b.period)' = Entries(b.kind, b.period) \cup {n + 1}
  BY ONLY <1>2, <1>3, <1>4, <1>5 DEF Entries
<1>7. \A k, p : k # b.kind \/ p # b.period => Entries(k, p)' = Entries(k, p)
  BY ONLY <1>2, <1>3, <1>4, <1>5 DEF Entries
<1>. QED  BY <1>1, <1>2, <1>3, <1>4, <1>6, <1>7

(* The entry of a period for its totals.                                   *)
LEMMA EntryTyped ==
    ASSUME Kept, NEW p \in Periods, NEW k \in {"PAYROLL_POSTING", "PAYROLL_REVERSAL"}
    PROVE  [kind |-> k, period |-> p, amounts |-> Total(results[p])] \in Booking
<1>1. PICK t \in Amounts : t = Total(results[p])
  BY TotalAmounts DEF Kept
<1>. QED  BY <1>1 DEF Booking

(* post_payroll_period books one posting for a period that had no entry.   *)
LEMMA BookedPost ==
    ASSUME Shape, PeriodInv, Kept, Booked, NEW r \in Requests, PostPeriod(r), ~Ends(r)
    PROVE  Booked'
<1>1. PICK p : p = req[r].period
  OBVIOUS
<1>2. /\ Touches(p) /\ results' = results /\ periods[p].status = "APPROVED" /\ periods'[p].status = "POSTED"
  BY <1>1, PostEffect
<1>3. PICK t : t = Total(results[p])
  OBVIOUS
<1>4. PICK b : b = [kind |-> "PAYROLL_POSTING", period |-> p, amounts |-> t]
  OBVIOUS
<1>5. books' = Append(books, b)
  BY <1>1, <1>3, <1>4 DEF PostPeriod, Entry, Return, Refuse, Ends
<1>6. p \in Periods /\ p \in DOMAIN periods /\ DOMAIN periods' = DOMAIN periods /\ \A o \in DOMAIN periods \ {p} : periods'[o] = periods[o]
  BY <1>2 DEF Touches, PeriodInv
<1>7. b \in Booking /\ b.kind = "PAYROLL_POSTING" /\ b.period = p /\ b.amounts = t
  BY <1>3, <1>4, <1>6, EntryTyped
<1>8. books \in Seq(Booking)
  BY DEF Booked
<1>9. PICK n : n = Len(books) + 1
  OBVIOUS
<1>10. /\ books' \in Seq(Booking) /\ DOMAIN books' = DOMAIN books \cup {n} /\ n \notin DOMAIN books
       /\ books'[n] = b /\ \A i \in DOMAIN books : books'[i] = books[i]
       /\ Entries("PAYROLL_POSTING", p)' = Entries("PAYROLL_POSTING", p) \cup {n}
       /\ \A k, o : k # "PAYROLL_POSTING" \/ o # p => Entries(k, o)' = Entries(k, o)
  BY <1>5, <1>7, <1>8, <1>9, EntriesGrow
<1>11. \A i \in DOMAIN books : books[i].period # p
  BY <1>2 DEF Booked
<1>12. Entries("PAYROLL_POSTING", p)' = {n}
  <2>1. Entries("PAYROLL_POSTING", p) = {}
    BY <1>11 DEF Entries
  <2>. QED  BY <1>10, <2>1
<1>13. ASSUME NEW i \in DOMAIN books'
       PROVE  LET o == books'[i].period IN
              o \in DOMAIN periods' /\ periods'[o].status = "POSTED" /\ books'[i].amounts = Total(results'[o])
  <2>1. CASE i = n
    BY <2>1, <1>2, <1>3, <1>6, <1>7, <1>10
  <2>2. CASE i # n
    <3>1. i \in DOMAIN books /\ books'[i] = books[i]
      BY <2>2, <1>10
    <3>2. PICK o : o = books[i].period
      OBVIOUS
    <3>3. o \in DOMAIN periods /\ periods[o].status = "POSTED" /\ books[i].amounts = Total(results[o])
      BY <3>1, <3>2 DEF Booked
    <3>4. o # p
      BY <1>11, <3>1, <3>2
    <3>. QED  BY <1>2, <1>6, <3>1, <3>2, <3>3, <3>4
  <2>. QED  BY <2>1, <2>2
<1>14. \A o \in DOMAIN periods' : periods'[o].status = "POSTED" => \E i : Entries("PAYROLL_POSTING", o)' = {i}
  <2>. SUFFICES ASSUME NEW o \in DOMAIN periods, periods'[o].status = "POSTED"
                PROVE  \E i : Entries("PAYROLL_POSTING", o)' = {i}
    BY <1>6
  <2>1. CASE o = p
    BY <2>1, <1>12
  <2>2. CASE o # p
    <3>1. periods[o].status = "POSTED"
      BY <2>2, <1>6
    <3>2. Entries("PAYROLL_POSTING", o)' = Entries("PAYROLL_POSTING", o)
      BY <2>2, <1>10
    <3>. QED  BY <3>1, <3>2 DEF Booked
  <2>. QED  BY <2>1, <2>2
<1>15. \A o \in Periods : Entries("PAYROLL_REVERSAL", o)' = {} \/ \E i : Entries("PAYROLL_REVERSAL", o)' = {i}
  <2>. SUFFICES ASSUME NEW o \in Periods
                PROVE  Entries("PAYROLL_REVERSAL", o)' = {} \/ \E i : Entries("PAYROLL_REVERSAL", o)' = {i}
    OBVIOUS
  <2>1. Entries("PAYROLL_REVERSAL", o)' = Entries("PAYROLL_REVERSAL", o)
    BY <1>10
  <2>2. Entries("PAYROLL_REVERSAL", o) = {} \/ \E i : Entries("PAYROLL_REVERSAL", o) = {i}
    BY DEF Booked
  <2>. QED  BY ONLY <2>1, <2>2
<1>. QED  BY <1>10, <1>13, <1>14, <1>15 DEF Booked

(* reverse_payroll_period mirrors the posting of a period once.            *)
LEMMA BookedReverse ==
    ASSUME Shape, PeriodInv, Kept, Booked, NEW r \in Requests, ReversePeriod(r), ~Ends(r)
    PROVE  Booked' /\ UNCHANGED <<periods, results>>
<1>1. PICK p : p = req[r].period
  OBVIOUS
<1>2. PICK t : t = Total(results[p])
  OBVIOUS
<1>3. PICK b : b = [kind |-> "PAYROLL_REVERSAL", period |-> p, amounts |-> t]
  OBVIOUS
<1>4. /\ p \in DOMAIN periods /\ periods[p].status = "POSTED" /\ ~Reversed(p)
      /\ books' = Append(books, b) /\ UNCHANGED <<periods, results>>
  BY <1>1, <1>2, <1>3 DEF ReversePeriod, Entry, Return, Refuse, Ends
<1>5. p \in Periods
  BY <1>4 DEF PeriodInv
<1>6. b \in Booking /\ b.kind = "PAYROLL_REVERSAL" /\ b.period = p /\ b.amounts = t
  BY <1>2, <1>3, <1>5, EntryTyped
<1>7. books \in Seq(Booking)
  BY DEF Booked
<1>8. PICK n : n = Len(books) + 1
  OBVIOUS
<1>9. /\ books' \in Seq(Booking) /\ DOMAIN books' = DOMAIN books \cup {n} /\ n \notin DOMAIN books
      /\ books'[n] = b /\ \A i \in DOMAIN books : books'[i] = books[i]
      /\ Entries("PAYROLL_REVERSAL", p)' = Entries("PAYROLL_REVERSAL", p) \cup {n}
      /\ \A k, o : k # "PAYROLL_REVERSAL" \/ o # p => Entries(k, o)' = Entries(k, o)
  BY <1>4, <1>6, <1>7, <1>8, EntriesGrow
<1>10. Entries("PAYROLL_REVERSAL", p)' = {n}
  <2>1. Entries("PAYROLL_REVERSAL", p) = {}
    BY <1>4 DEF Entries, Reversed, ToSet
  <2>. QED  BY <1>9, <2>1
<1>11. ASSUME NEW i \in DOMAIN books'
       PROVE  LET o == books'[i].period IN
              o \in DOMAIN periods' /\ periods'[o].status = "POSTED" /\ books'[i].amounts = Total(results'[o])
  <2>1. CASE i = n
    BY <2>1, <1>2, <1>4, <1>6, <1>9
  <2>2. CASE i # n
    <3>1. i \in DOMAIN books /\ books'[i] = books[i]
      BY <2>2, <1>9
    <3>. QED  BY <3>1, <1>4 DEF Booked
  <2>. QED  BY <2>1, <2>2
<1>12. \A o \in DOMAIN periods' : periods'[o].status = "POSTED" => \E i : Entries("PAYROLL_POSTING", o)' = {i}
  <2>. SUFFICES ASSUME NEW o \in DOMAIN periods, periods[o].status = "POSTED"
                PROVE  \E i : Entries("PAYROLL_POSTING", o)' = {i}
    BY <1>4
  <2>1. Entries("PAYROLL_POSTING", o)' = Entries("PAYROLL_POSTING", o)
    BY <1>9
  <2>2. \E i : Entries("PAYROLL_POSTING", o) = {i}
    BY DEF Booked
  <2>. QED  BY ONLY <2>1, <2>2
<1>13. \A o \in Periods : Entries("PAYROLL_REVERSAL", o)' = {} \/ \E i : Entries("PAYROLL_REVERSAL", o)' = {i}
  <2>. SUFFICES ASSUME NEW o \in Periods
                PROVE  Entries("PAYROLL_REVERSAL", o)' = {} \/ \E i : Entries("PAYROLL_REVERSAL", o)' = {i}
    OBVIOUS
  <2>1. CASE o = p
    BY ONLY <2>1, <1>10
  <2>2. CASE o # p
    <3>1. Entries("PAYROLL_REVERSAL", o)' = Entries("PAYROLL_REVERSAL", o)
      BY <2>2, <1>9
    <3>2. Entries("PAYROLL_REVERSAL", o) = {} \/ \E i : Entries("PAYROLL_REVERSAL", o) = {i}
      BY DEF Booked
    <3>. QED  BY ONLY <3>1, <3>2
  <2>. QED  BY <2>1, <2>2
<1>. QED  BY <1>4, <1>9, <1>11, <1>12, <1>13 DEF Booked

(* What payroll bodies carry.                                              *)
LEMMA PayrollBody ==
    ASSUME NEW q \in Submission, q.kind \in {"CALCULATE", "POST"}
    PROVE  q.key \in Keys \cup {NoOne}
  BY DEF Submission, StaffSubmission

(* One row of the periods is written.                                      *)
LEMMA KeptTouched ==
    ASSUME PeriodInv, Kept, NEW p, Touches(p), Rows(results'[p]), periods'[p] \in PeriodRow, periods'[p].total = Total(results'[p]),
           \A o \in Periods \ DOMAIN periods : results'[o] = results[o]
    PROVE  Kept'
<1>1. DOMAIN periods' = DOMAIN periods /\ p \in DOMAIN periods
  BY DEF Touches
<1>2. \A o \in DOMAIN periods \ {p} : periods'[o] = periods[o] /\ results'[o] = results[o]
  BY DEF Touches
<1>3. \A o \in Periods \ {p} : results'[o] = results[o]
  BY <1>2
<1>4. \A o \in DOMAIN periods \ {p} : periods'[o] \in PeriodRow /\ periods'[o].total = Total(results'[o])
  <2>. SUFFICES ASSUME NEW o \in DOMAIN periods \ {p} PROVE periods'[o] \in PeriodRow /\ periods'[o].total = Total(results'[o])
    OBVIOUS
  <2>. QED  BY <1>2 DEF Kept
<1>5. DOMAIN periods \subseteq Periods
  BY DEF PeriodInv
<1>. QED  BY <1>1, <1>3, <1>4, <1>5 DEF Kept

(* open, approve and cancel.                                               *)
LEMMA KeptMove ==
    ASSUME Shape, PeriodInv, Kept, NEW r \in Requests, MovePeriod(r), ~Ends(r)
    PROVE  Kept' /\ UNCHANGED books /\ periods'[req[r].period].status # "POSTED"
<1>1. PICK p : p = req[r].period
  OBVIOUS
<1>2. Touches(p) /\ results' = results /\ p \in DOMAIN periods
  BY <1>1, MoveEffect DEF Touches
<1>3. PICK new : new = To(req[r].kind) /\ new \in PeriodStatuses \ {"POSTED"}
  BY DEF MovePeriod, To, PeriodStatuses
<1>4. periods' = [periods EXCEPT ![p] = [periods[p] EXCEPT !.status = new]] /\ UNCHANGED books
  BY <1>1, <1>3 DEF MovePeriod, Return, Refuse, Ends, SetStatus
<1>5. periods[p] \in PeriodRow /\ periods[p].total = Total(results[p])
  BY <1>2 DEF Kept
<1>6. periods'[p] = [periods[p] EXCEPT !.status = new]
  BY <1>2, <1>4
<1>7. periods'[p] \in PeriodRow /\ periods'[p].total = periods[p].total /\ periods'[p].status = new
  BY ONLY <1>3, <1>5, <1>6 DEF PeriodRow
<1>8. Rows(results'[p]) /\ periods'[p].total = Total(results'[p])
  <2>1. p \in Periods
    BY <1>2 DEF PeriodInv
  <2>. QED  BY <1>2, <1>5, <1>7, <2>1 DEF Kept
<1>9. Kept'
  BY <1>2, <1>7, <1>8, KeptTouched
<1>. QED  BY <1>1, <1>3, <1>4, <1>7, <1>9

(* post_payroll_period.                                                    *)
LEMMA KeptPost ==
    ASSUME Shape, PeriodInv, Kept, NEW r \in Requests, PostPeriod(r), ~Ends(r)
    PROVE  Kept'
<1>1. PICK p, k : p = req[r].period /\ k = req[r].key
  OBVIOUS
<1>2. Touches(p) /\ results' = results /\ p \in DOMAIN periods
  BY <1>1, PostEffect DEF Touches
<1>3. Pending(r) /\ req[r].kind = "POST"
  BY DEF PostPeriod, Is, Pending
<1>4. k \in Keys \cup {NoOne}
  BY <1>1, <1>3, Asked, PayrollBody
<1>5. periods' = [periods EXCEPT ![p] = [periods[p] EXCEPT !.status = "POSTED", !.postKey = k]]
  BY <1>1 DEF PostPeriod, Return, Refuse, Ends
<1>6. periods[p] \in PeriodRow /\ periods[p].total = Total(results[p])
  BY <1>2 DEF Kept
<1>7. periods'[p] = [periods[p] EXCEPT !.status = "POSTED", !.postKey = k]
  BY <1>2, <1>5
<1>8. periods'[p] \in PeriodRow /\ periods'[p].total = periods[p].total
  BY ONLY <1>4, <1>6, <1>7 DEF PeriodRow, PeriodStatuses
<1>9. Rows(results'[p]) /\ periods'[p].total = Total(results'[p])
  <2>1. p \in Periods
    BY <1>2 DEF PeriodInv
  <2>. QED  BY <1>2, <1>6, <1>8, <2>1 DEF Kept
<1>. QED  BY <1>2, <1>8, <1>9, KeptTouched

(* calculate_payroll_period.                                               *)
LEMMA KeptCommit ==
    ASSUME Shape, PeriodInv, TimeInv, Drafts, Kept, NEW r \in Requests, CommitCalculation(r), ~Ends(r)
    PROVE  Kept' /\ UNCHANGED books
<1>1. PICK p, k : p = req[r].period /\ k = req[r].key
  OBVIOUS
<1>2. Touches(p) /\ p \in DOMAIN periods
  BY <1>1, CommitEffect DEF Touches
<1>3. Pending(r) /\ req[r].kind = "CALCULATE" /\ pc[r] = "employees"
  BY DEF CommitCalculation, Is, Pending
<1>4. k \in Keys \cup {NoOne}
  BY <1>1, <1>3, Asked, PayrollBody
<1>5. PICK rows, t : rows = tx[r].rows /\ t = Total(rows)
  OBVIOUS
<1>6. /\ periods' = [periods EXCEPT ![p] = [periods[p] EXCEPT !.status = "CALCULATED", !.calculated = now + 1, !.calcKey = k, !.total = t]]
      /\ results' = [results EXCEPT ![p] = rows] /\ UNCHANGED books
  BY <1>1, <1>5 DEF CommitCalculation, Return, Refuse, Ends
<1>7. Rows(rows) /\ t \in Amounts
  BY <1>3, <1>5, TotalAmounts DEF Drafts, Drafted
<1>8. now + 1 \in Nat
  BY DEF TimeInv
<1>9. periods[p] \in PeriodRow /\ p \in Periods /\ DOMAIN results = Periods
  BY <1>2 DEF Kept, PeriodInv
<1>10. /\ periods'[p] = [periods[p] EXCEPT !.status = "CALCULATED", !.calculated = now + 1, !.calcKey = k, !.total = t]
       /\ results'[p] = rows /\ \A o \in Periods \ {p} : results'[o] = results[o]
  BY <1>2, <1>6, <1>9
<1>11. periods'[p] \in PeriodRow /\ periods'[p].total = t
  BY ONLY <1>4, <1>7, <1>8, <1>9, <1>10 DEF PeriodRow, PeriodStatuses
<1>12. Kept'
  BY <1>2, <1>5, <1>7, <1>10, <1>11, KeptTouched
<1>. QED  BY <1>6, <1>12

(* create_payroll_period: a new period has no results and no totals.       *)
LEMMA KeptCreate ==
    ASSUME Shape, PeriodInv, Kept, NEW r \in Requests, CreatePeriod(r), ~Ends(r)
    PROVE  /\ Kept' /\ UNCHANGED <<books, results>> /\ DOMAIN periods \subseteq DOMAIN periods'
           /\ \A p \in DOMAIN periods : periods'[p] = periods[p]
           /\ \A p \in DOMAIN periods' \ DOMAIN periods : periods'[p].status = "DRAFT"
<1>1. PICK p : p = req[r].period
  OBVIOUS
<1>2. PICK new : new = [status |-> "DRAFT", calculated |-> 0, calcKey |-> NoOne, postKey |-> NoOne, total |-> Nil]
  OBVIOUS
<1>3. Pending(r) /\ req[r].kind = "CREATE"
  BY DEF CreatePeriod, Is, Pending
<1>4. p \in Periods
  BY <1>1, <1>3, Asked, StaffBody
<1>5. p \notin DOMAIN periods /\ periods' = With(periods, p, new) /\ UNCHANGED <<books, results>>
  BY <1>1, <1>2 DEF CreatePeriod, Return, Refuse, Ends
<1>6. DOMAIN periods' = DOMAIN periods \cup {p} /\ periods'[p] = new /\ \A o \in DOMAIN periods : periods'[o] = periods[o]
  BY <1>5 DEF With
<1>7. Nil \in Amounts
  BY DEF Nil, Amounts
<1>8. new \in PeriodRow /\ new.total = Nil /\ new.status = "DRAFT"
  BY ONLY <1>2, <1>7 DEF PeriodRow, PeriodStatuses
<1>9. Total(results[p]) = Nil
  BY <1>4, <1>5, TotalOfNone DEF Kept
<1>10. Kept'
  BY <1>5, <1>6, <1>8, <1>9 DEF Kept
<1>. QED  BY <1>5, <1>6, <1>8, <1>10

(* The steps that write the payroll tables.                                *)
LEMMA PayrollCases ==
    ASSUME NEW r \in Requests,
           (Submit(r) /\ UNCHANGED payroll) \/ (StaffStep(r) /\ UNCHANGED payroll) \/ Step(r) \/ Fail(r)
    PROVE  \/ UNCHANGED <<periods, results, books>>
           \/ ~Ends(r) /\ (CreatePeriod(r) \/ MovePeriod(r) \/ CommitCalculation(r) \/ PostPeriod(r) \/ ReversePeriod(r))
<1>1. CASE UNCHANGED payroll \/ Ends(r)
  BY <1>1 DEF payroll, Ends
<1>2. CASE Fail(r)
  BY <1>2, <1>1 DEF Fail, Return
<1>3. CASE Step(r)
  <2>1. CASE BeginCalculate(r) \/ LockPeriod(r)
    BY <2>1, <1>1 DEF BeginCalculate, LockPeriod, Start, Return
  <2>2. CASE Reads(r)
    BY <2>2, <1>1, ReadsOnly DEF Reading
  <2>. QED  BY <2>1, <2>2, <1>1, <1>3 DEF Step, Reads
<1>. QED  BY <1>1, <1>2, <1>3

ResultsInv == Drafts /\ Kept /\ Booked

(* Nothing has been calculated or booked at the start.                     *)
LEMMA ResultsInit == Init => ResultsInv
<1>. SUFFICES ASSUME Init PROVE ResultsInv
  OBVIOUS
<1>1. Drafts
  BY DEF Init, StaffInit, Drafts
<1>2. DOMAIN periods = {} /\ books = <<>> /\ \A p \in Periods : results[p] = <<>>
  BY DEF Init
<1>3. Kept
  BY <1>2, RowsOfNone DEF Kept
<1>4. Booked
  BY <1>2 DEF Booked, Entries
<1>. QED  BY <1>1, <1>3, <1>4 DEF ResultsInv

(* Every step keeps results, totals and entries together.                  *)
LEMMA ResultsKept == Shape /\ HistoryInv /\ ShiftInv /\ TimeInv /\ PeriodInv /\ ResultsInv /\ [Next]_vars => ResultsInv'
<1>. SUFFICES ASSUME Shape, HistoryInv, ShiftInv, TimeInv, PeriodInv, ResultsInv, [Next]_vars PROVE ResultsInv'
  OBVIOUS
<1>0. Drafts /\ Kept /\ Booked
  BY DEF ResultsInv
<1>1. UNCHANGED <<periods, results, books>> => Kept' /\ Booked'
  <2>. SUFFICES ASSUME UNCHANGED <<periods, results, books>> PROVE Kept' /\ Booked'
    OBVIOUS
  <2>1. Kept'
    BY <1>0 DEF Kept
  <2>2. Booked'
    BY <1>0, BookedSame
  <2>. QED  BY <2>1, <2>2
<1>2. CASE UNCHANGED vars
  <2>1. Drafts'
    BY <1>0, <1>2 DEF Drafts, vars, session
  <2>. QED  BY <1>1, <1>2, <2>1 DEF ResultsInv, vars
<1>3. CASE Next
  <2>1. PICK r \in Requests :
          (Submit(r) /\ UNCHANGED payroll) \/ (StaffStep(r) /\ UNCHANGED payroll) \/ Step(r) \/ Fail(r)
    BY <1>3 DEF Next
  <2>2. Drafts'
    BY <1>0, <2>1, DraftsKept
  <2>3. FrozenStep
    BY <1>3, FrozenKept
  <2>4. CASE CreatePeriod(r) /\ ~Ends(r)
    <3>1. /\ Kept' /\ UNCHANGED <<books, results>> /\ DOMAIN periods \subseteq DOMAIN periods'
          /\ \A p \in DOMAIN periods : periods'[p] = periods[p]
          /\ \A p \in DOMAIN periods' \ DOMAIN periods : periods'[p].status = "DRAFT"
      BY <1>0, <2>4, KeptCreate
    <3>2. Booked'
      BY <1>0, <3>1, BookedSame
    <3>. QED  BY <2>2, <3>1, <3>2 DEF ResultsInv
  <2>5. CASE MovePeriod(r) /\ ~Ends(r)
    <3>1. Kept' /\ UNCHANGED books /\ Touches(req[r].period) /\ periods'[req[r].period].status # "POSTED"
      BY <1>0, <2>5, KeptMove, MoveEffect
    <3>2. Booked'
      BY <1>0, <2>3, <3>1, BookedSame DEF FrozenStep, Touches
    <3>. QED  BY <2>2, <3>1, <3>2 DEF ResultsInv
  <2>6. CASE CommitCalculation(r) /\ ~Ends(r)
    <3>1. Kept' /\ UNCHANGED books /\ Touches(req[r].period) /\ periods'[req[r].period].status # "POSTED"
      BY <1>0, <2>6, KeptCommit, CommitEffect
    <3>2. Booked'
      BY <1>0, <2>3, <3>1, BookedSame DEF FrozenStep, Touches
    <3>. QED  BY <2>2, <3>1, <3>2 DEF ResultsInv
  <2>7. CASE PostPeriod(r) /\ ~Ends(r)
    BY <1>0, <2>2, <2>7, KeptPost, BookedPost DEF ResultsInv
  <2>8. CASE ReversePeriod(r) /\ ~Ends(r)
    <3>1. Booked' /\ UNCHANGED <<periods, results>>
      BY <1>0, <2>8, BookedReverse
    <3>2. Kept'
      BY <1>0, <3>1 DEF Kept
    <3>. QED  BY <2>2, <3>1, <3>2 DEF ResultsInv
  <2>. QED  BY <1>1, <2>1, <2>2, <2>4, <2>5, <2>6, <2>7, <2>8, PayrollCases DEF ResultsInv
<1>. QED  BY <1>2, <1>3

(* The entries of a period, counted.                                       *)
LEMMA EntriesCounted ==
    ASSUME Booked, NEW p \in DOMAIN periods, p \in Periods
    PROVE  /\ Cardinality(Entries("PAYROLL_POSTING", p)) = IF periods[p].status = "POSTED" THEN 1 ELSE 0
           /\ Cardinality(Entries("PAYROLL_REVERSAL", p)) <= IF periods[p].status = "POSTED" THEN 1 ELSE 0
<1>1. \A i : Cardinality({i}) = 1
  BY FS_Singleton
<1>2. Cardinality({}) = 0
  BY FS_EmptySet
<1>3. CASE periods[p].status = "POSTED"
  <2>1. PICK i : Entries("PAYROLL_POSTING", p) = {i}
    BY <1>3 DEF Booked
  <2>2. Cardinality(Entries("PAYROLL_POSTING", p)) = 1
    BY <1>1, <2>1
  <2>3. Cardinality(Entries("PAYROLL_REVERSAL", p)) \in {0, 1}
    <3>1. Entries("PAYROLL_REVERSAL", p) = {} \/ \E j : Entries("PAYROLL_REVERSAL", p) = {j}
      BY DEF Booked
    <3>. QED  BY ONLY <1>1, <1>2, <3>1
  <2>. QED  BY <1>3, <2>2, <2>3
<1>4. CASE periods[p].status # "POSTED"
  <2>1. \A k : Entries(k, p) = {}
    BY <1>4 DEF Booked, Entries
  <2>. QED  BY <1>2, <1>4, <2>1
<1>. QED  BY <1>3, <1>4

(* However calculations, approvals, postings, reversals and retries are    *)
(* interleaved with clock-outs, corrections and pay changes, a period's    *)
(* stored totals are those of its results, no amount is negative, every    *)
(* cent of gross is net pay or withheld, and the journal has exactly one   *)
(* posting of a POSTED period and at most one reversal, for exactly those  *)
(* totals (BooksMatchResults).                                             *)
THEOREM PayrollBooksCorrect == Spec => []BooksMatchResults
<1>1. Init => HistoryInv /\ ShiftInv /\ TimeInv /\ PeriodInv /\ ResultsInv
  BY HistoryInit, ShiftInit, TimeInit, PeriodInit, ResultsInit
<1>2. Shape /\ (HistoryInv /\ ShiftInv /\ TimeInv /\ PeriodInv /\ ResultsInv) /\ [Next]_vars
        => (HistoryInv /\ ShiftInv /\ TimeInv /\ PeriodInv /\ ResultsInv)'
  BY HistoryKept, ShiftKept, TimeKept, PeriodKept, ResultsKept
<1>3. HistoryInv /\ TimeInv /\ PeriodInv /\ ResultsInv => BooksMatchResults
  <2>. SUFFICES ASSUME HistoryInv, TimeInv, PeriodInv, ResultsInv PROVE BooksMatchResults
    OBVIOUS
  <2>0. Kept /\ Booked
    BY DEF ResultsInv
  <2>1. StaffTypeOK
    BY DEF HistoryInv, Sound, TimeInv, Recorded, StaffTypeOK
  <2>2. TypeOK
    BY <2>0, <2>1 DEF TypeOK, Kept, PeriodInv, Rows, Paid
  <2>3. \A b \in ToSet(books) : b.period \in DOMAIN periods /\ b.amounts = Total(results[b.period])
    BY <2>0 DEF Booked, ToSet
  <2>4. ASSUME NEW p \in DOMAIN periods
        PROVE  LET posted == IF periods[p].status = "POSTED" THEN 1 ELSE 0
               IN  /\ periods[p].total = Total(results[p])
                   /\ periods[p].total.gross = periods[p].total.net + periods[p].total.deductions
                   /\ Cardinality(Entries("PAYROLL_POSTING", p)) = posted /\ Cardinality(Entries("PAYROLL_REVERSAL", p)) <= posted
                   /\ \A b \in ToSet(books) : b.period = p => b.amounts = Total(results[p])
    <3>1. p \in Periods
      BY DEF PeriodInv
    <3>2. periods[p].total = Total(results[p]) /\ Rows(results[p])
      BY <2>0, <3>1 DEF Kept
    <3>3. Total(results[p]).gross = Total(results[p]).net + Total(results[p]).deductions
      BY <3>2, TotalAmounts
    <3>. QED  BY <2>0, <2>3, <3>1, <3>2, <3>3, EntriesCounted
  <2>. QED  BY <2>2, <2>3, <2>4 DEF BooksMatchResults, Entries
<1>. QED  BY <1>1, <1>2, <1>3, ShapeAlways, PTL DEF Spec

-----------------------------------------------------------------------------
(* Salaries by the day.                                                    *)

(* A fraction rounded to the nearest whole is at most half of one away.    *)
LEMMA RoundedNear ==
    ASSUME NEW a \in Nat, NEW n \in Nat \ {0}
    PROVE  /\ RoundHalfUp(a, n) \in Nat /\ n * RoundHalfUp(a, n) \in Nat
           /\ 2 * (n * RoundHalfUp(a, n) - a) <= n /\ 2 * (a - n * RoundHalfUp(a, n)) <= n
<1>1. PICK b \in Nat, m \in Nat \ {0} : b = 2 * a + n /\ m = 2 * n
  OBVIOUS
<1>2. PICK k : k = b \div m
  OBVIOUS
<1>3. k \in Nat
  BY ONLY <1>2, b \in Nat, m \in Nat \ {0}
<1>4. b = m * k + (b % m) /\ b % m \in 0 .. m - 1
  BY ONLY <1>2, b \in Nat, m \in Nat \ {0}
<1>5. RoundHalfUp(a, n) = k
  BY <1>1, <1>2 DEF RoundHalfUp
<1>6. PICK t \in Nat : t = n * k /\ m * k = 2 * t
  <2>1. n * k \in Nat
    BY ONLY <1>3, n \in Nat \ {0}
  <2>2. m * k = 2 * (n * k)
    BY ONLY <1>1, <1>3, n \in Nat \ {0}
  <2>. QED  BY <2>1, <2>2
<1>7. 2 * t <= 2 * a + n /\ 2 * a + n < 2 * t + 2 * n
  BY ONLY <1>1, <1>4, <1>6, t \in Nat, a \in Nat, n \in Nat \ {0}, b \in Nat, m \in Nat \ {0}
<1>. QED  BY ONLY <1>3, <1>5, <1>6, <1>7, t \in Nat, a \in Nat, n \in Nat \ {0}

(* A later row of a history begins after an earlier one has ended.         *)
LEMMA HistoryAscends ==
    ASSUME NEW V, NEW h \in Seq(Row(V)), Unbroken(h), NEW i \in DOMAIN h, NEW j \in DOMAIN h, i < j
    PROVE  h[i].to \in Int /\ h[j].from \in Int /\ h[i].to < h[j].from
<1>1. PICK n \in Nat : n = Len(h) /\ DOMAIN h = 1 .. n
  OBVIOUS
<1>2. \A k \in 1 .. n : h[k] \in Row(V)
  BY <1>1, SeqMember
<1>3. \A k \in 1 .. n : h[k].from \in Int /\ h[k].to \in Int \cup {NoOne}
  BY ONLY <1>2 DEF Row
<1>4. \A k \in 1 .. n - 1 : h[k].to \in Int /\ h[k].from <= h[k].to /\ h[k + 1].from = h[k].to + 1
  BY <1>1, <1>3 DEF Unbroken
<1>. DEFINE T == {k \in i + 1 .. n : ~(h[i].to < h[k].from)}
<1>5. i \in 1 .. n - 1 /\ j \in i + 1 .. n
  BY <1>1
<1>6. T = {}
  <2>. SUFFICES ASSUME T # {} PROVE FALSE
    OBVIOUS
  <2>1. IsFiniteSet(T) /\ T \subseteq Int
    <3>1. IsFiniteSet(i + 1 .. n)
      <4>1. i + 1 \in Int /\ n \in Int
        BY <1>5
      <4>. QED  BY ONLY <4>1, FS_Interval
    <3>2. T \subseteq i + 1 .. n /\ i + 1 .. n \subseteq Int
      OBVIOUS
    <3>. HIDE DEF T
    <3>. QED  BY ONLY <3>1, <3>2, FS_Subset
  <2>2. PICK m \in T : \A k \in T : m <= k
    <3>. HIDE DEF T
    <3>. QED  BY <2>1, FiniteMin
  <2>3. m \in i + 1 .. n /\ ~(h[i].to < h[m].from)
    OBVIOUS
  <2>4. h[i].to \in Int /\ h[i + 1].from = h[i].to + 1
    BY <1>4, <1>5
  <2>5. CASE m = i + 1
    BY <2>3, <2>4, <2>5
  <2>6. CASE m # i + 1
    <3>1. PICK l \in i + 1 .. n - 1 : m = l + 1
      BY <2>3, <2>6, <1>5
    <3>2. l \notin T
      BY <2>2, <3>1
    <3>3. h[i].to < h[l].from
      BY <3>2
    <3>4. l \in 1 .. n - 1 /\ l \in 1 .. n
      BY <1>5
    <3>5. h[l].from \in Int /\ h[l].to \in Int /\ h[l].from <= h[l].to /\ h[l + 1].from = h[l].to + 1
      BY ONLY <1>3, <1>4, <3>4
    <3>. QED  BY ONLY <2>3, <2>4, <3>1, <3>3, <3>5
  <2>. QED  BY <2>5, <2>6
<1>. QED  BY <1>1, <1>3, <1>4, <1>5, <1>6

(* A day belongs to one segment of a pay history at most.                  *)
LEMMA SegmentsApart ==
    ASSUME HistoryInv, NEW e \in Employees, NEW p \in Periods, NEW s \in Segments(e, p), NEW t \in Segments(e, p), NEW d \in Int,
           s.from <= d, d <= s.to, t.from <= d, d <= t.to
    PROVE  s = t
<1>1. PICK h : h = paid[e] /\ h \in Seq(Row(Compensation)) /\ Unbroken(h)
  BY DEF HistoryInv, Sound, UnbrokenSince
<1>2. PICK i \in DOMAIN h, j \in DOMAIN h : s = Clip(h[i], p) /\ t = Clip(h[j], p) /\ h[i] \in Reaching(e, p) /\ h[j] \in Reaching(e, p)
  BY <1>1, SegmentsClip DEF Reaching, ToSet
<1>3. PayStart[p] \in Int /\ PayEnd[p] \in Int
  BY PayrollAssumption
<1>4. ASSUME NEW a \in DOMAIN h, NEW b \in DOMAIN h, a < b, h[a] \in Reaching(e, p)
      PROVE  ~(d <= Clip(h[a], p).to /\ Clip(h[b], p).from <= d)
  <2>1. h[a].to \in Int /\ h[b].from \in Int /\ h[a].to < h[b].from
    BY <1>1, <1>4, HistoryAscends
  <2>2. h[a].to # NoOne
    BY <2>1, StaffAssumption
  <2>3. PICK x \in Int, y \in Int, u \in Int, v \in Int : x = h[a].to /\ y = h[b].from /\ u = PayStart[p] /\ v = PayEnd[p]
    BY <1>3, <2>1
  <2>4. Clip(h[a], p).to = Min({x, v}) /\ Clip(h[b], p).from = Max({y, u})
    BY <2>2, <2>3 DEF Clip
  <2>5. Min({x, v}) <= x /\ Min({x, v}) \in Int /\ Max({y, u}) >= y /\ Max({y, u}) \in Int
    BY ONLY MinOfTwo, MaxOfTwo, x \in Int, y \in Int, u \in Int, v \in Int
  <2>. QED  BY <2>1, <2>3, <2>4, <2>5
<1>5. i \in Int /\ j \in Int
  BY <1>1
<1>6. i = j
  BY <1>2, <1>4, <1>5
<1>. QED  BY <1>2, <1>6

(* If each term is rounded by at most half a unit, then their sum by half  *)
(* a unit for each: of n times the rounded terms E and the exact terms g.  *)
LEMMA RoundingsAddUp ==
    ASSUME NEW S, IsFiniteSet(S), NEW n \in Nat, NEW E, NEW g,
           \A s \in S : E[s] \in Int /\ g[s] \in Int /\ 2 * (n * E[s] - g[s]) <= n /\ 2 * (g[s] - n * E[s]) <= n
    PROVE  /\ 2 * (n * SumFunctionOnSet(E, S) - SumFunctionOnSet(g, S)) <= n * Cardinality(S)
           /\ 2 * (SumFunctionOnSet(g, S) - n * SumFunctionOnSet(E, S)) <= n * Cardinality(S)
<1>. DEFINE u == [s \in S |-> n * E[s]]
            v == [s \in S |-> u[s] - g[s]]
            w == [s \in S |-> 2 * v[s]]
            x == [s \in S |-> (-2) * v[s]]
<1>1. \A s \in S : u[s] = n * E[s] /\ E[s] \in Int /\ u[s] \in Int /\ g[s] \in Int
  OBVIOUS
<1>2. \A s \in S : v[s] = u[s] - g[s] /\ v[s] \in Int
  <2>. HIDE DEF u
  <2>. QED  BY <1>1
<1>3. \A s \in S : 2 * v[s] <= n /\ (-2) * v[s] <= n
  <2>. SUFFICES ASSUME NEW s \in S PROVE 2 * v[s] <= n /\ (-2) * v[s] <= n
    OBVIOUS
  <2>1. PICK a \in Int, b \in Int : a = u[s] /\ b = g[s]
    BY <1>1
  <2>2. 2 * (a - b) <= n /\ 2 * (b - a) <= n
    BY <1>1, <2>1
  <2>3. v[s] = a - b
    BY <1>2, <2>1
  <2>. QED  BY ONLY <2>2, <2>3, n \in Nat, a \in Int, b \in Int
<1>4. \A s \in S : w[s] = 2 * v[s] /\ x[s] = (-2) * v[s]
  <2>. HIDE DEF v
  <2>. QED  OBVIOUS
<1>5. \A s \in S : w[s] \in Int /\ w[s] <= n /\ x[s] \in Int /\ x[s] <= n
  <2>. HIDE DEF v, w, x
  <2>. QED  BY <1>2, <1>3, <1>4
<1>. HIDE DEF u, v, w, x
<1>6. PICK sE \in Int, sg \in Int, sv \in Int :
        sE = SumFunctionOnSet(E, S) /\ sg = SumFunctionOnSet(g, S) /\ sv = SumFunctionOnSet(v, S)
  BY <1>1, <1>2, SumInt
<1>7. SumFunctionOnSet(u, S) = n * sE
  <2>1. n \in Int /\ \A s \in S : E[s] \in Int /\ u[s] = n * E[s]
    BY <1>1
  <2>2. SumFunctionOnSet(u, S) = n * SumFunctionOnSet(E, S)
    BY ONLY <2>1, IsFiniteSet(S), SumScale
  <2>. QED  BY <1>6, <2>2
<1>8. sv = SumFunctionOnSet(u, S) - sg
  <2>1. SumFunctionOnSet(v, S) = SumFunctionOnSet(u, S) - SumFunctionOnSet(g, S)
    BY ONLY <1>1, <1>2, IsFiniteSet(S), SumMinus
  <2>. QED  BY <1>6, <2>1
<1>9. SumFunctionOnSet(w, S) = 2 * sv /\ SumFunctionOnSet(x, S) = (-2) * sv
  <2>1. 2 \in Int /\ -2 \in Int
    OBVIOUS
  <2>2. SumFunctionOnSet(w, S) = 2 * SumFunctionOnSet(v, S)
    BY ONLY <1>2, <1>4, <2>1, IsFiniteSet(S), SumScale
  <2>3. SumFunctionOnSet(x, S) = (-2) * SumFunctionOnSet(v, S)
    BY ONLY <1>2, <1>4, <2>1, IsFiniteSet(S), SumScale
  <2>. QED  BY <1>6, <2>2, <2>3
<1>10. SumFunctionOnSet(w, S) <= n * Cardinality(S) /\ SumFunctionOnSet(x, S) <= n * Cardinality(S)
  <2>1. n \in Int
    OBVIOUS
  <2>. QED  BY ONLY <1>5, <2>1, IsFiniteSet(S), SumBounded
<1>11. PICK m \in Int, c \in Int : m = n * sE /\ c = n * Cardinality(S)
  <2>1. Cardinality(S) \in Nat
    BY FS_CardinalityType
  <2>. QED  BY <2>1
<1>12. sv = m - sg /\ 2 * sv <= c /\ (-2) * sv <= c
  BY <1>7, <1>8, <1>9, <1>10, <1>11
<1>13. 2 * (m - sg) <= c /\ 2 * (sg - m) <= c
  BY ONLY <1>12, m \in Int, c \in Int, sg \in Int
<1>. QED  BY <1>6, <1>11, <1>13

(* The segment a day belongs to.                                           *)
At(e, p, d) == CHOOSE s \in Segments(e, p) : s.from <= d /\ d <= s.to

(* In a covered period each day has its segment, and it is the only one.   *)
LEMMA DayHasSegment ==
    ASSUME HistoryInv, NEW e \in Employees, NEW p \in Periods, Covered(Segments(e, p), p), NEW d \in PayStart[p] .. PayEnd[p]
    PROVE  /\ At(e, p, d) \in Segments(e, p) /\ At(e, p, d).from <= d /\ d <= At(e, p, d).to
           /\ \A s \in Segments(e, p) : d \in s.from .. s.to <=> At(e, p, d) = s
<1>1. \E s \in Segments(e, p) : s.from <= d /\ d <= s.to
  BY DEF Covered
<1>2. At(e, p, d) \in Segments(e, p) /\ At(e, p, d).from <= d /\ d <= At(e, p, d).to
  BY <1>1 DEF At
<1>3. d \in Int
  BY PayrollAssumption
<1>4. ASSUME NEW s \in Segments(e, p)
      PROVE  d \in s.from .. s.to <=> At(e, p, d) = s
  <2>1. s.from \in Int /\ s.to \in Int
    BY SegmentsClipped DEF Clipped
  <2>2. CASE d \in s.from .. s.to
    <3>1. s.from <= d /\ d <= s.to
      BY <2>1, <2>2
    <3>. QED  BY <1>2, <1>3, <2>2, <3>1, SegmentsApart
  <2>3. CASE d \notin s.from .. s.to
    BY <1>2, <1>3, <2>1, <2>3
  <2>. QED  BY <2>2, <2>3
<1>. QED  BY <1>2, <1>4

(* The salary of a segment is that of its days.                            *)
LEMMA SegmentByDay ==
    ASSUME NEW s, NEW p \in Periods, Clipped(s, p), NEW f, \A d \in s.from .. s.to : f[d] = s.pay.rate
    PROVE  /\ SumFunctionOnSet(f, s.from .. s.to) = s.pay.rate * Days(s.from, s.to)
           /\ s.pay.rate * Days(s.from, s.to) \in Nat
<1>1. PICK a \in Int, b \in Int, c \in Nat : a = s.from /\ b = s.to /\ c = s.pay.rate /\ a <= b
  BY DEF Clipped, Compensation
<1>2. IsFiniteSet(a .. b) /\ Cardinality(a .. b) = b - a + 1
  <2>1. IsFiniteSet(a .. b) /\ Cardinality(a .. b) = IF a > b THEN 0 ELSE b - a + 1
    BY ONLY FS_Interval, a \in Int, b \in Int
  <2>. QED  BY ONLY <1>1, <2>1, a \in Int, b \in Int
<1>3. \A d \in a .. b : f[d] = c
  BY <1>1
<1>4. SumFunctionOnSet(f, a .. b) = c * Cardinality(a .. b)
  <2>1. PICK T : T = a .. b
    OBVIOUS
  <2>2. IsFiniteSet(T) /\ c \in Int /\ \A d \in T : f[d] = c
    BY <1>2, <1>3, <2>1
  <2>3. SumFunctionOnSet(f, T) = c * Cardinality(T)
    BY ONLY <2>2, SumConstant
  <2>. QED  BY ONLY <2>1, <2>3
<1>5. b - a + 1 \in Nat
  BY ONLY <1>1, a \in Int, b \in Int
<1>6. c * (b - a + 1) \in Nat
  BY ONLY <1>5, c \in Nat, ProductNat
<1>. QED  BY <1>1, <1>2, <1>4, <1>6 DEF Days

(* calculate_employee_pay rounds each segment of a salary once; so the     *)
(* gross is the sum of the days at their own rates, up to half a cent for  *)
(* each segment.                                                           *)
LEMMA SalaryByDay ==
    ASSUME HistoryInv, NEW e \in Employees, NEW p \in Periods, Covered(Segments(e, p), p), NEW gross, gross = Gross(p, Attendance(e, p)),
           \A s \in Segments(e, p) : s.pay.type = "SALARY", NEW n, n = PayEnd[p] - PayStart[p] + 1,
           NEW f, f = [d \in PayStart[p] .. PayEnd[p] |-> At(e, p, d).pay.rate]
    PROVE  LET exact == SumFunctionOnSet(f, PayStart[p] .. PayEnd[p]) IN
           /\ 2 * (n * gross - exact) <= n * Cardinality(Segments(e, p))
           /\ 2 * (exact - n * gross) <= n * Cardinality(Segments(e, p))
<1>1. PICK S, D : S = Segments(e, p) /\ D = PayStart[p] .. PayEnd[p]
  OBVIOUS
<1>2. IsFiniteSet(S) /\ \A s \in S : Clipped(s, p)
  BY <1>1, SegmentsClipped
<1>3. PayStart[p] \in Int /\ PayEnd[p] \in Int /\ n \in Nat \ {0}
  BY PayrollAssumption
<1>4. IsFiniteSet(D)
  BY <1>1, <1>3, FS_Interval
<1>. DEFINE k == [d \in D |-> At(e, p, d)]
            C == [s \in S |-> s.from .. s.to]
            g == [s \in S |-> s.pay.rate * Days(s.from, s.to)]
            E == [s \in S |-> Earned(p, s, Attendance(e, p)[s])]
<1>5. \A d \in D : k[d] \in S /\ f[d] = k[d].pay.rate /\ \A s \in S : d \in C[s] <=> k[d] = s
  BY <1>1, DayHasSegment
<1>6. \A s \in S : C[s] \subseteq D
  <2>. SUFFICES ASSUME NEW s \in S PROVE s.from .. s.to \subseteq D
    OBVIOUS
  <2>1. s.from \in Int /\ s.to \in Int /\ PayStart[p] <= s.from /\ s.to <= PayEnd[p]
    BY <1>2 DEF Clipped
  <2>. QED  BY <1>1, <1>3, <2>1
<1>7. \A d \in D : f[d] \in Int
  BY <1>2, <1>5 DEF Clipped, Compensation
<1>8. \A s \in S : g[s] = SumFunctionOnSet(f, C[s]) /\ g[s] \in Nat
  <2>. SUFFICES ASSUME NEW s \in S
                PROVE  /\ s.pay.rate * Days(s.from, s.to) = SumFunctionOnSet(f, s.from .. s.to)
                       /\ s.pay.rate * Days(s.from, s.to) \in Nat
    OBVIOUS
  <2>1. \A d \in s.from .. s.to : f[d] = s.pay.rate
    BY <1>5, <1>6
  <2>. QED  BY <1>2, <2>1, SegmentByDay
<1>9. \A s \in S : E[s] = RoundHalfUp(g[s], n)
  BY <1>1 DEF Earned
<1>10. gross = SumFunctionOnSet(E, S)
  <2>1. PICK worked : worked = Attendance(e, p) /\ DOMAIN worked = S
    BY <1>1 DEF Attendance
  <2>2. E = [s \in DOMAIN worked |-> Earned(p, s, worked[s])]
    BY <2>1
  <2>. QED  BY <2>1, <2>2 DEF Gross, SumOver
<1>. HIDE DEF k, C, g, E
<1>11. SumFunctionOnSet(g, S) = SumFunctionOnSet(f, D)
  <2>1. \A d \in D : k[d] \in S
    BY <1>5
  <2>2. \A s \in S : C[s] \subseteq D /\ (\A d \in D : d \in C[s] <=> k[d] = s) /\ g[s] = SumFunctionOnSet(f, C[s])
    BY <1>5, <1>6, <1>8
  <2>. QED  BY ONLY <1>2, <1>4, <1>7, <2>1, <2>2, SumByClass
<1>12. \A s \in S : E[s] \in Int /\ g[s] \in Int /\ 2 * (n * E[s] - g[s]) <= n /\ 2 * (g[s] - n * E[s]) <= n
  <2>. SUFFICES ASSUME NEW s \in S
                PROVE  E[s] \in Int /\ g[s] \in Int /\ 2 * (n * E[s] - g[s]) <= n /\ 2 * (g[s] - n * E[s]) <= n
    OBVIOUS
  <2>1. PICK a \in Nat : a = g[s]
    BY <1>8
  <2>2. E[s] = RoundHalfUp(a, n)
    BY <1>9, <2>1
  <2>3. RoundHalfUp(a, n) \in Nat /\ 2 * (n * RoundHalfUp(a, n) - a) <= n /\ 2 * (a - n * RoundHalfUp(a, n)) <= n
    BY ONLY <1>3, a \in Nat, RoundedNear
  <2>. QED  BY ONLY <2>1, <2>2, <2>3, a \in Nat
<1>13. /\ 2 * (n * SumFunctionOnSet(E, S) - SumFunctionOnSet(g, S)) <= n * Cardinality(S)
       /\ 2 * (SumFunctionOnSet(g, S) - n * SumFunctionOnSet(E, S)) <= n * Cardinality(S)
  <2>1. n \in Nat
    BY <1>3
  <2>. QED  BY ONLY <1>2, <1>12, <2>1, RoundingsAddUp
<1>. QED  BY <1>1, <1>10, <1>11, <1>13

(* However often a salary changed, whatever the dates of the changes, the  *)
(* gross of a covered period is the sum of its days at their own rates, up *)
(* to half a cent for each segment (ProratedByDay).  It follows from the   *)
(* histories alone: they have no gap and no overlap (HistoryInv), so the   *)
(* segments cut a period into intervals that do not meet.                  *)
THEOREM SalariesProrated == Spec => []ProratedByDay
<1>1. HistoryInv => ProratedByDay
  <2>. SUFFICES ASSUME HistoryInv, NEW e \in Employees, NEW p \in Periods, Covered(Segments(e, p), p),
                       \A s \in Segments(e, p) : s.pay.type = "SALARY"
                PROVE  LET n == PayEnd[p] - PayStart[p] + 1
                           rate(d) == (CHOOSE s \in Segments(e, p) : s.from <= d /\ d <= s.to).pay.rate
                           exact == SumOver(PayStart[p] .. PayEnd[p], rate)
                           slack == n * Cardinality(Segments(e, p))
                           gross == Gross(p, Attendance(e, p))
                       IN  2 * (n * gross - exact) <= slack /\ 2 * (exact - n * gross) <= slack
    BY Zenon DEF ProratedByDay
  <2>1. PICK f : f = [d \in PayStart[p] .. PayEnd[p] |-> At(e, p, d).pay.rate]
    OBVIOUS
  <2>2. PICK n : n = PayEnd[p] - PayStart[p] + 1
    OBVIOUS
  <2>3. LET exact == SumFunctionOnSet(f, PayStart[p] .. PayEnd[p])
            gross == Gross(p, Attendance(e, p))
        IN  /\ 2 * (n * gross - exact) <= n * Cardinality(Segments(e, p))
            /\ 2 * (exact - n * gross) <= n * Cardinality(Segments(e, p))
    BY <2>1, <2>2, SalaryByDay
  <2>. QED  BY <2>1, <2>2, <2>3, Zenon DEF SumOver, At
<1>2. Spec => []HistoryInv
  BY HistoryInit, HistoryKept, ShapeAlways, PTL DEF Spec
<1>. QED  BY <1>1, <1>2, PTL
=============================================================================
