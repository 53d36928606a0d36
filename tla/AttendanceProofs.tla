---------------------------- MODULE AttendanceProofs ----------------------------
(***************************************************************************)
(* Proofs about EmployeeLifecycle and the app in front of it: what the     *)
(* requests of the phone may do to the employee and its records, and what  *)
(* the app's queue keeps. The app's steps are steps of the lifecycle or    *)
(* leave it alone, so what is proved of the lifecycle holds of both.       *)
(***************************************************************************)
EXTENDS AttendanceQueue, SequenceTheorems, TLAPS

Request == [pc: Working \cup {"idle", "mark", "ok", "refused"}, call: Calls, day: Days,
            seen: Employees, want: Employees, record: Nat, session: Nat]

\* A document, or a copy of it, that says who is on leave in one way only.
Remembers(e) == e.onLeave <=> e.preLeave # NoState

\* What a request may have made of its copy: a leave changes both fields or
\* none, the company is nobody's, and the assignment only ends.
CopyKept(q) ==
    /\ Remembers(q.seen) /\ Remembers(q.want)
    /\ q.want.onLeave = q.seen.onLeave <=> q.want.preLeave = q.seen.preLeave
    /\ q.want.company = q.seen.company
    /\ q.want.assigned # q.seen.assigned => q.want.assigned = "site-over"

\* A request about to save a record has made the session that it names.
SessionMade(q) ==
    q.pc = "record" => /\ q.session \in 1..Len(sessions)
                       /\ sessions[q.session].day = q.day

LifecycleInv ==
    /\ LifecycleTypeOK
    /\ LeaveRemembersState
    /\ \A r \in Requests : CopyKept(request[r]) /\ SessionMade(request[r])
    /\ RecordHasSession

\* Sessions come, and are closed, but keep their day.
SessionsGrow ==
    /\ sessions' \in Seq([day: Days, open: BOOLEAN])
    /\ Len(sessions) <= Len(sessions')
    /\ \A s \in 1..Len(sessions) : sessions'[s].day = sessions[s].day

\* What no request of the phone does.
AssignmentKept ==
    /\ employee'.company = employee.company
    /\ employee'.assigned # employee.assigned => employee'.assigned = "site-over"

-----------------------------------------------------------------------------
(* The employee and its copies *)

LEMMA NewHireType ==
  ASSUME NEW c \in Companies \cup {NoCompany}
  PROVE  NewHire(c) \in Employees /\ Remembers(NewHire(c))
BY DEF NewHire, Employees, States, Remembers

LEMMA IdleType ==
  Idle \in Request /\ Idle.pc = "idle" /\ CopyKept(Idle) /\ Idle.want = Idle.seen
<1> DEFINE e == NewHire(NoCompany)
<1>1. e \in Employees /\ Remembers(e)
  BY NewHireType
<1>2. 1 \in Days
  BY DaysAssumption DEF Days
<1>3. Idle = [pc |-> "idle", call |-> "assignmentStatus", day |-> 1, seen |-> e, want |-> e,
              record |-> 0, session |-> 0]
  BY DEF Idle
<1> HIDE DEF e
<1> QED
  BY <1>1, <1>2, <1>3 DEF Request, CopyKept, Calls, Remembers

LEMMA AnswerType ==
  ASSUME NEW pc \in {"idle", "ok", "refused"}, NEW call \in Calls, NEW state \in States
  PROVE  /\ Answer(pc, call, state) \in Request
         /\ Answer(pc, call, state).pc = pc
         /\ CopyKept(Answer(pc, call, state))
<1> DEFINE w == [Idle.want EXCEPT !.state = state]
           q == [Idle EXCEPT !.pc = pc, !.call = call, !.want = w]
<1>1. Idle.want \in Employees /\ Idle.want = Idle.seen /\ Remembers(Idle.seen)
  BY IdleType DEF Request, CopyKept
<1>2. /\ w \in Employees
      /\ w.onLeave = Idle.seen.onLeave /\ w.preLeave = Idle.seen.preLeave
      /\ w.company = Idle.seen.company /\ w.assigned = Idle.seen.assigned
  BY <1>1 DEF Employees
<1>3. Answer(pc, call, state) = q
  BY IdleType DEF Request, Answer
<1> HIDE DEF w
<1>4. q \in Request /\ q.pc = pc /\ q.call = call /\ q.want = w /\ q.seen = Idle.seen
  BY <1>2, IdleType DEF Request
<1> HIDE DEF q
<1>5. CopyKept(q)
  BY <1>1, <1>2, <1>4 DEF CopyKept, Remembers
<1> QED
  BY <1>3, <1>4, <1>5

\* What a call makes of its copy at once.
LEMMA WantedKept ==
  ASSUME NEW call \in Calls, NEW e \in Employees, Remembers(e), ~Refuses(call, e)
  PROVE  LET w == Wanted(call, e) IN
         /\ w \in Employees
         /\ Remembers(w)
         /\ w.onLeave = e.onLeave <=> w.preLeave = e.preLeave
         /\ w.company = e.company
         /\ w.assigned # e.assigned => w.assigned = "site-over"
<1>1. CASE call = "siteFinished"
  BY <1>1 DEF Wanted, Employees, States, Remembers
<1>2. CASE call = "startLeave"
  <2>1. ~e.onLeave /\ e.preLeave = NoState /\ e.state # NoState
    BY <1>2, NoStateAssumption DEF Refuses, Remembers, Employees
  <2>2. Wanted(call, e) = [e EXCEPT !.preLeave = e.state, !.onLeave = TRUE, !.state = "ON_LEAVE"]
    BY <1>2 DEF Wanted
  <2> QED
    BY <2>1, <2>2 DEF Employees, States, Remembers
<1>3. CASE call = "endLeave"
  <2>1. e.onLeave /\ e.preLeave # NoState
    BY <1>3 DEF Refuses, Remembers, Employees
  <2>2. Restored(e) \in States
    BY DEF Restored, Employees, States
  <2>3. Wanted(call, e) =
          [e EXCEPT !.state = Restored(e), !.preLeave = NoState, !.onLeave = FALSE]
    BY <1>3 DEF Wanted, LeaveEnded
  <2> QED
    BY <2>1, <2>2, <2>3 DEF Employees, Remembers
<1>4. CASE call \notin {"siteFinished", "startLeave", "endLeave"}
  BY <1>4 DEF Wanted, Employees, Remembers
<1> QED
  BY <1>1, <1>2, <1>3, <1>4

\* A save writes the fields that were changed and no other.
LEMMA SavedFields ==
  ASSUME employee \in Employees, NEW seen \in Employees, NEW want \in Employees
  PROVE  /\ Saved(seen, want) \in Employees
         /\ \A f \in {"onLeave", "preLeave", "company", "assigned"} :
               Saved(seen, want)[f] = IF want[f] # seen[f] THEN want[f] ELSE employee[f]
<1>1. DOMAIN employee = {"state", "assigned", "company", "preLeave", "onLeave"}
  BY DEF Employees
<1>2. Saved(seen, want) =
        [state |-> IF want.state # seen.state THEN want.state ELSE employee.state,
         assigned |-> IF want.assigned # seen.assigned THEN want.assigned ELSE employee.assigned,
         company |-> IF want.company # seen.company THEN want.company ELSE employee.company,
         preLeave |-> IF want.preLeave # seen.preLeave THEN want.preLeave ELSE employee.preLeave,
         onLeave |-> IF want.onLeave # seen.onLeave THEN want.onLeave ELSE employee.onLeave]
  BY <1>1 DEF Saved
<1> QED
  BY <1>1, <1>2 DEF Employees, Saved

LEMMA SavedKept ==
  ASSUME employee \in Employees, Remembers(employee),
         NEW q \in Request, CopyKept(q), employee' = Saved(q.seen, q.want)
  PROVE  /\ employee' \in Employees
         /\ Remembers(employee')
         /\ AssignmentKept
<1>1. q.seen \in Employees /\ q.want \in Employees
  BY DEF Request
<1> DEFINE s == q.seen
           w == q.want
<1>2. /\ employee' \in Employees
      /\ employee'.onLeave = IF w.onLeave # s.onLeave THEN w.onLeave ELSE employee.onLeave
      /\ employee'.preLeave = IF w.preLeave # s.preLeave THEN w.preLeave ELSE employee.preLeave
      /\ employee'.company = IF w.company # s.company THEN w.company ELSE employee.company
      /\ employee'.assigned = IF w.assigned # s.assigned THEN w.assigned ELSE employee.assigned
  BY <1>1, SavedFields
<1>3. Remembers(employee')
  <2>1. CASE w.onLeave = s.onLeave
    BY <1>2, <2>1 DEF CopyKept, Remembers
  <2>2. CASE w.onLeave # s.onLeave
    BY <1>2, <2>2 DEF CopyKept, Remembers
  <2> QED
    BY <2>1, <2>2
<1> QED
  BY <1>2, <1>3 DEF CopyKept, AssignmentKept

-----------------------------------------------------------------------------
(* The steps of a request *)

\* Records and sessions that stay keep to each other.
LEMMA RecordsStay ==
  ASSUME LifecycleInv, SessionsGrow, attendance' = attendance
  PROVE  RecordHasSession'
<1> SUFFICES ASSUME NEW i \in 1..Len(attendance), Live(i), attendance[i].session # 0
             PROVE  /\ attendance[i].session <= Len(sessions')
                    /\ sessions'[attendance[i].session].day = attendance[i].day
  BY DEF RecordHasSession, Live
<1>1. /\ attendance[i].session \in 1..Len(sessions)
      /\ sessions[attendance[i].session].day = attendance[i].day
  <2>1. attendance[i] \in Records
    BY ElementOfSeq DEF LifecycleInv, LifecycleTypeOK, Live
  <2> QED
    BY <2>1 DEF LifecycleInv, RecordHasSession, Records, LifecycleTypeOK
<1>2. Len(sessions) \in Nat /\ Len(sessions') \in Nat
  BY LenProperties DEF LifecycleInv, LifecycleTypeOK, SessionsGrow
<1> QED
  BY <1>1, <1>2 DEF SessionsGrow

LEMMA SessionsStay ==
  ASSUME LifecycleTypeOK, sessions' = sessions
  PROVE  SessionsGrow
<1>1. Len(sessions) \in Nat
  BY LenProperties DEF LifecycleTypeOK
<1> QED
  BY <1>1 DEF SessionsGrow, LifecycleTypeOK

\* A request becomes q; what else changed is in order.
LEMMA Becomes ==
  ASSUME LifecycleInv, NEW r \in Requests, NEW q \in Request,
         request' = [request EXCEPT ![r] = q], CopyKept(q),
         employee' \in Employees, Remembers(employee'),
         attendance' \in Seq(Records \cup {Removed}), SessionsGrow,
         UNCHANGED <<today, reactivating, officeCalls>>,
         q.pc = "record" => /\ q.session \in 1..Len(sessions')
                            /\ sessions'[q.session].day = q.day,
         RecordHasSession'
  PROVE  LifecycleInv'
<1>1. LifecycleTypeOK'
  BY DEF LifecycleInv, LifecycleTypeOK, Request, SessionsGrow
<1>2. LeaveRemembersState'
  BY DEF LeaveRemembersState, Remembers
<1>3. ASSUME NEW p \in Requests
      PROVE  CopyKept(request'[p]) /\ SessionMade(request[p])'
  <2>1. CASE p = r
    <3>1. request'[p] = q
      BY <2>1 DEF LifecycleInv, LifecycleTypeOK
    <3> QED
      BY <3>1 DEF SessionMade
  <2>2. CASE p # r
    <3>1. request'[p] = request[p] /\ request[p] \in Request
      BY <2>2 DEF LifecycleInv, LifecycleTypeOK, Request
    <3>2. Len(sessions) \in Nat /\ Len(sessions') \in Nat
      BY LenProperties DEF LifecycleInv, LifecycleTypeOK, SessionsGrow
    <3>3. CopyKept(request'[p])
      BY <3>1 DEF LifecycleInv
    <3>4. ASSUME request[p].pc = "record"
          PROVE  /\ request[p].session \in 1..Len(sessions')
                 /\ sessions'[request[p].session].day = request[p].day
      <4>1. /\ request[p].session \in 1..Len(sessions)
            /\ sessions[request[p].session].day = request[p].day
        BY <3>4 DEF LifecycleInv, SessionMade
      <4> QED
        BY <4>1, <3>2 DEF SessionsGrow
    <3> QED
      BY <3>1, <3>3, <3>4 DEF SessionMade
  <2> QED
    BY <2>1, <2>2
<1> QED
  BY <1>1, <1>2, <1>3 DEF LifecycleInv, CopyKept, Remembers

\* A request goes on, or answers, and touches nothing.
LEMMA QuietStep ==
  ASSUME LifecycleInv, NEW r \in Requests, NEW q \in Request,
         request' = [request EXCEPT ![r] = q], CopyKept(q), q.pc # "record",
         UNCHANGED <<employee, attendance, sessions, today, reactivating, officeCalls>>
  PROVE  LifecycleInv' /\ AssignmentKept
<1>1. SessionsGrow
  BY SessionsStay DEF LifecycleInv
<1>2. RecordHasSession'
  BY <1>1, RecordsStay
<1>3. employee' \in Employees /\ Remembers(employee') /\ attendance' \in Seq(Records \cup {Removed})
  BY DEF LifecycleInv, LifecycleTypeOK, LeaveRemembersState, Remembers
<1>4. LifecycleInv'
  BY <1>1, <1>2, <1>3, Becomes
<1> QED
  BY <1>4 DEF AssignmentKept


\* A request has moved on, but not to the saving of a record.
Moves(r) ==
    \E q \in Request : /\ request' = [request EXCEPT ![r] = q]
                       /\ CopyKept(q) /\ q.pc # "record"

LEMMA EndsMoves ==
  ASSUME LifecycleInv, NEW r \in Requests, NEW pc \in {"ok", "refused"}, Ends(r, pc)
  PROVE  Moves(r)
<1>1. request[r] \in Request
  BY DEF LifecycleInv, LifecycleTypeOK, Request
<1>2. request[r].call \in Calls /\ request[r].want.state \in States
  BY <1>1 DEF Request, Employees
<1> DEFINE q == Answer(pc, request[r].call, request[r].want.state)
<1>3. q \in Request /\ q.pc = pc /\ CopyKept(q)
  BY <1>2, AnswerType
<1>4. request' = [request EXCEPT ![r] = q]
  BY DEF Ends
<1> HIDE DEF q
<1> QED
  BY <1>3, <1>4 DEF Moves

LEMMA GoesWantingMoves ==
  ASSUME LifecycleInv, NEW r \in Requests, NEW pc \in Working \ {"record"},
         NEW state \in States, GoesWanting(r, pc, state)
  PROVE  Moves(r)
<1>1. request[r] \in Request /\ CopyKept(request[r])
  BY DEF LifecycleInv, LifecycleTypeOK, Request
<1> DEFINE w == [request[r].want EXCEPT !.state = state]
           q == [request[r] EXCEPT !.pc = pc, !.want = w]
<1>2. request[r].want \in Employees
  BY <1>1 DEF Request
<1>3. /\ w \in Employees
      /\ w.onLeave = request[r].want.onLeave /\ w.preLeave = request[r].want.preLeave
      /\ w.company = request[r].want.company /\ w.assigned = request[r].want.assigned
  BY <1>2 DEF Employees
<1>4. request' = [request EXCEPT ![r] = q]
  <2>1. request \in [Requests -> Request]
    BY DEF LifecycleInv, LifecycleTypeOK, Request
  <2> QED
    BY <1>1, <2>1 DEF GoesWanting, Request
<1> HIDE DEF w
<1>5. q \in Request /\ q.pc = pc /\ q.want = w /\ q.seen = request[r].seen
  BY <1>1, <1>3 DEF Request
<1> HIDE DEF q
<1>6. CopyKept(q)
  BY <1>1, <1>3, <1>5 DEF CopyKept, Remembers
<1> QED
  BY <1>4, <1>5, <1>6 DEF Moves

\* A request that takes a record along, or only goes on.
LEMMA TakesMoves ==
  ASSUME LifecycleInv, NEW r \in Requests, NEW pc \in (Working \cup {"mark"}) \ {"record"},
         NEW i \in Nat, request' = [request EXCEPT ![r].pc = pc, ![r].record = i]
  PROVE  Moves(r)
<1>1. request[r] \in Request /\ CopyKept(request[r])
  BY DEF LifecycleInv, LifecycleTypeOK, Request
<1> DEFINE q == [request[r] EXCEPT !.pc = pc, !.record = i]
<1>2. request' = [request EXCEPT ![r] = q]
  BY <1>1 DEF LifecycleInv, LifecycleTypeOK
<1>3. q \in Request /\ q.pc = pc /\ q.want = request[r].want /\ q.seen = request[r].seen
  BY <1>1 DEF Request
<1> HIDE DEF q
<1> QED
  BY <1>1, <1>2, <1>3 DEF Moves, CopyKept

LEMMA GoesMoves ==
  ASSUME LifecycleInv, NEW r \in Requests, NEW pc \in (Working \cup {"mark"}) \ {"record"},
         Goes(r, pc)
  PROVE  Moves(r)
<1>1. request[r] \in Request /\ CopyKept(request[r])
  BY DEF LifecycleInv, LifecycleTypeOK, Request
<1> DEFINE q == [request[r] EXCEPT !.pc = pc]
<1>2. request' = [request EXCEPT ![r] = q]
  BY <1>1 DEF LifecycleInv, LifecycleTypeOK, Goes
<1>3. q \in Request /\ q.pc = pc /\ q.want = request[r].want /\ q.seen = request[r].seen
  BY <1>1 DEF Request
<1> HIDE DEF q
<1> QED
  BY <1>1, <1>2, <1>3 DEF Moves, CopyKept

LEMMA QuietMove ==
  ASSUME LifecycleInv, NEW r \in Requests, Moves(r),
         UNCHANGED <<employee, attendance, sessions, today, reactivating, officeCalls>>
  PROVE  LifecycleInv' /\ AssignmentKept
<1>1. PICK q \in Request : /\ request' = [request EXCEPT ![r] = q]
                           /\ CopyKept(q) /\ q.pc # "record"
  BY DEF Moves
<1> QED
  BY <1>1, QuietStep

LEMMA ArriveKeeps ==
  ASSUME LifecycleInv, NEW r \in Requests, NEW call \in Calls, NEW day \in Days,
         Arrive(r, call, day)
  PROVE  LifecycleInv' /\ AssignmentKept
<1>1. employee \in Employees /\ Remembers(employee) /\ today \in Days
  BY DEF LifecycleInv, LifecycleTypeOK, LeaveRemembersState, Remembers
<1>2. FirstStep(call, employee) \in (Working \cup {"ok", "refused"}) \ {"record"}
  BY DEF FirstStep, Working
<1>3. CASE FirstStep(call, employee) \in {"ok", "refused"}
  <2> DEFINE q == Answer(FirstStep(call, employee), call, employee.state)
  <2>1. employee.state \in States
    BY <1>1 DEF Employees
  <2>2. q \in Request /\ q.pc = FirstStep(call, employee) /\ CopyKept(q)
    BY <1>3, <2>1, AnswerType
  <2>3. request' = [request EXCEPT ![r] = q]
    BY <1>3 DEF Arrive
  <2> HIDE DEF q
  <2>4. Moves(r)
    BY <1>3, <2>2, <2>3 DEF Moves
  <2> QED
    BY <2>4, QuietMove DEF Arrive
<1>4. CASE FirstStep(call, employee) \notin {"ok", "refused"}
  <2>1. PICK d \in EventDays(day) : request' = [request EXCEPT ![r] =
            [pc |-> FirstStep(call, employee), call |-> call, day |-> d, seen |-> employee,
             want |-> Wanted(call, employee), record |-> 0, session |-> 0]]
    BY <1>4 DEF Arrive
  <2>2. d \in Days
    BY <1>1, <2>1 DEF EventDays
  <2>3. ~Refuses(call, employee)
    BY <1>4 DEF FirstStep
  <2> DEFINE w == Wanted(call, employee)
             q == [pc |-> FirstStep(call, employee), call |-> call, day |-> d, seen |-> employee,
                   want |-> w, record |-> 0, session |-> 0]
  <2>4. /\ w \in Employees /\ Remembers(w)
        /\ w.onLeave = employee.onLeave <=> w.preLeave = employee.preLeave
        /\ w.company = employee.company
        /\ w.assigned # employee.assigned => w.assigned = "site-over"
    BY <1>1, <2>3, WantedKept
  <2> HIDE DEF w
  <2>5. q \in Request /\ CopyKept(q) /\ q.pc # "record"
    BY <1>1, <1>2, <2>2, <2>4 DEF Request, CopyKept, Remembers
  <2>6. request' = [request EXCEPT ![r] = q]
    BY <2>1 DEF w
  <2> HIDE DEF q
  <2>7. Moves(r)
    BY <2>5, <2>6 DEF Moves
  <2> QED
    BY <2>7, QuietMove DEF Arrive
<1> QED
  BY <1>3, <1>4


\* A save of the employee, after which the request moves on to q.
LEMMA SaveKeeps ==
  ASSUME LifecycleInv, NEW r \in Requests, Moves(r),
         employee' = Saved(request[r].seen, request[r].want),
         UNCHANGED <<attendance, sessions, today, reactivating, officeCalls>>
  PROVE  LifecycleInv' /\ AssignmentKept
<1>1. request[r] \in Request /\ CopyKept(request[r])
  BY DEF LifecycleInv, LifecycleTypeOK, Request
<1>2. employee \in Employees /\ Remembers(employee)
  BY DEF LifecycleInv, LifecycleTypeOK, LeaveRemembersState, Remembers
<1>3. employee' \in Employees /\ Remembers(employee') /\ AssignmentKept
  BY <1>1, <1>2, SavedKept
<1>4. PICK q \in Request : /\ request' = [request EXCEPT ![r] = q]
                           /\ CopyKept(q) /\ q.pc # "record"
  BY DEF Moves
<1>5. SessionsGrow
  BY SessionsStay DEF LifecycleInv
<1>6. RecordHasSession'
  BY <1>5, RecordsStay
<1>7. attendance' \in Seq(Records \cup {Removed})
  BY DEF LifecycleInv, LifecycleTypeOK
<1>8. LifecycleInv'
  BY <1>3, <1>4, <1>5, <1>6, <1>7, Becomes
<1> QED
  BY <1>3, <1>8

LEMMA ResetKeeps ==
  ASSUME LifecycleInv, NEW r \in Requests, Reset(r)
  PROVE  LifecycleInv' /\ AssignmentKept
<1>1. request[r] \in Request /\ CopyKept(request[r])
  BY DEF LifecycleInv, LifecycleTypeOK, Request
<1>2. Moves(r)
  <2>1. CASE request[r].call = "checkIn"
    <3> DEFINE w == [request[r].want EXCEPT !.state = "CHECKED_IN"]
               q == [request[r] EXCEPT !.seen = request[r].want, !.want = w, !.pc = "save"]
    <3>1. request[r].want \in Employees
      BY <1>1 DEF Request
    <3>2. /\ w \in Employees
          /\ w.onLeave = request[r].want.onLeave /\ w.preLeave = request[r].want.preLeave
          /\ w.company = request[r].want.company /\ w.assigned = request[r].want.assigned
      BY <3>1 DEF Employees, States
    <3>3. request' = [request EXCEPT ![r] = q]
      <4>1. request \in [Requests -> Request]
        BY DEF LifecycleInv, LifecycleTypeOK, Request
      <4> QED
        BY <1>1, <2>1, <4>1 DEF Reset, Request
    <3> HIDE DEF w
    <3>4. q \in Request /\ q.pc = "save" /\ q.want = w /\ q.seen = request[r].want
      BY <1>1, <3>1, <3>2 DEF Request, Working
    <3> HIDE DEF q
    <3>5. CopyKept(q)
      BY <1>1, <3>2, <3>4 DEF CopyKept, Remembers
    <3> QED
      BY <3>3, <3>4, <3>5 DEF Moves
  <2>2. CASE request[r].call # "checkIn"
    BY <2>2, EndsMoves DEF Reset
  <2> QED
    BY <2>1, <2>2
<1> QED
  BY <1>2, SaveKeeps DEF Reset

LEMMA StartSessionKeeps ==
  ASSUME LifecycleInv, NEW r \in Requests, StartSession(r)
  PROVE  LifecycleInv' /\ AssignmentKept
<1> DEFINE n == Len(sessions) + 1
           q == [request[r] EXCEPT !.pc = "record", !.session = n]
           made == [day |-> request[r].day, open |-> TRUE]
<1>1. request[r] \in Request /\ CopyKept(request[r])
  BY DEF LifecycleInv, LifecycleTypeOK, Request
<1>2. sessions \in Seq([day: Days, open: BOOLEAN]) /\ Len(sessions) \in Nat
  BY LenProperties DEF LifecycleInv, LifecycleTypeOK
<1>3. made \in [day: Days, open: BOOLEAN] /\ made.day = request[r].day
  BY <1>1 DEF Request
<1>4. sessions' = Append(sessions, made)
  BY DEF StartSession
<1> HIDE DEF made
<1>5. /\ sessions' \in Seq([day: Days, open: BOOLEAN])
      /\ Len(sessions') = Len(sessions) + 1
      /\ \A s \in 1..Len(sessions) : sessions'[s] = sessions[s]
      /\ sessions'[Len(sessions) + 1] = made
  BY <1>2, <1>3, <1>4
<1>6. SessionsGrow
  BY <1>2, <1>5 DEF SessionsGrow
<1>7. request' = [request EXCEPT ![r] = q]
  <2>1. request \in [Requests -> Request]
    BY DEF LifecycleInv, LifecycleTypeOK, Request
  <2>2. request' = [request EXCEPT ![r].pc = "record", ![r].session = n]
    BY DEF StartSession
  <2> HIDE DEF n
  <2> QED
    BY <1>1, <2>1, <2>2 DEF Request
<1>8. /\ q \in Request /\ q.session = Len(sessions) + 1 /\ q.day = request[r].day
      /\ q.seen = request[r].seen /\ q.want = request[r].want
  <2>1. n \in Nat
    BY <1>2
  <2> HIDE DEF n
  <2>2. q \in Request /\ q.session = n /\ q.day = request[r].day
        /\ q.seen = request[r].seen /\ q.want = request[r].want
    BY <1>1, <2>1 DEF Request, Working
  <2> QED
    BY <2>2 DEF n
<1> HIDE DEF q
<1>9. CopyKept(q)
  BY <1>1, <1>8 DEF CopyKept
<1>10. q.session \in 1..Len(sessions') /\ sessions'[q.session].day = q.day
  BY <1>2, <1>3, <1>5, <1>8
<1>11. RecordHasSession'
  BY <1>6, RecordsStay DEF StartSession
<1>12. /\ employee' \in Employees /\ Remembers(employee')
       /\ attendance' \in Seq(Records \cup {Removed})
       /\ UNCHANGED <<today, reactivating, officeCalls>>
  BY DEF StartSession, LifecycleInv, LifecycleTypeOK, LeaveRemembersState, Remembers
<1>13. LifecycleInv'
  BY <1>6, <1>7, <1>8, <1>9, <1>10, <1>11, <1>12, Becomes
<1> QED
  BY <1>13 DEF AssignmentKept, StartSession

\* A record, or what is left of it, that has its session if it needs one.
Grounded(a) ==
    \/ a = Removed
    \/ /\ a \in Records
       /\ \/ a.session = 0
          \/ /\ a.session \in 1..Len(sessions)
             /\ sessions[a.session].day = a.day

LEMMA RecordsGrounded ==
  ASSUME LifecycleInv
  PROVE  /\ attendance \in Seq(Records \cup {Removed})
         /\ Len(attendance) \in Nat
         /\ attendance \in [1..Len(attendance) -> Records \cup {Removed}]
         /\ \A i \in 1..Len(attendance) : Grounded(attendance[i])
<1>1. attendance \in Seq(Records \cup {Removed})
  BY DEF LifecycleInv, LifecycleTypeOK
<1>2. /\ Len(attendance) \in Nat /\ Len(sessions) \in Nat
      /\ attendance \in [1..Len(attendance) -> Records \cup {Removed}]
  BY <1>1, LenProperties DEF LifecycleInv, LifecycleTypeOK
<1> QED
  BY <1>1, <1>2 DEF LifecycleInv, RecordHasSession, Live, Records, Grounded

LEMMA RecordReplaced ==
  ASSUME LifecycleInv, NEW i, NEW a, i \in 1..Len(attendance) => Grounded(a)
  PROVE  LET s == [attendance EXCEPT ![i] = a] IN
         s \in Seq(Records \cup {Removed}) /\ \A j \in 1..Len(s) : Grounded(s[j])
<1> DEFINE s == [attendance EXCEPT ![i] = a]
<1>1. CASE i \in 1..Len(attendance)
  <2>1. Grounded(a) /\ a \in Records \cup {Removed}
    BY <1>1 DEF Grounded
  <2>2. /\ s \in Seq(Records \cup {Removed}) /\ Len(s) = Len(attendance)
        /\ \A j \in 1..Len(attendance) : s[j] = IF j = i THEN a ELSE attendance[j]
    BY <1>1, <2>1, RecordsGrounded, ExceptSeq
  <2> QED
    BY <2>1, <2>2, RecordsGrounded
<1>2. CASE i \notin 1..Len(attendance)
  <2>1. s = attendance
    BY <1>2, RecordsGrounded
  <2> QED
    BY <2>1, RecordsGrounded
<1> QED
  BY <1>1, <1>2

LEMMA RecordAdded ==
  ASSUME LifecycleInv, NEW a, Grounded(a)
  PROVE  LET s == Append(attendance, a) IN
         s \in Seq(Records \cup {Removed}) /\ \A j \in 1..Len(s) : Grounded(s[j])
<1> DEFINE s == Append(attendance, a)
<1>1. a \in Records \cup {Removed}
  BY DEF Grounded
<1>2. /\ s \in Seq(Records \cup {Removed}) /\ Len(s) = Len(attendance) + 1
      /\ \A j \in 1..Len(attendance) : s[j] = attendance[j]
      /\ s[Len(attendance) + 1] = a
  BY <1>1, RecordsGrounded
<1> HIDE DEF s
<1>3. ASSUME NEW j \in 1..Len(s) PROVE Grounded(s[j])
  <2>1. j \in 1..Len(attendance) \/ j = Len(attendance) + 1
    BY <1>2, RecordsGrounded
  <2> QED
    BY <1>2, <2>1, RecordsGrounded
<1> QED
  BY <1>2, <1>3 DEF s

LEMMA RecordsStayGrounded ==
  ASSUME LifecycleInv, sessions' = sessions, \A i \in 1..Len(attendance') : Grounded(attendance'[i])
  PROVE  RecordHasSession'
<1>1. Len(sessions) \in Nat
  BY LenProperties DEF LifecycleInv, LifecycleTypeOK
<1> QED
  BY <1>1 DEF RecordHasSession, Live, Grounded

\* Records change, each keeping its session.
LEMMA RecordsKept ==
  ASSUME LifecycleInv, NEW r \in Requests, Moves(r),
         attendance' \in Seq(Records \cup {Removed}),
         \A i \in 1..Len(attendance') : Grounded(attendance'[i]),
         UNCHANGED <<employee, sessions, today, reactivating, officeCalls>>
  PROVE  LifecycleInv' /\ AssignmentKept
<1>1. PICK q \in Request : /\ request' = [request EXCEPT ![r] = q]
                           /\ CopyKept(q) /\ q.pc # "record"
  BY DEF Moves
<1>2. SessionsGrow
  BY SessionsStay DEF LifecycleInv
<1>3. RecordHasSession'
  BY RecordsStayGrounded
<1>4. employee' \in Employees /\ Remembers(employee')
  BY DEF LifecycleInv, LifecycleTypeOK, LeaveRemembersState, Remembers
<1>5. LifecycleInv'
  BY <1>1, <1>2, <1>3, <1>4, Becomes
<1> QED
  BY <1>5 DEF AssignmentKept

LEMMA StartRecordKeeps ==
  ASSUME LifecycleInv, NEW r \in Requests, StartRecord(r)
  PROVE  LifecycleInv' /\ AssignmentKept
<1> DEFINE i == request[r].record
           started == [day |-> request[r].day, checkIn |-> TRUE, checkOut |-> FALSE,
                       session |-> request[r].session]
<1>1. /\ request[r] \in Request
      /\ request[r].session \in 1..Len(sessions)
      /\ sessions[request[r].session].day = request[r].day
  BY DEF LifecycleInv, LifecycleTypeOK, Request, SessionMade, StartRecord, At
<1>2. Grounded(started)
  BY <1>1 DEF Request, Records, Grounded
<1>3. \/ attendance' = attendance /\ Ends(r, "refused")
      \/ /\ attendance' = IF i = 0 THEN Append(attendance, started)
                          ELSE [attendance EXCEPT ![i] = started]
         /\ GoesWanting(r, "save", "WORKING")
  BY DEF StartRecord
<1> HIDE DEF started
<1>4. CASE attendance' = attendance /\ Ends(r, "refused")
  <2>1. Moves(r)
    BY <1>4, EndsMoves
  <2> QED
    BY <1>4, <2>1, QuietMove DEF StartRecord
<1>5. CASE /\ attendance' = IF i = 0 THEN Append(attendance, started)
                            ELSE [attendance EXCEPT ![i] = started]
           /\ GoesWanting(r, "save", "WORKING")
  <2>1. Moves(r)
    BY <1>5, GoesWantingMoves DEF Working, States
  <2>2. /\ attendance' \in Seq(Records \cup {Removed})
        /\ \A j \in 1..Len(attendance') : Grounded(attendance'[j])
    <3>1. CASE i = 0
      BY <1>2, <1>5, <3>1, RecordAdded
    <3>2. CASE i # 0
      BY <1>2, <1>5, <3>2, RecordReplaced
    <3> QED
      BY <3>1, <3>2
  <2> QED
    BY <2>1, <2>2, RecordsKept DEF StartRecord
<1> QED
  BY <1>3, <1>4, <1>5

\* A correction of the times leaves a record its day and session.
LEMMA RecordCorrected ==
  ASSUME LifecycleInv, NEW i \in 1..Len(attendance), Live(i),
         NEW checkIn \in BOOLEAN, NEW checkOut \in BOOLEAN
  PROVE  Grounded([attendance[i] EXCEPT !.checkIn = checkIn, !.checkOut = checkOut])
<1> DEFINE a == [attendance[i] EXCEPT !.checkIn = checkIn, !.checkOut = checkOut]
<1>1. Grounded(attendance[i]) /\ attendance[i] \in Records
  BY RecordsGrounded DEF Live, Grounded
<1>2. a \in Records /\ a.session = attendance[i].session /\ a.day = attendance[i].day
  BY <1>1 DEF Records
<1> HIDE DEF a
<1> QED
  BY <1>1, <1>2, RemovedAssumption DEF Grounded, a

LEMMA StopRecordKeeps ==
  ASSUME LifecycleInv, NEW r \in Requests, StopRecord(r)
  PROVE  LifecycleInv' /\ AssignmentKept
<1> DEFINE i == request[r].record
<1>1. CASE attendance' = attendance /\ Ends(r, "refused")
  <2>1. Moves(r)
    BY <1>1, EndsMoves
  <2> QED
    BY <1>1, <2>1, QuietMove DEF StopRecord
<1>2. CASE /\ Live(i) /\ attendance' = [attendance EXCEPT ![i].checkOut = TRUE]
           /\ GoesWanting(r, "save", "CHECKED_IN")
  <2>1. Moves(r)
    BY <1>2, GoesWantingMoves DEF Working, States
  <2> DEFINE a == [attendance[i] EXCEPT !.checkOut = TRUE]
  <2>2. ASSUME i \in 1..Len(attendance)
        PROVE  Grounded(a)
    <3>1. Grounded(attendance[i]) /\ attendance[i] \in Records
      BY <1>2, <2>2, RecordsGrounded DEF Live, Grounded
    <3>2. a \in Records /\ a.session = attendance[i].session /\ a.day = attendance[i].day
      BY <3>1 DEF Records
    <3> HIDE DEF a
    <3> QED
      BY <3>1, <3>2, RemovedAssumption DEF Grounded
  <2>3. attendance' = [attendance EXCEPT ![i] = a]
    BY <1>2
  <2> HIDE DEF a
  <2>4. /\ attendance' \in Seq(Records \cup {Removed})
        /\ \A j \in 1..Len(attendance') : Grounded(attendance'[j])
    BY <2>2, <2>3, RecordReplaced
  <2> QED
    BY <2>1, <2>4, RecordsKept DEF StopRecord
<1> QED
  BY <1>1, <1>2 DEF StopRecord

LEMMA StopSessionKeeps ==
  ASSUME LifecycleInv, NEW r \in Requests, StopSession(r)
  PROVE  LifecycleInv' /\ AssignmentKept
<1>1. Moves(r)
  BY GoesMoves DEF StopSession, Working
<1>2. sessions \in Seq([day: Days, open: BOOLEAN]) /\ Len(sessions) \in Nat
      /\ DOMAIN sessions = 1..Len(sessions)
  BY LenProperties DEF LifecycleInv, LifecycleTypeOK
<1> DEFINE closed(s) == IF s = LatestOpenSession THEN [sessions[s] EXCEPT !.open = FALSE]
                        ELSE sessions[s]
<1>3. ASSUME NEW s \in 1..Len(sessions)
      PROVE  closed(s) \in [day: Days, open: BOOLEAN] /\ closed(s).day = sessions[s].day
  <2>1. sessions[s] \in [day: Days, open: BOOLEAN]
    BY <1>2, <1>3, ElementOfSeq
  <2> QED
    BY <2>1
<1>4. sessions' = [s \in 1..Len(sessions) |-> closed(s)]
  BY <1>2 DEF StopSession
<1> HIDE DEF closed
<1>5. sessions' \in Seq([day: Days, open: BOOLEAN])
  BY <1>2, <1>3, <1>4, IsASeq
<1>6. Len(sessions') = Len(sessions)
  BY <1>2, <1>4, <1>5, LenProperties
<1>7. SessionsGrow
  BY <1>2, <1>3, <1>4, <1>5, <1>6 DEF SessionsGrow
<1>8. PICK q \in Request : /\ request' = [request EXCEPT ![r] = q]
                           /\ CopyKept(q) /\ q.pc # "record"
  BY <1>1 DEF Moves
<1>9. RecordHasSession'
  BY <1>7, RecordsStay DEF StopSession
<1>10. /\ employee' \in Employees /\ Remembers(employee')
       /\ attendance' \in Seq(Records \cup {Removed})
       /\ UNCHANGED <<today, reactivating, officeCalls>>
  BY DEF StopSession, LifecycleInv, LifecycleTypeOK, LeaveRemembersState, Remembers
<1>11. LifecycleInv'
  BY <1>7, <1>8, <1>9, <1>10, Becomes
<1> QED
  BY <1>11 DEF AssignmentKept, StopSession


LEMMA LeaveMarkKeeps ==
  ASSUME LifecycleInv, NEW r \in Requests, LeaveMark(r)
  PROVE  LifecycleInv' /\ AssignmentKept
<1>1. Moves(r)
  BY EndsMoves DEF LeaveMark
<1>2. CASE attendance' = attendance
  BY <1>1, <1>2, QuietMove DEF LeaveMark
<1>3. CASE attendance' # attendance
  <2> DEFINE a == [day |-> today, checkIn |-> FALSE, checkOut |-> FALSE, session |-> 0]
  <2>1. attendance' = Append(attendance, a)
    BY <1>3 DEF LeaveMark
  <2>2. today \in Days
    BY DEF LifecycleInv, LifecycleTypeOK
  <2>3. Grounded(a)
    BY <2>2 DEF Grounded, Records
  <2> HIDE DEF a
  <2>4. /\ attendance' \in Seq(Records \cup {Removed})
        /\ \A j \in 1..Len(attendance') : Grounded(attendance'[j])
    BY <2>1, <2>3, RecordAdded
  <2> QED
    BY <1>1, <2>4, RecordsKept DEF LeaveMark
<1> QED
  BY <1>2, <1>3

LEMMA FindKeeps ==
  ASSUME LifecycleInv, NEW r \in Requests, StartFind(r) \/ StopFind(r)
  PROVE  LifecycleInv' /\ AssignmentKept
<1>1. Moves(r)
  <2>1. CASE StartFind(r)
    <3>1. \/ Goes(r, "session")
          \/ Ends(r, "refused")
          \/ \E i \in Nat : request' = [request EXCEPT ![r].pc = "session", ![r].record = i]
      <4>1. Len(attendance) \in Nat
        BY RecordsGrounded
      <4> QED
        BY <2>1, <4>1 DEF StartFind, RecordsOf
    <3> QED
      BY <3>1, GoesMoves, EndsMoves, TakesMoves DEF Working
  <2>2. CASE StopFind(r)
    <3>1. \/ Ends(r, "refused")
          \/ \E i \in Nat : request' = [request EXCEPT ![r].pc = "close", ![r].record = i]
      <4>1. Len(attendance) \in Nat
        BY RecordsGrounded
      <4> QED
        BY <2>2, <4>1 DEF StopFind, RecordsOf
    <3> QED
      BY <3>1, EndsMoves, TakesMoves DEF Working
  <2> QED
    BY <2>1, <2>2
<1> QED
  BY <1>1, QuietMove DEF StartFind, StopFind

LEMMA ReconcileKeeps ==
  ASSUME LifecycleInv, NEW r \in Requests, Reconcile(r)
  PROVE  LifecycleInv' /\ AssignmentKept
<1>1. \/ \E state \in States : GoesWanting(r, "save", state) \/ GoesWanting(r, "reset", state)
      \/ Ends(r, "refused") \/ Ends(r, "ok")
  BY DEF Reconcile, States
<1>2. Moves(r)
  BY <1>1, GoesWantingMoves, EndsMoves DEF Working
<1> QED
  BY <1>2, QuietMove DEF Reconcile

LEMMA SaveStepKeeps ==
  ASSUME LifecycleInv, NEW r \in Requests, Save(r)
  PROVE  LifecycleInv' /\ AssignmentKept
<1>1. Moves(r)
  BY GoesMoves, EndsMoves DEF Save, Working
<1> QED
  BY <1>1, SaveKeeps DEF Save

LEMMA DoneKeeps ==
  ASSUME LifecycleInv, NEW r \in Requests, Done(r)
  PROVE  LifecycleInv' /\ AssignmentKept
<1>1. Moves(r)
  BY IdleType DEF Done, Moves
<1> QED
  BY <1>1, QuietMove DEF Done

LEMMA FailsKeeps ==
  ASSUME LifecycleInv, NEW r \in Requests, Fails(r)
  PROVE  LifecycleInv' /\ AssignmentKept
<1>1. Moves(r)
  BY EndsMoves DEF Fails
<1> QED
  BY <1>1, QuietMove DEF Fails

LEMMA HandleKeeps ==
  ASSUME LifecycleInv, NEW r \in Requests, Handle(r)
  PROVE  LifecycleInv' /\ AssignmentKept
BY ReconcileKeeps, ResetKeeps, FindKeeps, StartSessionKeeps, StartRecordKeeps,
   StopSessionKeeps, StopRecordKeeps, SaveStepKeeps, LeaveMarkKeeps DEF Handle

-----------------------------------------------------------------------------
(* The office, the days, and the specification *)

\* The requests go on as they were: what else changed is in order.
LEMMA RequestsStay ==
  ASSUME LifecycleInv, UNCHANGED <<request, sessions>>,
         employee' \in Employees, Remembers(employee'), today' \in Days,
         reactivating' \in BOOLEAN, officeCalls' \in 0..MaxOffice,
         attendance' \in Seq(Records \cup {Removed}),
         \A i \in 1..Len(attendance') : Grounded(attendance'[i])
  PROVE  LifecycleInv'
<1>1. LifecycleTypeOK'
  BY DEF LifecycleInv, LifecycleTypeOK
<1>2. LeaveRemembersState'
  BY DEF LeaveRemembersState, Remembers
<1>3. RecordHasSession'
  BY RecordsStayGrounded
<1>4. \A r \in Requests : CopyKept(request'[r]) /\ SessionMade(request[r])'
  BY DEF LifecycleInv, SessionMade
<1> QED
  BY <1>1, <1>2, <1>3, <1>4 DEF LifecycleInv, CopyKept, Remembers

LEMMA OfficeKeeps ==
  ASSUME LifecycleInv, Office
  PROVE  LifecycleInv' /\ UNCHANGED request
<1>1. /\ employee \in Employees /\ Remembers(employee) /\ today \in Days
      /\ reactivating \in BOOLEAN /\ officeCalls \in 0..MaxOffice
  BY DEF LifecycleInv, LifecycleTypeOK, LeaveRemembersState, Remembers
<1>2. ASSUME OfficeCalls
      PROVE  officeCalls' \in 0..MaxOffice /\ UNCHANGED <<sessions, today, request>>
  BY <1>1, <1>2, DaysAssumption DEF OfficeCalls
<1>3. ASSUME NEW c \in Companies \cup {NoCompany}, OfficeEdit(c)
      PROVE  LifecycleInv' /\ UNCHANGED request
  <2>1. employee' \in Employees /\ Remembers(employee')
    BY <1>1, <1>3 DEF OfficeEdit, Employees, Remembers
  <2> QED
    BY <1>1, <1>2, <1>3, <2>1, RecordsGrounded, RequestsStay DEF OfficeEdit
<1>4. ASSUME NEW c \in Companies, Assign(c)
      PROVE  LifecycleInv' /\ UNCHANGED request
  <2>1. employee' \in Employees /\ Remembers(employee')
    BY <1>1, <1>4 DEF Assign, Employees, Remembers, States
  <2> QED
    BY <1>1, <1>2, <1>4, <2>1, RecordsGrounded, RequestsStay DEF Assign
<1>5. CASE Unassign
  <2>1. employee' \in Employees /\ Remembers(employee')
    BY <1>1, <1>5 DEF Unassign, Employees, Remembers, States
  <2> QED
    BY <1>1, <1>2, <1>5, <2>1, RecordsGrounded, RequestsStay DEF Unassign
<1>6. CASE ReactivateRead
  BY <1>1, <1>2, <1>6, RecordsGrounded, RequestsStay DEF ReactivateRead
<1>7. CASE ReactivateWrite
  <2>1. employee' \in Employees /\ Remembers(employee')
    BY <1>1, <1>7 DEF ReactivateWrite, Employees, Remembers, States
  <2> QED
    BY <1>1, <1>7, <2>1, RecordsGrounded, RequestsStay DEF ReactivateWrite
<1>8. ASSUME NEW day \in 1..today, NEW present \in BOOLEAN, OfficeRecord(day, present)
      PROVE  LifecycleInv' /\ UNCHANGED request
  <2> DEFINE a == [day |-> day, checkIn |-> present, checkOut |-> present, session |-> 0]
  <2>1. day \in Days
    BY <1>1, DaysAssumption DEF Days
  <2>2. Grounded(a)
    BY <2>1 DEF Grounded, Records
  <2>3. attendance' = Append(attendance, a)
    BY <1>8 DEF OfficeRecord
  <2> HIDE DEF a
  <2>4. /\ attendance' \in Seq(Records \cup {Removed})
        /\ \A j \in 1..Len(attendance') : Grounded(attendance'[j])
    BY <2>2, <2>3, RecordAdded
  <2> QED
    BY <1>1, <1>2, <1>8, <2>4, RequestsStay DEF OfficeRecord
<1>9. ASSUME NEW i \in 1..Len(attendance), NEW checkOut \in BOOLEAN,
             OfficeCorrects(i, TRUE, checkOut)
      PROVE  LifecycleInv' /\ UNCHANGED request
  <2> DEFINE a == [attendance[i] EXCEPT !.checkIn = TRUE, !.checkOut = checkOut]
  <2>1. Grounded(a)
    BY <1>9, RecordCorrected DEF OfficeCorrects
  <2>2. attendance' = [attendance EXCEPT ![i] = a]
    BY <1>9, RecordsGrounded DEF OfficeCorrects
  <2> HIDE DEF a
  <2>3. /\ attendance' \in Seq(Records \cup {Removed})
        /\ \A j \in 1..Len(attendance') : Grounded(attendance'[j])
    BY <2>1, <2>2, RecordReplaced
  <2> QED
    BY <1>1, <1>2, <1>9, <2>3, RequestsStay DEF OfficeCorrects
<1>10. ASSUME NEW i \in 1..Len(attendance), OfficeDeletes(i)
       PROVE  LifecycleInv' /\ UNCHANGED request
  <2>1. Grounded(Removed)
    BY DEF Grounded
  <2>2. /\ attendance' \in Seq(Records \cup {Removed})
        /\ \A j \in 1..Len(attendance') : Grounded(attendance'[j])
    BY <1>10, <2>1, RecordReplaced DEF OfficeDeletes
  <2> QED
    BY <1>1, <1>2, <1>10, <2>2, RequestsStay DEF OfficeDeletes
<1> QED
  BY <1>3, <1>4, <1>5, <1>6, <1>7, <1>8, <1>9, <1>10 DEF Office

LEMMA NextDayKeeps ==
  ASSUME LifecycleInv, NextDay
  PROVE  LifecycleInv' /\ UNCHANGED request
<1>1. today' \in Days
  BY DaysAssumption DEF NextDay, LifecycleInv, LifecycleTypeOK, Days
<1>2. /\ employee \in Employees /\ Remembers(employee)
      /\ reactivating \in BOOLEAN /\ officeCalls \in 0..MaxOffice
  BY DEF LifecycleInv, LifecycleTypeOK, LeaveRemembersState, Remembers
<1> QED
  BY <1>1, <1>2, RecordsGrounded, RequestsStay DEF NextDay

LEMMA LifecycleStep ==
  ASSUME LifecycleInv, [LifecycleNext]_lifecycleVars
  PROVE  LifecycleInv' /\ (UNCHANGED request \/ AssignmentKept)
<1>1. ASSUME NEW r \in Requests, NEW call \in Calls, NEW day \in 1..today, Arrive(r, call, day)
      PROVE  LifecycleInv' /\ AssignmentKept
  <2>1. day \in Days
    BY DaysAssumption DEF LifecycleInv, LifecycleTypeOK, Days
  <2> QED
    BY <1>1, <2>1, ArriveKeeps
<1>2. ASSUME NEW r \in Requests, Handle(r) \/ Fails(r) \/ Done(r)
      PROVE  LifecycleInv' /\ AssignmentKept
  BY <1>2, HandleKeeps, FailsKeeps, DoneKeeps
<1>3. CASE Office
  BY <1>3, OfficeKeeps
<1>4. CASE NextDay
  BY <1>4, NextDayKeeps
<1>5. CASE UNCHANGED lifecycleVars
  BY <1>5 DEF lifecycleVars, LifecycleInv, LifecycleTypeOK, LeaveRemembersState, SessionMade,
              RecordHasSession, Live, CopyKept, Remembers
<1> QED
  BY <1>1, <1>2, <1>3, <1>4, <1>5 DEF LifecycleNext

LEMMA LifecycleStart == LifecycleInit => LifecycleInv
<1> SUFFICES ASSUME LifecycleInit
             PROVE  LifecycleInv
  OBVIOUS
<1>1. employee \in Employees /\ Remembers(employee)
  BY NewHireType DEF LifecycleInit
<1>2. /\ attendance \in Seq(Records \cup {Removed}) /\ Len(attendance) = 0
      /\ sessions \in Seq([day: Days, open: BOOLEAN])
  BY DEF LifecycleInit
<1>3. today \in Days /\ reactivating \in BOOLEAN /\ officeCalls \in 0..MaxOffice
  <2>1. today \in Days /\ officeCalls \in 0..MaxOffice
    BY DaysAssumption DEF LifecycleInit, Days
  <2> QED
    BY <2>1 DEF LifecycleInit
<1>4. /\ request \in [Requests -> Request]
      /\ \A r \in Requests : CopyKept(request[r]) /\ SessionMade(request[r])
  BY IdleType DEF LifecycleInit, SessionMade
<1>5. LifecycleTypeOK
  BY <1>1, <1>2, <1>3, <1>4 DEF LifecycleTypeOK, Request
<1>6. RecordHasSession
  BY <1>2 DEF RecordHasSession
<1> QED
  BY <1>1, <1>4, <1>5, <1>6 DEF LifecycleInv, LeaveRemembersState, Remembers

\* The invariant of the server by itself, whoever calls it and in what order.
THEOREM LifecycleCorrect == LifecycleSpec => []LifecycleInv
<1>1. LifecycleInv /\ [LifecycleNext]_lifecycleVars => LifecycleInv'
  BY LifecycleStep
<1>2. QED
  BY <1>1, LifecycleStart, PTL DEF LifecycleSpec


-----------------------------------------------------------------------------
(* The app's queue *)

\* A queue of events of the first n taps, none twice, in order, of past days.
Past(queue, n, day) ==
    /\ queue \in Seq(Queued)
    /\ \A i \in 1..Len(queue) : queue[i].id <= n /\ queue[i].day <= day
    /\ \A i, j \in 1..Len(queue) : i < j => queue[i].id < queue[j].id

\* The last tap whose event can be in the queue.
LastQueued == IF tap.pc = "idle" THEN taps ELSE taps - 1

PhoneTypeOK ==
    /\ stored \in Seq(Queued)
    /\ tap \in [pc: {"idle", "asking", "read", "write"}, call: Calls, day: Days,
                queue: Seq(Queued)]
    /\ flush \in [pc: {"idle", "replay", "asking", "write"}, queue: Seq(Queued),
                  processed: Nat]
    /\ refreshing \in BOOLEAN /\ alert \in BOOLEAN
    /\ shown \in {"assigned", "in", "working", "leave", "waiting"}
    /\ accepted \subseteq 1..MaxTaps /\ taps \in 0..MaxTaps /\ troubles \in 0..MaxTroubles

\* What an enqueue and a flush know of the queue that each read and writes back.
QueueInv ==
    /\ Past(stored, LastQueued, today)
    /\ Past(tap.queue, LastQueued, today)
    /\ Past(flush.queue, LastQueued, today)
    /\ tap.pc # "idle" => taps > 0 /\ tap.day <= today
    /\ tap.pc \in {"read", "write"} => tap.call \in Events
    /\ tap.pc = "write" => Ids(stored) \subseteq Ids(tap.queue)
    /\ flush.pc # "idle" => Ids(flush.queue) \subseteq Ids(stored)
    /\ flush.pc \in {"replay", "asking"} => flush.processed < Len(flush.queue)
    /\ flush.processed <= Len(flush.queue)
    /\ \A i \in 1..flush.processed : flush.queue[i].id \in accepted

PhoneInv == PhoneTypeOK /\ QueueInv

LEMMA PastEmpty ==
  ASSUME NEW n, NEW day PROVE Past(<<>>, n, day) /\ Ids(<<>>) = {}
BY DEF Past, Ids

LEMMA PastLater ==
  ASSUME NEW q, NEW n \in Int, NEW m \in Int, NEW day \in Nat, NEW later \in Nat,
         Past(q, n, day), n <= m, day <= later
  PROVE  Past(q, m, later)
<1>1. ASSUME NEW i \in 1..Len(q) PROVE q[i].id <= m /\ q[i].day <= later
  <2>1. q[i] \in Queued
    BY ElementOfSeq DEF Past
  <2>2. q[i].id \in Int /\ q[i].day \in Int
    BY <2>1, TapsAssumption, DaysAssumption DEF Queued, Days
  <2> QED
    BY <2>2 DEF Past
<1> QED
  BY <1>1 DEF Past

LEMMA PastAppend ==
  ASSUME NEW q, NEW n \in Nat, NEW day \in Nat, Past(q, n - 1, day),
         NEW e \in Queued, e.id = n, e.day <= day
  PROVE  Past(Append(q, e), n, day) /\ Ids(q) \subseteq Ids(Append(q, e))
<1> DEFINE s == Append(q, e)
<1>1. /\ q \in Seq(Queued) /\ Len(q) \in Nat
      /\ s \in Seq(Queued) /\ Len(s) = Len(q) + 1
      /\ \A i \in 1..Len(q) : s[i] = q[i]
      /\ s[Len(q) + 1] = e
  BY LenProperties DEF Past
<1> HIDE DEF s
<1>2. \A i \in 1..Len(q) : q[i].id \in Int /\ q[i].id <= n - 1 /\ q[i].day <= day
  <2>1. \A i \in 1..Len(q) : q[i] \in Queued
    BY <1>1, ElementOfSeq
  <2> QED
    BY <2>1, TapsAssumption DEF Queued, Past
<1>3. ASSUME NEW i \in 1..Len(s)
      PROVE  s[i].id <= n /\ s[i].day <= day
  <2>1. CASE i \in 1..Len(q)
    BY <1>1, <1>2, <2>1
  <2>2. CASE i = Len(q) + 1
    BY <1>1, <2>2
  <2> QED
    BY <1>1, <2>1, <2>2
<1>4. ASSUME NEW i \in 1..Len(s), NEW j \in 1..Len(s), i < j
      PROVE  s[i].id < s[j].id
  <2>1. i \in 1..Len(q)
    BY <1>1, <1>4
  <2>2. CASE j \in 1..Len(q)
    BY <1>1, <1>4, <2>1, <2>2 DEF Past
  <2>3. CASE j = Len(q) + 1
    BY <1>1, <1>2, <2>1, <2>3
  <2> QED
    BY <1>1, <2>2, <2>3
<1>5. Ids(q) \subseteq Ids(s)
  <2>1. ASSUME NEW i \in 1..Len(q) PROVE q[i].id \in Ids(s)
    <3>1. i \in 1..Len(s) /\ s[i] = q[i]
      BY <1>1
    <3> QED
      BY <3>1 DEF Ids
  <2> QED
    BY <2>1 DEF Ids
<1>6. Past(s, n, day)
  BY <1>1, <1>3, <1>4 DEF Past
<1> QED
  BY <1>5, <1>6 DEF s

\* The rest of a queue, and what it leaves out.
LEMMA PastRest ==
  ASSUME NEW q, NEW n, NEW day, Past(q, n, day), NEW p \in Nat, p <= Len(q)
  PROVE  LET s == SubSeq(q, p + 1, Len(q)) IN
         /\ Past(s, n, day)
         /\ Ids(s) \subseteq Ids(q)
         /\ \A id \in Ids(q) \ Ids(s) : \E i \in 1..p : q[i].id = id
<1> DEFINE s == SubSeq(q, p + 1, Len(q))
<1>1. q \in Seq(Queued) /\ Len(q) \in Nat /\ \A i \in 1..Len(q) : q[i] \in Queued
  BY LenProperties, ElementOfSeq DEF Past
<1>2. \A i \in p + 1 .. Len(q) : q[i] \in Queued
  BY <1>1
<1>3. /\ s \in Seq(Queued) /\ Len(s) = Len(q) - p
      /\ \A i \in 1 .. Len(q) - p : s[i] = q[p + i]
  <2>1. p + 1 \in Int /\ Len(q) \in Int
    BY <1>1
  <2>2. /\ s \in Seq(Queued)
        /\ Len(s) = IF p + 1 <= Len(q) THEN Len(q) - (p + 1) + 1 ELSE 0
        /\ \A i \in 1 .. Len(q) - (p + 1) + 1 : s[i] = q[p + 1 + i - 1]
    BY <1>2, <2>1, SubSeqProperties
  <2> HIDE DEF s
  <2> QED
    BY <1>1, <2>2
<1> HIDE DEF s
<1>4. \A i \in 1..Len(s) : p + i \in 1..Len(q) /\ s[i] = q[p + i]
  BY <1>1, <1>3
<1>5. Past(s, n, day)
  <2>1. \A i \in 1..Len(s) : s[i].id <= n /\ s[i].day <= day
    BY <1>4 DEF Past
  <2>2. ASSUME NEW i \in 1..Len(s), NEW j \in 1..Len(s), i < j
        PROVE  s[i].id < s[j].id
    <3>1. p + i < p + j
      BY <2>2, <1>1, <1>3
    <3> QED
      BY <1>4, <3>1 DEF Past
  <2> QED
    BY <1>3, <2>1, <2>2 DEF Past
<1>6. Ids(s) \subseteq Ids(q)
  BY <1>4 DEF Ids
<1>7. ASSUME NEW id \in Ids(q), id \notin Ids(s)
      PROVE  \E i \in 1..p : q[i].id = id
  <2>1. PICK i \in 1..Len(q) : q[i].id = id
    BY <1>7 DEF Ids
  <2>2. i \in 1..p
    <3> SUFFICES ASSUME i > p
                 PROVE  FALSE
      BY <1>1, <2>1
    <3>1. i - p \in 1..Len(s) /\ s[i - p] = q[i]
      BY <1>1, <1>3
    <3> QED
      BY <1>7, <2>1, <3>1 DEF Ids
  <2> QED
    BY <2>1, <2>2
<1> QED
  BY <1>5, <1>6, <1>7 DEF s


\* What the cases below need of the types.
LEMMA PhoneFacts ==
  ASSUME LifecycleInv, PhoneInv
  PROVE  /\ today \in Days /\ today \in Nat /\ taps \in Nat /\ MaxTaps \in Nat
         /\ LastQueued \in Int /\ LastQueued <= taps
         /\ flush.processed \in Nat /\ Len(flush.queue) \in Nat
         /\ flush.queue \in Seq(Queued)
<1>1. today \in Days /\ today \in Nat
  BY DaysAssumption DEF LifecycleInv, LifecycleTypeOK, Days
<1>2. taps \in Nat /\ MaxTaps \in Nat
  BY TapsAssumption DEF PhoneInv, PhoneTypeOK
<1>3. flush.processed \in Nat /\ flush.queue \in Seq(Queued) /\ Len(flush.queue) \in Nat
  BY LenProperties DEF PhoneInv, PhoneTypeOK
<1> QED
  BY <1>1, <1>2, <1>3 DEF LastQueued

\* The event that a flush replays.
LEMMA ReplayedEvent ==
  ASSUME LifecycleInv, PhoneInv, flush.pc \in {"replay", "asking"}
  PROVE  /\ Next1 \in Queued /\ Next1.event \in Calls /\ Next1.day \in 1..today
         /\ Next1.id \in 1..MaxTaps
<1>1. flush.processed + 1 \in 1..Len(flush.queue)
  BY PhoneFacts DEF PhoneInv, QueueInv
<1>2. Next1 \in Queued /\ Next1.day <= today
  BY <1>1, PhoneFacts, ElementOfSeq DEF Next1, PhoneInv, QueueInv, Past
<1> QED
  BY <1>2, DaysAssumption, PhoneFacts DEF Queued, Calls, Days

\* Each step of the app and the server is one of the lifecycle, or none.
LEMMA StepOfLifecycle ==
  ASSUME LifecycleInv, PhoneInv, [Next]_vars
  PROVE  [LifecycleNext]_lifecycleVars
<1>1. "tap" \in Requests /\ "flush" \in Requests /\ "refresh" \in Requests
  BY SlotsAssumption
<1>2. today \in 1..today
  BY PhoneFacts, DaysAssumption DEF Days
<1>3. ASSUME NEW call \in Calls, Tap(call) PROVE LifecycleNext
  BY <1>1, <1>2, <1>3 DEF Tap, LifecycleNext
<1>4. CASE Replay
  BY <1>1, <1>4, ReplayedEvent DEF Replay, LifecycleNext
<1>5. CASE Refresh
  <2>1. "assignmentStatus" \in Calls
    BY DEF Calls
  <2> QED
    BY <1>1, <1>2, <1>5, <2>1 DEF Refresh, LifecycleNext
<1>6. CASE TapAnswered \/ ReplayAnswered \/ RefreshAnswered
  <2>1. \E r \in Requests : Done(r)
    BY <1>1, <1>6 DEF TapAnswered, ReplayAnswered, RefreshAnswered, Answered, Heard, ServerSame, Done
  <2> QED
    BY <2>1 DEF LifecycleNext
<1>7. CASE Unheard
  BY <1>1, <1>7 DEF Unheard, LifecycleNext
<1>8. CASE Server
  BY <1>8 DEF Server, LifecycleNext
<1>9. ASSUME NEW call \in Calls, TapOffline(call) PROVE UNCHANGED lifecycleVars
  BY <1>9 DEF TapOffline
<1>10. CASE TapLost \/ EnqueueRead \/ EnqueueWrite \/ FlushBegin \/ ReplayLost \/ FlushWrite
            \/ RefreshLost \/ AppDies \/ Dismiss
  BY <1>10 DEF TapLost, EnqueueRead, EnqueueWrite, FlushBegin, ReplayLost, FlushWrite,
               RefreshLost, AppDies, Dismiss
<1>11. CASE UNCHANGED vars
  BY <1>11 DEF vars
<1> QED
  BY <1>3, <1>4, <1>5, <1>6, <1>7, <1>8, <1>9, <1>10, <1>11 DEF Next, Phone

\* A step that leaves the queue and those who write it alone.
LEMMA QueueStays ==
  ASSUME LifecycleInv, PhoneInv, UNCHANGED <<stored, tap, flush, accepted, taps>>,
         today' \in Nat, today <= today',
         refreshing' \in BOOLEAN, alert' \in BOOLEAN,
         shown' \in {"assigned", "in", "working", "leave", "waiting"},
         troubles' \in 0..MaxTroubles
  PROVE  PhoneInv'
<1>1. PhoneTypeOK'
  BY DEF PhoneInv, PhoneTypeOK
<1>2. LastQueued' = LastQueued
  BY DEF LastQueued
<1>3. /\ Past(stored, LastQueued, today')
      /\ Past(tap.queue, LastQueued, today')
      /\ Past(flush.queue, LastQueued, today')
  BY PhoneFacts, PastLater DEF PhoneInv, QueueInv
<1>4. tap.pc # "idle" => taps > 0 /\ tap.day <= today'
  BY PhoneFacts, DaysAssumption DEF PhoneInv, PhoneTypeOK, QueueInv, Days
<1>5. QueueInv'
  BY <1>2, <1>3, <1>4 DEF PhoneInv, QueueInv, Past, Ids
<1> QED
  BY <1>1, <1>5 DEF PhoneInv

\* A trouble more, or none.
LEMMA TroubleType ==
  ASSUME PhoneInv, NEW kind, Trouble(kind)
  PROVE  troubles' \in 0..MaxTroubles
BY TapsAssumption DEF Trouble, PhoneInv, PhoneTypeOK

LEMMA ViewType ==
  ASSUME NEW call \in Calls, NEW r
  PROVE  ViewAfter(call, r) \in {"assigned", "in", "working", "leave", "waiting"}
BY DEF ViewAfter, View

\* The tap goes on; it is new or keeps the queue that it read.
LEMMA TapStays ==
  ASSUME LifecycleInv, PhoneInv, UNCHANGED <<today, stored, flush, accepted>>,
         NEW next, tap' = next,
         next \in [pc: {"idle", "asking", "read", "write"}, call: Calls, day: Days,
                   queue: Seq(Queued)],
         next.queue \in {tap.queue, <<>>},
         next.pc # "write",
         taps' \in 0..MaxTaps, taps <= taps',
         IF next.pc = "idle" THEN LastQueued <= taps' ELSE LastQueued <= taps' - 1,
         next.pc # "idle" => taps' > 0 /\ next.day <= today,
         next.pc = "read" => next.call \in Events,
         refreshing' \in BOOLEAN, alert' \in BOOLEAN,
         shown' \in {"assigned", "in", "working", "leave", "waiting"},
         troubles' \in 0..MaxTroubles
  PROVE  PhoneInv'
<1>1. PhoneTypeOK'
  BY DEF PhoneInv, PhoneTypeOK
<1>2. LastQueued' \in Int /\ LastQueued <= LastQueued'
  BY PhoneFacts DEF LastQueued
<1>3. /\ Past(stored, LastQueued', today)
      /\ Past(next.queue, LastQueued', today)
      /\ Past(flush.queue, LastQueued', today)
  <2>1. /\ Past(stored, LastQueued', today) /\ Past(tap.queue, LastQueued', today)
        /\ Past(flush.queue, LastQueued', today)
    BY <1>2, PhoneFacts, PastLater DEF PhoneInv, QueueInv
  <2> QED
    BY <2>1, PastEmpty
<1>4. /\ Past(stored, LastQueued, today)'
      /\ Past(tap.queue, LastQueued, today)'
      /\ Past(flush.queue, LastQueued, today)'
  BY <1>3 DEF Past
<1>5. /\ flush.pc # "idle" => Ids(flush.queue) \subseteq Ids(stored)
      /\ Ids(flush.queue)' = Ids(flush.queue) /\ Ids(stored)' = Ids(stored)
  BY DEF PhoneInv, QueueInv, Ids
<1>6. QueueInv'
  BY <1>4, <1>5 DEF PhoneInv, QueueInv
<1> QED
  BY <1>1, <1>6 DEF PhoneInv


LEMMA TapStep ==
  ASSUME LifecycleInv, PhoneInv, NEW call \in Calls, Tap(call) \/ TapOffline(call)
  PROVE  PhoneInv'
<1> USE DEF PhoneInv, PhoneTypeOK
<1>1. /\ tap.pc = "idle" /\ taps' = taps + 1 /\ taps < MaxTaps
      /\ today' = today /\ UNCHANGED <<stored, flush, refreshing, shown, alert, accepted>>
  BY DEF Tap, TapOffline, Arrive, lifecycleVars
<1>2. troubles' \in 0..MaxTroubles
  BY TroubleType DEF Tap, TapOffline
<1>3. LastQueued = taps /\ taps' \in 0..MaxTaps /\ taps' > 0 /\ LastQueued <= taps' - 1
      /\ taps <= taps' /\ today <= today
  BY <1>1, PhoneFacts DEF LastQueued
<1>4. ASSUME NEW pc \in {"asking", "read"}, pc = "read" => call \in Events,
             tap' = [tap EXCEPT !.pc = pc, !.call = call, !.day = today]
      PROVE  PhoneInv'
  <2> DEFINE next == [tap EXCEPT !.pc = pc, !.call = call, !.day = today]
  <2>1. /\ next \in [pc: {"idle", "asking", "read", "write"}, call: Calls, day: Days,
                     queue: Seq(Queued)]
        /\ next.pc = pc /\ next.call = call /\ next.day = today /\ next.queue = tap.queue
    BY PhoneFacts
  <2>2. tap' = next
    BY <1>4
  <2> HIDE DEF next
  <2> QED
    BY <1>1, <1>2, <1>3, <1>4, <2>1, <2>2, TapStays
<1>5. ASSUME tap' = NoTap PROVE PhoneInv'
  <2>1. /\ NoTap \in [pc: {"idle", "asking", "read", "write"}, call: Calls, day: Days,
                      queue: Seq(Queued)]
        /\ NoTap.pc = "idle" /\ NoTap.queue = <<>>
    BY DaysAssumption DEF NoTap, Calls, Days
  <2>2. LastQueued <= taps'
    BY <1>3, PhoneFacts
  <2> QED
    BY <1>1, <1>2, <1>3, <1>5, <2>1, <2>2, TapStays
<1> QED
  BY <1>4, <1>5 DEF Tap, TapOffline

LEMMA NoTapType ==
  /\ NoTap \in [pc: {"idle", "asking", "read", "write"}, call: Calls, day: Days,
                queue: Seq(Queued)]
  /\ NoTap.pc = "idle" /\ NoTap.queue = <<>>
BY DaysAssumption DEF NoTap, Calls, Days

LEMMA TapEndStep ==
  ASSUME LifecycleInv, PhoneInv, TapAnswered \/ TapLost
  PROVE  PhoneInv'
<1> USE DEF PhoneInv, PhoneTypeOK
<1>1. /\ tap.pc = "asking" /\ taps' = taps /\ today' = today
      /\ UNCHANGED <<stored, flush, refreshing, alert, accepted>>
  BY DEF TapAnswered, TapLost, ServerSame, lifecycleVars
<1>2. troubles' \in 0..MaxTroubles
  BY TroubleType DEF TapAnswered, TapLost
<1>3. shown' \in {"assigned", "in", "working", "leave", "waiting"}
  BY ViewType DEF TapAnswered, TapLost
<1>4. LastQueued = taps - 1 /\ taps' \in 0..MaxTaps /\ taps > 0 /\ LastQueued <= taps
      /\ taps <= taps /\ tap.day <= today
  BY <1>1, PhoneFacts DEF LastQueued, QueueInv
<1>5. CASE tap' = NoTap
  BY <1>1, <1>2, <1>3, <1>4, <1>5, NoTapType, TapStays
<1>6. CASE tap' = [tap EXCEPT !.pc = "read"] /\ tap.call \in Events
  <2> DEFINE next == [tap EXCEPT !.pc = "read"]
  <2>1. /\ next \in [pc: {"idle", "asking", "read", "write"}, call: Calls, day: Days,
                     queue: Seq(Queued)]
        /\ next.pc = "read" /\ next.call = tap.call /\ next.day = tap.day /\ next.queue = tap.queue
    OBVIOUS
  <2>2. tap' = next
    BY <1>6
  <2> HIDE DEF next
  <2>3. LastQueued <= taps - 1
    BY <1>4, PhoneFacts
  <2> QED
    BY <1>1, <1>2, <1>3, <1>4, <1>6, <2>1, <2>2, <2>3, TapStays
<1> QED
  BY <1>5, <1>6 DEF TapAnswered, TapLost

LEMMA EnqueueReadStep ==
  ASSUME LifecycleInv, PhoneInv, EnqueueRead
  PROVE  PhoneInv'
<1> USE DEF PhoneInv, PhoneTypeOK
<1> DEFINE next == [tap EXCEPT !.pc = "write", !.queue = stored]
<1>1. /\ tap.pc = "read" /\ tap' = next
      /\ UNCHANGED <<stored, flush, refreshing, shown, alert, accepted, taps, troubles, today>>
  BY DEF EnqueueRead, lifecycleVars
<1>2. /\ next \in [pc: {"idle", "asking", "read", "write"}, call: Calls, day: Days,
                   queue: Seq(Queued)]
      /\ next.pc = "write" /\ next.call = tap.call /\ next.day = tap.day /\ next.queue = stored
  OBVIOUS
<1> HIDE DEF next
<1>3. PhoneTypeOK'
  BY <1>1, <1>2
<1>4. LastQueued' = LastQueued
  BY <1>1, <1>2 DEF LastQueued
<1>5. /\ Past(stored, LastQueued, today)'
      /\ Past(tap.queue, LastQueued, today)'
      /\ Past(flush.queue, LastQueued, today)'
  BY <1>1, <1>2, <1>4 DEF QueueInv, Past
<1>6. /\ Ids(stored)' = Ids(stored) /\ Ids(tap.queue)' = Ids(stored)
      /\ Ids(flush.queue)' = Ids(flush.queue)
  BY <1>1, <1>2 DEF Ids
<1>7. QueueInv'
  BY <1>1, <1>2, <1>5, <1>6 DEF QueueInv
<1> QED
  BY <1>3, <1>7

LEMMA EnqueueWriteStep ==
  ASSUME LifecycleInv, PhoneInv, EnqueueWrite
  PROVE  PhoneInv' /\ Ids(stored) \subseteq Ids(stored')
<1> USE DEF PhoneInv, PhoneTypeOK
<1> DEFINE e == [id |-> taps, event |-> tap.call, day |-> tap.day]
<1>1. /\ tap.pc = "write" /\ tap' = NoTap /\ stored' = Append(tap.queue, e)
      /\ UNCHANGED <<flush, refreshing, alert, accepted, taps, troubles, today>>
      /\ shown' \in {"assigned", "in", "working", "leave", "waiting"}
  BY ViewType DEF EnqueueWrite, lifecycleVars
<1>2. LastQueued = taps - 1 /\ LastQueued' = taps /\ taps > 0
  BY <1>1, NoTapType DEF LastQueued, QueueInv
<1>3. e \in Queued /\ e.id = taps /\ e.day <= today
  BY <1>1, <1>2, PhoneFacts DEF QueueInv, Queued
<1> HIDE DEF e
<1>4. Past(stored', taps, today) /\ Ids(tap.queue) \subseteq Ids(stored')
  BY <1>1, <1>2, <1>3, PhoneFacts, PastAppend DEF QueueInv
<1>5. Ids(stored) \subseteq Ids(stored')
  BY <1>1, <1>4 DEF QueueInv
<1>6. PhoneTypeOK'
  BY <1>1, <1>4, NoTapType DEF Past
<1>7. Past(flush.queue, taps, today)
  <2>1. taps - 1 \in Int /\ taps \in Int /\ taps - 1 <= taps /\ today <= today
    BY PhoneFacts
  <2> QED
    BY <1>2, <2>1, PhoneFacts, PastLater DEF QueueInv
<1>8. /\ Past(stored, LastQueued, today)'
      /\ Past(tap.queue, LastQueued, today)'
      /\ Past(flush.queue, LastQueued, today)'
  BY <1>1, <1>2, <1>4, <1>7, NoTapType, PastEmpty DEF Past
<1>9. flush.pc # "idle" => Ids(flush.queue)' \subseteq Ids(stored)'
  BY <1>1, <1>5 DEF QueueInv, Ids
<1>10. QueueInv'
  BY <1>1, <1>8, <1>9, NoTapType DEF QueueInv
<1> QED
  BY <1>5, <1>6, <1>10


LEMMA NoFlushType ==
  /\ NoFlush \in [pc: {"idle", "replay", "asking", "write"}, queue: Seq(Queued), processed: Nat]
  /\ NoFlush.pc = "idle" /\ NoFlush.queue = <<>> /\ NoFlush.processed = 0
BY DEF NoFlush

\* The flush goes on with the queue it read.
LEMMA FlushStays ==
  ASSUME LifecycleInv, PhoneInv, UNCHANGED <<today, stored, tap, taps, refreshing, shown>>,
         NEW next, flush' = next,
         next \in [pc: {"idle", "replay", "asking", "write"}, queue: Seq(Queued), processed: Nat],
         Past(next.queue, LastQueued, today),
         next.pc # "idle" => Ids(next.queue) \subseteq Ids(stored),
         next.pc \in {"replay", "asking"} => next.processed < Len(next.queue),
         next.processed <= Len(next.queue),
         \A i \in 1..next.processed : next.queue[i].id \in accepted',
         accepted \subseteq accepted', accepted' \subseteq 1..MaxTaps,
         alert' \in BOOLEAN, troubles' \in 0..MaxTroubles
  PROVE  PhoneInv'
<1>1. PhoneTypeOK'
  BY DEF PhoneInv, PhoneTypeOK
<1>2. LastQueued' = LastQueued
  BY DEF LastQueued
<1>3. /\ Past(stored, LastQueued, today)'
      /\ Past(tap.queue, LastQueued, today)'
      /\ Past(flush.queue, LastQueued, today)'
  BY <1>2 DEF PhoneInv, QueueInv, Past
<1>4. /\ flush.pc # "idle" => Ids(flush.queue) \subseteq Ids(stored)
      /\ tap.pc = "write" => Ids(stored) \subseteq Ids(tap.queue)
      /\ Ids(flush.queue)' = Ids(next.queue) /\ Ids(stored)' = Ids(stored)
      /\ Ids(tap.queue)' = Ids(tap.queue)
  BY DEF PhoneInv, QueueInv, Ids
<1>5. QueueInv'
  BY <1>3, <1>4 DEF PhoneInv, QueueInv
<1> QED
  BY <1>1, <1>5 DEF PhoneInv

LEMMA FlushBeginStep ==
  ASSUME LifecycleInv, PhoneInv, FlushBegin
  PROVE  PhoneInv'
<1> USE DEF PhoneInv, PhoneTypeOK
<1> DEFINE next == [pc |-> "replay", queue |-> stored, processed |-> 0]
<1>1. /\ flush' = next /\ stored # <<>>
      /\ UNCHANGED <<stored, tap, refreshing, shown, alert, accepted, taps, troubles, today>>
  BY DEF FlushBegin, lifecycleVars
<1>2. 0 < Len(stored)
  BY <1>1, EmptySeq
<1>3. /\ next \in [pc: {"idle", "replay", "asking", "write"}, queue: Seq(Queued), processed: Nat]
      /\ next.queue = stored /\ next.processed = 0
  OBVIOUS
<1> HIDE DEF next
<1>4. Past(next.queue, LastQueued, today)
  BY <1>3 DEF QueueInv
<1>5. \A i \in 1..next.processed : next.queue[i].id \in accepted'
  BY <1>3
<1> QED
  BY <1>1, <1>2, <1>3, <1>4, <1>5, FlushStays

LEMMA ReplayStep ==
  ASSUME LifecycleInv, PhoneInv, Replay \/ ReplayLost
  PROVE  PhoneInv'
<1> USE DEF PhoneInv, PhoneTypeOK
<1>1. PICK pc \in {"asking", "write"} : flush' = [flush EXCEPT !.pc = pc]
  BY DEF Replay, ReplayLost
<1> DEFINE next == [flush EXCEPT !.pc = pc]
<1>2. /\ flush.pc \in {"replay", "asking"} /\ flush' = next
      /\ UNCHANGED <<stored, tap, refreshing, shown, alert, accepted, taps, today>>
  BY <1>1 DEF Replay, ReplayLost, Arrive, lifecycleVars
<1>3. troubles' \in 0..MaxTroubles
  BY TroubleType DEF Replay, ReplayLost
<1>4. /\ next \in [pc: {"idle", "replay", "asking", "write"}, queue: Seq(Queued), processed: Nat]
      /\ next.queue = flush.queue /\ next.processed = flush.processed
  OBVIOUS
<1> HIDE DEF next
<1>5. /\ Past(next.queue, LastQueued, today)
      /\ Ids(next.queue) \subseteq Ids(stored)
      /\ next.processed < Len(next.queue) /\ next.processed <= Len(next.queue)
      /\ \A i \in 1..next.processed : next.queue[i].id \in accepted
  BY <1>2, <1>4 DEF QueueInv
<1> QED
  BY <1>2, <1>3, <1>4, <1>5, FlushStays

LEMMA ReplayAnsweredStep ==
  ASSUME LifecycleInv, PhoneInv, ReplayAnswered
  PROVE  PhoneInv'
<1> USE DEF PhoneInv, PhoneTypeOK
<1> DEFINE ok == request["flush"].pc = "ok"
<1>1. PICK pc \in {"replay", "write"}, n \in {flush.processed, flush.processed + 1} :
        /\ flush' = [flush EXCEPT !.processed = n, !.pc = pc]
        /\ pc = "replay" => n < Len(flush.queue)
        /\ n = flush.processed \/ Next1.id \in accepted'
  BY DEF ReplayAnswered
<1> DEFINE next == [flush EXCEPT !.processed = n, !.pc = pc]
<1>2. /\ flush.pc = "asking" /\ flush' = next
      /\ UNCHANGED <<stored, tap, refreshing, shown, taps, troubles, today>>
      /\ accepted' \in {accepted, accepted \cup {Next1.id}}
      /\ alert' \in BOOLEAN
  BY <1>1 DEF ReplayAnswered, ServerSame
<1>3. n \in Nat /\ n <= Len(flush.queue)
  BY <1>1, <1>2, PhoneFacts DEF QueueInv
<1>4. /\ next \in [pc: {"idle", "replay", "asking", "write"}, queue: Seq(Queued), processed: Nat]
      /\ next.queue = flush.queue /\ next.processed = n /\ next.pc = pc
  BY <1>3
<1> HIDE DEF next
<1>5. /\ accepted \subseteq accepted'
      /\ accepted' \subseteq 1..MaxTaps
  BY <1>2, ReplayedEvent
<1>6. \A i \in 1..n : flush.queue[i].id \in accepted'
  <2> SUFFICES ASSUME NEW i \in 1..n
               PROVE  flush.queue[i].id \in accepted'
    OBVIOUS
  <2>1. CASE i \in 1..flush.processed
    BY <1>5, <2>1 DEF QueueInv
  <2>2. CASE i = flush.processed + 1
    <3>1. n # flush.processed
      BY <2>2, PhoneFacts
    <3> QED
      BY <1>1, <2>2, <3>1 DEF Next1
  <2> QED
    BY <1>1, <2>1, <2>2, PhoneFacts
<1>7. /\ Past(next.queue, LastQueued, today)
      /\ Ids(next.queue) \subseteq Ids(stored)
  BY <1>2, <1>4 DEF QueueInv
<1>8. troubles' \in 0..MaxTroubles
  BY <1>2
<1> QED
  BY <1>1, <1>2, <1>3, <1>4, <1>5, <1>6, <1>7, <1>8, FlushStays

LEMMA FlushWriteStep ==
  ASSUME LifecycleInv, PhoneInv, FlushWrite
  PROVE  /\ PhoneInv'
         /\ \A id \in Ids(stored) \ Ids(stored') : id \in accepted \/ id \notin Ids(flush.queue)
<1> USE DEF PhoneInv, PhoneTypeOK
<1>1. /\ flush.pc = "write" /\ flush' = NoFlush
      /\ stored' = SubSeq(flush.queue, flush.processed + 1, Len(flush.queue))
      /\ UNCHANGED <<tap, refreshing, shown, alert, accepted, taps, troubles, today>>
  BY DEF FlushWrite, lifecycleVars
<1>2. /\ Past(stored', LastQueued, today)
      /\ Ids(stored') \subseteq Ids(flush.queue)
      /\ \A id \in Ids(flush.queue) \ Ids(stored') :
            \E i \in 1..flush.processed : flush.queue[i].id = id
  BY <1>1, PhoneFacts, PastRest DEF QueueInv
<1>3. \A id \in Ids(stored) \ Ids(stored') : id \in accepted \/ id \notin Ids(flush.queue)
  BY <1>2 DEF QueueInv
<1>4. PhoneTypeOK'
  BY <1>1, <1>2, NoFlushType DEF Past
<1>5. LastQueued' = LastQueued
  BY <1>1 DEF LastQueued
<1>6. /\ Past(stored, LastQueued, today)'
      /\ Past(tap.queue, LastQueued, today)'
      /\ Past(flush.queue, LastQueued, today)'
  BY <1>1, <1>2, <1>5, NoFlushType, PastEmpty DEF QueueInv, Past
<1>7. tap.pc = "write" => Ids(stored') \subseteq Ids(tap.queue)
  BY <1>1, <1>2 DEF QueueInv
<1>8. Ids(stored)' = Ids(stored') /\ Ids(tap.queue)' = Ids(tap.queue)
  BY <1>1 DEF Ids
<1>9. QueueInv'
  BY <1>1, <1>6, <1>7, <1>8, NoFlushType DEF QueueInv
<1> QED
  BY <1>3, <1>4, <1>9

LEMMA AppDiesStep ==
  ASSUME LifecycleInv, PhoneInv, AppDies
  PROVE  PhoneInv'
<1> USE DEF PhoneInv, PhoneTypeOK
<1>1. /\ tap' = NoTap /\ flush' = NoFlush /\ refreshing' = FALSE
      /\ shown' = "assigned" /\ alert' = FALSE
      /\ UNCHANGED <<stored, accepted, taps, today>>
  BY DEF AppDies, lifecycleVars
<1>2. troubles' \in 0..MaxTroubles
  BY TroubleType DEF AppDies
<1>3. PhoneTypeOK'
  BY <1>1, <1>2, NoTapType, NoFlushType
<1>4. LastQueued' = taps
  BY <1>1, NoTapType DEF LastQueued
<1>5. Past(stored, taps, today)
  <2>1. taps \in Int /\ today <= today
    BY PhoneFacts
  <2> QED
    BY <2>1, PhoneFacts, PastLater DEF QueueInv
<1>6. /\ Past(stored, LastQueued, today)'
      /\ Past(tap.queue, LastQueued, today)'
      /\ Past(flush.queue, LastQueued, today)'
  BY <1>1, <1>4, <1>5, NoTapType, NoFlushType, PastEmpty DEF Past
<1>7. QueueInv'
  BY <1>1, <1>6, NoTapType, NoFlushType DEF QueueInv
<1> QED
  BY <1>3, <1>7


LEMMA PhoneStep ==
  ASSUME LifecycleInv, PhoneInv, [Next]_vars
  PROVE  /\ PhoneInv'
         /\ \A id \in Ids(stored) \ Ids(stored') : id \in accepted \/ id \notin Ids(flush.queue)
<1> DEFINE Kept == \A id \in Ids(stored) \ Ids(stored') :
                      id \in accepted \/ id \notin Ids(flush.queue)
<1>1. ASSUME stored' = stored PROVE Kept
  BY <1>1 DEF Ids
<1>2. ASSUME NEW call \in Calls, Tap(call) \/ TapOffline(call)
      PROVE  PhoneInv' /\ stored' = stored
  BY <1>2, TapStep DEF Tap, TapOffline
<1>3. CASE TapAnswered \/ TapLost \/ EnqueueRead \/ FlushBegin \/ Replay \/ ReplayLost
           \/ ReplayAnswered \/ AppDies
  <2>1. PhoneInv'
    BY <1>3, TapEndStep, EnqueueReadStep, FlushBeginStep, ReplayStep, ReplayAnsweredStep, AppDiesStep
  <2>2. stored' = stored
    BY <1>3 DEF TapAnswered, TapLost, EnqueueRead, FlushBegin, Replay, ReplayLost,
                ReplayAnswered, AppDies
  <2> QED
    BY <1>1, <2>1, <2>2
<1>4. CASE EnqueueWrite
  BY <1>4, EnqueueWriteStep
<1>5. CASE FlushWrite
  BY <1>5, FlushWriteStep
<1>6. CASE Refresh \/ RefreshAnswered \/ RefreshLost \/ Dismiss \/ Unheard \/ Server
           \/ UNCHANGED vars
  <2>1. UNCHANGED <<stored, tap, flush, accepted, taps>>
    BY <1>6 DEF Refresh, RefreshAnswered, RefreshLost, Dismiss, Unheard, Server, phoneVars, vars
  <2>2. today' = today \/ today' = today + 1
    <3>1. CASE Server
      BY <3>1 DEF Server, Handle, Reconcile, Reset, StartFind, StartSession, StartRecord, StopFind,
                  StopSession, StopRecord, Save, LeaveMark, Fails, Office, OfficeCalls, OfficeEdit,
                  Assign, Unassign, ReactivateRead, ReactivateWrite, OfficeRecord, OfficeCorrects,
                  OfficeDeletes, NextDay
    <3>2. CASE Refresh \/ RefreshAnswered \/ RefreshLost \/ Dismiss \/ Unheard \/ UNCHANGED vars
      BY <3>2 DEF Refresh, RefreshAnswered, RefreshLost, Dismiss, Unheard, Arrive, ServerSame,
                  Done, lifecycleVars, vars
    <3> QED
      BY <1>6, <3>1, <3>2
  <2>3. today' \in Nat /\ today <= today'
    BY <2>2, PhoneFacts
  <2>4. troubles' \in 0..MaxTroubles
    <3>1. CASE Server
      BY <3>1, TroubleType DEF Server, phoneVars, PhoneInv, PhoneTypeOK
    <3>2. CASE RefreshLost
      BY <3>2, TroubleType DEF RefreshLost
    <3>3. CASE Refresh \/ RefreshAnswered \/ Dismiss \/ Unheard \/ UNCHANGED vars
      BY <3>3 DEF Refresh, RefreshAnswered, Dismiss, Unheard, phoneVars, vars, PhoneInv, PhoneTypeOK
    <3> QED
      BY <1>6, <3>1, <3>2, <3>3
  <2>5. /\ refreshing' \in BOOLEAN /\ alert' \in BOOLEAN
        /\ shown' \in {"assigned", "in", "working", "leave", "waiting"}
    <3>1. CASE Server \/ Unheard \/ UNCHANGED vars
      BY <3>1 DEF Server, Unheard, phoneVars, vars, PhoneInv, PhoneTypeOK
    <3>2. CASE Refresh \/ RefreshAnswered \/ RefreshLost \/ Dismiss
      BY <3>2 DEF Refresh, RefreshAnswered, RefreshLost, Dismiss, View, PhoneInv, PhoneTypeOK
    <3> QED
      BY <1>6, <3>1, <3>2
  <2> QED
    BY <1>1, <2>1, <2>3, <2>4, <2>5, QueueStays
<1> QED
  BY <1>1, <1>2, <1>3, <1>4, <1>5, <1>6 DEF Next, Phone

LEMMA PhoneStart ==
  ASSUME Init
  PROVE  LifecycleInv /\ PhoneInv
<1>1. LifecycleInv
  BY LifecycleStart DEF Init
<1>2. PhoneTypeOK
  <2>1. taps \in 0..MaxTaps /\ troubles \in 0..MaxTroubles
    BY TapsAssumption DEF Init
  <2>2. stored \in Seq(Queued) /\ accepted \subseteq 1..MaxTaps
    BY DEF Init
  <2>3. refreshing \in BOOLEAN /\ alert \in BOOLEAN /\ shown = "assigned"
    BY DEF Init
  <2> QED
    BY <2>1, <2>2, <2>3, NoTapType, NoFlushType DEF Init, PhoneTypeOK
<1>3. QueueInv
  BY NoTapType, NoFlushType, PastEmpty DEF Init, QueueInv
<1> QED
  BY <1>1, <1>2, <1>3 DEF PhoneInv

-----------------------------------------------------------------------------
(* The theorems *)

IInv == LifecycleInv /\ PhoneInv

\* Each step of the whole keeps the invariant, and does to the employee and to
\* the queue no more than the two properties below allow.
LEMMA WholeStep ==
  ASSUME IInv, [Next]_vars
  PROVE  /\ IInv'
         /\ [LifecycleNext]_lifecycleVars
         /\ UNCHANGED request \/ AssignmentKept
         /\ \A id \in Ids(stored) \ Ids(stored') : id \in accepted \/ id \notin Ids(flush.queue)
BY StepOfLifecycle, LifecycleStep, PhoneStep DEF IInv

\* The invariant of server and app together.
THEOREM AttendanceCorrect == Spec => []IInv
<1>1. Init => IInv
  BY PhoneStart DEF IInv
<1>2. IInv /\ [Next]_vars => IInv'
  BY WholeStep
<1>3. QED
  BY <1>1, <1>2, PTL DEF Spec

\* The app uses the server only in ways that EmployeeLifecycle allows.
THEOREM AppImplementsLifecycle == Spec => LifecycleSpec
<1>1. Init => LifecycleInit
  BY DEF Init
<1>2. IInv /\ [Next]_vars => [LifecycleNext]_lifecycleVars
  BY WholeStep
<1>3. QED
  BY <1>1, <1>2, AttendanceCorrect, PTL DEF Spec, LifecycleSpec

\* The variables of server and app keep their types.
THEOREM TypesKept == Spec => []TypeOK
<1>1. IInv => TypeOK
  BY DEF IInv, LifecycleInv, PhoneInv, PhoneTypeOK, TypeOK
<1>2. QED
  BY <1>1, AttendanceCorrect, PTL

\* An employee is on leave exactly while the state to come back to is stored.
THEOREM LeaveRemembered == Spec => []LeaveRemembersState
<1>1. IInv => LeaveRemembersState
  BY DEF IInv, LifecycleInv
<1>2. QED
  BY <1>1, AttendanceCorrect, PTL

\* A record that work was started on has its session, of its day.
THEOREM RecordsHaveSessions == Spec => []RecordHasSession
<1>1. IInv => RecordHasSession
  BY DEF IInv, LifecycleInv
<1>2. QED
  BY <1>1, AttendanceCorrect, PTL

\* The app's queue is in the order of the taps, none twice.
THEOREM QueueInOrder == Spec => []StoredInOrder
<1>1. IInv => StoredInOrder
  BY DEF IInv, PhoneInv, QueueInv, Past, StoredInOrder
<1>2. QED
  BY <1>1, AttendanceCorrect, PTL

\* No request of the phone undoes what the office did to the assignment.
THEOREM AssignmentNotUndone == Spec => OfficeAssignmentKept
<1> DEFINE A == \A r \in Requests : request'[r] # request[r] =>
                   /\ employee'.company = employee.company
                   /\ employee'.assigned # employee.assigned => employee'.assigned = "site-over"
<1>1. IInv /\ [Next]_vars => [A]_lifecycleVars
  <2> SUFFICES ASSUME IInv, [Next]_vars
               PROVE  A
    OBVIOUS
  <2>1. UNCHANGED request \/ AssignmentKept
    BY WholeStep
  <2> QED
    BY <2>1 DEF AssignmentKept
<1>2. QED
  BY <1>1, AttendanceCorrect, PTL DEF Spec, OfficeAssignmentKept

\* A flush takes out of the queue it read only what the server has accepted.
THEOREM FlushDropsNothing == Spec => FlushKeepsUndelivered
<1> DEFINE A == \A id \in Ids(stored) \ Ids(stored') :
                   id \in accepted \/ id \notin Ids(flush.queue)
<1>1. IInv /\ [Next]_vars => A
  BY WholeStep
<1>2. QED
  BY <1>1, AttendanceCorrect, PTL DEF Spec, FlushKeepsUndelivered

-----------------------------------------------------------------------------
(* What the queue loses, and only so *)

\* No event is stored while a flush has the queue in its hands.
EnqueueApart == EnqueueWrite => flush.pc = "idle"
EnqueuesApart == [][EnqueueApart]_vars

\* Then the flush has the queue as it is.
SameQueue == flush.pc # "idle" => stored = flush.queue

LEMMA SameQueueKept ==
  ASSUME PhoneInv, SameQueue, [Next]_vars, [EnqueueApart]_vars
  PROVE  SameQueue'
<1>1. CASE UNCHANGED vars
  BY <1>1 DEF vars, phoneVars, SameQueue
<1>2. CASE EnqueueWrite
  <2>1. tap.pc = "write" /\ tap'.pc = "idle" /\ flush' = flush
    BY <1>2, NoTapType DEF EnqueueWrite
  <2>2. ~UNCHANGED vars
    BY <2>1 DEF vars, phoneVars
  <2>3. flush.pc = "idle"
    BY <1>2, <2>2 DEF EnqueueApart
  <2> QED
    BY <2>1, <2>3 DEF SameQueue
<1>3. CASE FlushBegin
  BY <1>3 DEF FlushBegin, SameQueue
<1>4. CASE FlushWrite \/ AppDies
  BY <1>4, NoFlushType DEF FlushWrite, AppDies, SameQueue
<1>5. ASSUME flush'.queue = flush.queue /\ (flush.pc = "idle" => flush'.pc = "idle") /\ stored' = stored
      PROVE  SameQueue'
  BY <1>5 DEF SameQueue
<1>6. CASE Replay \/ ReplayAnswered \/ ReplayLost
  <2>1. stored' = stored /\ flush.pc # "idle"
    BY <1>6 DEF Replay, ReplayAnswered, ReplayLost
  <2>2. flush'.queue = flush.queue
    BY <1>6 DEF Replay, ReplayAnswered, ReplayLost, PhoneInv, PhoneTypeOK
  <2> QED
    BY <1>5, <2>1, <2>2
<1>7. ASSUME NEW call \in Calls, Tap(call) \/ TapOffline(call)
      PROVE  SameQueue'
  BY <1>7 DEF Tap, TapOffline, SameQueue
<1>8. CASE \/ TapAnswered \/ TapLost \/ EnqueueRead \/ Refresh \/ RefreshAnswered
           \/ RefreshLost \/ Dismiss \/ Unheard \/ Server
  <2>1. UNCHANGED <<stored, flush>>
    BY <1>8 DEF TapAnswered, TapLost, EnqueueRead, Refresh, RefreshAnswered,
       RefreshLost, Dismiss, Unheard, Server, phoneVars
  <2> QED
    BY <2>1 DEF SameQueue
<1> QED
  BY <1>1, <1>2, <1>3, <1>4, <1>6, <1>7, <1>8 DEF Next, Phone

\* The run that finds an event dropped shows one way; there is no other. If no event
\* is stored between a flush's read of the queue and its write, whatever else
\* overlaps, is lost, fails or is killed, an event leaves the queue only when the
\* server has accepted it (_enqueue and flush() of attendance_offline_queue.dart).
THEOREM DropsOnlyWhatOverlaps == Spec /\ EnqueuesApart => NothingDropped
<1> DEFINE A == \A id \in Ids(stored) \ Ids(stored') : id \in accepted
<1>1. Init => SameQueue
  BY NoFlushType DEF Init, SameQueue
<1>2. IInv /\ SameQueue /\ [Next]_vars /\ [EnqueueApart]_vars => SameQueue'
  BY SameQueueKept DEF IInv
<1>3. IInv /\ SameQueue /\ [Next]_vars => A
  <2> SUFFICES ASSUME IInv, SameQueue, [Next]_vars
               PROVE  A
    OBVIOUS
  <2>1. CASE EnqueueWrite
    BY <2>1, EnqueueWriteStep DEF IInv
  <2>2. CASE FlushWrite
    <3>1. stored = flush.queue
      BY <2>2 DEF FlushWrite, SameQueue
    <3> QED
      BY <3>1, WholeStep
  <2>3. ASSUME stored' = stored
        PROVE  A
    BY <2>3 DEF Ids
  <2>4. ASSUME ~EnqueueWrite, ~FlushWrite
        PROVE  stored' = stored
    BY <2>4 DEF Next, Phone, Tap, TapOffline, TapAnswered, TapLost, EnqueueRead, FlushBegin,
       Replay, ReplayAnswered, ReplayLost, Refresh, RefreshAnswered, RefreshLost, AppDies,
       Dismiss, Unheard, Server, phoneVars, vars
  <2> QED
    BY <2>1, <2>2, <2>3, <2>4
<1> QED
  BY <1>1, <1>2, <1>3, AttendanceCorrect, PTL DEF Spec, EnqueuesApart, NothingDropped

-----------------------------------------------------------------------------
(* Who waits for an answer *)

Busy(r) == request[r].pc # "idle"

\* A tap, a flush or a refresh that waits has a handler at work, or its answer.
AnswersComing ==
    /\ tap.pc = "asking" => Busy("tap")
    /\ flush.pc = "asking" => Busy("flush") /\ flush.processed < Len(flush.queue)
    /\ refreshing => Busy("refresh")

\* A request goes on, and does not vanish.
GoesOn(r) == \E q : q.pc # "idle" /\ request' = [request EXCEPT ![r] = q]

LEMMA GoesOnBusy ==
  ASSUME LifecycleInv, NEW r \in Requests, GoesOn(r), NEW p \in Requests, Busy(p)
  PROVE  Busy(p)'
<1>1. request'[p] = request[p] \/ request'[p].pc # "idle"
  BY DEF GoesOn, LifecycleInv, LifecycleTypeOK
<1> QED
  BY <1>1 DEF Busy

LEMMA EndsGoesOn ==
  ASSUME NEW r \in Requests, NEW says \in {"ok", "refused"}, Ends(r, says)
  PROVE  GoesOn(r)
<1> DEFINE q == Answer(says, request[r].call, request[r].want.state)
<1>1. q.pc = says
  BY IdleType DEF Answer, Request
<1>2. request' = [request EXCEPT ![r] = q]
  BY DEF Ends
<1> HIDE DEF q
<1> QED
  BY <1>1, <1>2 DEF GoesOn

\* A request whose fields change, the place it is at among them.
LEMMA PlaceGoesOn ==
  ASSUME LifecycleInv, NEW r \in Requests, NEW pc \in Working \cup {"mark"},
         request' \in [Requests -> Request], request'[r].pc = pc,
         \A p \in Requests \ {r} : request'[p] = request[p]
  PROVE  GoesOn(r)
<1>1. request' = [request EXCEPT ![r] = request'[r]]
  BY DEF LifecycleInv, LifecycleTypeOK, Request
<1>2. pc # "idle"
  BY DEF Working
<1> QED
  BY <1>1, <1>2 DEF GoesOn

LEMMA HandleBusy ==
  ASSUME LifecycleInv, LifecycleInv', NEW r \in Requests, Handle(r), NEW p \in Requests, Busy(p)
  PROVE  Busy(p)'
<1>1. request \in [Requests -> Request] /\ request' \in [Requests -> Request] /\ request[r] \in Request
  BY DEF LifecycleInv, LifecycleTypeOK, Request
<1>2. ASSUME NEW pc \in Working \cup {"mark"}, Goes(r, pc)
      PROVE  GoesOn(r)
  BY <1>1, <1>2, PlaceGoesOn DEF Goes, Request
<1>3. ASSUME NEW pc \in Working, NEW state, GoesWanting(r, pc, state)
      PROVE  GoesOn(r)
  <2>1. request'[r].pc = pc /\ \A s \in Requests \ {r} : request'[s] = request[s]
    BY <1>1, <1>3 DEF GoesWanting, Request
  <2> QED
    BY <1>1, <2>1, PlaceGoesOn
<1>4. GoesOn(r)
  <2>1. CASE Reconcile(r)
    BY <1>3, <2>1, EndsGoesOn DEF Reconcile, Working
  <2>2. CASE Reset(r)
    <3>1. CASE request[r].call = "checkIn"
      <4>1. request'[r].pc = "save" /\ \A s \in Requests \ {r} : request'[s] = request[s]
        BY <1>1, <2>2, <3>1 DEF Reset, Request
      <4>2. "save" \in Working
        BY DEF Working
      <4> QED
        BY <1>1, <4>1, <4>2, PlaceGoesOn
    <3>2. CASE request[r].call # "checkIn"
      BY <2>2, <3>2, EndsGoesOn DEF Reset
    <3> QED
      BY <3>1, <3>2
  <2>3. CASE StartFind(r) \/ StopFind(r)
    <3>1. \/ Goes(r, "session") \/ Ends(r, "refused")
          \/ \E pc \in {"session", "close"} : /\ request'[r].pc = pc
                                              /\ \A s \in Requests \ {r} : request'[s] = request[s]
      BY <1>1, <2>3 DEF StartFind, StopFind, Request
    <3>2. "session" \in Working /\ "close" \in Working
      BY DEF Working
    <3>3. CASE \E pc \in {"session", "close"} : /\ request'[r].pc = pc
                                                /\ \A s \in Requests \ {r} : request'[s] = request[s]
      BY <1>1, <3>2, <3>3, PlaceGoesOn
    <3> QED
      BY <1>2, <3>1, <3>2, <3>3, EndsGoesOn
  <2>4. CASE StartSession(r)
    <3>1. request'[r].pc = "record" /\ \A s \in Requests \ {r} : request'[s] = request[s]
      BY <1>1, <2>4 DEF StartSession, Request
    <3>2. "record" \in Working
      BY DEF Working
    <3> QED
      BY <1>1, <3>1, <3>2, PlaceGoesOn
  <2>5. CASE StartRecord(r) \/ StopRecord(r)
    <3>1. Ends(r, "refused") \/ GoesWanting(r, "save", "WORKING") \/ GoesWanting(r, "save", "CHECKED_IN")
      BY <2>5 DEF StartRecord, StopRecord
    <3> QED
      BY <1>3, <3>1, EndsGoesOn DEF Working
  <2>6. CASE StopSession(r)
    BY <1>2, <2>6 DEF StopSession, Working
  <2>7. CASE Save(r)
    BY <1>2, <2>7, EndsGoesOn DEF Save
  <2>8. CASE LeaveMark(r)
    BY <2>8, EndsGoesOn DEF LeaveMark
  <2> QED
    BY <2>1, <2>2, <2>3, <2>4, <2>5, <2>6, <2>7, <2>8 DEF Handle
<1> QED
  BY <1>4, GoesOnBusy

\* A call is taken up at once.
LEMMA ArriveBusy ==
  ASSUME LifecycleInv, NEW r \in Requests, NEW call, NEW day, Arrive(r, call, day)
  PROVE  Busy(r)' /\ \A p \in Requests \ {r} : request'[p] = request[p]
<1>1. FirstStep(call, employee) # "idle"
  BY DEF FirstStep
<1>2. \A p \in Requests \ {r} : request'[p] = request[p]
  BY DEF Arrive, LifecycleInv, LifecycleTypeOK
<1>3. CASE FirstStep(call, employee) \in {"ok", "refused"}
  <2> DEFINE q == Answer(FirstStep(call, employee), call, employee.state)
  <2>1. request'[r] = q
    BY <1>3 DEF Arrive, LifecycleInv, LifecycleTypeOK
  <2>2. q.pc = FirstStep(call, employee)
    BY IdleType DEF Answer, Request
  <2> HIDE DEF q
  <2> QED
    BY <1>1, <1>2, <2>1, <2>2 DEF Busy
<1>4. CASE FirstStep(call, employee) \notin {"ok", "refused"}
  <2>1. request'[r].pc = FirstStep(call, employee)
    BY <1>4 DEF Arrive, LifecycleInv, LifecycleTypeOK
  <2> QED
    BY <1>1, <1>2, <2>1 DEF Busy
<1> QED
  BY <1>3, <1>4

\* Each step of the app and of the server, and what it leaves waiting.
LEMMA AnswersStep ==
  ASSUME IInv, IInv', AnswersComing, [Next]_vars
  PROVE  AnswersComing'
<1> USE SlotsAssumption
<1>1. LifecycleInv /\ PhoneInv /\ PhoneInv' /\ request \in [Requests -> Request]
  BY DEF IInv, LifecycleInv, LifecycleTypeOK, Request
<1>2. ASSUME UNCHANGED request
      PROVE  \A p \in Requests : Busy(p) => Busy(p)'
  BY <1>2 DEF Busy
<1>3. ASSUME NEW call \in Calls, Tap(call)
      PROVE  AnswersComing'
  <2>1. Busy("tap")' /\ \A p \in Requests \ {"tap"} : request'[p] = request[p]
    BY <1>1, <1>3, ArriveBusy DEF Tap
  <2>2. UNCHANGED <<flush, refreshing>>
    BY <1>3 DEF Tap
  <2> QED
    BY <2>1, <2>2 DEF AnswersComing, Busy
<1>4. ASSUME NEW call \in Calls, TapOffline(call)
      PROVE  AnswersComing'
  <2>1. UNCHANGED <<request, flush, refreshing>> /\ tap'.pc # "asking"
    BY <1>1, <1>4, NoTapType DEF TapOffline, lifecycleVars, PhoneInv, PhoneTypeOK
  <2> QED
    BY <2>1 DEF AnswersComing, Busy
<1>5. CASE TapAnswered
  <2>1. tap'.pc # "asking" /\ UNCHANGED <<flush, refreshing>>
    BY <1>5, NoTapType DEF TapAnswered
  <2>2. \A p \in Requests \ {"tap"} : request'[p] = request[p]
    BY <1>1, <1>5 DEF TapAnswered, Heard
  <2> QED
    BY <2>1, <2>2 DEF AnswersComing, Busy
<1>6. CASE TapLost \/ EnqueueRead \/ EnqueueWrite
  <2>1. UNCHANGED <<request, flush, refreshing>>
    BY <1>6 DEF TapLost, EnqueueRead, EnqueueWrite, lifecycleVars
  <2>2. tap'.pc # "asking"
    BY <1>1, <1>6, NoTapType DEF TapLost, EnqueueRead, EnqueueWrite, PhoneInv, PhoneTypeOK
  <2> QED
    BY <2>1, <2>2 DEF AnswersComing, Busy
<1>7. CASE FlushBegin \/ ReplayLost \/ FlushWrite
  <2>1. UNCHANGED <<request, tap, refreshing>>
    BY <1>7 DEF FlushBegin, ReplayLost, FlushWrite, lifecycleVars
  <2>2. flush'.pc # "asking"
    BY <1>1, <1>7, NoFlushType DEF FlushBegin, ReplayLost, FlushWrite, PhoneInv, PhoneTypeOK
  <2> QED
    BY <2>1, <2>2 DEF AnswersComing, Busy
<1>8. CASE Replay
  <2>1. Busy("flush")' /\ \A p \in Requests \ {"flush"} : request'[p] = request[p]
    BY <1>1, <1>8, ArriveBusy DEF Replay
  <2>2. UNCHANGED <<tap, refreshing>>
    BY <1>8 DEF Replay
  <2>3. flush'.processed < Len(flush'.queue)
    <3>1. flush'.processed = flush.processed /\ flush'.queue = flush.queue
      BY <1>1, <1>8 DEF Replay, PhoneInv, PhoneTypeOK
    <3>2. flush.processed < Len(flush.queue)
      BY <1>1, <1>8 DEF Replay, PhoneInv, QueueInv
    <3> QED
      BY <3>1, <3>2
  <2> QED
    BY <2>1, <2>2, <2>3 DEF AnswersComing, Busy
<1>9. CASE ReplayAnswered
  <2>1. flush'.pc # "asking" /\ UNCHANGED <<tap, refreshing>>
    BY <1>1, <1>9 DEF ReplayAnswered, PhoneInv, PhoneTypeOK
  <2>2. \A p \in Requests \ {"flush"} : request'[p] = request[p]
    BY <1>1, <1>9 DEF ReplayAnswered, Heard
  <2> QED
    BY <2>1, <2>2 DEF AnswersComing, Busy
<1>10. CASE Refresh
  <2>1. Busy("refresh")' /\ \A p \in Requests \ {"refresh"} : request'[p] = request[p]
    BY <1>1, <1>10, ArriveBusy DEF Refresh
  <2>2. UNCHANGED <<tap, flush>>
    BY <1>10 DEF Refresh
  <2> QED
    BY <2>1, <2>2 DEF AnswersComing, Busy
<1>11. CASE RefreshAnswered
  <2>1. ~refreshing' /\ UNCHANGED <<tap, flush>>
    BY <1>11 DEF RefreshAnswered
  <2>2. \A p \in Requests \ {"refresh"} : request'[p] = request[p]
    BY <1>1, <1>11 DEF RefreshAnswered, Heard
  <2> QED
    BY <2>1, <2>2 DEF AnswersComing, Busy
<1>12. CASE RefreshLost \/ Dismiss
  <2>1. UNCHANGED <<request, tap, flush>> /\ (refreshing' => refreshing)
    BY <1>12 DEF RefreshLost, Dismiss, lifecycleVars
  <2> QED
    BY <2>1 DEF AnswersComing, Busy
<1>13. CASE AppDies
  BY <1>13, NoTapType, NoFlushType DEF AppDies, AnswersComing
<1>14. CASE Unheard
  <2>1. UNCHANGED <<tap, flush, refreshing>>
    BY <1>14 DEF Unheard, phoneVars
  <2>2. PICK r \in Requests : /\ Done(r)
                              /\ r = "tap" => tap.pc # "asking"
                              /\ r = "flush" => flush.pc # "asking"
                              /\ r = "refresh" => ~refreshing
    BY <1>14 DEF Unheard
  <2>3. \A p \in Requests \ {r} : request'[p] = request[p]
    BY <1>1, <2>2 DEF Done
  <2> QED
    BY <2>1, <2>2, <2>3 DEF AnswersComing, Busy
<1>15. CASE Server
  <2>1. UNCHANGED <<tap, flush, refreshing>>
    BY <1>15 DEF Server, phoneVars
  <2>2. \A p \in Requests : Busy(p) => Busy(p)'
    <3>1. ASSUME NEW r \in Requests, Handle(r)
          PROVE  \A p \in Requests : Busy(p) => Busy(p)'
      BY <1>1, <3>1, HandleBusy DEF IInv
    <3>2. ASSUME NEW r \in Requests, Fails(r)
          PROVE  \A p \in Requests : Busy(p) => Busy(p)'
      BY <1>1, <3>2, EndsGoesOn, GoesOnBusy DEF Fails
    <3>3. CASE Office
      BY <1>1, <1>2, <3>3, OfficeKeeps
    <3>4. CASE NextDay
      BY <1>2, <3>4 DEF NextDay
    <3> QED
      BY <1>15, <3>1, <3>2, <3>3, <3>4 DEF Server
  <2> QED
    BY <2>1, <2>2 DEF AnswersComing, Busy
<1>16. CASE UNCHANGED vars
  BY <1>16 DEF vars, lifecycleVars, phoneVars, AnswersComing, Busy
<1> QED
  BY <1>3, <1>4, <1>5, <1>6, <1>7, <1>8, <1>9, <1>10, <1>11, <1>12, <1>13, <1>14, <1>15, <1>16
     DEF Next, Phone

\* Whatever is lost, fails or is killed, none of the app's three activities awaits a
\* call that no handler works on or has answered: a tap that holds _isSubmitting
\* (home_page.dart), a flush that holds _isFlushing (attendance_offline_queue.dart)
\* and Home's refresh all get an answer, or give the call up.
THEOREM NobodyWaitsInVain == Spec => []AnswersComing
<1>1. Init => AnswersComing
  BY NoTapType, NoFlushType DEF Init, AnswersComing
<1>2. IInv /\ IInv' /\ AnswersComing /\ [Next]_vars => AnswersComing'
  BY AnswersStep
<1> QED
  BY <1>1, <1>2, AttendanceCorrect, PTL DEF Spec
=============================================================================
