--------------------------- MODULE EmployeeLifecycle ---------------------------
(***************************************************************************)
(* One employee's document, attendance records and work sessions, written  *)
(* by the handlers the phone calls (mobileLifecycle.controller.js) and by  *)
(* the office (employee.controller.js, attendance.controller.js).          *)
(*                                                                         *)
(* Every request of the phone loads the whole employee first               *)
(* (employeeAuth.middleware.js), decides on that copy, awaits other        *)
(* writes, and saves the paths it changed; the office's handlers update    *)
(* the document in place. A handler is cut at its awaits: request[r].seen  *)
(* is the copy as it was loaded, request[r].want the copy as changed.      *)
(***************************************************************************)
EXTENDS Naturals, Sequences

CONSTANTS
    Requests,      \* requests of the phone that may run at once
    Companies,
    NoCompany,
    NoState,       \* preLeaveState null
    Removed,       \* an attendance record the office has deleted
    MaxDay,        \* business days of a behaviour
    MaxSessions,   \* work sessions of a behaviour
    MaxOffice      \* calls the office makes

ASSUME CompaniesAssumption == NoCompany \notin Companies
ASSUME DaysAssumption == MaxDay \in Nat \ {0} /\ MaxSessions \in Nat /\ MaxOffice \in Nat

States == {"WAITING_FOR_COMPANY", "ASSIGNED", "CHECKED_IN", "WORKING", "ON_LEAVE"}
ASSUME NoStateAssumption == NoState \notin States

Events == {"checkIn", "startWork", "stopWork", "siteFinished"}
Calls == Events \cup {"startLeave", "endLeave", "assignmentStatus"}
Days == 1..MaxDay

Employees == [state: States, assigned: {"on-site", "on-hold", "site-over"},
              company: Companies \cup {NoCompany},
              preLeave: States \cup {NoState}, onLeave: BOOLEAN]
Records == [day: Days, checkIn: BOOLEAN, checkOut: BOOLEAN, session: Nat]
ASSUME RemovedAssumption == Removed \notin Records

VARIABLES
    employee,      \* the employee's document
    attendance,    \* attendance records, in the order of their insertion
    sessions,      \* work sessions, likewise; open while endAt is null
    today,         \* the business day the server's clock is in
    request,       \* what each request of the phone is doing
    reactivating,  \* a reactivateEmployee has read and not yet written
    officeCalls    \* how many calls the office has made

lifecycleVars == <<employee, attendance, sessions, today, request, reactivating, officeCalls>>

\* createEmployee, with a company or without.
NewHire(c) == [state |-> IF c = NoCompany THEN "WAITING_FOR_COMPANY" ELSE "ASSIGNED",
               assigned |-> IF c = NoCompany THEN "on-hold" ELSE "on-site",
               company |-> c, preLeave |-> NoState, onLeave |-> FALSE]
Idle == [pc |-> "idle", call |-> "assignmentStatus", day |-> 1, seen |-> NewHire(NoCompany),
         want |-> NewHire(NoCompany), record |-> 0, session |-> 0]

-----------------------------------------------------------------------------
(* What the handlers read. *)

Live(i) == attendance[i] # Removed

\* The records an Attendance.findOne for a day may return: no index makes
\* the record of a day unique.
RecordsOf(day) == {i \in 1..Len(attendance) : Live(i) /\ attendance[i].day = day}

\* What would be if the check were on any day's record.
CheckedInEver == \E i \in 1..Len(attendance) : Live(i) /\ attendance[i].checkIn

\* A checked-in record of today, which reconcileDailyLifecycleState looks for.
CheckedInToday == \E i \in RecordsOf(today) : attendance[i].checkIn

OpenSessions == {s \in 1..Len(sessions) : sessions[s].open}

\* The open session that began last, 0 when none is open.
LatestOpenSession ==
    IF OpenSessions = {} THEN 0
    ELSE CHOOSE s \in OpenSessions : \A t \in OpenSessions :
            \/ sessions[t].day < sessions[s].day
            \/ sessions[t].day = sessions[s].day /\ t <= s

\* The day an event is filed under. The client's timestamp counts for a day;
\* an older one is replaced by the server's clock.
EventDays(day) == IF day = today THEN {today}
                  ELSE IF day + 1 = today THEN {day, today}
                  ELSE {today}

\* The checks a handler makes on its copy of the employee before its first
\* await. A startLeave from ON_LEAVE fails later, in the validation of
\* preLeaveState, with no effect but the answer.
Refuses(call, e) ==
    \/ call = "checkIn" /\ (e.assigned # "on-site" \/ e.onLeave)
    \/ call = "startWork" /\ (e.onLeave \/ e.state \notin {"CHECKED_IN", "ASSIGNED"})
    \/ call = "stopWork" /\ e.state # "WORKING"
    \/ call = "siteFinished" /\ (e.assigned # "on-site" \/ e.state = "WORKING" \/ e.onLeave)
    \/ call = "startLeave" /\ (e.onLeave \/ e.state \in {"WORKING", "ON_LEAVE"})
    \/ call = "endLeave" /\ ~e.onLeave

\* The state an endLeave restores.
Restored(e) ==
    IF e.assigned # "on-site" \/ e.preLeave = NoState THEN "WAITING_FOR_COMPANY"
    ELSE IF e.preLeave = "WORKING" THEN "CHECKED_IN" ELSE e.preLeave

\* What would be if endLeave kept the snapshot of the state it restored.
LeaveEndedKeepsSnapshot(e) == [e EXCEPT !.state = Restored(e), !.onLeave = FALSE]

LeaveEnded(e) ==
    [e EXCEPT !.state = Restored(e), !.preLeave = NoState, !.onLeave = FALSE]

\* The copy a handler saves, where it can be told before its other awaits.
Wanted(call, e) ==
    CASE call = "siteFinished" ->
            [e EXCEPT !.state = "WAITING_FOR_COMPANY", !.assigned = "site-over"]
      [] call = "startLeave" ->
            [e EXCEPT !.preLeave = e.state, !.onLeave = TRUE, !.state = "ON_LEAVE"]
      [] call = "endLeave" -> LeaveEnded(e)
      [] OTHER -> e

FirstStep(call, e) ==
    IF Refuses(call, e) THEN "refused"
    ELSE CASE call = "assignmentStatus" ->
                 IF e.state \in {"CHECKED_IN", "WORKING"} THEN "reconcile" ELSE "ok"
           [] call = "checkIn" -> "reconcile"
           [] call \in {"startWork", "stopWork"} -> "find"
           [] OTHER -> "save"

-----------------------------------------------------------------------------
(* The requests of the phone. *)

\* An answer leaves: nothing of the handler is left but what it says.
Answer(says, call, state) == [Idle EXCEPT !.pc = says, !.call = call, !.want.state = state]

\* The middleware loads the employee and the handler makes its first checks.
Arrive(r, call, day) ==
    /\ request[r].pc = "idle"
    /\ \E eventDay \in EventDays(day) :
          request' = [request EXCEPT ![r] =
              IF FirstStep(call, employee) \in {"ok", "refused"}
              THEN Answer(FirstStep(call, employee), call, employee.state)
              ELSE [pc |-> FirstStep(call, employee), call |-> call, day |-> eventDay,
                    seen |-> employee, want |-> Wanted(call, employee),
                    record |-> 0, session |-> 0]]
    /\ UNCHANGED <<employee, attendance, sessions, today, reactivating, officeCalls>>

At(r, pc) == request[r].pc = pc
Goes(r, pc) == request' = [request EXCEPT ![r].pc = pc]
Ends(r, says) ==
    request' = [request EXCEPT ![r] = Answer(says, request[r].call, request[r].want.state)]
GoesWanting(r, pc, state) ==
    request' = [request EXCEPT ![r].pc = pc, ![r].want.state = state]

\* reconcileDailyLifecycleState looks for a checked-in record of today.
Reconcile(r) ==
    LET e == request[r].seen
        checkIn == request[r].call = "checkIn" IN
    /\ At(r, "reconcile")
    /\ IF e.state \notin {"CHECKED_IN", "WORKING"}
       THEN GoesWanting(r, "save", "CHECKED_IN")
       ELSE IF CheckedInToday THEN Ends(r, IF checkIn THEN "refused" ELSE "ok")
       ELSE GoesWanting(r, "reset",
                IF e.assigned = "on-site" THEN "ASSIGNED" ELSE "WAITING_FOR_COMPANY")
    /\ UNCHANGED <<employee, attendance, sessions, today, reactivating, officeCalls>>

\* What would be if save() wrote the whole document back.
SavedWhole(seen, want) == want

\* What save() leaves of the employee: only the paths that differ from the
\* copy as it was loaded are written.
Saved(seen, want) == [path \in DOMAIN employee |->
                         IF want[path] # seen[path] THEN want[path] ELSE employee[path]]

\* The save of the reconciliation, after which a check-in goes on.
Reset(r) ==
    /\ At(r, "reset")
    /\ employee' = Saved(request[r].seen, request[r].want)
    /\ IF request[r].call = "checkIn"
       THEN request' = [request EXCEPT ![r].seen = request[r].want,
                            ![r].want.state = "CHECKED_IN", ![r].pc = "save"]
       ELSE Ends(r, "ok")
    /\ UNCHANGED <<attendance, sessions, today, reactivating, officeCalls>>

\* startWork finds the record of the event's day, if there is one.
StartFind(r) ==
    /\ At(r, "find") /\ request[r].call = "startWork"
    /\ \/ /\ RecordsOf(request[r].day) = {}
          /\ Goes(r, "session")
       \/ \E i \in RecordsOf(request[r].day) :
             IF attendance[i].checkIn /\ ~attendance[i].checkOut
             THEN Ends(r, "refused")
             ELSE request' = [request EXCEPT ![r].pc = "session", ![r].record = i]
    /\ UNCHANGED <<employee, attendance, sessions, today, reactivating, officeCalls>>

\* What would be if the session began when the server heard of it.
StartSessionNow(r) ==
    /\ At(r, "session") /\ Len(sessions) < MaxSessions
    /\ sessions' = Append(sessions, [day |-> today, open |-> TRUE])
    /\ request' = [request EXCEPT ![r].pc = "record", ![r].session = Len(sessions) + 1]
    /\ UNCHANGED <<employee, attendance, today, reactivating, officeCalls>>

StartSession(r) ==
    /\ At(r, "session") /\ Len(sessions) < MaxSessions
    /\ sessions' = Append(sessions, [day |-> request[r].day, open |-> TRUE])
    /\ request' = [request EXCEPT ![r].pc = "record", ![r].session = Len(sessions) + 1]
    /\ UNCHANGED <<employee, attendance, today, reactivating, officeCalls>>

\* record.save(): inserts, or opens again the record it found. It throws when that
\* has been deleted, and without a company, which a record must have.
StartRecord(r) ==
    LET i == request[r].record
        started == [day |-> request[r].day, checkIn |-> TRUE, checkOut |-> FALSE,
                    session |-> request[r].session] IN
    /\ At(r, "record")
    /\ IF (i # 0 /\ ~Live(i)) \/ request[r].seen.company = NoCompany
       THEN Ends(r, "refused") /\ UNCHANGED attendance
       ELSE /\ attendance' = IF i = 0 THEN Append(attendance, started)
                             ELSE [attendance EXCEPT ![i] = started]
            /\ GoesWanting(r, "save", "WORKING")
    /\ UNCHANGED <<employee, sessions, today, reactivating, officeCalls>>

\* stopWork finds the record of the event's day.
StopFind(r) ==
    /\ At(r, "find") /\ request[r].call = "stopWork"
    /\ \/ /\ RecordsOf(request[r].day) = {}
          /\ Ends(r, "refused")
       \/ \E i \in RecordsOf(request[r].day) :
             IF attendance[i].checkIn /\ ~attendance[i].checkOut
             THEN request' = [request EXCEPT ![r].pc = "close", ![r].record = i]
             ELSE Ends(r, "refused")
    /\ UNCHANGED <<employee, attendance, sessions, today, reactivating, officeCalls>>

\* It ends the latest open session, whichever record that belongs to.
StopSession(r) ==
    /\ At(r, "close")
    /\ sessions' = [s \in DOMAIN sessions |->
                       IF s = LatestOpenSession THEN [sessions[s] EXCEPT !.open = FALSE]
                       ELSE sessions[s]]
    /\ Goes(r, "stamp")
    /\ UNCHANGED <<employee, attendance, today, reactivating, officeCalls>>

\* record.save() of the check-out.
StopRecord(r) ==
    LET i == request[r].record IN
    /\ At(r, "stamp")
    /\ IF Live(i)
       THEN /\ attendance' = [attendance EXCEPT ![i].checkOut = TRUE]
            /\ GoesWanting(r, "save", "CHECKED_IN")
       ELSE Ends(r, "refused") /\ UNCHANGED attendance
    /\ UNCHANGED <<employee, sessions, today, reactivating, officeCalls>>

\* employee.save() at the end of a handler.
Save(r) ==
    /\ At(r, "save")
    /\ employee' = Saved(request[r].seen, request[r].want)
    /\ IF request[r].call = "startLeave" THEN Goes(r, "mark") ELSE Ends(r, "ok")
    /\ UNCHANGED <<attendance, sessions, today, reactivating, officeCalls>>

\* startLeave's upsert of today's attendance; its failure is swallowed.
LeaveMark(r) ==
    /\ At(r, "mark")
    /\ \/ UNCHANGED attendance
       \/ /\ RecordsOf(today) = {}
          /\ attendance' = Append(attendance,
                 [day |-> today, checkIn |-> FALSE, checkOut |-> FALSE, session |-> 0])
    /\ Ends(r, "ok")
    /\ UNCHANGED <<employee, sessions, today, reactivating, officeCalls>>

Working == {"reconcile", "reset", "find", "session", "record", "close", "stamp", "save"}

\* An await of a handler throws, or its process ends: a 500, or no answer.
Fails(r) ==
    /\ request[r].pc \in Working
    /\ Ends(r, "refused")
    /\ UNCHANGED <<employee, attendance, sessions, today, reactivating, officeCalls>>

\* The answer has left, or is lost.
Done(r) ==
    /\ request[r].pc \in {"ok", "refused"}
    /\ request' = [request EXCEPT ![r] = Idle]
    /\ UNCHANGED <<employee, attendance, sessions, today, reactivating, officeCalls>>

Handle(r) ==
    \/ Reconcile(r) \/ Reset(r) \/ StartFind(r) \/ StartSession(r) \/ StartRecord(r)
    \/ StopFind(r) \/ StopSession(r) \/ StopRecord(r) \/ Save(r) \/ LeaveMark(r)

-----------------------------------------------------------------------------
(* The office. *)

OfficeCalls ==
    /\ officeCalls < MaxOffice
    /\ officeCalls' = officeCalls + 1
    /\ UNCHANGED <<sessions, today, request>>

\* updateEmployee with a company, or with null, in the payload.
OfficeEdit(c) ==
    /\ OfficeCalls
    /\ employee' = [employee EXCEPT !.company = c,
                        !.assigned = IF c = NoCompany THEN "on-hold" ELSE "on-site"]
    /\ UNCHANGED <<attendance, reactivating>>

Assign(c) ==
    /\ OfficeCalls
    /\ employee' = [employee EXCEPT !.company = c, !.state = "ASSIGNED", !.assigned = "on-site"]
    /\ UNCHANGED <<attendance, reactivating>>

\* unassignEmployee, and deleteCompany's cascade for the company's employees.
Unassign ==
    /\ OfficeCalls
    /\ employee' = [employee EXCEPT !.company = NoCompany, !.state = "WAITING_FOR_COMPANY",
                        !.assigned = "on-hold"]
    /\ UNCHANGED <<attendance, reactivating>>

\* reactivateEmployee checks what it reads and then updates by id.
ReactivateRead ==
    /\ OfficeCalls
    /\ ~reactivating /\ employee.assigned = "site-over" /\ employee.company # NoCompany
    /\ reactivating' = TRUE
    /\ UNCHANGED <<employee, attendance>>

ReactivateWrite ==
    /\ reactivating
    /\ reactivating' = FALSE
    /\ employee' = [employee EXCEPT !.state = "ASSIGNED", !.assigned = "on-site"]
    /\ UNCHANGED <<attendance, sessions, today, request, officeCalls>>

\* createAttendance, of a day worked or not.
OfficeRecord(day, present) ==
    /\ OfficeCalls
    /\ attendance' = Append(attendance, [day |-> day, checkIn |-> present,
                                         checkOut |-> present, session |-> 0])
    /\ UNCHANGED <<employee, reactivating>>

\* updateAttendance, of the times.
OfficeCorrects(i, checkIn, checkOut) ==
    /\ OfficeCalls
    /\ Live(i)
    /\ attendance' = [attendance EXCEPT ![i].checkIn = checkIn, ![i].checkOut = checkOut]
    /\ UNCHANGED <<employee, reactivating>>

OfficeDeletes(i) ==
    /\ OfficeCalls
    /\ Live(i)
    /\ attendance' = [attendance EXCEPT ![i] = Removed]
    /\ UNCHANGED <<employee, reactivating>>

Office ==
    \/ \E c \in Companies \cup {NoCompany} : OfficeEdit(c)
    \/ \E c \in Companies : Assign(c)
    \/ Unassign \/ ReactivateRead \/ ReactivateWrite
    \/ \E day \in 1..today, present \in BOOLEAN : OfficeRecord(day, present)
    \/ \E i \in 1..Len(attendance) :
          \/ \E checkOut \in BOOLEAN : OfficeCorrects(i, TRUE, checkOut)
          \/ OfficeDeletes(i)

NextDay ==
    /\ today < MaxDay
    /\ today' = today + 1
    /\ UNCHANGED <<employee, attendance, sessions, request, reactivating, officeCalls>>

-----------------------------------------------------------------------------
LifecycleInit ==
    /\ employee \in {NewHire(c) : c \in Companies \cup {NoCompany}}
    /\ attendance = <<>>
    /\ sessions = <<>>
    /\ today = 1
    /\ request = [r \in Requests |-> Idle]
    /\ reactivating = FALSE
    /\ officeCalls = 0

LifecycleNext ==
    \/ \E r \in Requests :
          \/ \E call \in Calls, day \in 1..today : Arrive(r, call, day)
          \/ Handle(r) \/ Fails(r) \/ Done(r)
    \/ Office \/ NextDay

LifecycleSpec == LifecycleInit /\ [][LifecycleNext]_lifecycleVars

-----------------------------------------------------------------------------
(* Properties. *)

LifecycleTypeOK ==
    /\ employee \in Employees
    /\ attendance \in Seq(Records \cup {Removed})
    /\ sessions \in Seq([day: Days, open: BOOLEAN])
    /\ today \in Days
    /\ request \in [Requests ->
          [pc: Working \cup {"idle", "mark", "ok", "refused"}, call: Calls, day: Days,
           seen: Employees, want: Employees, record: Nat, session: Nat]]
    /\ reactivating \in BOOLEAN
    /\ officeCalls \in 0..MaxOffice

\* However the requests that start and end leaves overlap with each other and
\* with the office, an employee is on leave exactly while the state to come back
\* to is stored (models/Employee.js, preLeaveState; startLeave, endLeave).
LeaveRemembersState == employee.onLeave <=> employee.preLeave # NoState

\* A record that work was started on has the session that startWork created
\* for it, of the same day, whichever of its writes fails and whatever the office
\* does to the records (startWork creates the session before it saves the record).
RecordHasSession ==
    \A i \in 1..Len(attendance) :
        Live(i) /\ attendance[i].session # 0 =>
            /\ attendance[i].session <= Len(sessions)
            /\ sessions[attendance[i].session].day = attendance[i].day

\* A request of the phone, decided on a copy of the employee that may be stale,
\* never undoes what the office did: it leaves the company alone and may only
\* finish a site (the saves of mobileLifecycle.controller.js against
\* assignEmployee, unassignEmployee and updateEmployee).
OfficeAssignmentKept ==
    [][\A r \in Requests : request'[r] # request[r] =>
          /\ employee'.company = employee.company
          /\ employee'.assigned # employee.assigned => employee'.assigned = "site-over"
      ]_lifecycleVars
=============================================================================
