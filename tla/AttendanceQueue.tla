---------------------------- MODULE AttendanceQueue ----------------------------
(***************************************************************************)
(* The employee's app in front of EmployeeLifecycle: the home screen's     *)
(* buttons (home_page.dart) and the queue of attendance events it could    *)
(* not send (attendance_offline_queue.dart).                               *)
(*                                                                         *)
(* A tap, a flush of the queue and a refresh each have one request slot at *)
(* the server. A call the app has given up on goes on in its slot, next to *)
(* the other two.                                                          *)
(***************************************************************************)
EXTENDS EmployeeLifecycle

CONSTANTS
    MaxTaps,       \* taps of a behaviour
    Troubles,      \* what may go wrong: calls made offline, answers lost, handlers
                   \* failed, the app killed
    MaxTroubles,   \* how often
    Pressed        \* the buttons the person presses in a run

ASSUME SlotsAssumption == Requests = {"tap", "flush", "refresh"}
ASSUME TapsAssumption == MaxTaps \in Nat /\ MaxTroubles \in Nat
ASSUME TroublesAssumption == Troubles \subseteq {"offline", "lost", "failed", "killed"}

VARIABLES
    stored,        \* the queue in secure storage, events in order
    tap,           \* the tap under way: the call, and its way into the queue
    flush,         \* the flush under way: the queue it read, how much is done
    refreshing,    \* Home awaits the assignment status
    shown,         \* what Home shows, and so which buttons there are
    alert,         \* AttendanceSyncStatus.lastSyncError
    accepted,      \* the events the server is known to have accepted
    taps, troubles

phoneVars == <<stored, tap, flush, refreshing, shown, alert, accepted, taps, troubles>>
vars == <<lifecycleVars, phoneVars>>

Queued == [id: 1..MaxTaps, event: Events, day: Days]

NoTap == [pc |-> "idle", call |-> "assignmentStatus", day |-> 1, queue |-> <<>>]
NoFlush == [pc |-> "idle", queue |-> <<>>, processed |-> 0]

\* The buttons of the home screen.
Buttons ==
    CASE shown = "leave" -> {"endLeave"}
      [] shown = "working" -> {"stopWork"}
      [] shown = "in" -> {"startWork", "siteFinished", "startLeave"}
      [] shown = "assigned" -> {"checkIn", "siteFinished", "startLeave"}
      [] OTHER -> {}

\* What Home shows of a state of the employee.
View(state) ==
    CASE state = "WORKING" -> "working" [] state = "ON_LEAVE" -> "leave"
      [] state = "WAITING_FOR_COMPANY" -> "waiting" [] state = "CHECKED_IN" -> "in"
      [] OTHER -> "assigned"

\* What would be if Home took the state endLeave answers with as it is.
ViewAfterRaw(call, r) ==
    CASE call = "checkIn" -> "in" [] call = "startWork" -> "working"
      [] call = "stopWork" -> "in" [] call = "siteFinished" -> "waiting"
      [] call = "startLeave" -> "leave" [] OTHER -> request[r].want.state

\* What Home shows after a call that was accepted, or queued.
ViewAfter(call, r) ==
    CASE call = "checkIn" -> "in" [] call = "startWork" -> "working"
      [] call = "stopWork" -> "in" [] call = "siteFinished" -> "waiting"
      [] call = "startLeave" -> "leave" [] OTHER -> View(request[r].want.state)

Answered(r) == request[r].pc \in {"ok", "refused"}
Heard(r) == request' = [request EXCEPT ![r] = Idle]
ServerSame == UNCHANGED <<employee, attendance, sessions, today, reactivating, officeCalls>>

-----------------------------------------------------------------------------

Trouble(kind) ==
    /\ kind \in Troubles /\ troubles < MaxTroubles
    /\ troubles' = troubles + 1

(* A button. _isSubmitting allows one tap at a time. *)

Tap(call) ==
    /\ tap.pc = "idle" /\ taps < MaxTaps /\ call \in Buttons \cap Pressed
    /\ taps' = taps + 1
    /\ tap' = [tap EXCEPT !.pc = "asking", !.call = call, !.day = today]
    /\ Arrive("tap", call, today)
    /\ UNCHANGED <<stored, flush, refreshing, shown, alert, accepted, troubles>>

\* A connectivity error: attendance events go to the queue, leaves do not.
Offline(call) == IF call \in Events THEN "read" ELSE "idle"

TapOffline(call) ==
    /\ Trouble("offline")
    /\ tap.pc = "idle" /\ taps < MaxTaps /\ call \in Buttons \cap Pressed
    /\ taps' = taps + 1
    /\ tap' = IF call \in Events
              THEN [tap EXCEPT !.pc = "read", !.call = call, !.day = today] ELSE NoTap
    /\ UNCHANGED <<lifecycleVars, stored, flush, refreshing, shown, alert, accepted>>

TapAnswered ==
    /\ tap.pc = "asking" /\ Answered("tap")
    /\ tap' = NoTap
    /\ shown' = IF request["tap"].pc = "ok" THEN ViewAfter(tap.call, "tap") ELSE shown
    /\ Heard("tap") /\ ServerSame
    /\ UNCHANGED <<stored, flush, refreshing, alert, accepted, taps, troubles>>

\* The answer is lost or does not come in time; the server's handler goes on.
TapLost ==
    /\ Trouble("lost")
    /\ tap.pc = "asking"
    /\ tap' = IF tap.call \in Events THEN [tap EXCEPT !.pc = "read"] ELSE NoTap
    /\ UNCHANGED <<lifecycleVars, stored, flush, refreshing, shown, alert, accepted, taps>>

\* _enqueue reads the whole queue, and writes it back with the event added.
EnqueueRead ==
    /\ tap.pc = "read"
    /\ tap' = [tap EXCEPT !.pc = "write", !.queue = stored]
    /\ UNCHANGED <<lifecycleVars, stored, flush, refreshing, shown, alert, accepted, taps, troubles>>

\* What would be if the event were added in front.
EnqueueWriteFirst ==
    /\ tap.pc = "write"
    /\ stored' = <<[id |-> taps, event |-> tap.call, day |-> tap.day]>> \o tap.queue
    /\ shown' = ViewAfter(tap.call, "tap")
    /\ tap' = NoTap
    /\ UNCHANGED <<lifecycleVars, flush, refreshing, alert, accepted, taps, troubles>>

EnqueueWrite ==
    /\ tap.pc = "write"
    /\ stored' = Append(tap.queue, [id |-> taps, event |-> tap.call, day |-> tap.day])
    /\ shown' = ViewAfter(tap.call, "tap")
    /\ tap' = NoTap
    /\ UNCHANGED <<lifecycleVars, flush, refreshing, alert, accepted, taps, troubles>>

-----------------------------------------------------------------------------
(* flush(), at start, on reconnection and when Home is pulled down. *)

FlushBegin ==
    /\ flush.pc = "idle" /\ stored # <<>>
    /\ flush' = [pc |-> "replay", queue |-> stored, processed |-> 0]
    /\ UNCHANGED <<lifecycleVars, stored, tap, refreshing, shown, alert, accepted, taps, troubles>>

Next1 == flush.queue[flush.processed + 1]

Replay ==
    /\ flush.pc = "replay"
    /\ Arrive("flush", Next1.event, Next1.day)
    /\ flush' = [flush EXCEPT !.pc = "asking"]
    /\ UNCHANGED <<stored, tap, refreshing, shown, alert, accepted, taps, troubles>>

\* What would be if a refused event were dropped, as the notification queue does.
ReplayAnsweredDrops ==
    LET ok == request["flush"].pc = "ok" IN
    /\ flush.pc = "asking" /\ Answered("flush")
    /\ flush' = [flush EXCEPT !.processed = @ + 1,
                     !.pc = IF flush.processed + 1 < Len(flush.queue)
                            THEN "replay" ELSE "write"]
    /\ accepted' = IF ok THEN accepted \cup {Next1.id} ELSE accepted
    /\ alert' = (alert \/ ~ok)
    /\ Heard("flush") /\ ServerSame
    /\ UNCHANGED <<stored, tap, refreshing, shown, taps, troubles>>

\* What would be if a refusal were not shown.
ReplayAnsweredQuietly ==
    LET ok == request["flush"].pc = "ok" IN
    /\ flush.pc = "asking" /\ Answered("flush")
    /\ flush' = [flush EXCEPT !.processed = IF ok THEN @ + 1 ELSE @,
                     !.pc = IF ok /\ flush.processed + 1 < Len(flush.queue)
                            THEN "replay" ELSE "write"]
    /\ accepted' = IF ok THEN accepted \cup {Next1.id} ELSE accepted
    /\ Heard("flush") /\ ServerSame
    /\ UNCHANGED <<stored, tap, refreshing, shown, alert, taps, troubles>>

\* The event is accepted, or refused: only then does the person get to see it.
ReplayAnswered ==
    LET ok == request["flush"].pc = "ok" IN
    /\ flush.pc = "asking" /\ Answered("flush")
    /\ flush' = [flush EXCEPT !.processed = IF ok THEN @ + 1 ELSE @,
                     !.pc = IF ok /\ flush.processed + 1 < Len(flush.queue)
                            THEN "replay" ELSE "write"]
    /\ accepted' = IF ok THEN accepted \cup {Next1.id} ELSE accepted
    /\ alert' = (alert \/ ~ok)
    /\ Heard("flush") /\ ServerSame
    /\ UNCHANGED <<stored, tap, refreshing, shown, taps, troubles>>

\* A connectivity error, before or after the server has got the call.
ReplayLost ==
    /\ Trouble("lost")
    /\ flush.pc \in {"replay", "asking"}
    /\ flush' = [flush EXCEPT !.pc = "write"]
    /\ UNCHANGED <<lifecycleVars, stored, tap, refreshing, shown, alert, accepted, taps>>

FlushWrite ==
    /\ flush.pc = "write"
    /\ stored' = SubSeq(flush.queue, flush.processed + 1, Len(flush.queue))
    /\ flush' = NoFlush
    /\ UNCHANGED <<lifecycleVars, tap, refreshing, shown, alert, accepted, taps, troubles>>

-----------------------------------------------------------------------------
(* _loadInitialState, and the app's end. *)

Refresh ==
    /\ ~refreshing
    /\ refreshing' = TRUE
    /\ Arrive("refresh", "assignmentStatus", today)
    /\ UNCHANGED <<stored, tap, flush, shown, alert, accepted, taps, troubles>>

RefreshAnswered ==
    /\ refreshing /\ Answered("refresh")
    /\ refreshing' = FALSE
    /\ shown' = IF request["refresh"].pc = "ok" THEN View(request["refresh"].want.state)
                ELSE "waiting"
    /\ Heard("refresh") /\ ServerSame
    /\ UNCHANGED <<stored, tap, flush, alert, accepted, taps, troubles>>

RefreshLost ==
    /\ Trouble("lost")
    /\ refreshing
    /\ refreshing' = FALSE
    /\ shown' = "waiting"
    /\ UNCHANGED <<lifecycleVars, stored, tap, flush, alert, accepted, taps>>

\* The app is killed and opened again: only the storage is left.
AppDies ==
    /\ Trouble("killed")
    /\ tap' = NoTap /\ flush' = NoFlush /\ refreshing' = FALSE
    /\ shown' = "assigned" /\ alert' = FALSE
    /\ UNCHANGED <<lifecycleVars, stored, accepted, taps>>

Dismiss ==
    /\ alert
    /\ alert' = FALSE
    /\ UNCHANGED <<lifecycleVars, stored, tap, flush, refreshing, shown, accepted, taps, troubles>>

\* A handler ends whose answer nobody awaits any more.
Unheard ==
    /\ \/ tap.pc # "asking" /\ Done("tap")
       \/ flush.pc # "asking" /\ Done("flush")
       \/ ~refreshing /\ Done("refresh")
    /\ UNCHANGED phoneVars

-----------------------------------------------------------------------------
Init ==
    /\ LifecycleInit
    /\ stored = <<>> /\ tap = NoTap /\ flush = NoFlush /\ refreshing = FALSE
    /\ shown = "assigned" /\ alert = FALSE /\ accepted = {} /\ taps = 0 /\ troubles = 0

Phone ==
    \/ \E call \in Calls : Tap(call) \/ TapOffline(call)
    \/ TapAnswered \/ TapLost \/ EnqueueRead \/ EnqueueWrite
    \/ FlushBegin \/ Replay \/ ReplayAnswered \/ ReplayLost \/ FlushWrite
    \/ Refresh \/ RefreshAnswered \/ RefreshLost
    \/ AppDies \/ Dismiss \/ Unheard

Server ==
    \/ /\ (\E r \in Requests : Handle(r)) \/ Office \/ NextDay
       /\ UNCHANGED phoneVars
    \/ /\ \E r \in Requests : Fails(r)
       /\ Trouble("failed")
       /\ UNCHANGED <<stored, tap, flush, refreshing, shown, alert, accepted, taps>>

Next == Phone \/ Server

Spec == Init /\ [][Next]_vars

\* The app flushes when it is opened, pulled down or connected again, Home is
\* refreshed; handlers go on.
Progress ==
    /\ WF_vars(FlushBegin) /\ WF_vars(Replay) /\ WF_vars(ReplayAnswered) /\ WF_vars(FlushWrite)
    /\ WF_vars(Refresh) /\ WF_vars(RefreshAnswered) /\ WF_vars(Unheard)
    /\ \A r \in Requests : WF_vars(Handle(r) /\ UNCHANGED phoneVars)

LiveSpec == Spec /\ Progress

-----------------------------------------------------------------------------
(* Properties. *)

TypeOK ==
    /\ LifecycleTypeOK
    /\ stored \in Seq(Queued)
    /\ tap \in [pc: {"idle", "asking", "read", "write"}, call: Calls, day: Days,
                queue: Seq(Queued)]
    /\ flush \in [pc: {"idle", "replay", "asking", "write"}, queue: Seq(Queued),
                  processed: Nat]
    /\ refreshing \in BOOLEAN /\ alert \in BOOLEAN
    /\ shown \in {"assigned", "in", "working", "leave", "waiting"}
    /\ accepted \subseteq 1..MaxTaps /\ taps \in 0..MaxTaps /\ troubles \in 0..MaxTroubles

Ids(queue) == {queue[i].id : i \in 1..Len(queue)}

\* The queue is in the order of the taps, none twice, although an enqueue and a
\* flush each read it whole, await, and write it back (_enqueue, flush).
StoredInOrder ==
    \A i, j \in 1..Len(stored) : i < j => stored[i].id < stored[j].id

\* A flush takes out of the queue it read only what the server has accepted,
\* wherever it stops and whenever the app is killed.
FlushKeepsUndelivered ==
    [][\A id \in Ids(stored) \ Ids(stored') :
          id \in accepted \/ id \notin Ids(flush.queue)]_vars

\* No event of attendance is dropped: one that is in the queue stays there until
\* the server has accepted it (the comment of flush()).
NothingDropped ==
    [][\A id \in Ids(stored) \ Ids(stored') : id \in accepted]_vars

\* What is in the queue does not wait unnoticed for ever: the queue drains, or the
\* person is told (flush(), lastSyncError).
SyncSettles == stored # <<>> ~> (stored = <<>> \/ alert)

\* Someone checked in or at work by the state of an earlier day can start today
\* afresh, whatever the office, the queue and other requests do meanwhile
\* (reconcileDailyLifecycleState).
TodayStartsFresh ==
    LET LeftOver == /\ employee.state \in {"CHECKED_IN", "WORKING"}
                    /\ \A i \in RecordsOf(today) : ~attendance[i].checkIn
    IN  LeftOver ~> ~LeftOver
=============================================================================
