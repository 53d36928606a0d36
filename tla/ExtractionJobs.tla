---------------------------- MODULE ExtractionJobs ----------------------------
(***************************************************************************)
(* AI extraction jobs: the record clients poll, the BullMQ job, and the    *)
(* worker's slots, which call the AI service under a semaphore.            *)
(*                                                                         *)
(* The record and the queue are two stores, written one after the other    *)
(* by the API, by the attempt, and by a handler of BullMQ's failed event   *)
(* that nothing waits for. The semaphore lives in the worker's memory.     *)
(***************************************************************************)
EXTENDS Naturals, Sequences, FiniteSets

CONSTANTS
    Jobs,           \* ids of the jobs that requests may create
    Slots,          \* jobs the worker runs at once
    NoJob,
    Permits,        \* calls of the AI service at once
    MaxRetries,     \* calls repeated within an attempt
    Attempts,       \* attempts BullMQ gives a job
    MaxStalls,      \* times BullMQ hands out again a job whose worker vanished
    MaxCrashes      \* deaths of a process

ASSUME PermitsAssumption == Permits \in Nat \ {0} /\ Attempts \in Nat \ {0}
ASSUME BoundsAssumption == MaxRetries \in Nat /\ MaxStalls \in Nat /\ MaxCrashes \in Nat
ASSUME NoJobAssumption == NoJob \notin Jobs
ASSUME SlotsAssumption == IsFiniteSet(Slots)

VARIABLES
    record,     \* the status in the extractionjobs collection
    api,        \* where the request that made the job is
    bull,       \* the job in BullMQ
    slot,       \* what the worker's slots do
    free,       \* permits nobody holds
    waiting,    \* the slots that wait for one, first come first served
    telling,    \* jobs with a write of the failed handler under way
    lost,       \* jobs that something will never be written or enqueued for
    overtaken,  \* jobs that went on before a write of their failure
    crashes

vars == <<record, api, bull, slot, free, waiting, telling, lost, overtaken, crashes>>
semaphore == <<free, waiting>>

Statuses == {"none", "queued", "active", "completed", "failed"}
Settled == {"completed", "failed"}
Bull == [state: {"absent", "late", "waiting", "active", "delayed", "completed", "failed"},
         attempts: 0..Attempts, stalls: 0..MaxStalls]
Slot == [pc: {"idle", "start", "download", "wait", "call", "pause", "finish", "done"},
         job: Jobs \cup {NoJob}, retries: 0..MaxRetries]
Idle == [pc |-> "idle", job |-> NoJob, retries |-> 0]

Init ==
    /\ record = [j \in Jobs |-> "none"]
    /\ api = [j \in Jobs |-> "idle"]
    /\ bull = [j \in Jobs |-> [state |-> "absent", attempts |-> 0, stalls |-> 0]]
    /\ slot = [s \in Slots |-> Idle]
    /\ free = Permits
    /\ waiting = <<>>
    /\ telling = {}
    /\ lost = {}
    /\ overtaken = {}
    /\ crashes = 0

-----------------------------------------------------------------------------
(* enqueueExtractionJob. A request that finds a young job of its own hash   *)
(* creates none.                                                            *)

CreateRecord(j) ==
    /\ record[j] = "none" /\ api[j] = "idle"
    /\ record' = [record EXCEPT ![j] = "queued"]
    /\ api' = [api EXCEPT ![j] = "add"]
    /\ UNCHANGED <<bull, slot, semaphore, telling, lost, overtaken, crashes>>

AddJob(j) ==
    /\ api[j] = "add"
    /\ bull' = [bull EXCEPT ![j].state = "waiting"]
    /\ api' = [api EXCEPT ![j] = "idle"]
    /\ UNCHANGED <<record, slot, semaphore, telling, lost, overtaken, crashes>>

AddFails(j) ==
    /\ api[j] = "add"
    /\ api' = [api EXCEPT ![j] = "fail"]
    /\ UNCHANGED <<record, bull, slot, semaphore, telling, lost, overtaken, crashes>>

\* withTimeout gives up on an add that is still on its way.
AddTimesOut(j) ==
    /\ api[j] = "add"
    /\ bull' = [bull EXCEPT ![j].state = "late"]
    /\ api' = [api EXCEPT ![j] = "fail"]
    /\ UNCHANGED <<record, slot, semaphore, telling, lost, overtaken, crashes>>

AddLands(j) ==
    /\ bull[j].state = "late"
    /\ bull' = [bull EXCEPT ![j].state = "waiting"]
    /\ UNCHANGED <<record, api, slot, semaphore, telling, lost, overtaken, crashes>>

\* The queue's stub takes the job and does nothing, when Redis is disabled.
AddSkipped(j) ==
    /\ api[j] = "add"
    /\ api' = [api EXCEPT ![j] = "idle"]
    /\ lost' = lost \cup {j}
    /\ UNCHANGED <<record, bull, slot, semaphore, telling, overtaken, crashes>>

\* What would be if the record were left as it is when the add has failed.
MarkFailedNot(j) ==
    /\ api[j] = "fail"
    /\ api' = [api EXCEPT ![j] = "idle"]
    /\ UNCHANGED <<record, bull, slot, semaphore, telling, lost, overtaken, crashes>>

MarkFailed(j) ==
    /\ api[j] = "fail"
    /\ record' = [record EXCEPT ![j] = "failed"]
    /\ overtaken' = IF bull[j].state \in {"absent", "late", "waiting"} THEN overtaken ELSE overtaken \cup {j}
    /\ api' = [api EXCEPT ![j] = "idle"]
    /\ UNCHANGED <<bull, slot, semaphore, telling, lost, crashes>>

ApiDies ==
    /\ crashes < MaxCrashes
    /\ \E j \in Jobs : api[j] # "idle"
    /\ lost' = lost \cup {j \in Jobs : api[j] # "idle"}
    /\ api' = [j \in Jobs |-> "idle"]
    /\ crashes' = crashes + 1
    /\ UNCHANGED <<record, bull, slot, semaphore, telling, overtaken>>

-----------------------------------------------------------------------------
(* The semaphore: acquire and release run without an await.                 *)

Acquire(s, want) ==
    IF free > 0
    THEN /\ free' = free - 1 /\ waiting' = waiting
         /\ slot' = [slot EXCEPT ![s] = [want EXCEPT !.pc = "call"]]
    ELSE /\ waiting' = Append(waiting, s) /\ free' = free
         /\ slot' = [slot EXCEPT ![s] = [want EXCEPT !.pc = "wait"]]

\* Slot s becomes next, and its permit goes to the first that waits.
Release(s, next) ==
    IF waiting = <<>>
    THEN /\ free' = free + 1 /\ waiting' = waiting
         /\ slot' = [slot EXCEPT ![s] = next]
    ELSE /\ free' = free /\ waiting' = Tail(waiting)
         /\ slot' = [slot EXCEPT ![s] = next, ![Head(waiting)].pc = "call"]

-----------------------------------------------------------------------------
(* An attempt: processAiJobInner                                            *)

Take(s, j) ==
    /\ slot[s].pc = "idle" /\ bull[j].state = "waiting"
    /\ bull' = [bull EXCEPT ![j].state = "active"]
    /\ slot' = [slot EXCEPT ![s] = [Idle EXCEPT !.pc = "start", !.job = j]]
    /\ UNCHANGED <<record, api, semaphore, telling, lost, overtaken, crashes>>

\* What would be if the record had the draft's name for it.
MarkProcessing(s) ==
    /\ slot[s].pc = "start"
    /\ record' = [record EXCEPT ![slot[s].job] = "processing"]
    /\ slot' = [slot EXCEPT ![s].pc = "download"]
    /\ UNCHANGED <<api, bull, semaphore, telling, lost, overtaken, crashes>>

MarkActive(s) ==
    /\ slot[s].pc = "start"
    /\ record' = [record EXCEPT ![slot[s].job] = "active"]
    /\ slot' = [slot EXCEPT ![s].pc = "download"]
    /\ UNCHANGED <<api, bull, semaphore, telling, lost, overtaken, crashes>>

Download(s) ==
    /\ slot[s].pc = "download"
    /\ Acquire(s, slot[s])
    /\ UNCHANGED <<record, api, bull, telling, lost, overtaken, crashes>>

CallReturns(s) ==
    /\ slot[s].pc = "call"
    /\ Release(s, [slot[s] EXCEPT !.pc = "finish"])
    /\ UNCHANGED <<record, api, bull, telling, lost, overtaken, crashes>>

\* What BullMQ does with a failed attempt; then it emits the event.
Failed(j) ==
    LET n == bull[j].attempts + 1 IN
    /\ bull' = [bull EXCEPT ![j].attempts = n, ![j].state = IF n < Attempts THEN "delayed" ELSE "failed"]
    /\ telling' = telling \cup {j}

\* What would be if only a call that returned gave its permit back.
CallFailsHolding(s) ==
    /\ slot[s].pc = "call"
    /\ slot[s].retries < MaxRetries
    /\ slot' = [slot EXCEPT ![s].pc = "pause", ![s].retries = @ + 1]
    /\ UNCHANGED <<record, api, bull, semaphore, telling, lost, overtaken, crashes>>

\* A call that fails or times out is repeated after a delay.
CallFails(s) ==
    /\ slot[s].pc = "call"
    /\ slot[s].retries < MaxRetries
    /\ Release(s, [slot[s] EXCEPT !.pc = "pause", !.retries = @ + 1])
    /\ UNCHANGED <<record, api, bull, telling, lost, overtaken, crashes>>

CallAgain(s) ==
    /\ slot[s].pc = "pause"
    /\ Acquire(s, slot[s])
    /\ UNCHANGED <<record, api, bull, telling, lost, overtaken, crashes>>

CallsExhausted(s) ==
    /\ slot[s].pc = "call" /\ slot[s].retries = MaxRetries
    /\ Release(s, Idle)
    /\ Failed(slot[s].job)
    /\ UNCHANGED <<record, api, lost, overtaken, crashes>>

\* A write of the record, or the download, throws outside the retried calls.
AttemptFails(s) ==
    /\ slot[s].pc \in {"start", "download", "finish"}
    /\ slot' = [slot EXCEPT ![s] = Idle]
    /\ Failed(slot[s].job)
    /\ UNCHANGED <<record, api, semaphore, lost, overtaken, crashes>>

\* What would be if only a first attempt wrote its outcome.
MarkCompletedFirst(s) ==
    /\ slot[s].pc = "finish"
    /\ record' = IF bull[slot[s].job].attempts > 0 THEN record
                 ELSE [record EXCEPT ![slot[s].job] = "completed"]
    /\ slot' = [slot EXCEPT ![s].pc = "done"]
    /\ UNCHANGED <<api, bull, semaphore, telling, lost, overtaken, crashes>>

MarkCompleted(s) ==
    /\ slot[s].pc = "finish"
    /\ record' = [record EXCEPT ![slot[s].job] = "completed"]
    /\ slot' = [slot EXCEPT ![s].pc = "done"]
    /\ UNCHANGED <<api, bull, semaphore, telling, lost, overtaken, crashes>>

Done(s) ==
    /\ slot[s].pc = "done"
    /\ bull' = [bull EXCEPT ![slot[s].job].state = "completed"]
    /\ slot' = [slot EXCEPT ![s] = Idle]
    /\ UNCHANGED <<record, api, semaphore, telling, lost, overtaken, crashes>>

-----------------------------------------------------------------------------
(* The failed handler, the next attempt, and the end of the process         *)

TellFailure(j) ==
    /\ j \in telling
    /\ record' = [record EXCEPT ![j] = "failed"]
    /\ telling' = telling \ {j}
    /\ UNCHANGED <<api, bull, slot, semaphore, lost, overtaken, crashes>>

\* The delay is over, whether or not the handler's write has landed.
Retry(j) ==
    /\ bull[j].state = "delayed"
    /\ bull' = [bull EXCEPT ![j].state = "waiting"]
    /\ overtaken' = IF j \in telling THEN overtaken \cup {j} ELSE overtaken
    /\ UNCHANGED <<record, api, slot, semaphore, telling, lost, crashes>>

Running == {slot[s].job : s \in Slots} \ {NoJob}
StalledOut == {j \in Running : bull[j].stalls = MaxStalls}

\* The worker dies. BullMQ hands its jobs out again, or fails them, once
\* another has started; what was being written is lost.
WorkerDies ==
    /\ crashes < MaxCrashes
    /\ Running \cup telling # {}
    /\ bull' = [j \in Jobs |->
         IF j \in StalledOut THEN [bull[j] EXCEPT !.state = "failed"]
         ELSE IF j \in Running THEN [bull[j] EXCEPT !.state = "waiting", !.stalls = @ + 1]
         ELSE bull[j]]
    /\ slot' = [s \in Slots |-> Idle]
    /\ free' = Permits
    /\ waiting' = <<>>
    /\ lost' = lost \cup telling
    /\ telling' = StalledOut
    /\ crashes' = crashes + 1
    /\ UNCHANGED <<record, api, overtaken>>

Enqueue(j) == CreateRecord(j) \/ AddJob(j) \/ AddFails(j) \/ AddTimesOut(j) \/ AddSkipped(j)
              \/ AddLands(j) \/ MarkFailed(j)
Attempt(s) == MarkActive(s) \/ Download(s) \/ CallReturns(s) \/ CallFails(s) \/ CallAgain(s)
              \/ CallsExhausted(s) \/ AttemptFails(s) \/ MarkCompleted(s) \/ Done(s)

Next ==
    \/ \E j \in Jobs : Enqueue(j) \/ TellFailure(j) \/ Retry(j)
    \/ \E s \in Slots : (\E j \in Jobs : Take(s, j)) \/ Attempt(s)
    \/ ApiDies
    \/ WorkerDies

Spec == Init /\ [][Next]_vars

\* An await of the request ends; a worker runs, or is started again; a call
\* ends at its timeout; delays end and writes land.
Progress ==
    /\ \A j \in Jobs : WF_vars(AddJob(j) \/ AddFails(j) \/ AddTimesOut(j) \/ AddSkipped(j) \/ MarkFailed(j))
    /\ \A j \in Jobs : WF_vars(AddLands(j)) /\ WF_vars(TellFailure(j)) /\ WF_vars(Retry(j))
    /\ \A s \in Slots : WF_vars((\E j \in Jobs : Take(s, j)) \/ Attempt(s))
LiveSpec == Spec /\ Progress

-----------------------------------------------------------------------------
(* Properties *)

TypeOK ==
    /\ record \in [Jobs -> Statuses]
    /\ api \in [Jobs -> {"idle", "add", "fail"}]
    /\ bull \in [Jobs -> Bull]
    /\ slot \in [Slots -> Slot]
    /\ free \in 0..Permits
    /\ waiting \in Seq(Slots)
    /\ telling \subseteq Jobs /\ lost \subseteq Jobs /\ overtaken \subseteq Jobs
    /\ crashes \in 0..MaxCrashes

\* Every permit is free or held by one call, nobody waits while one is free,
\* and who waits is in the queue once: no failure, repetition or handover
\* loses a permit or lets a call run without one.
PermitsConserved ==
    /\ free + Cardinality({s \in Slots : slot[s].pc = "call"}) = Permits
    /\ waiting # <<>> => free = 0
    /\ {s \in Slots : slot[s].pc = "wait"} = {waiting[i] : i \in DOMAIN waiting}
    /\ Len(waiting) = Cardinality({s \in Slots : slot[s].pc = "wait"})

\* When BullMQ is done with a job and no write is under way, the record tells
\* its outcome, but for jobs that went on before a write of their failure, and
\* those whose write died with its process.
RecordTellsOutcome ==
    \A j \in Jobs \ (lost \cup overtaken) :
        bull[j].state \in Settled /\ j \notin telling => record[j] = bull[j].state

\* A client that polls a job stops: the record ends up completed or failed,
\* through failures, repetitions and deaths of the worker, but for the jobs
\* that were never enqueued and those whose write died with its process.
JobSettles ==
    \A j \in Jobs : [](record[j] # "none" => <>[](record[j] \in Settled \/ j \in lost))

=============================================================================
