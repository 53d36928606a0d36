------------------------- MODULE ExtractionJobsProofs -------------------------
(***************************************************************************)
(* Proofs about ExtractionJobs, for any number of jobs, slots, permits,    *)
(* attempts, repetitions and deaths: types, the semaphore's permits, and   *)
(* what the record says when BullMQ is done with a job.                    *)
(***************************************************************************)
EXTENDS ExtractionJobs, FiniteSetTheorems, SequenceTheorems, TLAPS

\* A slot that is not idle has an active job, which no other has.
SlotInv ==
    /\ \A s \in Slots : slot[s].pc = "idle" <=> slot[s].job = NoJob
    /\ \A s \in Slots : slot[s].job # NoJob => bull[slot[s].job].state = "active"
    /\ \A s, t \in Slots : slot[s].job = slot[t].job /\ slot[s].job # NoJob => s = t
    /\ \A j \in Jobs : bull[j].state \notin Settled => bull[j].attempts < Attempts

Callers == {s \in Slots : slot[s].pc = "call"}

\* The queue has everyone who waits, once.
QueueInv ==
    /\ \A s \in Slots : slot[s].pc = "wait" <=> \E i \in DOMAIN waiting : waiting[i] = s
    /\ \A i, k \in DOMAIN waiting : waiting[i] = waiting[k] => i = k
    /\ waiting # <<>> => free = 0
    /\ free + Cardinality(Callers) = Permits

\* A job that neither died half-way nor went on before a write of its failure.
Told(j) == j \notin lost \cup overtaken

\* What the record says follows the job, but while a write of its failure is
\* under way; and what follows a completed record is the end of the job.
RecordInv ==
    /\ \A j \in Jobs : api[j] = "add" => bull[j].state = "absent"
    /\ \A j \in Jobs : record[j] = "none" => api[j] = "idle" /\ bull[j].state = "absent"
    /\ \A j \in Jobs : Told(j) /\ j \in telling => bull[j].state \in {"delayed", "failed"}
    /\ \A s \in Slots : slot[s].pc = "done" /\ Told(slot[s].job) => record[slot[s].job] = "completed"
    /\ \A j \in Jobs : Told(j) /\ bull[j].state = "completed" => record[j] = "completed"
    /\ \A j \in Jobs : Told(j) /\ bull[j].state = "failed" /\ j \notin telling => record[j] = "failed"

IInv == TypeOK /\ SlotInv /\ QueueInv /\ RecordInv

-----------------------------------------------------------------------------
(* The semaphore *)

LEMMA CallersFinite == IsFiniteSet(Callers) /\ Cardinality(Callers) \in Nat
<1>1. Callers \in SUBSET Slots
  BY DEF Callers
<1>2. IsFiniteSet(Callers)
  BY <1>1, SlotsAssumption, FS_Subset
<1> QED
  BY <1>2, FS_CardinalityType

\* A step of a slot that neither holds nor awaits a permit, before and after.
LEMMA ElsewhereStep ==
  ASSUME TypeOK, QueueInv, NEW s \in Slots, NEW next \in Slot,
         slot[s].pc \notin {"call", "wait"}, next.pc \notin {"call", "wait"},
         slot' = [slot EXCEPT ![s] = next], UNCHANGED semaphore
  PROVE  slot' \in [Slots -> Slot] /\ QueueInv'
<1>1. slot' \in [Slots -> Slot]
  BY DEF TypeOK
<1>2. \A t \in Slots : slot'[t] = IF t = s THEN next ELSE slot[t]
  BY DEF TypeOK
<1>3. Callers' = Callers
  BY <1>2 DEF Callers
<1>4. \A t \in Slots : slot'[t].pc = "wait" <=> slot[t].pc = "wait"
  BY <1>2
<1> QED
  BY <1>1, <1>3, <1>4 DEF QueueInv, semaphore

\* What a step of the semaphore leaves of the other slots.
OthersKeep(s) ==
    \A t \in Slots \ {s} : /\ slot'[t].job = slot[t].job
                           /\ slot'[t].pc \in {"idle", "done"} => slot'[t] = slot[t]
                           /\ slot[t].pc \in {"idle", "done"} => slot'[t] = slot[t]

LEMMA AcquireStep ==
  ASSUME TypeOK, QueueInv, NEW s \in Slots, slot[s].pc \in {"download", "pause"},
         Acquire(s, slot[s])
  PROVE  /\ slot' \in [Slots -> Slot] /\ free' \in 0..Permits /\ waiting' \in Seq(Slots)
         /\ QueueInv'
         /\ OthersKeep(s)
         /\ slot'[s].job = slot[s].job /\ slot'[s].pc \in {"call", "wait"}
<1> DEFINE n == Cardinality(Callers)
<1>0. n \in Nat /\ IsFiniteSet(Callers)
  BY CallersFinite
<1>1. CASE free > 0
  <2>1. /\ free' = free - 1 /\ waiting' = waiting
        /\ slot' = [slot EXCEPT ![s] = [slot[s] EXCEPT !.pc = "call"]]
    BY <1>1 DEF Acquire
  <2>2. [slot[s] EXCEPT !.pc = "call"] \in Slot
    BY DEF TypeOK, Slot
  <2>3. slot' \in [Slots -> Slot]
    BY <2>1, <2>2 DEF TypeOK
  <2>4. \A t \in Slots : slot'[t] = IF t = s THEN [slot[s] EXCEPT !.pc = "call"] ELSE slot[t]
    BY <2>1 DEF TypeOK
  <2>5. slot'[s].pc = "call" /\ slot'[s].job = slot[s].job
    BY <2>4 DEF TypeOK, Slot
  <2>6. Callers' = Callers \cup {s} /\ s \notin Callers
    BY <2>4, <2>5 DEF Callers
  <2>7. Cardinality(Callers') = n + 1
    BY <1>0, <2>6, FS_AddElement
  <2>8. free' \in 0..Permits /\ free' + (n + 1) = Permits /\ waiting = <<>>
    BY <1>0, <1>1, <2>1, PermitsAssumption DEF TypeOK, QueueInv
  <2>9. \A t \in Slots : slot'[t].pc = "wait" <=> slot[t].pc = "wait"
    BY <2>4, <2>5
  <2>10. QueueInv'
    BY <2>1, <2>7, <2>8, <2>9 DEF QueueInv
  <2> QED
    BY <2>1, <2>3, <2>4, <2>5, <2>8, <2>10 DEF TypeOK, OthersKeep
<1>2. CASE ~(free > 0)
  <2>1. /\ free' = free /\ waiting' = Append(waiting, s)
        /\ slot' = [slot EXCEPT ![s] = [slot[s] EXCEPT !.pc = "wait"]]
    BY <1>2 DEF Acquire
  <2>2. [slot[s] EXCEPT !.pc = "wait"] \in Slot
    BY DEF TypeOK, Slot
  <2>3. slot' \in [Slots -> Slot]
    BY <2>1, <2>2 DEF TypeOK
  <2>4. \A t \in Slots : slot'[t] = IF t = s THEN [slot[s] EXCEPT !.pc = "wait"] ELSE slot[t]
    BY <2>1 DEF TypeOK
  <2>5. slot'[s].pc = "wait" /\ slot'[s].job = slot[s].job
    BY <2>4 DEF TypeOK, Slot
  <2>6. Callers' = Callers
    BY <2>4, <2>5 DEF Callers
  <2>7. free = 0
    BY <1>2, PermitsAssumption DEF TypeOK
  <2>8. /\ waiting \in Seq(Slots) /\ waiting' \in Seq(Slots) /\ Len(waiting) \in Nat
        /\ DOMAIN waiting = 1..Len(waiting) /\ DOMAIN waiting' = 1..(Len(waiting) + 1)
        /\ \A i \in DOMAIN waiting : waiting'[i] = waiting[i]
        /\ waiting'[Len(waiting) + 1] = s
    BY <2>1, AppendProperties, LenProperties DEF TypeOK
  <2>9. \A i \in DOMAIN waiting : waiting[i] # s
    BY <2>8 DEF QueueInv
  <2>10. \A t \in Slots : slot'[t].pc = "wait" <=> \E i \in DOMAIN waiting' : waiting'[i] = t
    BY <2>4, <2>5, <2>8 DEF QueueInv
  <2>11. \A i, k \in DOMAIN waiting' : waiting'[i] = waiting'[k] => i = k
    BY <2>8, <2>9 DEF QueueInv
  <2>12. QueueInv'
    BY <2>1, <2>6, <2>7, <2>10, <2>11 DEF QueueInv
  <2> QED
    BY <2>1, <2>3, <2>4, <2>5, <2>8, <2>12 DEF TypeOK, OthersKeep
<1> QED
  BY <1>1, <1>2

LEMMA ReleaseStep ==
  ASSUME TypeOK, QueueInv, NEW s \in Slots, slot[s].pc = "call",
         NEW next \in Slot, next.pc \notin {"call", "wait"}, Release(s, next)
  PROVE  /\ slot' \in [Slots -> Slot] /\ free' \in 0..Permits /\ waiting' \in Seq(Slots)
         /\ QueueInv'
         /\ OthersKeep(s)
         /\ slot'[s] = next
<1> DEFINE n == Cardinality(Callers)
<1>0. n \in Nat /\ IsFiniteSet(Callers)
  BY CallersFinite
<1>1. s \in Callers
  BY DEF Callers
<1>2. IsFiniteSet(Callers \ {s}) /\ Cardinality(Callers \ {s}) = n - 1
  BY <1>0, <1>1, FS_RemoveElement
<1>3. n # 0
  BY <1>0, <1>1, FS_EmptySet
<1>4. free \in Nat /\ Permits \in Nat /\ free + n = Permits
  BY PermitsAssumption DEF TypeOK, QueueInv
<1>5. CASE waiting = <<>>
  <2>1. /\ free' = free + 1 /\ waiting' = waiting
        /\ slot' = [slot EXCEPT ![s] = next]
    BY <1>5 DEF Release
  <2>2. slot' \in [Slots -> Slot]
    BY <2>1 DEF TypeOK
  <2>3. \A t \in Slots : slot'[t] = IF t = s THEN next ELSE slot[t]
    BY <2>1 DEF TypeOK
  <2>4. Callers' = Callers \ {s}
    BY <2>3 DEF Callers
  <2>5. free' \in 0..Permits /\ free' + (n - 1) = Permits
    BY <1>0, <1>3, <1>4, <2>1
  <2>6. \A t \in Slots : slot'[t].pc = "wait" <=> slot[t].pc = "wait"
    BY <2>3
  <2>7. QueueInv'
    BY <1>2, <1>5, <2>1, <2>4, <2>5, <2>6 DEF QueueInv
  <2> QED
    BY <2>1, <2>2, <2>3, <2>5, <2>7 DEF TypeOK, OthersKeep
<1>6. CASE waiting # <<>>
  <2> DEFINE h == Head(waiting)
  <2>1. /\ free' = free /\ waiting' = Tail(waiting)
        /\ slot' = [slot EXCEPT ![s] = next, ![h].pc = "call"]
    BY <1>6 DEF Release
  <2>2. /\ Len(waiting) \in Nat \ {0} /\ DOMAIN waiting = 1..Len(waiting)
        /\ waiting' \in Seq(Slots) /\ DOMAIN waiting' = 1..(Len(waiting) - 1)
        /\ \A i \in DOMAIN waiting' : waiting'[i] = waiting[i + 1]
    BY <1>6, <2>1, HeadTailProperties, LenProperties, EmptySeq DEF TypeOK
  <2>3. h = waiting[1] /\ h \in Slots /\ 1 \in DOMAIN waiting
    BY <1>6, <2>2, HeadTailProperties DEF TypeOK
  <2>4. slot[h].pc = "wait"
    BY <2>3 DEF QueueInv
  <2> HIDE DEF h
  <2>5. h # s
    BY <2>4
  <2>6. \A t \in Slots : slot'[t] = IF t = s THEN next
                                    ELSE IF t = h THEN [slot[h] EXCEPT !.pc = "call"] ELSE slot[t]
    BY <2>1, <2>3, <2>5 DEF TypeOK
  <2>7. [slot[h] EXCEPT !.pc = "call"] \in Slot
    BY <2>3 DEF TypeOK, Slot
  <2>8. slot' \in [Slots -> Slot]
    <3>1. DOMAIN slot' = Slots /\ slot' = [t \in Slots |-> slot'[t]]
      BY <2>1 DEF TypeOK
    <3> QED
      BY <2>6, <2>7, <3>1 DEF TypeOK
  <2>9. slot'[h].pc = "call" /\ slot'[h].job = slot[h].job
    BY <2>3, <2>5, <2>6 DEF TypeOK, Slot
  <2>10. Callers' = (Callers \ {s}) \cup {h} /\ h \notin Callers \ {s}
    BY <2>3, <2>4, <2>5, <2>6, <2>9 DEF Callers
  <2>11. Cardinality(Callers') = (n - 1) + 1
    BY <1>2, <2>10, FS_AddElement
  <2>12. free' + Cardinality(Callers') = Permits
    BY <1>0, <1>4, <2>1, <2>11
  <2>13. ASSUME NEW t \in Slots
         PROVE  slot'[t].pc = "wait" <=> \E i \in DOMAIN waiting' : waiting'[i] = t
    <3>1. slot'[t].pc = "wait" <=> slot[t].pc = "wait" /\ t # h
      BY <2>4, <2>5, <2>6, <2>9
    <3>2. ASSUME NEW i \in DOMAIN waiting, waiting[i] = t, t # h
          PROVE  \E k \in DOMAIN waiting' : waiting'[k] = t
      <4>1. i # 1
        BY <2>3, <3>2
      <4>2. i - 1 \in DOMAIN waiting' /\ (i - 1) + 1 = i
        BY <2>2, <4>1
      <4> QED
        BY <2>2, <3>2, <4>2
    <3>3. ASSUME NEW k \in DOMAIN waiting', waiting'[k] = t
          PROVE  slot[t].pc = "wait" /\ t # h
      <4>1. k + 1 \in DOMAIN waiting /\ k + 1 # 1 /\ waiting[k + 1] = t
        BY <2>2, <3>3
      <4> QED
        BY <2>3, <4>1 DEF QueueInv
    <3> QED
      BY <3>1, <3>2, <3>3 DEF QueueInv
  <2>14. ASSUME NEW i \in DOMAIN waiting', NEW k \in DOMAIN waiting', waiting'[i] = waiting'[k]
         PROVE  i = k
    <3>1. /\ i + 1 \in DOMAIN waiting /\ k + 1 \in DOMAIN waiting /\ waiting[i + 1] = waiting[k + 1]
          /\ i \in Nat /\ k \in Nat
      BY <2>2, <2>14
    <3>2. i + 1 = k + 1
      BY <3>1 DEF QueueInv
    <3> QED
      BY <3>1, <3>2
  <2>15. free' = 0
    BY <1>6, <2>1 DEF QueueInv
  <2>16. QueueInv'
    BY <2>12, <2>13, <2>14, <2>15 DEF QueueInv
  <2>17. OthersKeep(s)
    BY <2>4, <2>6, <2>9 DEF OthersKeep
  <2>18. slot'[s] = next
    BY <2>6
  <2>19. free' \in 0..Permits
    BY <1>4, <2>15
  <2> QED
    BY <2>2, <2>8, <2>16, <2>17, <2>18, <2>19
<1> QED
  BY <1>5, <1>6

-----------------------------------------------------------------------------
(* Frames *)

BullStates == {"absent", "late", "waiting", "active", "delayed", "completed", "failed"}

\* What becomes of the job in BullMQ when only its state is written.
LEMMA BullBecomes ==
  ASSUME TypeOK, NEW j \in Jobs,
         NEW st \in BullStates,
         bull' = [bull EXCEPT ![j].state = st]
  PROVE  /\ bull' \in [Jobs -> Bull]
         /\ \A k \in Jobs : /\ bull'[k].state = IF k = j THEN st ELSE bull[k].state
                            /\ bull'[k].attempts = bull[k].attempts
<1>1. [bull[j] EXCEPT !.state = st] \in Bull
  BY DEF TypeOK, Bull, BullStates
<1>2. bull' \in [Jobs -> Bull]
  BY <1>1 DEF TypeOK
<1>3. \A k \in Jobs : bull'[k] = IF k = j THEN [bull[j] EXCEPT !.state = st] ELSE bull[k]
  BY DEF TypeOK
<1> QED
  BY <1>2, <1>3 DEF TypeOK, Bull

\* A step that leaves the slots and what BullMQ says as they are.
LEMMA SlotsRest ==
  ASSUME SlotInv, QueueInv, UNCHANGED <<bull, slot, semaphore>>
  PROVE  SlotInv' /\ QueueInv'
BY DEF SlotInv, QueueInv, Callers, semaphore

\* The slots do not work on job j, whose state in BullMQ is not "active".
LEMMA NotRunning ==
  ASSUME SlotInv, NEW j \in Jobs, bull[j].state # "active", NoJob \notin Jobs
  PROVE  \A s \in Slots : slot[s].job # j
BY DEF SlotInv

\* The API or the delay of a retry changes what BullMQ says of a job that no
\* slot has.
LEMMA BullMoves ==
  ASSUME TypeOK, SlotInv, QueueInv, NEW j \in Jobs, bull[j].state \in {"absent", "late", "delayed"},
         NEW st \in {"late", "waiting"}, bull' = [bull EXCEPT ![j].state = st],
         UNCHANGED <<slot, semaphore>>
  PROVE  bull' \in [Jobs -> Bull] /\ SlotInv' /\ QueueInv'
<1>1. /\ bull' \in [Jobs -> Bull]
      /\ \A k \in Jobs : /\ bull'[k].state = IF k = j THEN st ELSE bull[k].state
                         /\ bull'[k].attempts = bull[k].attempts
  <2>1. st \in BullStates
    BY DEF BullStates
  <2> QED
    BY <2>1, BullBecomes
<1>2. \A s \in Slots : slot[s].job # j
  BY NotRunning, NoJobAssumption
<1>3. \A s \in Slots : slot[s].job \in Jobs \cup {NoJob}
  BY DEF TypeOK, Slot
<1>4. SlotInv'
  <2>1. \A s \in Slots : slot'[s].job # NoJob => bull'[slot'[s].job].state = "active"
    BY <1>1, <1>2, <1>3 DEF SlotInv
  <2>2. ASSUME NEW k \in Jobs, bull'[k].state \notin Settled
        PROVE  bull'[k].attempts < Attempts
    <3>1. bull[k].state \notin Settled
      BY <1>1, <2>2 DEF Settled
    <3> QED
      BY <1>1, <3>1 DEF SlotInv
  <2> QED
    BY <2>1, <2>2 DEF SlotInv
<1>5. QueueInv'
  BY DEF QueueInv, Callers, semaphore
<1> QED
  BY <1>1, <1>4, <1>5

-----------------------------------------------------------------------------
(* The API *)

LEMMA CreateRecordStep ==
  ASSUME IInv, NEW j \in Jobs, CreateRecord(j)
  PROVE  IInv'
<1> USE DEF IInv
<1>1. TypeOK'
  BY DEF CreateRecord, TypeOK, Statuses, semaphore
<1>2. SlotInv' /\ QueueInv'
  BY SlotsRest DEF CreateRecord
<1>3. /\ \A k \in Jobs : record'[k] = IF k = j THEN "queued" ELSE record[k]
      /\ \A k \in Jobs : api'[k] = IF k = j THEN "add" ELSE api[k]
      /\ bull[j].state = "absent"
  BY DEF CreateRecord, TypeOK, RecordInv
<1>4. \A s \in Slots : slot[s].job # j
  BY <1>3, NotRunning, NoJobAssumption
<1>5. \A s \in Slots : slot[s].pc = "done" => slot[s].job \in Jobs
  BY DEF SlotInv, TypeOK, Slot
<1>6. RecordInv'
  BY <1>3, <1>4, <1>5 DEF CreateRecord, RecordInv, Told
<1> QED
  BY <1>1, <1>2, <1>6

LEMMA AddJobStep ==
  ASSUME IInv, NEW j \in Jobs, AddJob(j)
  PROVE  IInv'
<1> USE DEF IInv
<1>1. bull[j].state = "absent"
  BY DEF AddJob, RecordInv
<1>2. bull' \in [Jobs -> Bull] /\ SlotInv' /\ QueueInv'
  BY <1>1, BullMoves DEF AddJob
<1>3. TypeOK'
  BY <1>2 DEF AddJob, TypeOK, semaphore
<1>4. \A k \in Jobs : bull'[k].state = IF k = j THEN "waiting" ELSE bull[k].state
  BY BullBecomes DEF BullStates, AddJob
<1>5. \A k \in Jobs : api'[k] = IF k = j THEN "idle" ELSE api[k]
  BY DEF AddJob, TypeOK
<1>6. record[j] # "none"
  BY DEF AddJob, RecordInv
<1>7. RecordInv'
  BY <1>1, <1>4, <1>5, <1>6 DEF AddJob, RecordInv, Told
<1> QED
  BY <1>2, <1>3, <1>7

LEMMA AddFailsStep ==
  ASSUME IInv, NEW j \in Jobs, AddFails(j)
  PROVE  IInv'
<1> USE DEF IInv
<1>1. TypeOK'
  BY DEF AddFails, TypeOK, semaphore
<1>2. SlotInv' /\ QueueInv'
  BY SlotsRest DEF AddFails
<1>3. \A k \in Jobs : api'[k] = IF k = j THEN "fail" ELSE api[k]
  BY DEF AddFails, TypeOK
<1>4. record[j] # "none"
  BY DEF AddFails, RecordInv
<1>5. RecordInv'
  BY <1>3, <1>4 DEF AddFails, RecordInv, Told
<1> QED
  BY <1>1, <1>2, <1>5

LEMMA AddTimesOutStep ==
  ASSUME IInv, NEW j \in Jobs, AddTimesOut(j)
  PROVE  IInv'
<1> USE DEF IInv
<1>1. bull[j].state = "absent"
  BY DEF AddTimesOut, RecordInv
<1>2. bull' \in [Jobs -> Bull] /\ SlotInv' /\ QueueInv'
  BY <1>1, BullMoves DEF AddTimesOut
<1>3. TypeOK'
  BY <1>2 DEF AddTimesOut, TypeOK, semaphore
<1>4. \A k \in Jobs : bull'[k].state = IF k = j THEN "late" ELSE bull[k].state
  BY BullBecomes DEF BullStates, AddTimesOut
<1>5. \A k \in Jobs : api'[k] = IF k = j THEN "fail" ELSE api[k]
  BY DEF AddTimesOut, TypeOK
<1>6. record[j] # "none"
  BY DEF AddTimesOut, RecordInv
<1>7. RecordInv'
  BY <1>1, <1>4, <1>5, <1>6 DEF AddTimesOut, RecordInv, Told
<1> QED
  BY <1>2, <1>3, <1>7

LEMMA AddLandsStep ==
  ASSUME IInv, NEW j \in Jobs, AddLands(j)
  PROVE  IInv'
<1> USE DEF IInv
<1>1. bull[j].state = "late"
  BY DEF AddLands
<1>2. bull' \in [Jobs -> Bull] /\ SlotInv' /\ QueueInv'
  BY <1>1, BullMoves DEF AddLands
<1>3. TypeOK'
  BY <1>2 DEF AddLands, TypeOK, semaphore
<1>4. \A k \in Jobs : bull'[k].state = IF k = j THEN "waiting" ELSE bull[k].state
  BY BullBecomes DEF BullStates, AddLands
<1>5. RecordInv'
  BY <1>1, <1>4 DEF AddLands, RecordInv, Told
<1> QED
  BY <1>2, <1>3, <1>5

LEMMA AddSkippedStep ==
  ASSUME IInv, NEW j \in Jobs, AddSkipped(j)
  PROVE  IInv'
<1> USE DEF IInv
<1>1. TypeOK'
  BY DEF AddSkipped, TypeOK, semaphore
<1>2. SlotInv' /\ QueueInv'
  BY SlotsRest DEF AddSkipped
<1>3. \A k \in Jobs : api'[k] = IF k = j THEN "idle" ELSE api[k]
  BY DEF AddSkipped, TypeOK
<1>4. RecordInv'
  BY <1>3 DEF AddSkipped, RecordInv, Told
<1> QED
  BY <1>1, <1>2, <1>4

LEMMA MarkFailedStep ==
  ASSUME IInv, NEW j \in Jobs, MarkFailed(j)
  PROVE  IInv'
<1> USE DEF IInv
<1>1. TypeOK'
  BY DEF MarkFailed, TypeOK, Statuses, semaphore
<1>2. SlotInv' /\ QueueInv'
  BY SlotsRest DEF MarkFailed
<1>3. /\ \A k \in Jobs : api'[k] = IF k = j THEN "idle" ELSE api[k]
      /\ \A k \in Jobs : record'[k] = IF k = j THEN "failed" ELSE record[k]
  BY DEF MarkFailed, TypeOK
<1>4. \/ j \in overtaken'
      \/ bull[j].state \in {"absent", "late", "waiting"}
  BY DEF MarkFailed
<1>5. \A k \in Jobs : Told(k)' => Told(k)
  BY DEF MarkFailed, Told
<1>6. \A s \in Slots : slot[s].pc = "done" => slot[s].job \in Jobs /\ bull[slot[s].job].state = "active"
  BY DEF SlotInv, TypeOK, Slot
<1>7. UNCHANGED <<bull, slot, telling>>
  BY DEF MarkFailed
<1>8. Told(j)' => bull[j].state \in {"absent", "late", "waiting"}
  BY <1>4 DEF Told
<1>9. \A s \in Slots, k \in Jobs : slot[s].pc = "done" /\ slot[s].job = k /\ Told(k)' => record'[k] = "completed"
  BY <1>3, <1>5, <1>6, <1>8 DEF RecordInv
<1>10. \A k \in Jobs : Told(k)' /\ bull'[k].state = "completed" => record'[k] = "completed"
  BY <1>3, <1>5, <1>7, <1>8 DEF RecordInv
<1>11. RecordInv'
  BY <1>3, <1>5, <1>6, <1>7, <1>9, <1>10 DEF RecordInv
<1> QED
  BY <1>1, <1>2, <1>11

LEMMA ApiDiesStep ==
  ASSUME IInv, ApiDies
  PROVE  IInv'
<1> USE DEF IInv
<1>1. TypeOK'
  <2>1. crashes' \in 0..MaxCrashes
    BY BoundsAssumption DEF ApiDies, TypeOK
  <2>2. api' \in [Jobs -> {"idle", "add", "fail"}] /\ lost' \subseteq Jobs
    BY DEF ApiDies, TypeOK
  <2> QED
    BY <2>1, <2>2 DEF ApiDies, TypeOK, semaphore
<1>2. SlotInv' /\ QueueInv'
  BY SlotsRest DEF ApiDies
<1>3. \A k \in Jobs : Told(k)' => Told(k)
  BY DEF ApiDies, Told
<1>4. \A k \in Jobs : api'[k] = "idle"
  BY DEF ApiDies
<1>5. \A s \in Slots : slot[s].pc = "done" => (Told(slot[s].job)' => Told(slot[s].job))
  BY DEF ApiDies, Told
<1>6. RecordInv'
  BY <1>3, <1>4, <1>5 DEF ApiDies, RecordInv
<1> QED
  BY <1>1, <1>2, <1>6

-----------------------------------------------------------------------------
(* An attempt *)

\* A slot at work has a job, which is active, and none of the others has it.
LEMMA Working ==
  ASSUME TypeOK, SlotInv, NEW s \in Slots, slot[s].pc # "idle"
  PROVE  /\ slot[s].job \in Jobs /\ slot[s].job # NoJob
         /\ bull[slot[s].job].state = "active"
         /\ bull[slot[s].job].attempts < Attempts
         /\ \A t \in Slots \ {s} : slot[t].job # slot[s].job
BY NoJobAssumption DEF TypeOK, Slot, SlotInv, Settled

\* The slot goes on with its job, and nothing else that the invariants of jobs
\* and record look at is changed.
LEMMA GoesOn ==
  ASSUME IInv, NEW s \in Slots, slot[s].pc # "idle", slot'[s].pc \notin {"idle", "done"},
         slot'[s].job = slot[s].job, OthersKeep(s),
         UNCHANGED <<bull, api, telling, lost, overtaken>>
  PROVE  /\ SlotInv'
         /\ UNCHANGED record => RecordInv'
<1> USE DEF IInv
<1>1. \A t \in Slots : slot'[t].job = slot[t].job
  BY DEF OthersKeep
<1>2. \A t \in Slots : slot'[t].pc = "idle" <=> slot[t].pc = "idle"
  BY DEF OthersKeep
<1>3. SlotInv'
  BY <1>1, <1>2 DEF SlotInv
<1>4. \A t \in Slots : slot'[t].pc = "done" => slot[t].pc = "done"
  BY DEF OthersKeep
<1>5. UNCHANGED record => RecordInv'
  BY <1>1, <1>4 DEF RecordInv, Told
<1> QED
  BY <1>3, <1>5

LEMMA IdleSlot == Idle \in Slot /\ Idle.pc = "idle" /\ Idle.job = NoJob
<1>1. 0 \in 0..MaxRetries
  BY BoundsAssumption
<1> QED
  BY <1>1 DEF Idle, Slot

LEMMA TakeStep ==
  ASSUME IInv, NEW s \in Slots, NEW j \in Jobs, Take(s, j)
  PROVE  IInv'
<1> USE DEF IInv
<1> DEFINE next == [Idle EXCEPT !.pc = "start", !.job = j]
<1>1. next \in Slot /\ next.pc = "start" /\ next.job = j
  BY IdleSlot DEF Slot
<1>2. slot' = [slot EXCEPT ![s] = next] /\ slot[s].pc = "idle" /\ bull[j].state = "waiting"
  BY DEF Take
<1> HIDE DEF next
<1>3. slot' \in [Slots -> Slot] /\ QueueInv'
  BY <1>1, <1>2, ElsewhereStep DEF Take
<1>4. /\ bull' \in [Jobs -> Bull]
      /\ \A k \in Jobs : /\ bull'[k].state = IF k = j THEN "active" ELSE bull[k].state
                         /\ bull'[k].attempts = bull[k].attempts
  BY BullBecomes DEF BullStates, Take
<1>5. TypeOK'
  BY <1>3, <1>4 DEF Take, TypeOK, semaphore
<1>6. \A t \in Slots : slot'[t] = IF t = s THEN next ELSE slot[t]
  BY <1>2 DEF TypeOK
<1>7. \A t \in Slots : slot[t].job # j
  BY <1>2, NotRunning, NoJobAssumption
<1>8. \A t \in Slots : slot[t].job \in Jobs \cup {NoJob}
  BY DEF TypeOK, Slot
<1>9. SlotInv'
  <2>1. \A t \in Slots : slot'[t].pc = "idle" <=> slot'[t].job = NoJob
    BY <1>1, <1>6, NoJobAssumption DEF SlotInv
  <2>2. \A t \in Slots : slot'[t].job # NoJob => bull'[slot'[t].job].state = "active"
    BY <1>1, <1>4, <1>6, <1>8 DEF SlotInv
  <2>3. \A t, u \in Slots : slot'[t].job = slot'[u].job /\ slot'[t].job # NoJob => t = u
    BY <1>1, <1>6, <1>7 DEF SlotInv
  <2>4. \A k \in Jobs : bull'[k].state \notin Settled => bull'[k].attempts < Attempts
    BY <1>2, <1>4 DEF SlotInv, Settled
  <2> QED
    BY <2>1, <2>2, <2>3, <2>4 DEF SlotInv
<1>10. \A t \in Slots : slot'[t].pc = "done" => slot'[t] = slot[t]
  BY <1>1, <1>6
<1>11. RecordInv'
  BY <1>2, <1>4, <1>10 DEF Take, RecordInv, Told
<1> QED
  BY <1>3, <1>5, <1>9, <1>11

LEMMA MarkActiveStep ==
  ASSUME IInv, NEW s \in Slots, MarkActive(s)
  PROVE  IInv'
<1> USE DEF IInv
<1> DEFINE next == [slot[s] EXCEPT !.pc = "download"]
           j == slot[s].job
<1>1. next \in Slot /\ next.pc = "download" /\ next.job = j
  BY DEF TypeOK, Slot
<1>2. slot' = [slot EXCEPT ![s] = next] /\ slot[s].pc = "start"
  BY DEF MarkActive, TypeOK
<1>3. /\ j \in Jobs /\ bull[j].state = "active"
      /\ \A t \in Slots \ {s} : slot[t].job # j
  BY <1>2, Working
<1> HIDE DEF next
<1>4. slot' \in [Slots -> Slot] /\ QueueInv'
  BY <1>1, <1>2, ElsewhereStep DEF MarkActive
<1>5. \A t \in Slots : slot'[t] = IF t = s THEN next ELSE slot[t]
  BY <1>2 DEF TypeOK
<1>6. \A k \in Jobs : record'[k] = IF k = j THEN "active" ELSE record[k]
  BY DEF MarkActive, TypeOK
<1>7. TypeOK'
  BY <1>3, <1>4 DEF MarkActive, TypeOK, Statuses, semaphore
<1>8. SlotInv'
  BY <1>1, <1>2, <1>5, GoesOn DEF MarkActive, OthersKeep
<1>9. \A t \in Slots : slot'[t].pc = "done" => slot'[t] = slot[t] /\ slot[t].job # j /\ slot[t].job \in Jobs
  <2>1. \A t \in Slots : slot[t].pc = "done" => slot[t].job \in Jobs
    BY Working
  <2> QED
    BY <1>1, <1>3, <1>5, <2>1
<1>10. RecordInv'
  BY <1>3, <1>6, <1>9 DEF MarkActive, RecordInv, Told
<1> QED
  BY <1>4, <1>7, <1>8, <1>10

\* Download and CallAgain: the slot goes on behind the semaphore.
LEMMA AcquiringStep ==
  ASSUME IInv, NEW s \in Slots, Download(s) \/ CallAgain(s)
  PROVE  IInv'
<1> USE DEF IInv
<1>1. /\ slot[s].pc \in {"download", "pause"} /\ Acquire(s, slot[s])
      /\ UNCHANGED <<record, api, bull, telling, lost, overtaken, crashes>>
  BY DEF Download, CallAgain
<1>2. /\ slot' \in [Slots -> Slot] /\ free' \in 0..Permits /\ waiting' \in Seq(Slots)
      /\ QueueInv' /\ OthersKeep(s)
      /\ slot'[s].job = slot[s].job /\ slot'[s].pc \in {"call", "wait"}
  BY <1>1, AcquireStep
<1>3. TypeOK'
  BY <1>1, <1>2 DEF TypeOK
<1>4. SlotInv' /\ RecordInv'
  BY <1>1, <1>2, GoesOn
<1> QED
  BY <1>2, <1>3, <1>4

\* CallReturns and CallFails: the slot gives its permit back and goes on.
LEMMA ReleasingStep ==
  ASSUME IInv, NEW s \in Slots, NEW next \in Slot, slot[s].pc = "call",
         next.pc \in {"finish", "pause"}, next.job = slot[s].job, Release(s, next),
         UNCHANGED <<record, api, bull, telling, lost, overtaken, crashes>>
  PROVE  IInv'
<1> USE DEF IInv
<1>1. /\ slot' \in [Slots -> Slot] /\ free' \in 0..Permits /\ waiting' \in Seq(Slots)
      /\ QueueInv' /\ OthersKeep(s) /\ slot'[s] = next
  BY ReleaseStep
<1>2. TypeOK'
  BY <1>1 DEF TypeOK
<1>3. SlotInv' /\ RecordInv'
  BY <1>1, GoesOn
<1> QED
  BY <1>1, <1>2, <1>3

LEMMA CallReturnsStep ==
  ASSUME IInv, NEW s \in Slots, CallReturns(s)
  PROVE  IInv'
<1> DEFINE next == [slot[s] EXCEPT !.pc = "finish"]
<1>1. next \in Slot /\ next.pc = "finish" /\ next.job = slot[s].job
  BY DEF IInv, TypeOK, Slot
<1>2. slot[s].pc = "call" /\ Release(s, next)
  BY DEF CallReturns
<1> HIDE DEF next
<1> QED
  BY <1>1, <1>2, ReleasingStep DEF CallReturns

LEMMA CallFailsStep ==
  ASSUME IInv, NEW s \in Slots, CallFails(s)
  PROVE  IInv'
<1> DEFINE next == [slot[s] EXCEPT !.pc = "pause", !.retries = @ + 1]
<1>1. slot[s].retries + 1 \in 0..MaxRetries
  BY BoundsAssumption DEF IInv, TypeOK, Slot, CallFails
<1>2. next \in Slot /\ next.pc = "pause" /\ next.job = slot[s].job
  BY <1>1 DEF IInv, TypeOK, Slot
<1>3. slot[s].pc = "call" /\ Release(s, next)
  BY DEF CallFails
<1> HIDE DEF next
<1> QED
  BY <1>2, <1>3, ReleasingStep DEF CallFails

\* What BullMQ does with the failed attempt of job j.
LEMMA FailedBecomes ==
  ASSUME TypeOK, NEW j \in Jobs, bull[j].attempts < Attempts, Failed(j)
  PROVE  /\ bull' \in [Jobs -> Bull] /\ telling' = telling \cup {j}
         /\ \A k \in Jobs \ {j} : bull'[k] = bull[k]
         /\ bull'[j].state \in {"delayed", "failed"}
         /\ bull'[j].state = "delayed" => bull'[j].attempts < Attempts
<1> DEFINE n == bull[j].attempts + 1
           st == IF n < Attempts THEN "delayed" ELSE "failed"
           next == [bull[j] EXCEPT !.attempts = n, !.state = st]
<1>1. n \in 0..Attempts
  BY PermitsAssumption DEF TypeOK, Bull
<1>2. st \in {"delayed", "failed"} /\ (st = "delayed" => n < Attempts)
  OBVIOUS
<1>3. bull' = [bull EXCEPT ![j] = next] /\ telling' = telling \cup {j}
  BY DEF Failed, TypeOK
<1> HIDE DEF n, st
<1>4. next \in Bull /\ next.state = st /\ next.attempts = n
  BY <1>1, <1>2 DEF TypeOK, Bull
<1> HIDE DEF next
<1> QED
  BY <1>2, <1>3, <1>4 DEF TypeOK

\* The attempt of slot s has failed: the slot is free again.
LEMMA EndsFailed ==
  ASSUME IInv, NEW s \in Slots, slot[s].pc # "idle",
         slot' \in [Slots -> Slot], OthersKeep(s), slot'[s] = Idle,
         Failed(slot[s].job), UNCHANGED <<record, api, lost, overtaken>>
  PROVE  /\ bull' \in [Jobs -> Bull] /\ telling' \subseteq Jobs
         /\ SlotInv' /\ RecordInv'
<1> USE DEF IInv
<1> DEFINE j == slot[s].job
<1>1. /\ j \in Jobs /\ bull[j].state = "active" /\ bull[j].attempts < Attempts
      /\ \A t \in Slots \ {s} : slot[t].job # j
  BY Working
<1> HIDE DEF j
<1>2. /\ bull' \in [Jobs -> Bull] /\ telling' = telling \cup {j}
      /\ \A k \in Jobs \ {j} : bull'[k] = bull[k]
      /\ bull'[j].state \in {"delayed", "failed"}
      /\ bull'[j].state = "delayed" => bull'[j].attempts < Attempts
  BY <1>1, FailedBecomes DEF j
<1>3. slot'[s].pc = "idle" /\ slot'[s].job = NoJob
  BY DEF Idle
<1>4. \A t \in Slots \ {s} : /\ slot'[t].job = slot[t].job
                             /\ slot'[t].pc = "idle" <=> slot[t].pc = "idle"
                             /\ slot'[t].pc = "done" => slot[t].pc = "done"
  BY DEF OthersKeep
<1>5. \A t \in Slots : slot[t].job \in Jobs \cup {NoJob}
  BY DEF TypeOK, Slot
<1>6. SlotInv'
  <2>1. \A t \in Slots : slot'[t].pc = "idle" <=> slot'[t].job = NoJob
    BY <1>3, <1>4 DEF SlotInv
  <2>2. \A t \in Slots : slot'[t].job # NoJob => bull'[slot'[t].job].state = "active"
    BY <1>1, <1>2, <1>3, <1>4, <1>5 DEF SlotInv
  <2>3. \A t, u \in Slots : slot'[t].job = slot'[u].job /\ slot'[t].job # NoJob => t = u
    BY <1>3, <1>4 DEF SlotInv
  <2>4. \A k \in Jobs : bull'[k].state \notin Settled => bull'[k].attempts < Attempts
    BY <1>2 DEF SlotInv, Settled
  <2> QED
    BY <2>1, <2>2, <2>3, <2>4 DEF SlotInv
<1>7. \A t \in Slots : slot'[t].pc = "done" =>
          slot[t].pc = "done" /\ slot'[t].job = slot[t].job
  BY <1>3, <1>4
<1>8. RecordInv'
  BY <1>1, <1>2, <1>7 DEF RecordInv, Told
<1> QED
  BY <1>1, <1>2, <1>6, <1>8 DEF TypeOK

LEMMA CallsExhaustedStep ==
  ASSUME IInv, NEW s \in Slots, CallsExhausted(s)
  PROVE  IInv'
<1>1. /\ slot[s].pc = "call" /\ Release(s, Idle) /\ Failed(slot[s].job)
      /\ UNCHANGED <<record, api, lost, overtaken, crashes>>
  BY DEF CallsExhausted
<1>2. /\ slot' \in [Slots -> Slot] /\ free' \in 0..Permits /\ waiting' \in Seq(Slots)
      /\ QueueInv' /\ OthersKeep(s) /\ slot'[s] = Idle
  BY <1>1, IdleSlot, ReleaseStep DEF IInv
<1>3. /\ bull' \in [Jobs -> Bull] /\ telling' \subseteq Jobs
      /\ SlotInv' /\ RecordInv'
  BY <1>1, <1>2, EndsFailed
<1> QED
  BY <1>1, <1>2, <1>3 DEF IInv, TypeOK

LEMMA AttemptFailsStep ==
  ASSUME IInv, NEW s \in Slots, AttemptFails(s)
  PROVE  IInv'
<1>1. /\ slot[s].pc \in {"start", "download", "finish"}
      /\ slot' = [slot EXCEPT ![s] = Idle] /\ Failed(slot[s].job)
      /\ UNCHANGED <<record, api, semaphore, lost, overtaken, crashes>>
  BY DEF AttemptFails
<1>2. slot' \in [Slots -> Slot] /\ QueueInv'
  BY <1>1, IdleSlot, ElsewhereStep DEF IInv
<1>3. OthersKeep(s) /\ slot'[s] = Idle
  BY <1>1 DEF IInv, TypeOK, OthersKeep
<1>4. /\ bull' \in [Jobs -> Bull] /\ telling' \subseteq Jobs
      /\ SlotInv' /\ RecordInv'
  BY <1>1, <1>2, <1>3, EndsFailed
<1> QED
  BY <1>1, <1>2, <1>4 DEF IInv, TypeOK, semaphore

LEMMA MarkCompletedStep ==
  ASSUME IInv, NEW s \in Slots, MarkCompleted(s)
  PROVE  IInv'
<1> USE DEF IInv
<1> DEFINE next == [slot[s] EXCEPT !.pc = "done"]
           j == slot[s].job
<1>1. next \in Slot /\ next.pc = "done" /\ next.job = j
  BY DEF TypeOK, Slot
<1>2. slot' = [slot EXCEPT ![s] = next] /\ slot[s].pc = "finish"
  BY DEF MarkCompleted, TypeOK
<1>3. /\ j \in Jobs /\ j # NoJob /\ bull[j].state = "active"
      /\ \A t \in Slots \ {s} : slot[t].job # j
  BY <1>2, Working
<1> HIDE DEF next
<1>4. slot' \in [Slots -> Slot] /\ QueueInv'
  BY <1>1, <1>2, ElsewhereStep DEF MarkCompleted
<1>5. \A t \in Slots : slot'[t] = IF t = s THEN next ELSE slot[t]
  BY <1>2 DEF TypeOK
<1>6. \A k \in Jobs : record'[k] = IF k = j THEN "completed" ELSE record[k]
  BY DEF MarkCompleted, TypeOK
<1>7. TypeOK'
  BY <1>3, <1>4 DEF MarkCompleted, TypeOK, Statuses, semaphore
<1>8. /\ \A t \in Slots : slot'[t].job = slot[t].job
      /\ \A t \in Slots : slot'[t].pc = "idle" <=> slot[t].pc = "idle"
  BY <1>1, <1>2, <1>5
<1>9. SlotInv'
  BY <1>8 DEF MarkCompleted, SlotInv
<1>10. \A t \in Slots : slot'[t].pc = "done" =>
          record'[slot'[t].job] = "completed" \/ (slot'[t] = slot[t] /\ slot[t].job # j /\ slot[t].job \in Jobs)
  <2>1. \A t \in Slots : slot[t].pc = "done" => slot[t].job \in Jobs
    BY Working
  <2> QED
    BY <1>1, <1>3, <1>5, <1>6, <2>1
<1>11. RecordInv'
  BY <1>3, <1>6, <1>10 DEF MarkCompleted, RecordInv, Told
<1> QED
  BY <1>4, <1>7, <1>9, <1>11

LEMMA DoneStep ==
  ASSUME IInv, NEW s \in Slots, Done(s)
  PROVE  IInv'
<1> USE DEF IInv
<1> DEFINE j == slot[s].job
<1>1. slot' = [slot EXCEPT ![s] = Idle] /\ slot[s].pc = "done"
  BY DEF Done
<1>2. /\ j \in Jobs /\ j # NoJob /\ bull[j].state = "active"
      /\ \A t \in Slots \ {s} : slot[t].job # j
  BY <1>1, Working
<1>3. slot' \in [Slots -> Slot] /\ QueueInv'
  BY <1>1, IdleSlot, ElsewhereStep DEF Done
<1>4. /\ bull' \in [Jobs -> Bull]
      /\ \A k \in Jobs : /\ bull'[k].state = IF k = j THEN "completed" ELSE bull[k].state
                         /\ bull'[k].attempts = bull[k].attempts
  BY <1>2, BullBecomes DEF BullStates, Done
<1>5. Told(j) => record[j] = "completed"
  BY <1>1 DEF RecordInv
<1> HIDE DEF j
<1>6. TypeOK'
  BY <1>3, <1>4 DEF Done, TypeOK, semaphore
<1>7. \A t \in Slots : slot'[t] = IF t = s THEN Idle ELSE slot[t]
  BY <1>1 DEF TypeOK
<1>8. \A t \in Slots : slot[t].job \in Jobs \cup {NoJob}
  BY DEF TypeOK, Slot
<1>9. SlotInv'
  <2>1. \A t \in Slots : slot'[t].pc = "idle" <=> slot'[t].job = NoJob
    BY <1>7, IdleSlot DEF SlotInv
  <2>2. \A t \in Slots : slot'[t].job # NoJob => bull'[slot'[t].job].state = "active"
    BY <1>2, <1>4, <1>7, <1>8, IdleSlot DEF SlotInv
  <2>3. \A t, u \in Slots : slot'[t].job = slot'[u].job /\ slot'[t].job # NoJob => t = u
    BY <1>7, IdleSlot DEF SlotInv
  <2>4. \A k \in Jobs : bull'[k].state \notin Settled => bull'[k].attempts < Attempts
    BY <1>4 DEF SlotInv, Settled
  <2> QED
    BY <2>1, <2>2, <2>3, <2>4 DEF SlotInv
<1>10. \A t \in Slots : slot'[t].pc = "done" => slot'[t] = slot[t]
  BY <1>7, IdleSlot
<1>11. RecordInv'
  BY <1>2, <1>4, <1>5, <1>10 DEF Done, RecordInv, Told
<1> QED
  BY <1>3, <1>6, <1>9, <1>11

-----------------------------------------------------------------------------
(* The failed handler, the next attempt, and the end of the process *)

LEMMA TellFailureStep ==
  ASSUME IInv, NEW j \in Jobs, TellFailure(j)
  PROVE  IInv'
<1> USE DEF IInv
<1>1. TypeOK'
  BY DEF TellFailure, TypeOK, Statuses, semaphore
<1>2. SlotInv' /\ QueueInv'
  BY SlotsRest DEF TellFailure
<1>3. \A k \in Jobs : record'[k] = IF k = j THEN "failed" ELSE record[k]
  BY DEF TellFailure, TypeOK
<1>4. Told(j) => bull[j].state \in {"delayed", "failed"}
  BY DEF TellFailure, RecordInv
<1>5. UNCHANGED <<api, bull, slot, lost, overtaken>> /\ telling' = telling \ {j}
  BY DEF TellFailure
<1>6. \A t \in Slots : slot[t].pc = "done" =>
          slot[t].job \in Jobs /\ bull[slot[t].job].state = "active"
  BY Working
<1>7. \A k \in Jobs : Told(k)' <=> Told(k)
  BY <1>5 DEF Told
<1>8. \A t \in Slots : slot[t].pc = "done" /\ Told(slot[t].job) => record'[slot[t].job] = "completed"
  BY <1>3, <1>4, <1>6 DEF RecordInv
<1>9. \A k \in Jobs : Told(k) /\ bull[k].state = "completed" => record'[k] = "completed"
  BY <1>3, <1>4 DEF RecordInv
<1>10. RecordInv'
  BY <1>3, <1>5, <1>6, <1>7, <1>8, <1>9 DEF RecordInv
<1> QED
  BY <1>1, <1>2, <1>10

LEMMA RetryStep ==
  ASSUME IInv, NEW j \in Jobs, Retry(j)
  PROVE  IInv'
<1> USE DEF IInv
<1>1. bull[j].state = "delayed" /\ bull' = [bull EXCEPT ![j].state = "waiting"]
  BY DEF Retry
<1>2. bull' \in [Jobs -> Bull] /\ SlotInv' /\ QueueInv'
  BY <1>1, BullMoves DEF Retry
<1>3. TypeOK'
  BY <1>2 DEF Retry, TypeOK, semaphore
<1>4. \A k \in Jobs : bull'[k].state = IF k = j THEN "waiting" ELSE bull[k].state
  BY BullBecomes DEF BullStates, Retry
<1>5. \A k \in Jobs : Told(k)' => Told(k) /\ ~(k = j /\ j \in telling)
  BY DEF Retry, Told
<1>6. \A t \in Slots : slot[t].pc = "done" => slot[t].job \in Jobs
  BY Working
<1>7. RecordInv'
  BY <1>1, <1>4, <1>5, <1>6 DEF Retry, RecordInv
<1> QED
  BY <1>2, <1>3, <1>7

LEMMA WorkerDiesStep ==
  ASSUME IInv, WorkerDies
  PROVE  IInv'
<1> USE DEF IInv
<1>1. \A j \in Running : /\ j \in Jobs /\ bull[j].state = "active"
                         /\ bull[j].attempts < Attempts
  BY DEF Running, SlotInv, Settled, TypeOK, Slot
<1>2. StalledOut \subseteq Running
  BY DEF StalledOut
<1>3. \A j \in Jobs : bull'[j] = IF j \in StalledOut THEN [bull[j] EXCEPT !.state = "failed"]
                                 ELSE IF j \in Running THEN [bull[j] EXCEPT !.state = "waiting", !.stalls = @ + 1]
                                 ELSE bull[j]
  BY DEF WorkerDies
<1>4. /\ bull' \in [Jobs -> Bull]
      /\ \A j \in Jobs : /\ bull'[j].state = IF j \in StalledOut THEN "failed"
                                             ELSE IF j \in Running THEN "waiting" ELSE bull[j].state
                         /\ bull'[j].attempts = bull[j].attempts
  <2>1. ASSUME NEW j \in Jobs
        PROVE  /\ bull'[j] \in Bull /\ bull'[j].attempts = bull[j].attempts
               /\ bull'[j].state = IF j \in StalledOut THEN "failed"
                                   ELSE IF j \in Running THEN "waiting" ELSE bull[j].state
    <3>1. bull[j] \in Bull
      BY DEF TypeOK
    <3>2. CASE j \in StalledOut
      BY <1>3, <3>1, <3>2 DEF Bull
    <3>3. CASE j \in Running \ StalledOut
      <4>1. bull[j].stalls + 1 \in 0..MaxStalls
        BY <3>1, <3>3, BoundsAssumption DEF StalledOut, Bull
      <4> QED
        BY <1>3, <3>1, <3>3, <4>1 DEF Bull
    <3>4. CASE j \notin Running
      BY <1>2, <1>3, <3>1, <3>4
    <3> QED
      BY <1>2, <3>2, <3>3, <3>4
  <2>2. DOMAIN bull' = Jobs /\ bull' = [j \in Jobs |-> bull'[j]]
    BY DEF WorkerDies
  <2> QED
    BY <2>1, <2>2
<1>5. /\ \A s \in Slots : slot'[s] = Idle
      /\ slot' \in [Slots -> Slot]
  BY IdleSlot DEF WorkerDies
<1>6. crashes' \in 0..MaxCrashes
  <2>1. crashes < MaxCrashes /\ crashes' = crashes + 1
    BY DEF WorkerDies
  <2>2. crashes \in 0..MaxCrashes
    BY DEF TypeOK
  <2> QED
    BY <2>1, <2>2, BoundsAssumption
<1>7. StalledOut \subseteq Jobs /\ free' \in 0..Permits /\ waiting' \in Seq(Slots)
  <2>1. waiting' = <<>> /\ free' = Permits
    BY DEF WorkerDies
  <2> QED
    BY <1>1, <1>2, <2>1, PermitsAssumption, EmptySeq
<1>8. TypeOK'
  BY <1>4, <1>5, <1>6, <1>7 DEF WorkerDies, TypeOK
<1>9. SlotInv'
  <2>1. \A j \in Jobs : bull'[j].state \notin Settled => bull'[j].attempts < Attempts
    BY <1>1, <1>4 DEF SlotInv, Settled
  <2> QED
    BY <1>5, <2>1, IdleSlot DEF SlotInv
<1>10. QueueInv'
  <2>1. Callers' = {}
    BY <1>5, IdleSlot DEF Callers
  <2>2. waiting' = <<>> /\ free' = Permits
    BY DEF WorkerDies
  <2>4. DOMAIN <<>> = {}
    OBVIOUS
  <2>3. free' + Cardinality(Callers') = Permits
    BY <2>1, <2>2, FS_EmptySet, PermitsAssumption
  <2> QED
    BY <1>5, <2>2, <2>4, <2>3, IdleSlot DEF QueueInv
<1>11. \A j \in Jobs : Told(j)' => Told(j) /\ j \notin telling
  BY DEF WorkerDies, Told
<1>12. telling' = StalledOut /\ UNCHANGED <<record, api>>
  BY DEF WorkerDies
<1>13. RecordInv'
  <2>1. \A j \in Jobs : bull[j].state = "absent" => bull'[j].state = "absent"
    BY <1>1, <1>2, <1>4
  <2>2. \A j \in Jobs : j \in telling' => bull'[j].state = "failed"
    BY <1>4, <1>12
  <2>3. \A j \in Jobs : bull'[j].state = "completed" => bull[j].state = "completed"
    BY <1>4
  <2>4. \A j \in Jobs : bull'[j].state = "failed" /\ j \notin telling' => bull[j].state = "failed"
    BY <1>4, <1>12
  <2>5. \A s \in Slots : slot'[s].pc # "done"
    BY <1>5, IdleSlot
  <2> QED
    BY <1>11, <1>12, <2>1, <2>2, <2>3, <2>4, <2>5 DEF RecordInv
<1> QED
  BY <1>8, <1>9, <1>10, <1>13

-----------------------------------------------------------------------------
(* The theorems *)

LEMMA InitHolds == Init => IInv
<1> SUFFICES ASSUME Init PROVE IInv
  OBVIOUS
<1>1. /\ \A s \in Slots : slot[s] = Idle
      /\ slot \in [Slots -> Slot]
  BY IdleSlot DEF Init
<1>2. bull \in [Jobs -> Bull]
  <2>1. 0 \in 0..Attempts /\ 0 \in 0..MaxStalls
    BY PermitsAssumption, BoundsAssumption
  <2>2. [state |-> "absent", attempts |-> 0, stalls |-> 0] \in Bull
    BY <2>1 DEF Bull
  <2> QED
    BY <2>2 DEF Init
<1>3. TypeOK
  BY <1>1, <1>2, PermitsAssumption, BoundsAssumption, EmptySeq DEF Init, TypeOK, Statuses
<1>4. \A j \in Jobs : bull[j].state = "absent" /\ bull[j].attempts < Attempts
  BY PermitsAssumption DEF Init
<1>5. SlotInv
  BY <1>1, <1>4, IdleSlot DEF SlotInv
<1>6. QueueInv
  <2>1. Callers = {}
    BY <1>1, IdleSlot DEF Callers
  <2>2. waiting = <<>> /\ DOMAIN waiting = {} /\ free = Permits
    BY DEF Init
  <2>3. free + Cardinality(Callers) = Permits
    BY <2>1, <2>2, FS_EmptySet, PermitsAssumption
  <2> QED
    BY <1>1, <2>2, <2>3, IdleSlot DEF QueueInv
<1>7. RecordInv
  BY <1>1, <1>4, IdleSlot DEF Init, RecordInv
<1> QED
  BY <1>3, <1>5, <1>6, <1>7 DEF IInv

LEMMA NextStep == IInv /\ [Next]_vars => IInv'
<1> SUFFICES ASSUME IInv, [Next]_vars PROVE IInv'
  OBVIOUS
<1>1. ASSUME NEW j \in Jobs, Enqueue(j) \/ TellFailure(j) \/ Retry(j) PROVE IInv'
  BY <1>1, CreateRecordStep, AddJobStep, AddFailsStep, AddTimesOutStep, AddSkippedStep, AddLandsStep,
     MarkFailedStep, TellFailureStep, RetryStep DEF Enqueue
<1>2. ASSUME NEW s \in Slots, NEW j \in Jobs, Take(s, j) PROVE IInv'
  BY <1>2, TakeStep
<1>3. ASSUME NEW s \in Slots, Attempt(s) PROVE IInv'
  BY <1>3, MarkActiveStep, AcquiringStep, CallReturnsStep, CallFailsStep, CallsExhaustedStep,
     AttemptFailsStep, MarkCompletedStep, DoneStep DEF Attempt
<1>4. ASSUME UNCHANGED vars PROVE IInv'
  BY <1>4 DEF vars, IInv, TypeOK, SlotInv, QueueInv, Callers, RecordInv, Told
<1> QED
  BY <1>1, <1>2, <1>3, <1>4, ApiDiesStep, WorkerDiesStep DEF Next

\* The invariant: jobs and slots, the semaphore's queue, and the record.
THEOREM ExtractionCorrect == Spec => []IInv
<1>1. Init => IInv
  BY InitHolds
<1>2. IInv /\ [Next]_vars => IInv'
  BY NextStep
<1>3. QED
  BY <1>1, <1>2, PTL DEF Spec

\* The variables keep their types: no attempt, repetition or stall too many.
THEOREM TypesKept == Spec => []TypeOK
<1>1. IInv => TypeOK
  BY DEF IInv
<1>2. QED
  BY <1>1, ExtractionCorrect, PTL

\* As long as the queue has who waits, once, it is as long as there are.
LEMMA QueueLength ==
  ASSUME TypeOK, QueueInv
  PROVE  Len(waiting) = Cardinality({s \in Slots : slot[s].pc = "wait"})
<1> DEFINE W == {s \in Slots : slot[s].pc = "wait"}
           n == Len(waiting)
<1>1. n \in Nat /\ DOMAIN waiting = 1..n /\ waiting \in [1..n -> Slots]
  BY LenProperties DEF TypeOK
<1>2. waiting \in [1..n -> W]
  <2>1. \A i \in 1..n : waiting[i] \in W
    BY <1>1 DEF QueueInv
  <2> QED
    BY <1>1, <2>1
<1>3. \A w \in W : \E i \in 1..n : waiting[i] = w
  BY <1>1 DEF QueueInv
<1>4. \A i, k \in 1..n : waiting[i] = waiting[k] => i = k
  BY <1>1 DEF QueueInv
<1> HIDE DEF W, n
<1>5. ExistsBijection(1..n, W)
  BY <1>2, <1>3, <1>4 DEF ExistsBijection, Bijection, Injection, Surjection, IsInjective
<1>6. IsFiniteSet(1..n) /\ Cardinality(1..n) = n
  BY <1>1, FS_Interval
<1>7. Cardinality(W) = n
  BY <1>5, <1>6, FS_Bijection
<1> QED
  BY <1>7 DEF W, n

\* No permit is lost and no call runs without one, for any number of slots,
\* permits and failures: what the semaphore of extraction.worker.js promises.
THEOREM PermitsKept == Spec => []PermitsConserved
<1>1. ASSUME IInv PROVE PermitsConserved
  <2>1. /\ free + Cardinality({s \in Slots : slot[s].pc = "call"}) = Permits
        /\ waiting # <<>> => free = 0
    BY <1>1 DEF IInv, QueueInv, Callers
  <2>2. {s \in Slots : slot[s].pc = "wait"} = {waiting[i] : i \in DOMAIN waiting}
    <3>1. \A i \in DOMAIN waiting : waiting[i] \in Slots
      BY <1>1, LenProperties DEF IInv, TypeOK
    <3> QED
      BY <1>1, <3>1 DEF IInv, QueueInv
  <2> QED
    BY <1>1, <2>1, <2>2, QueueLength DEF IInv, PermitsConserved
<1>2. QED
  BY <1>1, ExtractionCorrect, PTL

\* A job BullMQ is done with has its outcome in the record, but for those that
\* went on before a write of their failure, and those whose write was lost.
THEOREM OutcomeTold == Spec => []RecordTellsOutcome
<1>1. IInv => RecordTellsOutcome
  BY DEF IInv, RecordInv, Told, RecordTellsOutcome, Settled
<1>2. QED
  BY <1>1, ExtractionCorrect, PTL

-----------------------------------------------------------------------------
(* No job is forgotten *)

\* Somebody has still to do something about job j.
Attended(j) ==
    \/ api[j] # "idle"
    \/ bull[j].state \in {"late", "waiting", "delayed"}
    \/ \E s \in Slots : slot[s].job = j
    \/ j \in telling

\* As long as a client is told to wait somebody is at work on the job or will
\* be, but for the jobs that were never enqueued and those whose write died;
\* and who waits for a permit waits for a call that will give one back.
NoJobForgotten ==
    /\ \A j \in Jobs : record[j] \in {"queued", "active"} => Attended(j) \/ j \in lost
    /\ (\E s \in Slots : slot[s].pc = "wait") => \E s \in Slots : slot[s].pc = "call"

\* Who has the job in each state of BullMQ, and what was written by its end.
HeldInv ==
    /\ \A j \in Jobs : bull[j].state = "active" => \E s \in Slots : slot[s].job = j
    /\ \A j \in Jobs : bull[j].state = "absent" /\ api[j] = "idle" =>
          record[j] \in {"none", "failed"} \/ j \in lost
    /\ \A j \in Jobs : bull[j].state = "completed" => record[j] \in Settled
    /\ \A j \in Jobs : bull[j].state = "failed" => record[j] \in Settled \/ j \in telling \cup lost
    /\ \A s \in Slots : slot[s].pc = "done" => record[slot[s].job] \in Settled

\* A step of the API, of the failed handler or of the clock.
LEMMA HeldElsewhere ==
  ASSUME IInv, HeldInv, UNCHANGED slot, lost \subseteq lost',
         \A j \in Jobs :
            /\ \/ record'[j] \in {record[j], "failed"}
               \/ record[j] = "none" /\ api'[j] # "idle"
            /\ api'[j] = "idle" =>
                  \/ api[j] = "idle" \/ j \in lost'
                  \/ record'[j] = "failed" \/ bull'[j].state # "absent"
            /\ \/ bull'[j].state = bull[j].state
               \/ bull'[j].state \in {"late", "waiting"}
            /\ j \in telling \ telling' => record'[j] = "failed"
  PROVE  HeldInv'
<1>1. \A s \in Slots : slot[s].pc = "done" => slot[s].job \in Jobs
  BY Working DEF IInv
<1>2. \A j \in Jobs : record[j] \in Settled => record'[j] \in Settled
  BY DEF Settled
<1>3. \A j \in Jobs : bull'[j].state = "absent" /\ api'[j] = "idle" =>
          record'[j] \in {"none", "failed"} \/ j \in lost'
  BY DEF HeldInv
<1>4. \A j \in Jobs : bull'[j].state = "failed" => record'[j] \in Settled \/ j \in telling' \cup lost'
  BY <1>2 DEF HeldInv, Settled
<1> QED
  BY <1>1, <1>2, <1>3, <1>4 DEF HeldInv

\* A step of a slot that goes on with its job.
LEMMA HeldAtWork ==
  ASSUME IInv, HeldInv, NEW s \in Slots, slot[s].pc # "idle", OthersKeep(s),
         slot'[s].job = slot[s].job,
         slot'[s].pc = "done" => record'[slot[s].job] \in Settled,
         \A j \in Jobs \ {slot[s].job} : record'[j] = record[j],
         UNCHANGED <<bull, api, telling, lost>>
  PROVE  HeldInv'
<1> DEFINE j == slot[s].job
<1>1. j \in Jobs /\ bull[j].state = "active" /\ \A t \in Slots \ {s} : slot[t].job # j
  BY Working DEF IInv
<1>2. \A t \in Slots : slot[t].pc = "done" => slot[t].job \in Jobs
  BY Working DEF IInv
<1>3. \A t \in Slots : slot'[t].job = slot[t].job
  BY DEF OthersKeep
<1>4. \A t \in Slots \ {s} : slot'[t].pc = "done" => slot[t].pc = "done"
  BY DEF OthersKeep
<1>5. \A t \in Slots : slot'[t].pc = "done" => record'[slot'[t].job] \in Settled
  BY <1>1, <1>2, <1>3, <1>4 DEF HeldInv
<1>6. \A k \in Jobs : bull[k].state # "active" => record'[k] = record[k]
  BY <1>1
<1> QED
  BY <1>3, <1>5, <1>6 DEF HeldInv

\* A step of a slot that is rid of its job.
LEMMA HeldLetGo ==
  ASSUME IInv, HeldInv, NEW s \in Slots, slot[s].pc # "idle", OthersKeep(s),
         slot'[s] = Idle, UNCHANGED <<record, api, lost>>,
         telling \subseteq telling',
         \A k \in Jobs \ {slot[s].job} : bull'[k].state = bull[k].state,
         LET j == slot[s].job IN \/ bull'[j].state = "delayed"
                                 \/ bull'[j].state = "failed" /\ j \in telling'
                                 \/ bull'[j].state = "completed" /\ record[j] \in Settled
  PROVE  HeldInv'
<1> DEFINE j == slot[s].job
<1>1. j \in Jobs
  BY Working DEF IInv
<1>2. \A t \in Slots \ {s} : /\ slot'[t].job = slot[t].job
                             /\ slot'[t].pc = "done" => slot[t].pc = "done"
  BY DEF OthersKeep
<1>3. slot'[s].pc # "done"
  BY IdleSlot
<1> HIDE DEF j
<1>4. \A k \in Jobs : bull'[k].state = "active" => \E t \in Slots : slot'[t].job = k
  <2> SUFFICES ASSUME NEW k \in Jobs, bull'[k].state = "active"
               PROVE  \E t \in Slots : slot'[t].job = k
    OBVIOUS
  <2>1. k # j
    BY <1>1 DEF j
  <2>2. PICK t \in Slots : slot[t].job = k
    BY <2>1 DEF HeldInv, j
  <2> QED
    BY <1>2, <2>1, <2>2 DEF j
<1>5. \A t \in Slots : slot'[t].pc = "done" => record'[slot'[t].job] \in Settled
  BY <1>2, <1>3 DEF HeldInv
<1>6. \A k \in Jobs : bull'[k].state = "failed" => record'[k] \in Settled \/ k \in telling' \cup lost'
  BY DEF HeldInv, j
<1>7. \A k \in Jobs : bull'[k].state = "completed" => record'[k] \in Settled
  BY DEF HeldInv, j
<1>8. \A k \in Jobs : bull'[k].state = "absent" /\ api'[k] = "idle" =>
          record'[k] \in {"none", "failed"} \/ k \in lost'
  BY DEF HeldInv, j
<1> QED
  BY <1>4, <1>5, <1>6, <1>7, <1>8 DEF HeldInv

LEMMA HeldEnqueue ==
  ASSUME IInv, HeldInv, NEW j \in Jobs, Enqueue(j) \/ TellFailure(j) \/ Retry(j)
  PROVE  HeldInv'
<1>0. record \in [Jobs -> Statuses] /\ api \in [Jobs -> {"idle", "add", "fail"}] /\ TypeOK
  BY DEF IInv, TypeOK
<1>1. CASE CreateRecord(j)
  BY <1>0, <1>1, HeldElsewhere DEF CreateRecord
<1>2. CASE AddFails(j)
  BY <1>0, <1>2, HeldElsewhere DEF AddFails
<1>3. CASE AddSkipped(j)
  BY <1>0, <1>3, HeldElsewhere DEF AddSkipped
<1>4. CASE MarkFailed(j)
  BY <1>0, <1>4, HeldElsewhere DEF MarkFailed
<1>5. CASE TellFailure(j)
  BY <1>0, <1>5, HeldElsewhere DEF TellFailure
<1>6. ASSUME NEW st \in {"late", "waiting"}, bull' = [bull EXCEPT ![j].state = st],
             UNCHANGED <<record, slot, telling, lost>>,
             \A k \in Jobs \ {j} : api'[k] = api[k]
      PROVE  HeldInv'
  <2>1. st \in BullStates
    BY DEF BullStates
  <2>2. \A k \in Jobs : bull'[k].state = IF k = j THEN st ELSE bull[k].state
    BY <1>0, <1>6, <2>1, BullBecomes
  <2> QED
    BY <1>6, <2>2, HeldElsewhere
<1>7. CASE AddJob(j)
  BY <1>0, <1>6, <1>7 DEF AddJob
<1>8. CASE AddTimesOut(j)
  BY <1>0, <1>6, <1>8 DEF AddTimesOut
<1>9. CASE AddLands(j)
  BY <1>6, <1>9 DEF AddLands
<1>10. CASE Retry(j)
  BY <1>6, <1>10 DEF Retry
<1> QED
  BY <1>1, <1>2, <1>3, <1>4, <1>5, <1>7, <1>8, <1>9, <1>10 DEF Enqueue

LEMMA HeldTake ==
  ASSUME IInv, HeldInv, NEW s \in Slots, NEW j \in Jobs, Take(s, j)
  PROVE  HeldInv'
<1>1. /\ slot[s].pc = "idle" /\ slot[s].job = NoJob
      /\ UNCHANGED <<record, api, telling, lost>>
  BY DEF Take, IInv, SlotInv
<1>2. \A k \in Jobs : bull'[k].state = IF k = j THEN "active" ELSE bull[k].state
  BY BullBecomes DEF IInv, BullStates, Take
<1>3. slot'[s].job = j /\ slot'[s].pc # "done"
  BY DEF Take, IInv, TypeOK, Idle
<1>4. \A t \in Slots \ {s} : slot'[t] = slot[t]
  BY DEF Take, IInv, TypeOK
<1>5. \A k \in Jobs : bull'[k].state = "active" => \E t \in Slots : slot'[t].job = k
  <2> SUFFICES ASSUME NEW k \in Jobs, bull'[k].state = "active", k # j
               PROVE  \E t \in Slots : slot'[t].job = k
    BY <1>3
  <2>1. PICK t \in Slots : slot[t].job = k
    BY <1>2 DEF HeldInv
  <2>2. t # s
    BY <1>1, <2>1, NoJobAssumption
  <2> QED
    BY <1>4, <2>1, <2>2
<1>6. \A t \in Slots : slot'[t].pc = "done" => record'[slot'[t].job] \in Settled
  BY <1>1, <1>3, <1>4 DEF HeldInv
<1> QED
  BY <1>1, <1>2, <1>5, <1>6 DEF HeldInv

LEMMA HeldAttempt ==
  ASSUME IInv, HeldInv, NEW s \in Slots, Attempt(s)
  PROVE  HeldInv'
<1>0. TypeOK /\ QueueInv /\ SlotInv
  BY DEF IInv
<1>1. CASE MarkActive(s) \/ MarkCompleted(s)
  <2>1. /\ slot[s].pc # "idle" /\ UNCHANGED <<bull, api, telling, lost>>
        /\ \A k \in Jobs \ {slot[s].job} : record'[k] = record[k]
    BY <1>0, <1>1 DEF MarkActive, MarkCompleted, TypeOK
  <2>2. slot[s].job \in Jobs
    BY <1>0, <2>1, Working
  <2>3. \A t \in Slots \ {s} : slot'[t] = slot[t]
    BY <1>0, <1>1 DEF MarkActive, MarkCompleted, TypeOK
  <2>4. slot'[s].job = slot[s].job
    BY <1>0, <1>1 DEF MarkActive, MarkCompleted, TypeOK, Slot
  <2>5. slot'[s].pc = "done" => record'[slot[s].job] \in Settled
    <3>1. CASE MarkActive(s)
      BY <1>0, <3>1 DEF MarkActive, TypeOK, Slot
    <3>2. CASE MarkCompleted(s)
      BY <1>0, <2>2, <3>2 DEF MarkCompleted, TypeOK, Settled
    <3> QED
      BY <1>1, <3>1, <3>2
  <2>6. OthersKeep(s)
    BY <2>3 DEF OthersKeep
  <2> QED
    BY <2>1, <2>4, <2>5, <2>6, HeldAtWork
<1>2. CASE Download(s) \/ CallAgain(s)
  <2>1. /\ slot[s].pc \in {"download", "pause"} /\ Acquire(s, slot[s])
        /\ UNCHANGED <<record, api, bull, telling, lost>>
    BY <1>2 DEF Download, CallAgain
  <2>2. OthersKeep(s) /\ slot'[s].job = slot[s].job /\ slot'[s].pc \in {"call", "wait"}
    BY <1>0, <2>1, AcquireStep
  <2> QED
    BY <2>1, <2>2, HeldAtWork
<1>3. CASE CallReturns(s) \/ CallFails(s)
  <2>1. PICK next \in Slot : /\ next.pc \in {"finish", "pause"} /\ next.job = slot[s].job
                             /\ Release(s, next)
    <3>1. CASE CallReturns(s)
      <4>1. [slot[s] EXCEPT !.pc = "finish"] \in Slot
        BY <1>0 DEF TypeOK, Slot
      <4>2. [slot[s] EXCEPT !.pc = "finish"].pc = "finish"
            /\ [slot[s] EXCEPT !.pc = "finish"].job = slot[s].job
        BY <1>0 DEF TypeOK, Slot
      <4> QED
        BY <3>1, <4>1, <4>2 DEF CallReturns
    <3>2. CASE CallFails(s)
      <4> DEFINE next == [slot[s] EXCEPT !.pc = "pause", !.retries = @ + 1]
      <4>1. slot[s].retries + 1 \in 0..MaxRetries
        BY <1>0, <3>2, BoundsAssumption DEF TypeOK, Slot, CallFails
      <4>2. next \in Slot /\ next.pc = "pause" /\ next.job = slot[s].job
        BY <1>0, <4>1 DEF TypeOK, Slot
      <4>3. Release(s, next)
        BY <3>2 DEF CallFails
      <4> HIDE DEF next
      <4> QED
        BY <4>2, <4>3
    <3> QED
      BY <1>3, <3>1, <3>2
  <2>2. slot[s].pc = "call" /\ UNCHANGED <<record, api, bull, telling, lost>>
    BY <1>3 DEF CallReturns, CallFails
  <2>3. OthersKeep(s) /\ slot'[s] = next
    BY <1>0, <2>1, <2>2, ReleaseStep
  <2> QED
    BY <2>1, <2>2, <2>3, HeldAtWork
<1>4. CASE CallsExhausted(s) \/ AttemptFails(s)
  <2>1. /\ slot[s].pc # "idle" /\ Failed(slot[s].job) /\ UNCHANGED <<record, api, lost>>
    BY <1>4 DEF CallsExhausted, AttemptFails
  <2>2. OthersKeep(s) /\ slot'[s] = Idle
    <3>1. CASE CallsExhausted(s)
      BY <1>0, <3>1, IdleSlot, ReleaseStep DEF CallsExhausted
    <3>2. CASE AttemptFails(s)
      BY <1>0, <3>2 DEF AttemptFails, TypeOK, OthersKeep
    <3> QED
      BY <1>4, <3>1, <3>2
  <2>3. slot[s].job \in Jobs /\ bull[slot[s].job].attempts < Attempts
    BY <1>0, <2>1, Working
  <2>4. /\ telling' = telling \cup {slot[s].job}
        /\ \A k \in Jobs \ {slot[s].job} : bull'[k] = bull[k]
        /\ bull'[slot[s].job].state \in {"delayed", "failed"}
    BY <1>0, <2>1, <2>3, FailedBecomes
  <2> QED
    BY <2>1, <2>2, <2>4, HeldLetGo
<1>5. CASE Done(s)
  <2>1. /\ slot[s].pc = "done" /\ slot' = [slot EXCEPT ![s] = Idle]
        /\ UNCHANGED <<record, api, telling, lost>>
    BY <1>5 DEF Done
  <2>2. slot[s].job \in Jobs /\ record[slot[s].job] \in Settled
    BY <1>0, <2>1, Working DEF HeldInv
  <2>3. \A k \in Jobs : bull'[k].state = IF k = slot[s].job THEN "completed" ELSE bull[k].state
    BY <1>0, <1>5, <2>2, BullBecomes DEF BullStates, Done
  <2>4. OthersKeep(s) /\ slot'[s] = Idle
    BY <1>0, <2>1 DEF TypeOK, OthersKeep
  <2> QED
    BY <2>1, <2>2, <2>3, <2>4, HeldLetGo
<1> QED
  BY <1>1, <1>2, <1>3, <1>4, <1>5 DEF Attempt

LEMMA HeldApiDies ==
  ASSUME IInv, HeldInv, ApiDies
  PROVE  HeldInv'
<1>1. /\ UNCHANGED <<record, bull, slot, telling>>
      /\ lost' = lost \cup {j \in Jobs : api[j] # "idle"}
  BY DEF ApiDies
<1> QED
  BY <1>1, HeldElsewhere

LEMMA HeldWorkerDies ==
  ASSUME IInv, HeldInv, WorkerDies
  PROVE  HeldInv'
<1>1. /\ \A s \in Slots : slot'[s].pc = "idle"
      /\ telling' = StalledOut /\ lost' = lost \cup telling
      /\ UNCHANGED <<record, api>>
  BY IdleSlot DEF WorkerDies
<1>2. StalledOut \subseteq Running
  BY DEF StalledOut
<1>3. \A j \in Jobs : bull'[j].state = IF j \in StalledOut THEN "failed"
                                       ELSE IF j \in Running THEN "waiting" ELSE bull[j].state
  BY <1>2 DEF WorkerDies, IInv, TypeOK, Bull
<1>4. \A j \in Jobs : bull[j].state = "active" => j \in Running
  BY NoJobAssumption DEF HeldInv, Running
<1>5. \A j \in Jobs : bull'[j].state # "active"
  BY <1>3, <1>4
<1> QED
  BY <1>1, <1>3, <1>5 DEF HeldInv

LEMMA HeldTells ==
  ASSUME IInv, HeldInv
  PROVE  NoJobForgotten
<1>1. ASSUME NEW j \in Jobs, record[j] \in {"queued", "active"}, j \notin lost
      PROVE  Attended(j)
  <2>1. bull[j].state \in {"absent", "late", "waiting", "active", "delayed", "completed", "failed"}
    BY DEF IInv, TypeOK, Bull
  <2>2. record[j] \notin Settled /\ record[j] \notin {"none", "failed"}
    BY <1>1 DEF Settled
  <2> QED
    BY <1>1, <2>1, <2>2 DEF HeldInv, Attended
<1>2. ASSUME NEW s \in Slots, slot[s].pc = "wait"
      PROVE  \E t \in Slots : slot[t].pc = "call"
  <2>1. waiting # <<>>
    <3>1. DOMAIN <<>> = {}
      OBVIOUS
    <3> QED
      BY <1>2, <3>1 DEF IInv, QueueInv
  <2>2. Cardinality(Callers) # 0
    BY <2>1, CallersFinite, PermitsAssumption DEF IInv, QueueInv
  <2>3. Callers # {}
    BY <2>2, FS_EmptySet
  <2> QED
    BY <2>3 DEF Callers
<1> QED
  BY <1>1, <1>2 DEF NoJobForgotten

\* The core of JobSettles: through any failure, repetition or death a job whose
\* client is told to wait has somebody who will go on with it.
THEOREM NoneForgotten == Spec => []NoJobForgotten
<1>1. Init => HeldInv
  <2> SUFFICES ASSUME Init PROVE HeldInv
    OBVIOUS
  <2>1. \A s \in Slots : slot[s].pc # "done"
    BY IdleSlot DEF Init
  <2>2. \A j \in Jobs : bull[j].state = "absent" /\ record[j] = "none"
    BY DEF Init
  <2> QED
    BY <2>1, <2>2 DEF HeldInv
<1>2. IInv /\ HeldInv /\ [Next]_vars => HeldInv'
  <2> SUFFICES ASSUME IInv, HeldInv, [Next]_vars PROVE HeldInv'
    OBVIOUS
  <2>1. CASE UNCHANGED vars
    BY <2>1 DEF vars, HeldInv
  <2> QED
    BY <2>1, HeldEnqueue, HeldTake, HeldAttempt, HeldApiDies, HeldWorkerDies DEF Next
<1>3. IInv /\ HeldInv => NoJobForgotten
  BY HeldTells
<1>4. QED
  BY <1>1, <1>2, <1>3, ExtractionCorrect, PTL DEF Spec
=============================================================================
