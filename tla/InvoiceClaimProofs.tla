--------------------------- MODULE InvoiceClaimProofs --------------------------
(***************************************************************************)
(* Proofs about drafts and the workers that claim them: redeliveries never *)
(* share a claim, an approved draft names its invoice, nothing but a commit *)
(* changes a claimed payload, and, while nothing is late, approvals and     *)
(* discards are final.                                                      *)
(***************************************************************************)
EXTENDS InvoiceApprovalProofs

Busy == [pc : {"taken", "rollback", "done"} \cup Working, job : Job, claim : Nat,
         owned : BOOLEAN]

LEMMA BusySlot ==
  ASSUME TypeOK, NEW w \in Workers, worker[w].pc # "idle"
  PROVE  worker[w] \in Busy
BY DEF TypeOK, Slot, IdleSlot, Busy

\* An update changes one document, and only one that is there.
LEMMA UpdateEffect ==
  ASSUME draft \in [Drafts -> Draft], NEW d \in Drafts, NEW document \in Draft,
         Update(d, document), NEW e \in Drafts
  PROVE  \/ draft'[e] = draft[e]
         \/ /\ e = d /\ draft[e].status # "absent"
            /\ draft'[e].status = document.status
            /\ draft'[e].version = document.version
            /\ draft'[e].payload = document.payload
            /\ draft'[e].invoice = document.invoice
BY DEF Update, Draft

-----------------------------------------------------------------------------
(* What a step may do to a document                                        *)

\* From one state to the next: a document is created, removed or kept; its
\* version never falls, and it turns 'approving' only with a higher one.
Evolves(d) ==
    \/ draft'[d].status = "absent"
    \/ extraction[d] = "new" /\ extraction'[d] # "new" /\ draft'[d].status = "extracting"
    \/ /\ draft[d].status # "absent"
       /\ draft'[d].version >= draft[d].version
       /\ draft'[d].status = "approving" =>
            draft[d].status = "approving" \/ draft'[d].version > draft[d].version

\* An approved document is the one it was, or was the work of a commit.
StaysApproved(d) ==
    draft'[d].status = "approved" =>
      /\ draft[d].status = "approved"
      /\ draft'[d].invoice = draft[d].invoice
      /\ draft'[d].payload = draft[d].payload

Gentle ==
    /\ \A d \in Drafts : Evolves(d) /\ StaysApproved(d)
    /\ \A d \in Drafts : extraction'[d] = "new" =>
         extraction[d] = "new" /\ (draft[d].status = "absent" => draft'[d].status = "absent")

LEMMA SameGentle ==
  ASSUME TypeOK, UNCHANGED <<draft, extraction>>
  PROVE  Gentle
BY DEF TypeOK, Draft, Gentle, Evolves, StaysApproved

\* Every update by id is gentle when what it writes is.
LEMMA UpdateGentle ==
  ASSUME TypeOK, NEW d \in Drafts, NEW document \in Draft, Update(d, document),
         \A e \in Drafts : extraction'[e] = "new" => extraction[e] = "new",
         document.status # "approved",
         document.version >= draft[d].version,
         document.status = "approving" => document.version > draft[d].version
  PROVE  Gentle
<1>1. \A e \in Drafts :
        \/ draft'[e] = draft[e]
        \/ /\ e = d /\ draft[e].status # "absent"
           /\ draft'[e].status = document.status
           /\ draft'[e].version = document.version
  BY UpdateEffect DEF TypeOK
<1>2. \A e \in Drafts : draft[e].version \in Nat
  BY DEF TypeOK, Draft
<1>3. QED
  BY <1>1, <1>2 DEF Gentle, Evolves, StaysApproved

LEMMA SetStatusGentle ==
  ASSUME TypeOK, NEW d \in Drafts, NEW s \in Statuses \ {"approved", "approving"},
         SetStatus(d, s),
         \A e \in Drafts : extraction'[e] = "new" => extraction[e] = "new"
  PROVE  Gentle
<1> DEFINE new == [draft[d] EXCEPT !.status = s]
<1>1. draft[d] \in Draft /\ draft[d].version \in Nat
  BY DEF TypeOK, Draft
<1>2. new \in Draft /\ new.status = s /\ new.version = draft[d].version
  BY <1>1 DEF Draft
<1>3. Update(d, new)
  BY DEF SetStatus
<1> HIDE DEF new
<1>4. new.version >= draft[d].version
  BY <1>1, <1>2
<1>5. QED
  BY <1>2, <1>3, <1>4, UpdateGentle

\* A versioned write raises the version by one.
LEMMA BumpStatus ==
  ASSUME NEW t \in Draft, NEW s \in Statuses
  PROVE  /\ [t EXCEPT !.status = s, !.version = @ + 1].status = s
         /\ [t EXCEPT !.status = s, !.version = @ + 1].version > t.version
<1>1. t.version \in Nat /\ t.version + 1 > t.version
  BY DEF Draft
<1>2. QED
  BY <1>1 DEF Draft

LEMMA BumpPayload ==
  ASSUME NEW t \in Draft, NEW p \in Payloads
  PROVE  /\ [t EXCEPT !.payload = p, !.version = @ + 1].status = t.status
         /\ [t EXCEPT !.payload = p, !.version = @ + 1].version > t.version
<1>1. t.version \in Nat /\ t.version + 1 > t.version
  BY DEF Draft
<1>2. QED
  BY <1>1 DEF Draft

\* The write of an extraction's result keeps the version.
LEMMA ExtractedEffect ==
  ASSUME NEW t \in Draft, NEW p \in Payloads
  PROVE  /\ [t EXCEPT !.status = "ready", !.payload = p] \in Draft
         /\ [t EXCEPT !.status = "ready", !.payload = p].status = "ready"
         /\ [t EXCEPT !.status = "ready", !.payload = p].version = t.version
BY DEF Draft, Statuses

LEMMA DraftGentle ==
  ASSUME TypeOK, NEW d \in Drafts, DraftNext(d)
  PROVE  Gentle
<1>1. CASE CreateDraft(d)
  <2>1. extraction[d] = "new" /\ extraction'[d] = "download"
    BY <1>1 DEF CreateDraft, TypeOK
  <2>2. draft'[d].status = "extracting"
    BY <1>1 DEF CreateDraft, TypeOK, Draft
  <2>3. \A e \in Drafts \ {d} : draft'[e] = draft[e] /\ extraction'[e] = extraction[e]
    BY <1>1 DEF CreateDraft, TypeOK
  <2>4. \A e \in Drafts : draft[e].version \in Nat
    BY DEF TypeOK, Draft
  <2>5. QED
    BY <2>1, <2>2, <2>3, <2>4 DEF Gentle, Evolves, StaysApproved
<1>2. ASSUME NEW s \in {"download", "build", "ended", "died"},
             extraction' = [extraction EXCEPT ![d] = s] \/ UNCHANGED extraction
      PROVE  \A e \in Drafts : extraction'[e] = "new" => extraction[e] = "new"
  BY <1>2 DEF TypeOK
<1>3. CASE ExtractionDownloaded(d) \/ ExtractionDownloadFails(d) \/ ExtractionDies(d)
  <2>1. \A e \in Drafts : extraction'[e] = "new" => extraction[e] = "new"
    BY <1>2, <1>3 DEF ExtractionDownloaded, ExtractionDownloadFails, ExtractionDies
  <2>2. UNCHANGED draft
    BY <1>3 DEF ExtractionDownloaded, ExtractionDownloadFails, ExtractionDies
  <2>3. QED
    BY <2>1, <2>2 DEF Gentle, Evolves, StaysApproved, TypeOK, Draft
<1>4. CASE ExtractionBuilt(d)
  <2>1. PICK p \in Payloads : Update(d, [draft[d] EXCEPT !.status = "ready", !.payload = p])
    BY <1>4 DEF ExtractionBuilt
  <2>2. draft[d] \in Draft /\ draft[d].version \in Nat
    BY DEF TypeOK, Draft
  <2> DEFINE new == [draft[d] EXCEPT !.status = "ready", !.payload = p]
  <2>3. new \in Draft /\ new.status = "ready" /\ new.version = draft[d].version
    BY <2>2, ExtractedEffect
  <2>4. \A e \in Drafts : extraction'[e] = "new" => extraction[e] = "new"
    BY <1>2, <1>4 DEF ExtractionBuilt
  <2>5. Update(d, new)
    BY <2>1
  <2> HIDE DEF new
  <2>6. new.version >= draft[d].version
    BY <2>2, <2>3
  <2>7. QED
    BY <2>3, <2>4, <2>5, <2>6, UpdateGentle
<1>5. CASE ExtractionFails(d)
  <2>1. \A e \in Drafts : extraction'[e] = "new" => extraction[e] = "new"
    BY <1>2, <1>5 DEF ExtractionFails
  <2>2. QED
    BY <1>5, <2>1, SetStatusGentle DEF ExtractionFails, Statuses
<1>6. CASE Expire(d)
  <2>1. draft'[d].status = "absent" /\ \A e \in Drafts \ {d} : draft'[e] = draft[e]
    BY <1>6 DEF Expire, TypeOK, NoDocument
  <2>2. UNCHANGED extraction
    BY <1>6 DEF Expire
  <2>3. \A e \in Drafts : draft[e].version \in Nat
    BY DEF TypeOK, Draft
  <2>4. QED
    BY <2>1, <2>2, <2>3 DEF Gentle, Evolves, StaysApproved
<1>7. CASE AgeClaim(d)
  <2>1. /\ \A e \in Drafts \ {d} : draft'[e] = draft[e]
        /\ draft'[d].status = draft[d].status /\ draft'[d].version = draft[d].version
        /\ draft'[d].invoice = draft[d].invoice /\ draft'[d].payload = draft[d].payload
    BY <1>7 DEF AgeClaim, TypeOK, Draft
  <2>2. UNCHANGED extraction
    BY <1>7 DEF AgeClaim
  <2>3. \A e \in Drafts : draft[e].version \in Nat
    BY DEF TypeOK, Draft
  <2>4. QED
    BY <2>1, <2>2, <2>3 DEF Gentle, Evolves, StaysApproved
<1>8. CASE PollRead(d)
  BY <1>8, SameGentle DEF PollRead
<1>9. CASE PollHeal(d)
  <2>1. UNCHANGED extraction
    BY <1>9 DEF PollHeal
  <2>2. CASE draft[d].status \in Claimed
    BY <1>9, <2>1, <2>2, SetStatusGentle DEF PollHeal, Statuses
  <2>3. CASE draft[d].status \notin Claimed
    BY <1>9, <2>1, <2>3, SameGentle DEF PollHeal
  <2>4. QED
    BY <2>2, <2>3
<1>10. QED
  BY <1>1, <1>3, <1>4, <1>5, <1>6, <1>7, <1>8, <1>9, DraftNext(d) DEF DraftNext

LEMMA RequestGentle ==
  ASSUME TypeOK, NEW r \in Requests, RequestNext(r)
  PROVE  Gentle
<1>1. UNCHANGED extraction
  BY DEF RequestNext, EditRead, EditSave, ApproveRead, ApproveClaim, ApproveEnqueue,
     ApproveEnqueueFails, ApproveEnqueueTimesOut, ApproveUnclaim, DiscardRead,
     DiscardWrite, RequestDies, draftVars
<1>2. UNCHANGED draft => Gentle
  BY <1>1, SameGentle
<1>3. CASE EditSave(r)
  <2>1. request[r].draft \in Drafts /\ request[r].payload \in Payloads
    BY <1>3 DEF EditSave, TypeOK, Request, IdleRequest
  <2>2. CASE UNCHANGED draft
    BY <1>2, <2>2
  <2>3. CASE /\ draft[request[r].draft].status = "ready"
             /\ Update(request[r].draft,
                       [draft[request[r].draft] EXCEPT !.payload = request[r].payload,
                                                       !.version = @ + 1])
    <3>1. draft[request[r].draft] \in Draft /\ draft[request[r].draft].version \in Nat
      BY <2>1 DEF TypeOK, Draft
    <3> DEFINE new == [draft[request[r].draft] EXCEPT !.payload = request[r].payload,
                                                      !.version = @ + 1]
    <3>2. new \in Draft
      BY <2>1, <3>1, BumpType
    <3>3. new.status = "ready" /\ new.version > draft[request[r].draft].version
      BY <2>1, <2>3, <3>1, BumpPayload
    <3>4. new.version \in Nat
      BY <3>2 DEF Draft
    <3>5. new.version >= draft[request[r].draft].version
      BY <3>1, <3>3, <3>4
    <3> HIDE DEF new
    <3>6. Update(request[r].draft, new)
      BY <2>3 DEF new
    <3>7. QED
      BY <1>1, <2>1, <3>2, <3>3, <3>5, <3>6, UpdateGentle
  <2>4. QED
    BY <1>3, <2>2, <2>3 DEF EditSave
<1>4. ASSUME NEW d \in Drafts, NEW s \in {"discarded", "approving"},
             Update(d, [draft[d] EXCEPT !.status = s, !.version = @ + 1])
      PROVE  Gentle
  <2> DEFINE new == [draft[d] EXCEPT !.status = s, !.version = @ + 1]
  <2>1. draft[d] \in Draft /\ draft[d].version \in Nat /\ s \in Statuses
    BY DEF TypeOK, Draft, Statuses
  <2>2. new \in Draft
    BY <2>1, BumpType
  <2>3. new.status = s /\ new.version > draft[d].version
    BY <2>1, BumpStatus
  <2>4. new.version \in Nat
    BY <2>2 DEF Draft
  <2>5. new.version >= draft[d].version
    BY <2>1, <2>3, <2>4
  <2> HIDE DEF new
  <2>6. Update(d, new)
    BY <1>4 DEF new
  <2>7. QED
    BY <1>1, <2>2, <2>3, <2>5, <2>6, UpdateGentle
<1>5. CASE DiscardWrite(r)
  <2>1. request[r].draft \in Drafts
    BY <1>5 DEF DiscardWrite, TypeOK, Request, IdleRequest
  <2>2. QED
    BY <1>2, <1>4, <1>5, <2>1 DEF DiscardWrite
<1>6. CASE ApproveClaim(r)
  <2>1. request[r].draft \in Drafts
    BY <1>6 DEF ApproveClaim, TypeOK, Request, IdleRequest
  <2>2. QED
    BY <1>2, <1>4, <1>6, <2>1 DEF ApproveClaim
<1>7. CASE ApproveUnclaim(r)
  <2>1. request[r].draft \in Drafts
    BY <1>7 DEF ApproveUnclaim, TypeOK, Request, IdleRequest
  <2>2. QED
    BY <1>1, <1>7, <2>1, SetStatusGentle DEF ApproveUnclaim, Statuses
<1>8. QED
  BY <1>2, <1>3, <1>5, <1>6, <1>7, RequestNext(r)
  DEF RequestNext, EditRead, ApproveRead, ApproveEnqueue, ApproveEnqueueFails,
      ApproveEnqueueTimesOut, DiscardRead, RequestDies, draftVars

-----------------------------------------------------------------------------
(* What a step may do to the slots                                         *)

\* No slot starts to work, or changes what it works on.
SlotsSettled ==
    \A w \in Workers : worker'[w].pc \in Working =>
      /\ worker[w].pc \in Working
      /\ worker'[w].job = worker[w].job
      /\ worker'[w].claim = worker[w].claim

\* A slot that has saved its invoice had saved it.
SavesSettled ==
    \A w \in Workers : worker'[w].pc = "saved" =>
      /\ worker[w].pc = "saved" /\ worker'[w].job = worker[w].job
      /\ number'[w] = number[w]

\* The ledger only grows.
Grows == Ledger \subseteq Ledger'

\* The steps that are neither a claim, nor invoice.save(), nor a commit.
Ordinary == Gentle /\ SlotsSettled /\ SavesSettled /\ Grows

LEMMA SameWorkers ==
  ASSUME UNCHANGED <<worker, number, invoices, retired>>
  PROVE  SlotsSettled /\ SavesSettled /\ Grows
BY DEF SlotsSettled, SavesSettled, Grows, Ledger

LEMMA DraftOrdinary ==
  ASSUME TypeOK, NEW d \in Drafts, DraftNext(d)
  PROVE  Ordinary
<1>1. UNCHANGED <<worker, number, invoices, retired>>
  BY DEF DraftNext, CreateDraft, ExtractionDownloaded, ExtractionDownloadFails,
     ExtractionBuilt, ExtractionFails, ExtractionDies, Expire, AgeClaim, PollRead, PollHeal,
     workVars, ledgerVars
<1>2. QED
  BY <1>1, DraftGentle, SameWorkers DEF Ordinary

LEMMA RequestOrdinary ==
  ASSUME TypeOK, NEW r \in Requests, RequestNext(r)
  PROVE  Ordinary
<1>1. UNCHANGED <<worker, number, invoices, retired>>
  BY DEF RequestNext, EditRead, EditSave, ApproveRead, ApproveClaim, ApproveEnqueue,
     ApproveEnqueueFails, ApproveEnqueueTimesOut, ApproveUnclaim, DiscardRead,
     DiscardWrite, RequestDies, workVars, ledgerVars
<1>2. QED
  BY <1>1, RequestGentle, SameWorkers DEF Ordinary

LEMMA CreatorOrdinary ==
  ASSUME TypeOK, NEW c \in Creators, CreatorNext(c)
  PROVE  Ordinary
<1>1. UNCHANGED <<draft, extraction, worker>> /\ Grows
  BY DEF CreatorNext, CreateReserveNumber, CreateStorePdf, CreateSaveInvoice, CreateDies,
     InsertInvoice, draftVars, workVars, ledgerVars, Grows, Ledger
<1>2. \A w \in Workers : number'[w] = number[w]
  BY SlotsDisjoint DEF CreatorNext, CreateReserveNumber, CreateStorePdf, CreateSaveInvoice,
     CreateDies, GenerateInvoiceNumber, TypeOK
<1>3. SlotsSettled /\ SavesSettled
  BY <1>1, <1>2 DEF SlotsSettled, SavesSettled
<1>4. QED
  BY <1>1, <1>3, SameGentle DEF Ordinary

LEMMA DeleteOrdinary ==
  ASSUME TypeOK, NEW i \in invoices, DeleteInvoice(i)
  PROVE  Ordinary
<1>1. UNCHANGED <<draft, extraction, worker, number>> /\ Grows
  BY DEF DeleteInvoice, draftVars, apiVars, workVars, Grows, Ledger
<1>2. SlotsSettled /\ SavesSettled
  BY <1>1 DEF SlotsSettled, SavesSettled
<1>3. QED
  BY <1>1, <1>2, SameGentle DEF Ordinary

LEMMA StutterOrdinary ==
  ASSUME TypeOK, UNCHANGED vars
  PROVE  Ordinary
BY SameGentle, SameWorkers DEF vars, Ordinary

\* The slot of w goes on with its job, at step s.
LEMMA SlotGoesOn ==
  ASSUME TypeOK, NEW w \in Workers, worker[w].pc \in Working,
         NEW s \in Working \ {"saved"},
         worker' = [worker EXCEPT ![w].pc = s],
         \A v \in Workers \ {w} : number'[v] = number[v]
  PROVE  SlotsSettled /\ SavesSettled
<1>1. worker[w] \in Busy
  BY BusySlot DEF Working
<1>2. worker'[w].pc = s /\ worker'[w].job = worker[w].job /\ worker'[w].claim = worker[w].claim
  BY <1>1 DEF TypeOK, Busy
<1>3. \A v \in Workers \ {w} : worker'[v] = worker[v]
  BY DEF TypeOK
<1>4. QED
  BY <1>2, <1>3 DEF SlotsSettled, SavesSettled

\* The slot of w ends its work and goes on with step s.
LEMMA SlotEnds ==
  ASSUME TypeOK, NEW w \in Workers, NEW s \in {"rollback", "done"}, worker[w].pc # "idle",
         worker' = [worker EXCEPT ![w].pc = s],
         \A v \in Workers \ {w} : number'[v] = number[v]
  PROVE  SlotsSettled /\ SavesSettled
<1>1. worker'[w].pc = s /\ \A v \in Workers \ {w} : worker'[v] = worker[v]
  BY BusySlot DEF TypeOK, Busy
<1>2. QED
  BY <1>1 DEF SlotsSettled, SavesSettled, Working

\* The slot of w stops working.
LEMMA SlotStops ==
  ASSUME TypeOK, NEW w \in Workers, NEW slot,
         worker' = [worker EXCEPT ![w] = slot], slot.pc \notin Working,
         \A v \in Workers \ {w} : number'[v] = number[v]
  PROVE  SlotsSettled /\ SavesSettled
<1>1. worker'[w] = slot /\ \A v \in Workers \ {w} : worker'[v] = worker[v]
  BY DEF TypeOK
<1>2. QED
  BY <1>1 DEF SlotsSettled, SavesSettled, Working

LEMMA WorkerOrdinary ==
  ASSUME TypeOK, NEW w \in Workers, WorkerNext(w),
         ~WorkerClaim(w), ~WorkerSaveInvoice(w), ~WorkerCommit(w)
  PROVE  Ordinary
<1> USE DEF draftVars, apiVars, ledgerVars
<1>1. IdleSlot.pc \notin Working
  BY DEF IdleSlot, Working
<1>2. ASSUME UNCHANGED number \/ number' = [number EXCEPT ![w] = 0] \/ GenerateInvoiceNumber(w)
      PROVE  \A v \in Workers \ {w} : number'[v] = number[v]
  BY <1>2 DEF TypeOK, GenerateInvoiceNumber
<1>3. ASSUME worker[w].pc # "idle", SetStatus(worker[w].job.draft, "ready"),
             UNCHANGED extraction
      PROVE  Gentle
  <2>1. worker[w].job.draft \in Drafts
    BY <1>3, BusySlot DEF Busy, Job
  <2>2. QED
    BY <1>3, <2>1, SetStatusGentle DEF Statuses
<1>4. ASSUME NEW j \in queue, WorkerTake(w, j)
      PROVE  Ordinary
  <2> DEFINE slot == [pc |-> "taken", job |-> j, claim |-> 0, owned |-> TRUE]
  <2>1. slot.pc \notin Working
    BY DEF Working
  <2>2. worker' = [worker EXCEPT ![w] = slot] /\ UNCHANGED number
    BY <1>4 DEF WorkerTake
  <2> HIDE DEF slot
  <2>3. SlotsSettled /\ SavesSettled
    BY <1>2, <2>1, <2>2, SlotStops
  <2>4. QED
    BY <1>4, <2>3, SameGentle DEF WorkerTake, Ordinary, Grows, Ledger
<1>5. CASE WorkerSkip(w)
  <2>1. SlotsSettled /\ SavesSettled
    BY <1>1, <1>2, <1>5, SlotStops DEF WorkerSkip
  <2>2. QED
    BY <1>5, <2>1, SameGentle DEF WorkerSkip, Ordinary, Grows, Ledger
<1>6. CASE WorkerRefuse(w)
  <2>1. SlotsSettled /\ SavesSettled
    BY <1>2, <1>6, SlotEnds DEF WorkerRefuse
  <2>2. Gentle
    BY <1>3, <1>6, SameGentle DEF WorkerRefuse
  <2>3. QED
    BY <1>6, <2>1, <2>2 DEF WorkerRefuse, Ordinary, Grows, Ledger
<1>7. CASE WorkerReserveNumber(w)
  <2>1. SlotsSettled /\ SavesSettled
    BY <1>2, <1>7, SlotGoesOn DEF WorkerReserveNumber, Working
  <2>2. QED
    BY <1>7, <2>1, SameGentle DEF WorkerReserveNumber, Ordinary, Grows, Ledger
<1>8. CASE WorkerStorePdf(w)
  <2>1. SlotsSettled /\ SavesSettled
    BY <1>2, <1>8, SlotGoesOn DEF WorkerStorePdf, Working
  <2>2. QED
    BY <1>8, <2>1, SameGentle DEF WorkerStorePdf, Ordinary, Grows, Ledger
<1>9. CASE WorkerThrow(w) \/ WorkerCleanup(w)
  <2>1. PICK s \in {"cleanup", "rollback"} :
          /\ worker' = [worker EXCEPT ![w].pc = s]
          /\ s = "cleanup" => worker[w].pc \in Working
    BY <1>9 DEF TypeOK, WorkerThrow, WorkerCleanup, Working
  <2>2. worker[w].pc # "idle" /\ UNCHANGED number
    BY <1>9 DEF WorkerThrow, WorkerCleanup
  <2>3. SlotsSettled /\ SavesSettled
    <3>1. CASE s = "cleanup"
      BY <1>2, <2>1, <2>2, <3>1, SlotGoesOn DEF Working
    <3>2. CASE s = "rollback"
      BY <1>2, <2>1, <2>2, <3>2, SlotEnds
    <3>3. QED
      BY <3>1, <3>2
  <2>4. QED
    BY <1>9, <2>3, SameGentle DEF WorkerThrow, WorkerCleanup, Ordinary, Grows, Ledger
<1>10. CASE WorkerRollback(w)
  <2>1. SlotsSettled /\ SavesSettled
    BY <1>2, <1>10, SlotEnds DEF WorkerRollback
  <2>2. Gentle
    BY <1>3, <1>10, SameGentle DEF WorkerRollback
  <2>3. QED
    BY <1>10, <2>1, <2>2 DEF WorkerRollback, Ordinary, Grows, Ledger
<1>11. CASE WorkerCrash(w)
  <2>1. SlotsSettled /\ SavesSettled
    BY <1>1, <1>2, <1>11, SlotStops DEF WorkerCrash
  <2>2. QED
    BY <1>11, <2>1, SameGentle DEF WorkerCrash, Ordinary, Grows, Ledger
<1>12. CASE WorkerStall(w)
  <2>1. worker[w].pc # "idle"
    BY <1>12 DEF WorkerStall, TypeOK, Slot, IdleSlot, Working
  <2>2. /\ worker'[w].pc = worker[w].pc /\ worker'[w].job = worker[w].job
        /\ worker'[w].claim = worker[w].claim
    BY <1>12, <2>1, BusySlot DEF WorkerStall, TypeOK, Busy
  <2>3. \A v \in Workers \ {w} : worker'[v] = worker[v]
    BY <1>12 DEF WorkerStall, TypeOK
  <2>4. SlotsSettled /\ SavesSettled
    BY <1>12, <2>2, <2>3 DEF WorkerStall, SlotsSettled, SavesSettled
  <2>5. QED
    BY <1>12, <2>4, SameGentle DEF WorkerStall, Ordinary, Grows, Ledger
<1>13. CASE WorkerFinish(w)
  <2>1. SlotsSettled /\ SavesSettled
    BY <1>1, <1>2, <1>13, SlotStops DEF WorkerFinish
  <2>2. QED
    BY <1>13, <2>1, SameGentle DEF WorkerFinish, Ordinary, Grows, Ledger
<1>14. QED
  BY <1>4, <1>5, <1>6, <1>7, <1>8, <1>9, <1>10, <1>11, <1>12, <1>13, WorkerNext(w) DEF WorkerNext

LEMMA NextOrdinary ==
  ASSUME TypeOK, [Next]_vars
  PROVE  \/ Ordinary
         \/ \E w \in Workers : WorkerClaim(w) \/ WorkerSaveInvoice(w) \/ WorkerCommit(w)
BY DraftOrdinary, RequestOrdinary, WorkerOrdinary, CreatorOrdinary, DeleteOrdinary,
   StutterOrdinary DEF Next

-----------------------------------------------------------------------------
(* Redeliveries                                                            *)

\* Why two slots never share a claim: a slot's claim is at most the version of
\* its draft, and below it while the draft waits to be claimed again. A draft
\* that is gone is claimed no more.
ClaimInv ==
    /\ \A d \in Drafts : extraction[d] = "new" => draft[d].status = "absent"
    /\ \A w \in Workers : worker[w].pc \in Working =>
         LET t == draft[worker[w].job.draft] IN
         /\ extraction[worker[w].job.draft] # "new"
         /\ t.status # "absent" => worker[w].claim <= t.version
         /\ t.status = "approving" => worker[w].claim < t.version
    /\ RedeliverySafe

LEMMA SettledClaims ==
  ASSUME TypeOK, ClaimInv, SlotsSettled, \A d \in Drafts : Evolves(d),
         \A d \in Drafts : extraction'[d] = "new" =>
           extraction[d] = "new" /\ (draft[d].status = "absent" => draft'[d].status = "absent"),
         TypeOK'
  PROVE  ClaimInv'
<1>1. \A d \in Drafts : extraction'[d] = "new" => draft'[d].status = "absent"
  BY DEF ClaimInv
<1>2. ASSUME NEW w \in Workers, worker'[w].pc \in Working
      PROVE  LET t == draft'[worker'[w].job.draft] IN
             /\ extraction'[worker'[w].job.draft] # "new"
             /\ t.status # "absent" => worker'[w].claim <= t.version
             /\ t.status = "approving" => worker'[w].claim < t.version
  <2> DEFINE d == worker[w].job.draft
  <2>1. /\ worker[w].pc \in Working /\ worker'[w].job.draft = d
        /\ worker'[w].claim = worker[w].claim
    BY <1>2 DEF SlotsSettled
  <2>2. d \in Drafts /\ worker[w].claim \in Nat
    BY <2>1, BusySlot DEF Working, Busy, Job
  <2>3. draft[d].version \in Nat /\ draft'[d].version \in Nat
    BY <2>2 DEF TypeOK, Draft
  <2>4. /\ extraction[d] # "new"
        /\ draft[d].status # "absent" => worker[w].claim <= draft[d].version
        /\ draft[d].status = "approving" => worker[w].claim < draft[d].version
    BY <2>1 DEF ClaimInv
  <2>5. extraction'[d] # "new" /\ Evolves(d)
    BY <2>2, <2>4
  <2> HIDE DEF d
  <2>6. draft'[d].status # "absent" => worker[w].claim <= draft'[d].version
    BY <2>2, <2>3, <2>4, <2>5 DEF Evolves
  <2>7. draft'[d].status = "approving" => worker[w].claim < draft'[d].version
    BY <2>2, <2>3, <2>4, <2>5 DEF Evolves
  <2>8. QED
    BY <2>1, <2>5, <2>6, <2>7
<1>3. RedeliverySafe'
  BY DEF ClaimInv, RedeliverySafe, SlotsSettled
<1>4. QED
  BY <1>1, <1>2, <1>3 DEF ClaimInv

LEMMA SaveSettles ==
  ASSUME TypeOK, NEW w \in Workers, WorkerSaveInvoice(w)
  PROVE  /\ SlotsSettled
         /\ worker'[w].pc = "saved" /\ worker'[w].job = worker[w].job
         /\ \A v \in Workers \ {w} : worker'[v] = worker[v]
         /\ UNCHANGED <<draft, extraction, number>>
<1>1. worker[w] \in Busy
  BY BusySlot DEF WorkerSaveInvoice
<1>2. /\ worker'[w].pc = "saved" /\ worker'[w].job = worker[w].job
      /\ worker'[w].claim = worker[w].claim
  BY <1>1 DEF WorkerSaveInvoice, TypeOK, Busy
<1>3. \A v \in Workers \ {w} : worker'[v] = worker[v]
  BY DEF WorkerSaveInvoice, TypeOK
<1>4. worker[w].pc \in Working
  BY DEF WorkerSaveInvoice, Working
<1>5. QED
  BY <1>2, <1>3, <1>4 DEF WorkerSaveInvoice, SlotsSettled, draftVars

\* What the worker's last write leaves in its draft, and in the others.
LEMMA CommitEffect ==
  ASSUME TypeOK, NEW w \in Workers, WorkerCommit(w), NEW e \in Drafts
  PROVE  \/ draft'[e] = draft[e]
         \/ /\ e = worker[w].job.draft /\ draft[e].status # "absent"
            /\ draft'[e].status = "approved"
            /\ draft'[e].version = draft[e].version
            /\ draft'[e].invoice = number[w]
            /\ draft'[e].payload = Recompute[worker[w].job.payload]
<1> DEFINE d == worker[w].job.draft
           p == Recompute[worker[w].job.payload]
           new == [draft[d] EXCEPT !.status = "approved", !.invoice = number[w], !.payload = p]
<1>1. d \in Drafts /\ p \in Payloads
  BY BusySlot, RecomputeType DEF WorkerCommit, Busy, Job
<1>2. draft[d] \in Draft /\ number[w] \in Nat
  BY <1>1 DEF TypeOK
<1>3. new \in Draft
  BY <1>1, <1>2, ApprovalType
<1>4. /\ new.status = "approved" /\ new.version = draft[d].version
      /\ new.invoice = number[w] /\ new.payload = p
  BY <1>2 DEF Draft
<1>5. Update(d, new)
  BY DEF WorkerCommit
<1> HIDE DEF new
<1>6. \/ draft'[e] = draft[e]
      \/ /\ e = d /\ draft[e].status # "absent"
         /\ draft'[e].status = new.status /\ draft'[e].version = new.version
         /\ draft'[e].invoice = new.invoice /\ draft'[e].payload = new.payload
  BY <1>1, <1>3, <1>5, UpdateEffect DEF TypeOK
<1>7. QED
  BY <1>4, <1>6

LEMMA ClaimEffect ==
  ASSUME TypeOK, NEW w \in Workers, WorkerClaim(w)
  PROVE  LET d == worker[w].job.draft IN
         /\ d \in Drafts
         /\ draft[d].status = "approving"
         /\ draft'[d].status = "processing"
         /\ draft'[d].version = draft[d].version
         /\ \A e \in Drafts \ {d} : draft'[e] = draft[e]
         /\ UNCHANGED <<extraction, number, invoices, retired>>
         /\ worker[w].pc = "taken"
         /\ worker'[w].pc = "claimed"
         /\ worker'[w].job = worker[w].job
         /\ worker'[w].claim = draft[d].version
         /\ \A v \in Workers \ {w} : worker'[v] = worker[v]
<1> DEFINE d == worker[w].job.draft
<1>1. worker[w] \in Busy /\ d \in Drafts
  BY BusySlot DEF WorkerClaim, Busy, Job
<1>2. draft[d] \in Draft
  BY <1>1 DEF TypeOK
<1>3. draft'[d].status = "processing" /\ draft'[d].version = draft[d].version
  BY <1>1, <1>2 DEF WorkerClaim, SetStatus, Update, TypeOK, Draft
<1>4. \A e \in Drafts \ {d} : draft'[e] = draft[e]
  BY <1>1 DEF WorkerClaim, SetStatus, Update, TypeOK
<1>5. /\ worker'[w].pc = "claimed" /\ worker'[w].job = worker[w].job
      /\ worker'[w].claim = draft[d].version
  BY <1>1 DEF WorkerClaim, TypeOK, Busy
<1>6. \A v \in Workers \ {w} : worker'[v] = worker[v]
  BY DEF WorkerClaim, TypeOK
<1>7. QED
  BY <1>1, <1>3, <1>4, <1>5, <1>6 DEF WorkerClaim, ledgerVars

LEMMA StepClaims == TypeOK /\ ClaimInv /\ [Next]_vars => ClaimInv'
<1> SUFFICES ASSUME TypeOK, ClaimInv, [Next]_vars
             PROVE  ClaimInv'
  OBVIOUS
<1>1. TypeOK'
  BY NextTypeOK
<1>2. CASE Ordinary
  BY <1>1, <1>2, SettledClaims DEF Ordinary, Gentle
<1>3. ASSUME NEW w \in Workers, WorkerSaveInvoice(w)
      PROVE  ClaimInv'
  <2>1. SlotsSettled /\ UNCHANGED <<draft, extraction>>
    BY <1>3, SaveSettles
  <2>2. Gentle
    BY <2>1, SameGentle
  <2>3. QED
    BY <1>1, <2>1, <2>2, SettledClaims DEF Gentle
<1>4. ASSUME NEW w \in Workers, WorkerCommit(w)
      PROVE  ClaimInv'
  <2>1. \A e \in Drafts : draft[e].version \in Nat
    BY DEF TypeOK, Draft
  <2>2. \A e \in Drafts : Evolves(e)
    BY <1>4, <2>1, CommitEffect DEF Evolves
  <2>3. UNCHANGED extraction
    BY <1>4 DEF WorkerCommit
  <2>4. \A e \in Drafts : draft[e].status = "absent" => draft'[e].status = "absent"
    BY <1>4, CommitEffect
  <2>5. SlotsSettled
    BY <1>4 DEF WorkerCommit, SlotsSettled, TypeOK, IdleSlot, Working
  <2>6. QED
    BY <1>1, <2>2, <2>3, <2>4, <2>5, SettledClaims
<1>5. ASSUME NEW w \in Workers, WorkerClaim(w)
      PROVE  ClaimInv'
  <2> DEFINE d == worker[w].job.draft
  <2>1. /\ d \in Drafts
        /\ draft[d].status = "approving" /\ draft'[d].status = "processing"
        /\ draft'[d].version = draft[d].version
        /\ \A e \in Drafts \ {d} : draft'[e] = draft[e]
        /\ UNCHANGED extraction
        /\ worker'[w].pc = "claimed" /\ worker'[w].job.draft = d
        /\ worker'[w].claim = draft[d].version
        /\ \A v \in Workers \ {w} : worker'[v] = worker[v]
    BY <1>5, ClaimEffect
  <2>2. draft[d].version \in Nat
    BY <2>1 DEF TypeOK, Draft
  <2> HIDE DEF d
  <2>3. \A e \in Drafts : extraction'[e] = "new" => draft'[e].status = "absent"
    BY <2>1 DEF ClaimInv
  <2>4. ASSUME NEW v \in Workers \ {w}, worker[v].pc \in Working
        PROVE  LET t == draft'[worker[v].job.draft] IN
               /\ extraction[worker[v].job.draft] # "new"
               /\ t.status # "absent" => worker[v].claim <= t.version
               /\ t.status = "approving" => worker[v].claim < t.version
               /\ worker[v].job.draft = d => worker[v].claim # draft[d].version
    <3>1. worker[v].job.draft \in Drafts /\ worker[v].claim \in Nat
      BY <2>4, BusySlot DEF Working, Busy, Job
    <3>2. CASE worker[v].job.draft = d
      BY <2>1, <2>2, <2>4, <3>1, <3>2 DEF ClaimInv
    <3>3. CASE worker[v].job.draft # d
      BY <2>1, <2>4, <3>1, <3>3 DEF ClaimInv
    <3>4. QED
      BY <3>2, <3>3
  <2>5. ASSUME NEW v \in Workers, worker'[v].pc \in Working
        PROVE  LET t == draft'[worker'[v].job.draft] IN
               /\ extraction'[worker'[v].job.draft] # "new"
               /\ t.status # "absent" => worker'[v].claim <= t.version
               /\ t.status = "approving" => worker'[v].claim < t.version
    <3>1. CASE v = w
      <4>1. extraction[d] # "new"
        BY <2>1 DEF ClaimInv
      <4>2. QED
        BY <2>1, <2>2, <3>1, <4>1
    <3>2. CASE v # w
      BY <2>1, <2>4, <2>5, <3>2
    <3>3. QED
      BY <3>1, <3>2
  <2>6. RedeliverySafe'
    <3> SUFFICES ASSUME NEW u \in Workers, NEW v \in Workers, u # v,
                        worker'[u].pc \in Working, worker'[v].pc \in Working,
                        worker'[u].job.draft = worker'[v].job.draft
                 PROVE  worker'[u].claim # worker'[v].claim
      BY DEF RedeliverySafe
    <3>1. CASE u = w
      BY <2>1, <2>4, <3>1
    <3>2. CASE v = w
      BY <2>1, <2>4, <3>2
    <3>3. CASE u # w /\ v # w
      BY <2>1, <3>3 DEF ClaimInv, RedeliverySafe
    <3>4. QED
      BY <3>1, <3>2, <3>3
  <2>7. QED
    BY <2>3, <2>5, <2>6 DEF ClaimInv
<1>6. QED
  BY <1>2, <1>3, <1>4, <1>5, NextOrdinary

LEMMA InitClaims == Init => ClaimInv
BY DEF Init, ClaimInv, NoDocument, IdleSlot, Working, RedeliverySafe

\* However often a job is delivered, stalls or is handed out again, and however
\* many approvals of a draft are recovered and retried, no two slots work under
\* one claim.
THEOREM ClaimsExclusive == Spec => []RedeliverySafe
<1>1. ClaimInv => RedeliverySafe
  BY DEF ClaimInv
<1>2. QED
  BY <1>1, InitTypeOK, NextTypeOK, InitClaims, StepClaims, PTL DEF Spec

-----------------------------------------------------------------------------
(* Approved drafts                                                         *)

\* Why an approved draft has its invoice: a slot that will commit has saved the
\* invoice it will name.
ApprovedInv ==
    /\ ApprovedHasInvoice
    /\ \A w \in Workers : worker[w].pc = "saved" =>
         \E i \in Ledger : /\ i.number = number[w]
                           /\ i.draft = worker[w].job.draft
                           /\ i.payload = Recompute[worker[w].job.payload]

LEMMA StepApproved == TypeOK /\ ApprovedInv /\ [Next]_vars => ApprovedInv'
<1> SUFFICES ASSUME TypeOK, ApprovedInv, [Next]_vars
             PROVE  ApprovedInv'
  OBVIOUS
<1>1. ASSUME \A d \in Drafts : StaysApproved(d), Grows
      PROVE  ApprovedHasInvoice'
  BY <1>1 DEF ApprovedInv, ApprovedHasInvoice, StaysApproved, Grows
<1>2. ASSUME SavesSettled, Grows
      PROVE  (\A w \in Workers : worker[w].pc = "saved" =>
                \E i \in Ledger : /\ i.number = number[w]
                                  /\ i.draft = worker[w].job.draft
                                  /\ i.payload = Recompute[worker[w].job.payload])'
  BY <1>2 DEF ApprovedInv, SavesSettled, Grows
<1>3. CASE Ordinary
  BY <1>1, <1>2, <1>3 DEF Ordinary, Gentle, ApprovedInv
<1>4. ASSUME NEW w \in Workers, WorkerClaim(w)
      PROVE  ApprovedInv'
  <2>1. \A d \in Drafts : StaysApproved(d)
    BY <1>4, ClaimEffect DEF StaysApproved
  <2>2. SavesSettled /\ Grows
    BY <1>4, ClaimEffect DEF SavesSettled, Grows, Ledger
  <2>3. QED
    BY <1>1, <1>2, <2>1, <2>2 DEF ApprovedInv
<1>5. ASSUME NEW w \in Workers, WorkerSaveInvoice(w)
      PROVE  ApprovedInv'
  <2>1. UNCHANGED <<draft, number>> /\ worker'[w].job = worker[w].job
        /\ \A v \in Workers \ {w} : worker'[v] = worker[v]
    BY <1>5, SaveSettles
  <2> DEFINE new == [number |-> number[w], draft |-> worker[w].job.draft,
                     payload |-> Recompute[worker[w].job.payload]]
  <2>2. Ledger' = Ledger \cup {new}
    BY <1>5 DEF WorkerSaveInvoice, InsertInvoice, Ledger
  <2>3. Grows
    BY <2>2 DEF Grows
  <2>4. ApprovedHasInvoice'
    BY <1>1, <2>1, <2>3 DEF StaysApproved
  <2>5. new \in Ledger' /\ new.number = number'[w] /\ new.draft = worker'[w].job.draft
        /\ new.payload = Recompute[worker'[w].job.payload]
    BY <2>1, <2>2
  <2> HIDE DEF new
  <2>6. ASSUME NEW v \in Workers, worker'[v].pc = "saved"
        PROVE  \E i \in Ledger' : /\ i.number = number'[v]
                                  /\ i.draft = worker'[v].job.draft
                                  /\ i.payload = Recompute[worker'[v].job.payload]
    <3>1. CASE v = w
      BY <2>5, <3>1
    <3>2. CASE v # w
      BY <2>1, <2>3, <2>6, <3>2 DEF ApprovedInv, Grows
    <3>3. QED
      BY <3>1, <3>2
  <2>7. QED
    BY <2>4, <2>6 DEF ApprovedInv
<1>6. ASSUME NEW w \in Workers, WorkerCommit(w)
      PROVE  ApprovedInv'
  <2>1. Grows /\ Ledger' = Ledger
    BY <1>6 DEF WorkerCommit, Grows, Ledger, ledgerVars
  <2>2. SavesSettled
    BY <1>6 DEF WorkerCommit, SavesSettled, TypeOK, IdleSlot
  <2>3. ASSUME NEW d \in Drafts, draft'[d].status = "approved"
        PROVE  \E i \in Ledger : /\ i.number = draft'[d].invoice
                                 /\ i.draft = d
                                 /\ i.payload = draft'[d].payload
    <3>1. CASE draft'[d] = draft[d]
      BY <2>3, <3>1 DEF ApprovedInv, ApprovedHasInvoice
    <3>2. CASE /\ d = worker[w].job.draft
               /\ draft'[d].invoice = number[w]
               /\ draft'[d].payload = Recompute[worker[w].job.payload]
      BY <1>6, <3>2 DEF ApprovedInv, WorkerCommit
    <3>3. QED
      BY <1>6, <3>1, <3>2, CommitEffect
  <2>4. QED
    BY <1>2, <2>1, <2>2, <2>3 DEF ApprovedInv, ApprovedHasInvoice
<1>7. QED
  BY <1>3, <1>4, <1>5, <1>6, NextOrdinary

LEMMA InitApproved == Init => ApprovedInv
BY DEF Init, ApprovedInv, ApprovedHasInvoice, NoDocument, IdleSlot

\* A draft that says 'approved' names an invoice that was saved for it, with its
\* payload: the worker's order of writes, invoice first, is enough, whatever
\* crashes or overtakes it.
THEOREM ApprovalsInvoiced == Spec => []ApprovedHasInvoice
<1>1. ApprovedInv => ApprovedHasInvoice
  BY DEF ApprovedInv
<1>2. QED
  BY <1>1, InitTypeOK, NextTypeOK, InitApproved, StepApproved, PTL DEF Spec

-----------------------------------------------------------------------------
(* A draft that is still to be extracted                                   *)

Unread == {"absent", "extracting", "discarded"}
Asking == {"enqueue", "unclaim"}

\* Why an extraction never writes over an approval: until it has ended nobody
\* has seen its draft ready, so no handler, job or slot is about it.
UnreadInv ==
    /\ \A d \in Drafts : extraction[d] # "ended" => draft[d].status \in Unread
    /\ \A r \in Requests : request[r].pc \in Asking => extraction[request[r].draft] = "ended"
    /\ \A j \in queue : extraction[j.draft] = "ended"
    /\ \A w \in Workers : worker[w].pc # "idle" => extraction[worker[w].job.draft] = "ended"

\* What a write of a status does.
LEMMA StatusEffect ==
  ASSUME TypeOK, NEW d \in Drafts, NEW s \in Statuses, SetStatus(d, s), NEW e \in Drafts
  PROVE  \/ draft'[e] = draft[e]
         \/ /\ e = d /\ draft[e].status # "absent"
            /\ draft'[e].status = s
            /\ draft'[e].version = draft[e].version
            /\ draft'[e].payload = draft[e].payload
<1> DEFINE new == [draft[d] EXCEPT !.status = s]
<1>1. draft[d] \in Draft
  BY DEF TypeOK
<1>2. new \in Draft /\ new.status = s /\ new.version = draft[d].version /\ new.payload = draft[d].payload
  BY <1>1 DEF Draft
<1>3. Update(d, new)
  BY DEF SetStatus
<1> HIDE DEF new
<1> QED
  BY <1>2, <1>3, UpdateEffect DEF TypeOK

\* What a versioned write of a status does.
Bumped(d, s) == [draft[d] EXCEPT !.status = s, !.version = @ + 1]

LEMMA BumpEffect ==
  ASSUME TypeOK, NEW d \in Drafts, NEW s \in Statuses, Update(d, Bumped(d, s)), NEW e \in Drafts
  PROVE  \/ draft'[e] = draft[e]
         \/ /\ e = d /\ draft[e].status # "absent"
            /\ draft'[e].status = s
            /\ draft'[e].version = draft[e].version + 1
            /\ draft'[e].payload = draft[e].payload
<1> DEFINE new == [draft[d] EXCEPT !.status = s, !.version = @ + 1]
<1>1. draft[d] \in Draft /\ draft[d].version + 1 \in Nat
  BY DEF TypeOK, Draft
<1>2. new \in Draft /\ new.status = s /\ new.version = draft[d].version + 1 /\ new.payload = draft[d].payload
  BY <1>1 DEF Draft
<1> HIDE DEF new
<1>3. Update(d, new)
  BY DEF new, Bumped
<1> QED
  BY <1>2, <1>3, UpdateEffect DEF TypeOK

\* An edit keeps the status.
LEMMA EditEffect ==
  ASSUME TypeOK, NEW d \in Drafts, NEW p \in Payloads,
         Update(d, [draft[d] EXCEPT !.payload = p, !.version = @ + 1]), NEW e \in Drafts
  PROVE  \/ draft'[e] = draft[e]
         \/ e = d /\ draft[e].status # "absent" /\ draft'[e].status = draft[e].status
<1> DEFINE new == [draft[d] EXCEPT !.payload = p, !.version = @ + 1]
<1>1. draft[d] \in Draft /\ draft[d].version + 1 \in Nat
  BY DEF TypeOK, Draft
<1>2. new \in Draft /\ new.status = draft[d].status
  BY <1>1 DEF Draft
<1> HIDE DEF new
<1>3. Update(d, new)
  BY DEF new
<1> QED
  BY <1>2, <1>3, UpdateEffect DEF TypeOK

LEMMA BuiltEffect ==
  ASSUME TypeOK, NEW d \in Drafts, ExtractionBuilt(d), NEW e \in Drafts
  PROVE  \/ draft'[e] = draft[e]
         \/ e = d /\ draft[e].status # "absent" /\ draft'[e].status = "ready"
<1>1. PICK p \in Payloads : Update(d, [draft[d] EXCEPT !.status = "ready", !.payload = p])
  BY DEF ExtractionBuilt
<1> DEFINE new == [draft[d] EXCEPT !.status = "ready", !.payload = p]
<1>2. new \in Draft /\ new.status = "ready"
  BY ExtractedEffect DEF TypeOK
<1>3. Update(d, new)
  BY <1>1
<1> HIDE DEF new
<1> QED
  BY <1>2, <1>3, UpdateEffect DEF TypeOK

\* Who asks about a draft, by the type of requests.
LEMMA AskingDraft ==
  ASSUME TypeOK, NEW r \in Requests, request[r].pc \in Asking \cup {"save", "claim"}
  PROVE  /\ request[r] \in [pc : {"save", "claim", "enqueue", "unclaim"}, draft : Drafts,
                            payload : Payloads, version : Nat, checked : BOOLEAN]
         /\ request[r].draft \in Drafts /\ request[r].payload \in Payloads
         /\ request[r].version \in Nat
BY DEF TypeOK, Request, IdleRequest, Asking

\* The drafts a step leaves alone stay unread; what it is about is read.
LEMMA UnreadFrame ==
  ASSUME UnreadInv, UNCHANGED extraction,
         \A d \in Drafts : \/ draft'[d].status \in {draft[d].status} \cup Unread
                           \/ draft[d].status \notin Unread \/ extraction[d] = "ended",
         \A r \in Requests : request'[r].pc \in Asking =>
            \/ request[r].pc \in Asking /\ request'[r].draft = request[r].draft
            \/ extraction[request'[r].draft] = "ended",
         \A j \in queue' : j \in queue \/ extraction[j.draft] = "ended",
         \A w \in Workers : worker'[w].pc # "idle" =>
            \/ worker[w].pc # "idle" /\ worker'[w].job.draft = worker[w].job.draft
            \/ extraction[worker'[w].job.draft] = "ended"
  PROVE  UnreadInv'
BY DEF UnreadInv

LEMMA DraftUnread ==
  ASSUME TypeOK, UnreadInv, NEW d \in Drafts, DraftNext(d)
  PROVE  UnreadInv'
<1> USE DEF TypeOK
<1>1. UNCHANGED <<request, queue, worker>>
  BY DEF DraftNext, CreateDraft, ExtractionDownloaded, ExtractionDownloadFails, ExtractionBuilt,
     ExtractionFails, ExtractionDies, Expire, AgeClaim, PollRead, PollHeal, apiVars, workVars
<1>2. ASSUME \A e \in Drafts : extraction[e] = "ended" => extraction'[e] = "ended",
             \A e \in Drafts : extraction'[e] # "ended" => draft'[e].status \in Unread
      PROVE  UnreadInv'
  <2>1. \A r \in Requests : request[r].pc \in Asking => request[r].draft \in Drafts
    BY AskingDraft
  <2>2. \A j \in queue : j.draft \in Drafts
    BY DEF Job
  <2>3. \A w \in Workers : worker[w].pc # "idle" => worker[w].job.draft \in Drafts
    BY BusySlot DEF Busy, Job
  <2> QED
    BY <1>1, <1>2, <2>1, <2>2, <2>3 DEF UnreadInv
<1>3. CASE CreateDraft(d)
  <2>1. draft'[d].status = "extracting" /\ \A e \in Drafts \ {d} : draft'[e] = draft[e]
    BY <1>3 DEF CreateDraft, Draft
  <2>2. \A e \in Drafts : extraction[e] = "ended" <=> extraction'[e] = "ended"
    BY <1>3 DEF CreateDraft
  <2> QED
    BY <1>2, <2>1, <2>2 DEF UnreadInv, Unread
<1>4. CASE ExtractionDownloaded(d) \/ ExtractionDownloadFails(d) \/ ExtractionDies(d)
  <2>1. \A e \in Drafts : extraction'[e] # "ended" => extraction[e] # "ended"
    BY <1>4 DEF ExtractionDownloaded, ExtractionDownloadFails, ExtractionDies
  <2>2. \A e \in Drafts : extraction[e] = "ended" => extraction'[e] = "ended"
    BY <1>4 DEF ExtractionDownloaded, ExtractionDownloadFails, ExtractionDies
  <2>3. UNCHANGED draft
    BY <1>4 DEF ExtractionDownloaded, ExtractionDownloadFails, ExtractionDies
  <2> QED
    BY <1>2, <2>1, <2>2, <2>3 DEF UnreadInv
<1>5. CASE ExtractionBuilt(d) \/ ExtractionFails(d)
  <2>1. extraction' = [extraction EXCEPT ![d] = "ended"]
    BY <1>5 DEF ExtractionBuilt, ExtractionFails
  <2>2. \A e \in Drafts \ {d} : draft'[e] = draft[e]
    BY <1>5, BuiltEffect, StatusEffect DEF ExtractionFails, Statuses
  <2> QED
    BY <1>2, <2>1, <2>2 DEF UnreadInv
<1>6. CASE Expire(d)
  <2>1. draft'[d].status = "absent" /\ \A e \in Drafts \ {d} : draft'[e] = draft[e]
    BY <1>6 DEF Expire, NoDocument
  <2> QED
    BY <1>2, <1>6, <2>1 DEF Expire, UnreadInv, Unread
<1>7. CASE AgeClaim(d)
  <2>1. \A e \in Drafts : draft'[e].status = draft[e].status
    BY <1>7 DEF AgeClaim, Draft
  <2> QED
    BY <1>2, <1>7, <2>1 DEF AgeClaim, UnreadInv
<1>8. CASE PollRead(d)
  BY <1>2, <1>8 DEF PollRead, UnreadInv
<1>9. CASE PollHeal(d)
  <2>1. \A e \in Drafts : draft'[e] = draft[e] \/ draft[e].status \in Claimed
    BY <1>9, StatusEffect DEF PollHeal, Statuses
  <2> QED
    BY <1>2, <1>9, <2>1 DEF PollHeal, UnreadInv, Unread, Claimed
<1> QED
  BY <1>3, <1>4, <1>5, <1>6, <1>7, <1>8, <1>9 DEF DraftNext

LEMMA RequestUnread ==
  ASSUME TypeOK, UnreadInv, NEW r \in Requests, RequestNext(r)
  PROVE  UnreadInv'
<1>1. UNCHANGED <<extraction, worker>>
  BY DEF RequestNext, EditRead, EditSave, ApproveRead, ApproveClaim, ApproveEnqueue,
     ApproveEnqueueFails, ApproveEnqueueTimesOut, ApproveUnclaim, DiscardRead,
     DiscardWrite, RequestDies, draftVars, workVars
<1>2. \A s \in Requests \ {r} : request'[s] = request[s]
  BY DEF RequestNext, EditRead, EditSave, ApproveRead, ApproveClaim, ApproveEnqueue,
     ApproveEnqueueFails, ApproveEnqueueTimesOut, ApproveUnclaim, DiscardRead,
     DiscardWrite, RequestDies, TypeOK
<1>3. ASSUME UNCHANGED queue, request'[r].pc \notin Asking,
             \A d \in Drafts : \/ draft'[d].status \in {draft[d].status} \cup Unread
                               \/ draft[d].status \notin Unread \/ extraction[d] = "ended"
      PROVE  UnreadInv'
  BY <1>1, <1>2, <1>3, UnreadFrame
<1>4. CASE \/ \E d \in Drafts : DiscardRead(r, d)
           \/ \E d \in Drafts, p \in Payloads : EditRead(r, d, p) \/ ApproveRead(r, d, p)
           \/ RequestDies(r)
  <2>1. UNCHANGED <<queue, draft>> /\ request'[r].pc \notin Asking
    BY <1>4 DEF DiscardRead, EditRead, ApproveRead, RequestDies, TypeOK, IdleRequest, Asking,
       draftVars, workVars
  <2> QED
    BY <1>3, <2>1
<1>5. ASSUME request'[r] = IdleRequest
      PROVE  request'[r].pc \notin Asking
  BY <1>5 DEF IdleRequest, Asking
<1>6. CASE EditSave(r)
  <2>1. request'[r] = IdleRequest /\ UNCHANGED queue
    BY <1>6 DEF EditSave, TypeOK, workVars
  <2>2. request[r].draft \in Drafts /\ request[r].payload \in Payloads
    BY <1>6, AskingDraft DEF EditSave
  <2>3. \A d \in Drafts : draft'[d] = draft[d] \/ draft[d].status = "ready"
    BY <1>6, <2>2, EditEffect DEF EditSave
  <2> QED
    BY <1>3, <1>5, <2>1, <2>3 DEF Unread
<1>7. CASE DiscardWrite(r)
  <2>1. request'[r] = IdleRequest /\ UNCHANGED queue
    BY <1>7 DEF DiscardWrite, TypeOK, workVars
  <2>2. request[r].draft \in Drafts
    BY <1>7 DEF DiscardWrite, TypeOK, Request, IdleRequest
  <2>3. \/ UNCHANGED draft
        \/ Update(request[r].draft, Bumped(request[r].draft, "discarded"))
    BY <1>7 DEF DiscardWrite, Bumped
  <2>4. \A d \in Drafts : draft'[d] = draft[d] \/ draft'[d].status = "discarded"
    BY <2>2, <2>3, BumpEffect DEF Statuses
  <2> QED
    BY <1>3, <1>5, <2>1, <2>4 DEF Unread
<1>8. CASE ApproveClaim(r)
  <2>1. request[r].draft \in Drafts
    BY <1>8, AskingDraft DEF ApproveClaim
  <2>2. UNCHANGED queue
    BY <1>8 DEF ApproveClaim, workVars
  <2>3. CASE draft[request[r].draft].status = "ready" /\ draft[request[r].draft].version = request[r].version
    <3>1. extraction[request[r].draft] = "ended"
      BY <2>1, <2>3 DEF UnreadInv, Unread
    <3>2. Update(request[r].draft, Bumped(request[r].draft, "approving"))
      BY <1>8, <2>3 DEF ApproveClaim, Bumped
    <3>3. \A d \in Drafts : draft'[d] = draft[d] \/ draft[d].status = "ready"
      BY <2>1, <2>3, <3>2, BumpEffect DEF Statuses
    <3>4. request' = [request EXCEPT ![r] = [request[r] EXCEPT !.pc = "enqueue", !.version = @ + 1]]
      BY <1>8, <2>3 DEF ApproveClaim
    <3>5. request'[r].draft = request[r].draft
      BY <1>8, <3>4, AskingDraft DEF ApproveClaim, TypeOK
    <3> QED
      BY <1>1, <1>2, <2>2, <3>1, <3>3, <3>5, UnreadFrame DEF Unread
  <2>4. CASE ~(draft[request[r].draft].status = "ready" /\ draft[request[r].draft].version = request[r].version)
    <3>1. request'[r] = IdleRequest /\ UNCHANGED draft
      BY <1>8, <2>4 DEF ApproveClaim, TypeOK
    <3> QED
      BY <1>3, <1>5, <2>2, <3>1
  <2> QED
    BY <2>3, <2>4
<1>9. CASE ApproveEnqueue(r) \/ ApproveEnqueueTimesOut(r) \/ ApproveEnqueueFails(r)
  <2>1. request[r].pc \in Asking /\ extraction[request[r].draft] = "ended" /\ UNCHANGED draft
    BY <1>9 DEF ApproveEnqueue, ApproveEnqueueTimesOut, ApproveEnqueueFails, UnreadInv, Asking, draftVars
  <2>2. \A j \in queue' : j \in queue \/ j.draft = request[r].draft
    BY <1>9 DEF ApproveEnqueue, ApproveEnqueueTimesOut, ApproveEnqueueFails, AddJob, workVars
  <2>3. request'[r].pc \in Asking => request'[r].draft = request[r].draft
    BY <1>9, <2>1, AskingDraft DEF ApproveEnqueue, ApproveEnqueueTimesOut, ApproveEnqueueFails, TypeOK,
       IdleRequest, Asking
  <2> QED
    BY <1>1, <1>2, <2>1, <2>2, <2>3, UnreadFrame
<1>10. CASE ApproveUnclaim(r)
  <2>1. request'[r] = IdleRequest /\ UNCHANGED queue
    BY <1>10 DEF ApproveUnclaim, TypeOK, workVars
  <2>2. request[r].draft \in Drafts /\ extraction[request[r].draft] = "ended"
    BY <1>10, AskingDraft DEF ApproveUnclaim, UnreadInv, Asking
  <2>3. \A d \in Drafts : draft'[d] = draft[d] \/ extraction[d] = "ended"
    BY <1>10, <2>2, StatusEffect DEF ApproveUnclaim, Statuses
  <2> QED
    BY <1>3, <1>5, <2>1, <2>3
<1> QED
  BY <1>4, <1>6, <1>7, <1>8, <1>9, <1>10 DEF RequestNext

LEMMA WorkerUnread ==
  ASSUME TypeOK, UnreadInv, NEW w \in Workers, WorkerNext(w)
  PROVE  UnreadInv'
<1>1. UNCHANGED <<extraction, request>>
  BY DEF WorkerNext, WorkerTake, WorkerClaim, WorkerSkip, WorkerRefuse, WorkerReserveNumber,
     WorkerStorePdf, WorkerSaveInvoice, WorkerCommit, WorkerThrow, WorkerCleanup, WorkerRollback,
     WorkerFinish, WorkerCrash, WorkerStall, draftVars, apiVars
<1>2. \A v \in Workers \ {w} : worker'[v] = worker[v]
  BY DEF TypeOK, WorkerNext, WorkerTake, WorkerClaim, WorkerSkip, WorkerRefuse, WorkerReserveNumber,
     WorkerStorePdf, WorkerSaveInvoice, WorkerCommit, WorkerThrow, WorkerCleanup, WorkerRollback,
     WorkerFinish, WorkerCrash, WorkerStall
<1>3. CASE \E j \in queue : WorkerTake(w, j)
  <2>1. PICK j \in queue : WorkerTake(w, j)
    BY <1>3
  <2>2. worker'[w].job = j /\ UNCHANGED draft /\ queue' \subseteq queue
    BY <2>1 DEF WorkerTake, TypeOK, draftVars
  <2>3. extraction[j.draft] = "ended"
    BY DEF UnreadInv
  <2> QED
    BY <1>1, <1>2, <2>2, <2>3, UnreadFrame
<1>4. CASE worker[w] # IdleSlot
  <2> DEFINE d == worker[w].job.draft
  <2>1. worker[w].pc # "idle" /\ worker[w] \in Busy
    BY <1>4, BusySlot DEF TypeOK, Slot, Working
  <2>2. d \in Drafts /\ extraction[d] = "ended" /\ Recompute[worker[w].job.payload] \in Payloads
    BY <2>1, RecomputeType DEF Busy, Job, UnreadInv
  <2>3. \A j \in queue' : j \in queue \/ j.draft = d
    BY <2>1, <1>4 DEF WorkerNext, WorkerTake, WorkerClaim, WorkerSkip, WorkerRefuse, WorkerReserveNumber,
       WorkerStorePdf, WorkerSaveInvoice, WorkerCommit, WorkerThrow, WorkerCleanup, WorkerRollback,
       WorkerFinish, WorkerCrash, WorkerStall, Requeue, Busy, Job, workVars
  <2>4. worker'[w].pc # "idle" => worker'[w].job = worker[w].job
    BY <2>1, <1>4 DEF TypeOK, Busy, IdleSlot, WorkerNext, WorkerTake, WorkerClaim, WorkerSkip, WorkerRefuse,
       WorkerReserveNumber, WorkerStorePdf, WorkerSaveInvoice, WorkerCommit, WorkerThrow,
       WorkerCleanup, WorkerRollback, WorkerFinish, WorkerCrash, WorkerStall
  <2>5. \A e \in Drafts : draft'[e] = draft[e] \/ e = d
    <3>1. CASE WorkerClaim(w) \/ WorkerRefuse(w) \/ WorkerRollback(w)
      <4>1. \/ UNCHANGED draft \/ SetStatus(d, "ready") \/ SetStatus(d, "processing")
        BY <3>1 DEF WorkerClaim, WorkerRefuse, WorkerRollback
      <4> QED
        BY <2>2, <4>1, StatusEffect DEF Statuses
    <3>2. CASE WorkerCommit(w)
      BY <3>2, CommitEffect
    <3>3. CASE ~(WorkerClaim(w) \/ WorkerRefuse(w) \/ WorkerRollback(w) \/ WorkerCommit(w))
      BY <1>4, <3>3 DEF WorkerNext, WorkerTake, WorkerSkip, WorkerReserveNumber, WorkerStorePdf,
         WorkerSaveInvoice, WorkerThrow, WorkerCleanup, WorkerFinish, WorkerCrash, WorkerStall, draftVars
    <3> QED
      BY <3>1, <3>2, <3>3
  <2> HIDE DEF d
  <2>6. worker'[w].pc # "idle" => worker'[w].job.draft = d
    BY <2>4 DEF d
  <2> QED
    BY <1>1, <1>2, <2>1, <2>2, <2>3, <2>5, <2>6, UnreadFrame
<1> QED
  BY <1>3, <1>4 DEF WorkerNext, WorkerClaim, WorkerSkip, WorkerRefuse, WorkerReserveNumber, WorkerStorePdf,
     WorkerSaveInvoice, WorkerCommit, WorkerThrow, WorkerCleanup, WorkerRollback, WorkerFinish,
     WorkerCrash, WorkerStall, IdleSlot

LEMMA StepUnread == TypeOK /\ UnreadInv /\ [Next]_vars => UnreadInv'
<1> SUFFICES ASSUME TypeOK, UnreadInv, [Next]_vars
             PROVE  UnreadInv'
  OBVIOUS
<1>1. CASE \E c \in Creators : CreatorNext(c)
  BY <1>1 DEF CreatorNext, CreateReserveNumber, CreateStorePdf, CreateSaveInvoice, CreateDies,
     draftVars, workVars, UnreadInv
<1>2. CASE \E i \in invoices : DeleteInvoice(i)
  BY <1>2 DEF DeleteInvoice, draftVars, apiVars, workVars, UnreadInv
<1>3. CASE UNCHANGED vars
  BY <1>3 DEF vars, UnreadInv
<1> QED
  BY <1>1, <1>2, <1>3, DraftUnread, RequestUnread, WorkerUnread DEF Next

LEMMA InitUnread == Init => UnreadInv
BY DEF Init, UnreadInv, Unread, Asking, NoDocument, IdleRequest, IdleSlot

-----------------------------------------------------------------------------
(* The payload of a claimed draft                                          *)

\* What a step may do to the payload of a draft that is claimed or approved.
PayloadKept(d) ==
    /\ draft[d].status \in Claimed \cup {"approved"}
    /\ draft'[d].payload # draft[d].payload
    => draft'[d].status \in {"approved", "absent"}

LEMMA DraftPayload ==
  ASSUME TypeOK, UnreadInv, NEW d \in Drafts, DraftNext(d), NEW e \in Drafts
  PROVE  PayloadKept(e)
<1>1. CASE CreateDraft(d) \/ ExtractionBuilt(d)
  <2>1. extraction[d] # "ended"
    BY <1>1 DEF CreateDraft, ExtractionBuilt
  <2>2. draft[d].status \in Unread
    BY <2>1 DEF UnreadInv
  <2>3. e # d => draft'[e] = draft[e]
    BY <1>1, BuiltEffect DEF CreateDraft, TypeOK
  <2> QED
    BY <2>2, <2>3 DEF PayloadKept, Unread, Claimed
<1>2. CASE Expire(d)
  <2>1. e # d => draft'[e] = draft[e]
    BY <1>2 DEF Expire, TypeOK
  <2>2. draft'[d].status = "absent"
    BY <1>2 DEF Expire, TypeOK, NoDocument
  <2> QED
    BY <2>1, <2>2 DEF PayloadKept
<1>3. CASE AgeClaim(d)
  <2>1. draft'[e].payload = draft[e].payload
    BY <1>3 DEF AgeClaim, TypeOK, Draft
  <2> QED
    BY <2>1 DEF PayloadKept
<1>4. CASE ExtractionFails(d) \/ PollHeal(d)
  <2>1. UNCHANGED draft \/ SetStatus(d, "failed") \/ SetStatus(d, "ready")
    BY <1>4 DEF ExtractionFails, PollHeal
  <2>2. draft'[e] = draft[e] \/ draft'[e].payload = draft[e].payload
    BY <2>1, StatusEffect DEF Statuses
  <2> QED
    BY <2>2 DEF PayloadKept
<1>5. CASE ExtractionDownloaded(d) \/ ExtractionDownloadFails(d) \/ ExtractionDies(d) \/ PollRead(d)
  BY <1>5 DEF ExtractionDownloaded, ExtractionDownloadFails, ExtractionDies, PollRead, PayloadKept
<1> QED
  BY <1>1, <1>2, <1>3, <1>4, <1>5 DEF DraftNext

LEMMA RequestPayload ==
  ASSUME TypeOK, NEW r \in Requests, RequestNext(r), NEW e \in Drafts
  PROVE  PayloadKept(e)
<1>1. CASE EditSave(r)
  <2>1. request[r].draft \in Drafts /\ request[r].payload \in Payloads
    BY <1>1, AskingDraft DEF EditSave
  <2>2. draft'[e] = draft[e] \/ draft[e].status = "ready"
    BY <1>1, <2>1, EditEffect DEF EditSave
  <2> QED
    BY <2>2 DEF PayloadKept, Claimed
<1>2. CASE DiscardWrite(r) \/ ApproveClaim(r) \/ ApproveUnclaim(r)
  <2>1. request[r].draft \in Drafts
    BY <1>2, AskingDraft DEF DiscardWrite, ApproveClaim, ApproveUnclaim, TypeOK, Request, IdleRequest,
       Asking
  <2>2. \/ UNCHANGED draft \/ SetStatus(request[r].draft, "ready")
        \/ Update(request[r].draft, Bumped(request[r].draft, "discarded"))
        \/ Update(request[r].draft, Bumped(request[r].draft, "approving"))
    BY <1>2 DEF DiscardWrite, ApproveClaim, ApproveUnclaim, Bumped
  <2>3. draft'[e] = draft[e] \/ draft'[e].payload = draft[e].payload
    BY <2>1, <2>2, StatusEffect, BumpEffect DEF Statuses
  <2> QED
    BY <2>3 DEF PayloadKept
<1>3. CASE UNCHANGED draft
  BY <1>3 DEF PayloadKept
<1> QED
  BY <1>1, <1>2, <1>3 DEF RequestNext, EditRead, ApproveRead, ApproveEnqueue, ApproveEnqueueFails,
     ApproveEnqueueTimesOut, DiscardRead, RequestDies, draftVars

LEMMA WorkerPayload ==
  ASSUME TypeOK, NEW w \in Workers, WorkerNext(w), NEW e \in Drafts
  PROVE  PayloadKept(e)
<1>1. CASE WorkerCommit(w)
  <2>1. draft'[e] = draft[e] \/ draft'[e].status = "approved"
    BY <1>1, CommitEffect
  <2> QED
    BY <2>1 DEF PayloadKept
<1>2. CASE WorkerClaim(w) \/ WorkerRefuse(w) \/ WorkerRollback(w)
  <2>1. worker[w].job.draft \in Drafts
    BY <1>2, BusySlot DEF WorkerClaim, WorkerRefuse, WorkerRollback, Busy, Job
  <2>2. \/ UNCHANGED draft \/ SetStatus(worker[w].job.draft, "ready")
        \/ SetStatus(worker[w].job.draft, "processing")
    BY <1>2 DEF WorkerClaim, WorkerRefuse, WorkerRollback
  <2>3. draft'[e] = draft[e] \/ draft'[e].payload = draft[e].payload
    BY <2>1, <2>2, StatusEffect DEF Statuses
  <2> QED
    BY <2>3 DEF PayloadKept
<1>3. CASE UNCHANGED draft
  BY <1>3 DEF PayloadKept
<1> QED
  BY <1>1, <1>2, <1>3 DEF WorkerNext, WorkerTake, WorkerSkip, WorkerReserveNumber, WorkerStorePdf,
     WorkerSaveInvoice, WorkerThrow, WorkerCleanup, WorkerFinish, WorkerCrash, WorkerStall, draftVars

LEMMA StepPayload == TypeOK /\ UnreadInv /\ [Next]_vars => \A d \in Drafts : PayloadKept(d)
<1> SUFFICES ASSUME TypeOK, UnreadInv, [Next]_vars
             PROVE  \A d \in Drafts : PayloadKept(d)
  OBVIOUS
<1>1. CASE UNCHANGED draft
  BY <1>1 DEF PayloadKept
<1>2. (\E c \in Creators : CreatorNext(c)) \/ (\E i \in invoices : DeleteInvoice(i)) \/ UNCHANGED vars
      => UNCHANGED draft
  BY DEF CreatorNext, CreateReserveNumber, CreateStorePdf, CreateSaveInvoice, CreateDies,
     DeleteInvoice, draftVars, vars
<1> QED
  BY <1>1, <1>2, DraftPayload, RequestPayload, WorkerPayload DEF Next

\* An autosave whose recompute was awaited across a claim, or an extraction that
\* ends late, never changes what a claimed or approved draft holds: only the
\* worker's last write does, with the payload it invoiced.
THEOREM PayloadFrozen == Spec => ClaimedDraftKeepsPayload
<1>1. TypeOK /\ UnreadInv /\ [Next]_vars =>
        [\A d \in Drafts :
           /\ draft[d].status \in Claimed \cup {"approved"}
           /\ draft'[d].payload # draft[d].payload
           => draft'[d].status \in {"approved", "absent"}]_vars
  BY StepPayload DEF PayloadKept
<1> QED
  BY <1>1, InitTypeOK, NextTypeOK, InitUnread, StepUnread, PTL DEF Spec, ClaimedDraftKeepsPayload

-----------------------------------------------------------------------------
(* While nothing is late                                                   *)

Holding == {"taken", "rollback"} \cup Working

AsksAbout(r, d) == request[r].pc \in Asking /\ request[r].draft = d
WorksOn(w, d) == worker[w].pc \in Holding /\ worker[w].job.draft = d

\* Nobody holds a claim of d.
Free(d) ==
    /\ \A r \in Requests : ~AsksAbout(r, d)
    /\ \A j \in queue : j.draft # d
    /\ \A w \in Workers : ~WorksOn(w, d)

\* A claim of d has one holder at a time: the handler that will enqueue or undo
\* it, then its job, then the slot that runs the job. The holder's version is the
\* claim's, and the draft is claimed as long as there is one.
OneHolder(d) ==
    /\ \A r \in Requests : AsksAbout(r, d) =>
         /\ draft[d].status \in Claimed /\ request[r].version = draft[d].version
         /\ \A s \in Requests : AsksAbout(s, d) => s = r
         /\ \A j \in queue : j.draft # d
         /\ \A w \in Workers : ~WorksOn(w, d)
    /\ \A j \in queue : j.draft = d =>
         /\ draft[d].status \in Claimed /\ j.version = draft[d].version
         /\ \A k \in queue : k.draft = d => k = j
         /\ \A w \in Workers : ~WorksOn(w, d)
    /\ \A w \in Workers : WorksOn(w, d) =>
         /\ draft[d].status \in Claimed /\ worker[w].job.version = draft[d].version
         /\ \A v \in Workers : WorksOn(v, d) => v = w

\* Nothing recovers a claim that is under way.
NothingAges == healing = {} /\ \A d \in Drafts : ~draft[d].aged

\* Why nothing lands on a draft after its approval ended: whoever may still write
\* to a draft by right of a claim is the one holder of the claim the draft is in.
HeldInv ==
    /\ NothingAges
    /\ \A d \in Drafts : draft[d].status = "absent" \/ OneHolder(d)
    /\ JobMatchesClaim

\* No handler, job or slot takes a claim up.
HoldersKept ==
    /\ \A r \in Requests : request'[r].pc \in Asking =>
         /\ request[r].pc \in Asking
         /\ request'[r].draft = request[r].draft /\ request'[r].version = request[r].version
    /\ queue' \subseteq queue
    /\ \A w \in Workers : worker'[w].pc \in Holding =>
         worker[w].pc \in Holding /\ worker'[w].job = worker[w].job

LEMMA UnclaimedFree ==
  ASSUME NEW d \in Drafts, OneHolder(d), draft[d].status \notin Claimed
  PROVE  Free(d)
BY DEF OneHolder, Free

LEMMA UnreadFree ==
  ASSUME UnreadInv, NEW d \in Drafts, extraction[d] # "ended"
  PROVE  Free(d)
BY DEF UnreadInv, Free, AsksAbout, WorksOn, Holding, Working

LEMMA FreeKept ==
  ASSUME NEW d \in Drafts, HoldersKept, Free(d)
  PROVE  Free(d)'
BY DEF HoldersKept, Free, AsksAbout, WorksOn

LEMMA FreeHeld ==
  ASSUME NEW d \in Drafts, Free(d)'
  PROVE  OneHolder(d)'
BY DEF Free, OneHolder

LEMMA KeptHeld ==
  ASSUME NEW d \in Drafts, HoldersKept, draft[d].status = "absent" \/ OneHolder(d),
         draft'[d].version = draft[d].version,
         \/ draft'[d].status = draft[d].status
         \/ draft[d].status # "absent" /\ draft'[d].status \in Claimed
  PROVE  draft'[d].status = "absent" \/ OneHolder(d)'
<1>1. CASE draft[d].status = "absent"
  BY <1>1
<1>2. CASE OneHolder(d)
  <2>1. ASSUME NEW r \in Requests, AsksAbout(r, d)'
        PROVE  AsksAbout(r, d) /\ request'[r].version = request[r].version
    BY <2>1 DEF HoldersKept, AsksAbout
  <2>2. ASSUME NEW w \in Workers, WorksOn(w, d)'
        PROVE  WorksOn(w, d) /\ worker'[w].job = worker[w].job
    BY <2>2 DEF HoldersKept, WorksOn
  <2>3. \A j \in queue' : j \in queue
    BY DEF HoldersKept
  <2>4. draft[d].status \in Claimed => draft'[d].status \in Claimed
    OBVIOUS
  <2> QED
    BY <1>2, <2>1, <2>2, <2>3, <2>4 DEF OneHolder
<1> QED
  BY <1>1, <1>2

\* The holder of a claim lets it go.
LEMMA HandlerFrees ==
  ASSUME NEW d \in Drafts, HoldersKept, OneHolder(d), NEW r \in Requests, AsksAbout(r, d),
         request'[r].pc \notin Asking
  PROVE  Free(d)'
BY DEF OneHolder, Free, AsksAbout, WorksOn, HoldersKept

LEMMA SlotFrees ==
  ASSUME NEW d \in Drafts, HoldersKept, OneHolder(d), NEW w \in Workers, WorksOn(w, d),
         worker'[w].pc \notin Holding
  PROVE  Free(d)'
<1>1. \A r \in Requests : ~AsksAbout(r, d)
  BY DEF OneHolder
<1>2. \A j \in queue : j.draft # d
  BY DEF OneHolder
<1>3. \A v \in Workers \ {w} : ~WorksOn(v, d)
  BY DEF OneHolder
<1> QED
  BY <1>1, <1>2, <1>3 DEF Free, AsksAbout, WorksOn, HoldersKept

Holders == \A d \in Drafts : draft[d].status = "absent" \/ OneHolder(d)

\* What a step without a new holder does to the claims.
LEMMA HoldersFrame ==
  ASSUME HoldersKept, Holders,
         \A d \in Drafts :
           \/ draft'[d] = draft[d]
           \/ draft'[d].status = "absent"
           \/ Free(d) \/ Free(d)'
           \/ /\ draft[d].status # "absent" /\ draft'[d].status \in Claimed
              /\ draft'[d].version = draft[d].version
  PROVE  Holders'
<1> SUFFICES ASSUME NEW d \in Drafts
             PROVE  draft'[d].status = "absent" \/ OneHolder(d)'
  BY DEF Holders
<1>1. CASE \/ draft'[d] = draft[d]
           \/ /\ draft[d].status # "absent" /\ draft'[d].status \in Claimed
              /\ draft'[d].version = draft[d].version
  BY <1>1, KeptHeld DEF Holders
<1>2. CASE draft'[d].status = "absent"
  BY <1>2
<1>3. CASE Free(d) \/ Free(d)'
  <2>1. Free(d)'
    BY <1>3, FreeKept
  <2> QED
    BY <2>1, FreeHeld
<1> QED
  BY <1>1, <1>2, <1>3

LEMMA DraftHolders ==
  ASSUME Lapses = {}, TypeOK, UnreadInv, NothingAges, Holders, NEW d \in Drafts, DraftNext(d)
  PROVE  Holders'
<1>1. UNCHANGED <<request, queue, worker>>
  BY DEF DraftNext, CreateDraft, ExtractionDownloaded, ExtractionDownloadFails, ExtractionBuilt,
     ExtractionFails, ExtractionDies, Expire, AgeClaim, PollRead, PollHeal, apiVars, workVars
<1>2. HoldersKept
  BY <1>1 DEF HoldersKept
<1>3. CASE CreateDraft(d) \/ ExtractionBuilt(d) \/ ExtractionFails(d)
  <2>1. extraction[d] # "ended"
    BY <1>3 DEF CreateDraft, ExtractionBuilt, ExtractionFails
  <2>2. Free(d)
    BY <2>1, UnreadFree
  <2>3. \A e \in Drafts \ {d} : draft'[e] = draft[e]
    BY <1>3, BuiltEffect, StatusEffect DEF CreateDraft, ExtractionFails, Statuses, TypeOK
  <2> QED
    BY <1>2, <2>2, <2>3, HoldersFrame
<1>4. CASE Expire(d)
  <2>1. draft'[d].status = "absent" /\ \A e \in Drafts \ {d} : draft'[e] = draft[e]
    BY <1>4 DEF Expire, NoDocument, TypeOK
  <2> QED
    BY <1>2, <2>1, HoldersFrame
<1>5. CASE UNCHANGED draft
  BY <1>2, <1>5, HoldersFrame
<1> QED
  BY <1>3, <1>4, <1>5 DEF DraftNext, ExtractionDownloaded, ExtractionDownloadFails, ExtractionDies,
     AgeClaim, PollRead, PollHeal, NothingAges

LEMMA RequestHolders ==
  ASSUME Lapses = {}, TypeOK, Holders, NEW r \in Requests, RequestNext(r)
  PROVE  Holders'
<1>1. UNCHANGED worker
  BY DEF RequestNext, EditRead, EditSave, ApproveRead, ApproveClaim, ApproveEnqueue,
     ApproveEnqueueFails, ApproveEnqueueTimesOut, ApproveUnclaim, DiscardRead,
     DiscardWrite, RequestDies, workVars
<1>2. \A s \in Requests \ {r} : request'[s] = request[s]
  BY DEF RequestNext, EditRead, EditSave, ApproveRead, ApproveClaim, ApproveEnqueue,
     ApproveEnqueueFails, ApproveEnqueueTimesOut, ApproveUnclaim, DiscardRead,
     DiscardWrite, RequestDies, TypeOK
<1>3. ASSUME UNCHANGED queue, request'[r].pc \notin Asking
      PROVE  HoldersKept
  BY <1>1, <1>2, <1>3 DEF HoldersKept
<1>4. CASE \/ \E d \in Drafts : DiscardRead(r, d)
           \/ \E d \in Drafts, p \in Payloads : EditRead(r, d, p) \/ ApproveRead(r, d, p)
           \/ RequestDies(r)
  <2>1. UNCHANGED <<queue, draft>> /\ request'[r].pc \notin Asking
    BY <1>4 DEF DiscardRead, EditRead, ApproveRead, RequestDies, TypeOK, IdleRequest, Asking,
       draftVars, workVars
  <2> QED
    BY <1>3, <2>1, HoldersFrame
<1>5. ASSUME request'[r] = IdleRequest
      PROVE  request'[r].pc \notin Asking
  BY <1>5 DEF IdleRequest, Asking
<1>6. CASE EditSave(r) \/ DiscardWrite(r)
  <2>1. HoldersKept
    BY <1>3, <1>5, <1>6 DEF EditSave, DiscardWrite, TypeOK, workVars
  <2>2. request[r].draft \in Drafts /\ (EditSave(r) => request[r].payload \in Payloads)
    BY <1>6, AskingDraft DEF EditSave, DiscardWrite, TypeOK, Request, IdleRequest
  <2>3. \A d \in Drafts : draft'[d] = draft[d]
          \/ (d = request[r].draft /\ draft[d].status \notin Claimed \cup {"absent"})
    <3>1. CASE EditSave(r)
      <4>1. \A d \in Drafts : draft'[d] = draft[d] \/ (d = request[r].draft /\ draft[d].status = "ready")
        BY <3>1, <2>2, EditEffect DEF EditSave
      <4> QED
        BY <4>1 DEF Claimed
    <3>2. CASE DiscardWrite(r)
      <4>1. \/ UNCHANGED draft
            \/ /\ Update(request[r].draft, Bumped(request[r].draft, "discarded"))
               /\ draft[request[r].draft].status \notin Undiscardable
        BY <3>2 DEF DiscardWrite, Bumped
      <4> QED
        BY <2>2, <4>1, BumpEffect DEF Statuses, Undiscardable
    <3> QED
      BY <1>6, <3>1, <3>2
  <2>4. \A d \in Drafts : draft'[d] = draft[d] \/ Free(d)
    BY <2>3, UnclaimedFree DEF Holders
  <2> QED
    BY <2>1, <2>4, HoldersFrame
<1>7. CASE ApproveClaim(r)
  <2>0. PICK d \in Drafts : d = request[r].draft
    BY <1>7, AskingDraft DEF ApproveClaim
  <2>1. d \in Drafts /\ request[r].version \in Nat /\ UNCHANGED queue
    BY <1>7, AskingDraft DEF ApproveClaim, workVars
  <2>2. CASE draft[d].status = "ready" /\ draft[d].version = request[r].version
    <3>1. Update(d, Bumped(d, "approving"))
      BY <1>7, <2>0, <2>2 DEF ApproveClaim, Bumped
    <3>2. request' = [request EXCEPT ![r] = [request[r] EXCEPT !.pc = "enqueue", !.version = @ + 1]]
      BY <1>7, <2>0, <2>2 DEF ApproveClaim
    <3>3. request'[r].draft = d /\ request'[r].version = request[r].version + 1 /\ request'[r].pc = "enqueue"
      BY <1>7, <2>0, <3>2, AskingDraft DEF ApproveClaim, TypeOK
    <3>4. Free(d)
      BY <2>1, <2>2, UnclaimedFree DEF Holders, Claimed
    <3>5. \A e \in Drafts \ {d} : draft'[e] = draft[e]
      BY <2>1, <3>1, BumpEffect DEF Statuses
    <3>7. draft'[d].status = "approving" /\ draft'[d].version = draft[d].version + 1
      BY <2>1, <2>2, <3>1 DEF Update, Bumped, TypeOK, Draft
    <3>8. OneHolder(d)'
      <4>1. \A s \in Requests : AsksAbout(s, d)' => s = r
        BY <1>2, <3>4 DEF Free, AsksAbout
      <4>2. \A j \in queue' : j.draft # d
        BY <2>1, <3>4 DEF Free
      <4>3. \A w \in Workers : ~WorksOn(w, d)'
        BY <1>1, <3>4 DEF Free, WorksOn
      <4>4. draft'[d].status \in Claimed /\ request'[r].version = draft'[d].version
        BY <2>2, <3>3, <3>7 DEF Claimed
      <4> QED
        BY <4>1, <4>2, <4>3, <4>4 DEF OneHolder
    <3>9. ASSUME NEW e \in Drafts \ {d}, draft[e].status # "absent"
          PROVE  OneHolder(e)'
      <4>1. OneHolder(e) /\ draft'[e] = draft[e]
        BY <3>5, <3>9 DEF Holders
      <4>2. \A s \in Requests : AsksAbout(s, e)' =>
              AsksAbout(s, e) /\ request'[s].version = request[s].version
        BY <1>2, <3>3, <3>9 DEF AsksAbout
      <4>3. \A w \in Workers : WorksOn(w, e)' => WorksOn(w, e) /\ worker'[w] = worker[w]
        BY <1>1 DEF WorksOn
      <4> QED
        BY <2>1, <4>1, <4>2, <4>3 DEF OneHolder
    <3> QED
      BY <3>5, <3>8, <3>9 DEF Holders
  <2>3. CASE ~(draft[d].status = "ready" /\ draft[d].version = request[r].version)
    <3>1. request'[r] = IdleRequest /\ UNCHANGED draft
      BY <1>7, <2>0, <2>3 DEF ApproveClaim, TypeOK
    <3> QED
      BY <1>3, <1>5, <2>1, <3>1, HoldersFrame
  <2> QED
    BY <2>2, <2>3
<1>8. CASE ApproveEnqueue(r)
  <2>0. PICK d \in Drafts : d = request[r].draft
    BY <1>8, AskingDraft DEF ApproveEnqueue, Asking
  <2>1. PICK new : new = [draft |-> request[r].draft, version |-> request[r].version,
                          payload |-> request[r].payload, stalls |-> 0]
    OBVIOUS
  <2>2. d \in Drafts /\ AsksAbout(r, d) /\ UNCHANGED draft
    BY <1>8, <2>0 DEF ApproveEnqueue, Asking, AsksAbout, draftVars
  <2>3. request'[r].pc \notin Asking /\ queue' = queue \cup {new}
    BY <1>5, <1>8, <2>1 DEF ApproveEnqueue, AddJob, TypeOK
  <2>4. ASSUME OneHolder(d)
        PROVE  OneHolder(d)'
    <3>1. \A s \in Requests : ~AsksAbout(s, d)'
      BY <1>2, <2>2, <2>3, <2>4 DEF OneHolder, AsksAbout
    <3>2. \A j \in queue' : j.draft = d => j = new
      BY <2>2, <2>3, <2>4 DEF OneHolder
    <3>3. \A w \in Workers : ~WorksOn(w, d)'
      BY <1>1, <2>2, <2>4 DEF OneHolder, WorksOn
    <3>4. draft'[d].status \in Claimed /\ new.version = draft'[d].version
      BY <2>2, <2>1, <2>4, <2>0 DEF OneHolder
    <3> QED
      BY <3>1, <3>2, <3>3, <3>4 DEF OneHolder
  <2>5. ASSUME NEW e \in Drafts \ {d}, OneHolder(e)
        PROVE  OneHolder(e)'
    <3>1. \A s \in Requests : AsksAbout(s, e)' =>
            AsksAbout(s, e) /\ request'[s].version = request[s].version
      BY <1>2, <2>3 DEF AsksAbout
    <3>2. \A w \in Workers : WorksOn(w, e)' => WorksOn(w, e) /\ worker'[w] = worker[w]
      BY <1>1 DEF WorksOn
    <3>3. \A j \in queue' : j.draft = e => j \in queue
      BY <2>0, <2>3, <2>1
    <3> QED
      BY <2>2, <2>5, <3>1, <3>2, <3>3 DEF OneHolder
  <2> QED
    BY <2>2, <2>4, <2>5 DEF Holders
<1>9. CASE ApproveEnqueueFails(r)
  <2>1. UNCHANGED <<queue, draft>>
    BY <1>9 DEF ApproveEnqueueFails, draftVars, workVars
  <2>2. request[r].pc \in Asking /\ request'[r].draft = request[r].draft /\ request'[r].version = request[r].version
    BY <1>9, AskingDraft DEF ApproveEnqueueFails, Asking, TypeOK
  <2>3. HoldersKept
    BY <1>1, <1>2, <2>1, <2>2 DEF HoldersKept
  <2> QED
    BY <2>1, <2>3, HoldersFrame
<1>10. CASE ApproveUnclaim(r)
  <2>0. PICK d \in Drafts : d = request[r].draft
    BY <1>10, AskingDraft DEF ApproveUnclaim, Asking
  <2>1. request'[r].pc \notin Asking /\ UNCHANGED queue
    BY <1>5, <1>10 DEF ApproveUnclaim, TypeOK, workVars
  <2>2. d \in Drafts /\ AsksAbout(r, d)
    BY <1>10, <2>0 DEF ApproveUnclaim, Asking, AsksAbout
  <2>3. HoldersKept
    BY <1>3, <2>1
  <2>4. \A e \in Drafts : draft'[e] = draft[e] \/ (e = d /\ draft[e].status # "absent")
    BY <1>10, <2>0, <2>2, StatusEffect DEF ApproveUnclaim, Statuses
  <2>5. draft[d].status # "absent" => Free(d)'
    BY <2>1, <2>2, <2>3, HandlerFrees DEF Holders
  <2> QED
    BY <2>3, <2>4, <2>5, HoldersFrame
<1> QED
  BY <1>4, <1>6, <1>7, <1>8, <1>9, <1>10 DEF RequestNext, ApproveEnqueueTimesOut

LEMMA WorkerHolders ==
  ASSUME Lapses = {}, TypeOK, Holders, NEW w \in Workers, WorkerNext(w)
  PROVE  Holders'
<1>1. UNCHANGED request
  BY DEF WorkerNext, WorkerTake, WorkerClaim, WorkerSkip, WorkerRefuse, WorkerReserveNumber,
     WorkerStorePdf, WorkerSaveInvoice, WorkerCommit, WorkerThrow, WorkerCleanup, WorkerRollback,
     WorkerFinish, WorkerCrash, WorkerStall, apiVars
<1>2. \A v \in Workers \ {w} : worker'[v] = worker[v]
  BY DEF TypeOK, WorkerNext, WorkerTake, WorkerClaim, WorkerSkip, WorkerRefuse, WorkerReserveNumber,
     WorkerStorePdf, WorkerSaveInvoice, WorkerCommit, WorkerThrow, WorkerCleanup, WorkerRollback,
     WorkerFinish, WorkerCrash, WorkerStall
<1>3. ASSUME UNCHANGED queue,
             worker'[w].pc \in Holding => worker[w].pc \in Holding /\ worker'[w].job = worker[w].job
      PROVE  HoldersKept
  BY <1>1, <1>2, <1>3 DEF HoldersKept
<1>4. CASE \E j \in queue : WorkerTake(w, j)
  <2>1. PICK j \in queue : WorkerTake(w, j)
    BY <1>4
  <2>0. PICK d \in Drafts : d = j.draft
    BY DEF TypeOK, Job
  <2>2. /\ worker[w].pc = "idle" /\ worker'[w].pc = "taken" /\ worker'[w].job = j
        /\ queue' = queue \ {j} /\ UNCHANGED draft
    BY <2>1 DEF WorkerTake, TypeOK, IdleSlot, draftVars
  <2>4. ASSUME OneHolder(d)
        PROVE  OneHolder(d)'
    <3>1. \A s \in Requests : ~AsksAbout(s, d)'
      BY <1>1, <2>0, <2>4 DEF OneHolder, AsksAbout
    <3>2. \A k \in queue' : k.draft # d
      BY <2>0, <2>2, <2>4 DEF OneHolder
    <3>3. \A v \in Workers : WorksOn(v, d)' => v = w
      BY <1>2, <2>0, <2>4 DEF OneHolder, WorksOn
    <3>4. draft'[d].status \in Claimed /\ worker'[w].job.version = draft'[d].version
      BY <2>0, <2>2, <2>4 DEF OneHolder
    <3> QED
      BY <3>1, <3>2, <3>3, <3>4 DEF OneHolder
  <2>5. ASSUME NEW e \in Drafts \ {d}, OneHolder(e)
        PROVE  OneHolder(e)'
    <3>1. \A s \in Requests : AsksAbout(s, e)' =>
            AsksAbout(s, e) /\ request'[s].version = request[s].version
      BY <1>1 DEF AsksAbout
    <3>2. \A v \in Workers : WorksOn(v, e)' => WorksOn(v, e) /\ worker'[v] = worker[v]
      BY <1>2, <2>0, <2>2 DEF WorksOn
    <3>3. \A k \in queue' : k \in queue
      BY <2>2
    <3> QED
      BY <2>2, <2>5, <3>1, <3>2, <3>3 DEF OneHolder
  <2> QED
    BY <2>2, <2>4, <2>5 DEF Holders
<1>5. ASSUME worker[w].pc \in Holding, worker'[w].pc \notin Holding, UNCHANGED queue,
             \A e \in Drafts : draft'[e] = draft[e]
               \/ (e = worker[w].job.draft /\ draft[e].status # "absent")
      PROVE  Holders'
  <2>0. PICK d \in Drafts : d = worker[w].job.draft
    BY <1>5, BusySlot DEF Holding, Working, Busy, Job
  <2>1. HoldersKept /\ WorksOn(w, d)
    BY <1>3, <1>5, <2>0 DEF WorksOn
  <2>2. \A e \in Drafts : draft'[e] = draft[e] \/ (e = d /\ draft[e].status # "absent")
    BY <1>5, <2>0
  <2>3. draft[d].status # "absent" => Free(d)'
    BY <1>5, <2>1, SlotFrees DEF Holders
  <2> QED
    BY <2>1, <2>2, <2>3, HoldersFrame
<1>6. CASE WorkerClaim(w)
  <2>1. worker[w].pc \in Holding /\ worker'[w].job = worker[w].job /\ UNCHANGED queue
    BY <1>6, ClaimEffect DEF WorkerClaim, Holding
  <2>2. \A e \in Drafts : draft'[e] = draft[e]
          \/ /\ draft[e].status # "absent" /\ draft'[e].status \in Claimed
             /\ draft'[e].version = draft[e].version
    BY <1>6, ClaimEffect DEF Claimed
  <2> QED
    BY <1>3, <2>1, <2>2, HoldersFrame
<1>7. CASE WorkerRefuse(w) \/ WorkerRollback(w)
  <2>1. worker[w].pc \in Holding /\ worker'[w].pc = "done" /\ UNCHANGED queue
    BY <1>7, BusySlot DEF WorkerRefuse, WorkerRollback, Holding, Working, Busy, TypeOK
  <2>2. worker[w].job.draft \in Drafts /\ (SetStatus(worker[w].job.draft, "ready") \/ UNCHANGED draft)
    BY <1>7, BusySlot DEF WorkerRefuse, WorkerRollback, Busy, Job
  <2>3. \A e \in Drafts : draft'[e] = draft[e] \/ (e = worker[w].job.draft /\ draft[e].status # "absent")
    BY <2>2, StatusEffect DEF Statuses
  <2> QED
    BY <1>5, <2>1, <2>3 DEF Holding, Working
<1>8. CASE WorkerCommit(w)
  <2>1. worker[w].pc \in Holding /\ worker'[w].pc = "done" /\ UNCHANGED queue
    BY <1>8, BusySlot DEF WorkerCommit, Holding, Working, Busy, TypeOK
  <2>2. \A e \in Drafts : draft'[e] = draft[e] \/ (e = worker[w].job.draft /\ draft[e].status # "absent")
    BY <1>8, CommitEffect
  <2> QED
    BY <1>5, <2>1, <2>2 DEF Holding, Working
<1>9. CASE \/ WorkerSkip(w) \/ WorkerReserveNumber(w) \/ WorkerStorePdf(w) \/ WorkerSaveInvoice(w)
           \/ WorkerThrow(w) \/ WorkerCleanup(w) \/ WorkerFinish(w)
  <2>1. UNCHANGED <<draft, queue>>
    BY <1>9 DEF WorkerSkip, WorkerReserveNumber, WorkerStorePdf, WorkerSaveInvoice, WorkerThrow,
       WorkerCleanup, WorkerFinish, draftVars
  <2>2. worker[w].pc # "idle" /\ worker[w] \in Busy
    BY <1>9, BusySlot DEF WorkerSkip, WorkerReserveNumber, WorkerStorePdf, WorkerSaveInvoice, WorkerThrow,
       WorkerCleanup, WorkerFinish
  <2>3. worker'[w].pc \in Holding => worker[w].pc \in Holding /\ worker'[w].job = worker[w].job
    BY <1>9, <2>2 DEF WorkerSkip, WorkerReserveNumber, WorkerStorePdf, WorkerSaveInvoice, WorkerThrow,
       WorkerCleanup, WorkerFinish, Holding, Working, TypeOK, IdleSlot, Busy
  <2> QED
    BY <1>3, <2>1, <2>3, HoldersFrame
<1> QED
  BY <1>4, <1>6, <1>7, <1>8, <1>9 DEF WorkerNext, WorkerCrash, WorkerStall

LEMMA NextHolders ==
  ASSUME Lapses = {}, TypeOK, UnreadInv, NothingAges, Holders, [Next]_vars
  PROVE  Holders'
<1>1. CASE \/ \E c \in Creators : CreatorNext(c)
           \/ \E i \in invoices : DeleteInvoice(i)
           \/ UNCHANGED vars
  <2>1. UNCHANGED <<draft, request, queue, worker>>
    BY <1>1 DEF CreatorNext, CreateReserveNumber, CreateStorePdf, CreateSaveInvoice, CreateDies,
       DeleteInvoice, draftVars, apiVars, workVars, vars
  <2> QED
    BY <2>1, HoldersFrame DEF HoldersKept
<1> QED
  BY <1>1, DraftHolders, RequestHolders, WorkerHolders DEF Next

\* Time passes without a claim growing old: every update leaves a document young.
LEMMA YoungUpdate ==
  ASSUME TypeOK, NEW d \in Drafts, NEW document \in Draft, Update(d, document),
         \A e \in Drafts : ~draft[e].aged
  PROVE  \A e \in Drafts : ~draft'[e].aged
BY DEF Update, TypeOK, Draft

LEMMA YoungWrites ==
  ASSUME TypeOK, NEW d \in Drafts, \A e \in Drafts : ~draft[e].aged
  PROVE  /\ \A s \in Statuses : SetStatus(d, s) => \A e \in Drafts : ~draft'[e].aged
         /\ \A s \in Statuses : Update(d, Bumped(d, s)) => \A e \in Drafts : ~draft'[e].aged
         /\ \A p \in Payloads : Update(d, [draft[d] EXCEPT !.payload = p, !.version = @ + 1])
              => \A e \in Drafts : ~draft'[e].aged
         /\ \A p \in Payloads : Update(d, [draft[d] EXCEPT !.status = "ready", !.payload = p])
              => \A e \in Drafts : ~draft'[e].aged
<1>1. draft[d] \in Draft
  BY DEF TypeOK
<1>2. \A s \in Statuses : [draft[d] EXCEPT !.status = s] \in Draft
  BY <1>1 DEF Draft
<1>3. \A p \in Payloads : [draft[d] EXCEPT !.status = "ready", !.payload = p] \in Draft
  BY <1>1, ExtractedEffect
<1>4. \A s \in Statuses : Bumped(d, s) \in Draft
  BY <1>1, BumpType DEF Bumped
<1>5. \A p \in Payloads : [draft[d] EXCEPT !.payload = p, !.version = @ + 1] \in Draft
  BY <1>1, BumpType
<1>6. \A document \in Draft : Update(d, document) => \A e \in Drafts : ~draft'[e].aged
  BY YoungUpdate
<1> QED
  BY <1>2, <1>3, <1>4, <1>5, <1>6 DEF SetStatus

LEMMA StepYoung ==
  ASSUME Lapses = {}, TypeOK, NothingAges, [Next]_vars
  PROVE  NothingAges'
<1> DEFINE Young == \A e \in Drafts : ~draft[e].aged
<1>1. Young /\ healing = {}
  BY DEF NothingAges
<1>2. ASSUME NEW d \in Drafts, DraftNext(d)
      PROVE  NothingAges'
  <2>1. healing' = {}
    BY <1>1, <1>2 DEF DraftNext, CreateDraft, ExtractionDownloaded, ExtractionDownloadFails, ExtractionBuilt,
       ExtractionFails, ExtractionDies, Expire, AgeClaim, PollRead, PollHeal
  <2>2. CASE CreateDraft(d) \/ Expire(d)
    <3>1. \A e \in Drafts : ~draft'[e].aged
      BY <1>1, <2>2 DEF CreateDraft, Expire, TypeOK, Draft, NoDocument
    <3> QED
      BY <2>1, <3>1 DEF NothingAges
  <2>3. CASE ExtractionBuilt(d) \/ ExtractionFails(d)
    <3>1. \A e \in Drafts : ~draft'[e].aged
      BY <1>1, <2>3, YoungWrites DEF ExtractionBuilt, ExtractionFails, Statuses
    <3> QED
      BY <2>1, <3>1 DEF NothingAges
  <2> QED
    BY <1>1, <1>2, <2>1, <2>2, <2>3 DEF DraftNext, ExtractionDownloaded, ExtractionDownloadFails,
       ExtractionDies, AgeClaim, PollRead, PollHeal, NothingAges
<1>3. ASSUME NEW r \in Requests, RequestNext(r)
      PROVE  NothingAges'
  <2>1. UNCHANGED healing
    BY <1>3 DEF RequestNext, EditRead, EditSave, ApproveRead, ApproveClaim, ApproveEnqueue,
       ApproveEnqueueFails, ApproveEnqueueTimesOut, ApproveUnclaim, DiscardRead,
       DiscardWrite, RequestDies, draftVars
  <2>2. CASE EditSave(r) \/ DiscardWrite(r) \/ ApproveClaim(r) \/ ApproveUnclaim(r)
    <3>1. request[r].draft \in Drafts /\ (EditSave(r) => request[r].payload \in Payloads)
      BY <2>2, AskingDraft DEF EditSave, DiscardWrite, ApproveClaim, ApproveUnclaim, Asking, TypeOK, Request,
         IdleRequest
    <3>2. \A e \in Drafts : ~draft'[e].aged
      <4>1. CASE EditSave(r)
        BY <1>1, <3>1, <4>1, YoungWrites DEF EditSave
      <4>2. CASE DiscardWrite(r) \/ ApproveClaim(r) \/ ApproveUnclaim(r)
        <5>1. \/ UNCHANGED draft \/ SetStatus(request[r].draft, "ready")
              \/ Update(request[r].draft, Bumped(request[r].draft, "discarded"))
              \/ Update(request[r].draft, Bumped(request[r].draft, "approving"))
          BY <4>2 DEF DiscardWrite, ApproveClaim, ApproveUnclaim, Bumped
        <5> QED
          BY <1>1, <3>1, <5>1, YoungWrites DEF Statuses
      <4> QED
        BY <2>2, <4>1, <4>2
    <3> QED
      BY <1>1, <2>1, <3>2 DEF NothingAges
  <2> QED
    BY <1>1, <1>3, <2>1, <2>2 DEF RequestNext, EditRead, ApproveRead, ApproveEnqueue, ApproveEnqueueFails,
       ApproveEnqueueTimesOut, DiscardRead, RequestDies, draftVars, NothingAges
<1>4. ASSUME NEW w \in Workers, WorkerNext(w)
      PROVE  NothingAges'
  <2>1. UNCHANGED healing
    BY <1>4 DEF WorkerNext, WorkerTake, WorkerClaim, WorkerSkip, WorkerRefuse, WorkerReserveNumber,
       WorkerStorePdf, WorkerSaveInvoice, WorkerCommit, WorkerThrow, WorkerCleanup, WorkerRollback,
       WorkerFinish, WorkerCrash, WorkerStall, draftVars
  <2>2. CASE WorkerClaim(w) \/ WorkerRefuse(w) \/ WorkerRollback(w) \/ WorkerCommit(w)
    <3>1. worker[w].pc # "idle"
      BY <2>2 DEF WorkerClaim, WorkerRefuse, WorkerRollback, WorkerCommit
    <3>2. worker[w].job.draft \in Drafts /\ Recompute[worker[w].job.payload] \in Payloads /\ number[w] \in Nat
      BY <3>1, BusySlot, RecomputeType DEF Busy, Job, TypeOK
    <3>3. \A e \in Drafts : ~draft'[e].aged
      <4>1. CASE WorkerClaim(w) \/ WorkerRefuse(w) \/ WorkerRollback(w)
        <5>1. \/ UNCHANGED draft \/ SetStatus(worker[w].job.draft, "ready")
              \/ SetStatus(worker[w].job.draft, "processing")
          BY <4>1 DEF WorkerClaim, WorkerRefuse, WorkerRollback
        <5> QED
          BY <1>1, <3>2, <5>1, YoungWrites DEF Statuses
      <4>2. CASE WorkerCommit(w)
        <5>1. \A t \in Draft : [t EXCEPT !.status = "approved", !.invoice = number[w],
                                        !.payload = Recompute[worker[w].job.payload]] \in Draft
          BY <3>2, ApprovalType
        <5>2. draft[worker[w].job.draft] \in Draft
          BY <3>2 DEF TypeOK
        <5> QED
          BY <1>1, <3>2, <4>2, <5>1, <5>2, YoungUpdate DEF WorkerCommit
      <4> QED
        BY <2>2, <4>1, <4>2
    <3> QED
      BY <1>1, <2>1, <3>3 DEF NothingAges
  <2> QED
    BY <1>1, <1>4, <2>1, <2>2 DEF WorkerNext, WorkerTake, WorkerSkip, WorkerReserveNumber, WorkerStorePdf,
       WorkerSaveInvoice, WorkerThrow, WorkerCleanup, WorkerFinish, WorkerCrash, WorkerStall, draftVars,
       NothingAges
<1>5. (\E c \in Creators : CreatorNext(c)) \/ (\E i \in invoices : DeleteInvoice(i)) \/ UNCHANGED vars
      => NothingAges'
  BY <1>1 DEF CreatorNext, CreateReserveNumber, CreateStorePdf, CreateSaveInvoice, CreateDies,
     DeleteInvoice, draftVars, vars, NothingAges
<1> QED
  BY <1>2, <1>3, <1>4, <1>5 DEF Next

\* A slot that wins a claim runs the job that claim enqueued.
LEMMA StepMatches ==
  ASSUME TypeOK, Holders, JobMatchesClaim, [Next]_vars
  PROVE  JobMatchesClaim'
<1>1. CASE SlotsSettled
  BY <1>1 DEF SlotsSettled, JobMatchesClaim
<1>2. ASSUME NEW w \in Workers, WorkerClaim(w)
      PROVE  JobMatchesClaim'
  <2>1. PICK d \in Drafts : d = worker[w].job.draft
    BY <1>2, ClaimEffect
  <2>2. /\ draft[d].status = "approving"
        /\ worker'[w].job = worker[w].job /\ worker'[w].claim = draft[d].version
        /\ \A v \in Workers \ {w} : worker'[v] = worker[v]
    BY <1>2, <2>1, ClaimEffect
  <2>3. WorksOn(w, d) /\ OneHolder(d)
    BY <1>2, <2>1, <2>2, ClaimEffect DEF WorksOn, Holding, Holders
  <2>4. worker[w].job.version = draft[d].version
    BY <2>3 DEF OneHolder
  <2> QED
    BY <2>2, <2>4 DEF JobMatchesClaim
<1>3. ASSUME NEW w \in Workers, WorkerCommit(w)
      PROVE  SlotsSettled
  BY <1>3 DEF WorkerCommit, SlotsSettled, TypeOK, IdleSlot, Working
<1> QED
  BY <1>1, <1>2, <1>3, NextOrdinary, SaveSettles DEF Ordinary

LEMMA StepHeld ==
  ASSUME Lapses = {}, TypeOK, UnreadInv, HeldInv, [Next]_vars
  PROVE  HeldInv'
<1>1. NothingAges /\ Holders /\ JobMatchesClaim
  BY DEF HeldInv, Holders
<1>2. NothingAges' /\ Holders' /\ JobMatchesClaim'
  BY <1>1, StepYoung, NextHolders, StepMatches
<1> QED
  BY <1>2 DEF HeldInv, Holders

LEMMA InitHeld == Init => HeldInv
BY DEF Init, HeldInv, NothingAges, JobMatchesClaim, NoDocument, IdleSlot, Working

-----------------------------------------------------------------------------
(* Drafts that are approved or discarded                                   *)

\* What a step does to a draft whose approval is over, or never was.
Settled(d) ==
    /\ draft[d].status = "approved" => draft'[d].status \in {"approved", "absent"}
    /\ draft[d].status = "discarded" => draft'[d].status \notin Claimed \cup {"approved"}

LEMMA DraftSettled ==
  ASSUME TypeOK, UnreadInv, NEW d \in Drafts, DraftNext(d), NEW e \in Drafts
  PROVE  Settled(e)
<1>1. CASE CreateDraft(d) \/ ExtractionBuilt(d) \/ ExtractionFails(d)
  <2>1. extraction[d] # "ended"
    BY <1>1 DEF CreateDraft, ExtractionBuilt, ExtractionFails
  <2>2. draft[d].status \in Unread
    BY <2>1 DEF UnreadInv
  <2>3. draft'[e] = draft[e] \/ (e = d /\ draft'[e].status \in {"extracting", "ready", "failed"})
    BY <1>1, BuiltEffect, StatusEffect DEF CreateDraft, ExtractionFails, Statuses, TypeOK, Draft
  <2> QED
    BY <2>2, <2>3 DEF Settled, Unread, Claimed
<1>2. CASE Expire(d)
  <2>1. draft'[e] = draft[e] \/ draft'[e].status = "absent"
    BY <1>2 DEF Expire, NoDocument, TypeOK
  <2> QED
    BY <2>1 DEF Settled, Claimed
<1>3. CASE AgeClaim(d)
  <2>1. draft'[e].status = draft[e].status
    BY <1>3 DEF AgeClaim, TypeOK, Draft
  <2> QED
    BY <2>1 DEF Settled, Claimed
<1>4. CASE PollHeal(d)
  <2>1. draft'[e] = draft[e] \/ draft[e].status \in Claimed
    BY <1>4, StatusEffect DEF PollHeal, Statuses
  <2> QED
    BY <2>1 DEF Settled, Claimed
<1>5. CASE UNCHANGED draft
  BY <1>5 DEF Settled, Claimed
<1> QED
  BY <1>1, <1>2, <1>3, <1>4, <1>5 DEF DraftNext, ExtractionDownloaded, ExtractionDownloadFails,
     ExtractionDies, PollRead

LEMMA RequestSettled ==
  ASSUME TypeOK, Holders, NEW r \in Requests, RequestNext(r), NEW e \in Drafts
  PROVE  Settled(e)
<1>1. CASE EditSave(r)
  <2>1. request[r].draft \in Drafts /\ request[r].payload \in Payloads
    BY <1>1, AskingDraft DEF EditSave
  <2>2. draft'[e] = draft[e] \/ draft[e].status = "ready"
    BY <1>1, <2>1, EditEffect DEF EditSave
  <2> QED
    BY <2>2 DEF Settled, Claimed
<1>2. CASE DiscardWrite(r) \/ ApproveClaim(r)
  <2>1. request[r].draft \in Drafts
    BY <1>2, AskingDraft DEF DiscardWrite, ApproveClaim, TypeOK, Request, IdleRequest
  <2>2. \/ UNCHANGED draft
        \/ /\ draft[request[r].draft].status \notin {"approved"} \cup Claimed
           /\ Update(request[r].draft, Bumped(request[r].draft, "discarded"))
        \/ /\ draft[request[r].draft].status = "ready"
           /\ Update(request[r].draft, Bumped(request[r].draft, "approving"))
    BY <1>2 DEF DiscardWrite, ApproveClaim, Bumped, Undiscardable
  <2>3. \/ draft'[e] = draft[e]
        \/ draft[e].status # "approved" /\ draft'[e].status = "discarded"
        \/ draft[e].status = "ready"
    BY <2>1, <2>2, BumpEffect DEF Statuses
  <2> QED
    BY <2>3 DEF Settled, Claimed
<1>3. CASE ApproveUnclaim(r)
  <2>1. PICK d \in Drafts : d = request[r].draft
    BY <1>3, AskingDraft DEF ApproveUnclaim, Asking
  <2>2. draft[d].status \in Claimed \cup {"absent"}
    BY <1>3, <2>1 DEF ApproveUnclaim, Asking, Holders, OneHolder, AsksAbout
  <2>3. draft'[e] = draft[e] \/ e = d
    BY <1>3, <2>1, StatusEffect DEF ApproveUnclaim, Statuses
  <2> QED
    BY <2>2, <2>3 DEF Settled, Claimed
<1>4. CASE UNCHANGED draft
  BY <1>4 DEF Settled, Claimed
<1> QED
  BY <1>1, <1>2, <1>3, <1>4 DEF RequestNext, EditRead, ApproveRead, ApproveEnqueue, ApproveEnqueueFails,
     ApproveEnqueueTimesOut, DiscardRead, RequestDies, draftVars

LEMMA WorkerSettled ==
  ASSUME TypeOK, Holders, NEW w \in Workers, WorkerNext(w), NEW e \in Drafts
  PROVE  Settled(e)
<1>1. CASE WorkerClaim(w) \/ WorkerRefuse(w) \/ WorkerRollback(w) \/ WorkerCommit(w)
  <2>1. worker[w].pc \in Holding
    BY <1>1 DEF WorkerClaim, WorkerRefuse, WorkerRollback, WorkerCommit, Holding, Working
  <2>2. PICK d \in Drafts : d = worker[w].job.draft
    BY <2>1, BusySlot DEF Busy, Job, Holding, Working
  <2>3. draft[d].status \in Claimed \cup {"absent"}
    BY <2>1, <2>2 DEF Holders, OneHolder, WorksOn
  <2>4. draft'[e] = draft[e] \/ e = d
    <3>1. \/ UNCHANGED draft \/ SetStatus(d, "ready") \/ SetStatus(d, "processing") \/ WorkerCommit(w)
      BY <1>1, <2>2 DEF WorkerClaim, WorkerRefuse, WorkerRollback
    <3> QED
      BY <2>2, <3>1, StatusEffect, CommitEffect DEF Statuses
  <2> QED
    BY <2>3, <2>4 DEF Settled, Claimed
<1>2. CASE UNCHANGED draft
  BY <1>2 DEF Settled, Claimed
<1> QED
  BY <1>1, <1>2 DEF WorkerNext, WorkerTake, WorkerSkip, WorkerReserveNumber, WorkerStorePdf,
     WorkerSaveInvoice, WorkerThrow, WorkerCleanup, WorkerFinish, WorkerCrash, WorkerStall, draftVars

LEMMA StepSettled ==
  ASSUME TypeOK, UnreadInv, HeldInv, [Next]_vars
  PROVE  \A d \in Drafts : Settled(d)
<1>1. Holders
  BY DEF HeldInv, Holders
<1>2. CASE UNCHANGED draft
  BY <1>2 DEF Settled, Claimed
<1>3. (\E c \in Creators : CreatorNext(c)) \/ (\E i \in invoices : DeleteInvoice(i)) \/ UNCHANGED vars
      => UNCHANGED draft
  BY DEF CreatorNext, CreateReserveNumber, CreateStorePdf, CreateSaveInvoice, CreateDies,
     DeleteInvoice, draftVars, vars
<1> QED
  BY <1>1, <1>2, <1>3, DraftSettled, RequestSettled, WorkerSettled DEF Next

\* As long as no claim outlives its timeout, no add comes late and no job loses
\* its lock, an approval is final: no worker, handler or recovery still has a
\* write under way that would put the draft back.
THEOREM ApprovalsFinal == ASSUME Lapses = {} PROVE Spec => ApprovedFinal
<1>1. TypeOK /\ UnreadInv /\ HeldInv /\ [Next]_vars =>
        [\A d \in Drafts :
           draft[d].status = "approved" => draft'[d].status \in {"approved", "absent"}]_vars
  BY StepSettled DEF Settled
<1> QED
  BY <1>1, InitTypeOK, NextTypeOK, InitUnread, StepUnread, InitHeld, StepHeld, PTL DEF Spec, ApprovedFinal

\* Under the same condition a discarded draft is not approved after all: the
\* discard wins only while no claim of the draft has a holder.
THEOREM DiscardsFinal == ASSUME Lapses = {} PROVE Spec => DiscardedNotApproved
<1>1. TypeOK /\ UnreadInv /\ HeldInv /\ [Next]_vars =>
        [\A d \in Drafts :
           draft[d].status = "discarded" => draft'[d].status \notin Claimed \cup {"approved"}]_vars
  BY StepSettled DEF Settled
<1> QED
  BY <1>1, InitTypeOK, NextTypeOK, InitUnread, StepUnread, InitHeld, StepHeld, PTL
  DEF Spec, DiscardedNotApproved

\* Under the same condition the job that wins a claim is the one that claim
\* enqueued, so what is invoiced is what was approved.
THEOREM JobsMatch == ASSUME Lapses = {} PROVE Spec => []JobMatchesClaim
<1>1. HeldInv => JobMatchesClaim
  BY DEF HeldInv
<1> QED
  BY <1>1, InitTypeOK, NextTypeOK, InitUnread, StepUnread, InitHeld, StepHeld, PTL DEF Spec

=============================================================================
