------------------------- MODULE InvoiceApprovalProofs -------------------------
(***************************************************************************)
(* Proofs about InvoiceApproval, for any drafts, handlers, workers and     *)
(* contents, any bounds, and whatever the lapses: it keeps its types, never *)
(* uses a number twice, never has two invoices of a draft, and implements   *)
(* InvoiceRegister.                                                         *)
(***************************************************************************)
EXTENDS InvoiceApproval, TLAPS

-----------------------------------------------------------------------------
(* Types                                                                   *)

\* An update by id leaves a well-typed collection.
LEMMA UpdateType ==
  ASSUME draft \in [Drafts -> Draft], NEW d \in Drafts, NEW document \in Draft,
         Update(d, document)
  PROVE  draft' \in [Drafts -> Draft]
<1>1. [document EXCEPT !.aged = FALSE] \in Draft
  BY DEF Draft
<1>2. QED
  BY <1>1 DEF Update

\* So does a status write.
LEMMA SetStatusType ==
  ASSUME draft \in [Drafts -> Draft], NEW d \in Drafts, NEW s \in Statuses,
         SetStatus(d, s)
  PROVE  draft' \in [Drafts -> Draft]
<1>1. [draft[d] EXCEPT !.status = s] \in Draft
  BY DEF Draft
<1>2. QED
  BY <1>1, UpdateType DEF SetStatus

\* A versioned write of a document is a document.
LEMMA BumpType ==
  ASSUME NEW t \in Draft
  PROVE  /\ \A p \in Payloads : [t EXCEPT !.payload = p, !.version = @ + 1] \in Draft
         /\ \A s \in Statuses : [t EXCEPT !.status = s, !.version = @ + 1] \in Draft
<1>1. t.version + 1 \in Nat
  BY DEF Draft
<1>2. QED
  BY <1>1 DEF Draft

\* So is the document the worker's last write leaves.
LEMMA ApprovalType ==
  ASSUME NEW t \in Draft, NEW n \in Nat, NEW p \in Payloads
  PROVE  [t EXCEPT !.status = "approved", !.invoice = n, !.payload = p] \in Draft
BY DEF Draft, Statuses

LEMMA InitTypeOK == Init => TypeOK
BY NoPayloadIsNone DEF Init, TypeOK, Draft, NoDocument, Statuses, Request, IdleRequest, Slot, IdleSlot,
   Job, Invoice

LEMMA DraftTypeOK ==
  ASSUME TypeOK, NEW d \in Drafts, DraftNext(d)
  PROVE  TypeOK'
<1> USE DEF TypeOK, apiVars, workVars, ledgerVars
<1>1. CASE CreateDraft(d)
  BY <1>1 DEF CreateDraft, Draft, Statuses
<1>2. CASE ExtractionDownloaded(d) \/ ExtractionDownloadFails(d) \/ ExtractionDies(d)
  BY <1>2 DEF ExtractionDownloaded, ExtractionDownloadFails, ExtractionDies
<1>3. CASE ExtractionBuilt(d)
  <2>1. PICK p \in Payloads : Update(d, [draft[d] EXCEPT !.status = "ready", !.payload = p])
    BY <1>3 DEF ExtractionBuilt
  <2>2. [draft[d] EXCEPT !.status = "ready", !.payload = p] \in Draft
    BY DEF Draft, Statuses
  <2>3. draft' \in [Drafts -> Draft]
    BY <2>1, <2>2, UpdateType
  <2>4. QED
    BY <1>3, <2>3 DEF ExtractionBuilt
<1>4. CASE ExtractionFails(d)
  <2>1. draft' \in [Drafts -> Draft]
    BY <1>4, SetStatusType DEF ExtractionFails, Statuses
  <2>2. QED
    BY <1>4, <2>1 DEF ExtractionFails
<1>5. CASE Expire(d)
  BY <1>5 DEF Expire, Draft, NoDocument, Statuses
<1>6. CASE AgeClaim(d)
  BY <1>6 DEF AgeClaim, Draft
<1>7. CASE PollRead(d)
  BY <1>7 DEF PollRead
<1>8. CASE PollHeal(d)
  <2>1. draft' \in [Drafts -> Draft]
    BY <1>8, SetStatusType DEF PollHeal, Statuses
  <2>2. QED
    BY <1>8, <2>1 DEF PollHeal
<1>9. QED
  BY <1>1, <1>2, <1>3, <1>4, <1>5, <1>6, <1>7, <1>8, DraftNext(d) DEF DraftNext

LEMMA RequestTypeOK ==
  ASSUME TypeOK, NEW r \in Requests, RequestNext(r)
  PROVE  TypeOK'
<1> USE DEF TypeOK, draftVars, workVars, ledgerVars
<1>1. CASE \E d \in Drafts : DiscardRead(r, d)
  BY <1>1 DEF DiscardRead, Request
<1>2. ASSUME NEW d \in Drafts, NEW p \in Payloads, EditRead(r, d, p)
      PROVE  TypeOK'
  <2>1. Recompute[p] \in Payloads /\ draft[d].version \in Nat
    BY RecomputeType DEF Draft
  <2>2. QED
    BY <1>2, <2>1 DEF EditRead, Request
<1>3. ASSUME NEW d \in Drafts, NEW p \in Payloads, ApproveRead(r, d, p)
      PROVE  TypeOK'
  <2>1. draft[d].version \in Nat
    BY DEF Draft
  <2>2. QED
    BY <1>3, <2>1 DEF ApproveRead, Request
<1>4. CASE EditSave(r)
  <2>1. request[r].draft \in Drafts /\ request[r].payload \in Payloads
    BY <1>4 DEF EditSave, Request, IdleRequest
  <2>2. [draft[request[r].draft] EXCEPT !.payload = request[r].payload, !.version = @ + 1] \in Draft
    BY <2>1, BumpType
  <2>3. draft' \in [Drafts -> Draft]
    BY <1>4, <2>1, <2>2, UpdateType DEF EditSave
  <2>4. QED
    BY <1>4, <2>3 DEF EditSave, Request
<1>5. CASE DiscardWrite(r)
  <2>1. request[r].draft \in Drafts
    BY <1>5 DEF DiscardWrite, Request, IdleRequest
  <2>2. [draft[request[r].draft] EXCEPT !.status = "discarded", !.version = @ + 1] \in Draft
    BY <2>1, BumpType DEF Statuses
  <2>3. draft' \in [Drafts -> Draft]
    BY <1>5, <2>1, <2>2, UpdateType DEF DiscardWrite
  <2>4. QED
    BY <1>5, <2>3 DEF DiscardWrite, Request
<1>6. CASE ApproveClaim(r)
  <2>1. /\ request[r].draft \in Drafts
        /\ request[r] \in [pc : {"save", "claim", "enqueue", "unclaim"}, draft : Drafts,
                           payload : Payloads, version : Nat, checked : BOOLEAN]
    BY <1>6 DEF ApproveClaim, Request, IdleRequest
  <2>2. [draft[request[r].draft] EXCEPT !.status = "approving", !.version = @ + 1] \in Draft
    BY <2>1, BumpType DEF Statuses
  <2>3. draft' \in [Drafts -> Draft]
    BY <1>6, <2>1, <2>2, UpdateType DEF ApproveClaim
  <2>4. [request[r] EXCEPT !.pc = "enqueue", !.version = @ + 1] \in Request
    <3>1. request[r].version + 1 \in Nat
      BY <2>1
    <3>2. QED
      BY <2>1, <3>1 DEF Request
  <2>5. request' \in [Requests -> Request]
    BY <1>6, <2>4 DEF ApproveClaim, Request
  <2>6. QED
    BY <1>6, <2>3, <2>5 DEF ApproveClaim
<1>7. CASE ApproveEnqueue(r) \/ ApproveEnqueueFails(r) \/ ApproveEnqueueTimesOut(r)
  <2>1. request[r] \in [pc : {"save", "claim", "enqueue", "unclaim"}, draft : Drafts,
                        payload : Payloads, version : Nat, checked : BOOLEAN]
    BY <1>7 DEF ApproveEnqueue, ApproveEnqueueFails, ApproveEnqueueTimesOut, Request, IdleRequest
  <2>2. [draft |-> request[r].draft, version |-> request[r].version,
         payload |-> request[r].payload, stalls |-> 0] \in Job
    BY <2>1 DEF Job
  <2>3. [request[r] EXCEPT !.pc = "unclaim"] \in Request
    BY <2>1 DEF Request
  <2>4. QED
    BY <1>7, <2>2, <2>3
    DEF ApproveEnqueue, ApproveEnqueueFails, ApproveEnqueueTimesOut, AddJob, Request
<1>8. CASE ApproveUnclaim(r)
  <2>1. request[r].draft \in Drafts
    BY <1>8 DEF ApproveUnclaim, Request, IdleRequest
  <2>2. draft' \in [Drafts -> Draft]
    BY <1>8, <2>1, SetStatusType DEF ApproveUnclaim, Statuses
  <2>3. QED
    BY <1>8, <2>2 DEF ApproveUnclaim, Request
<1>9. CASE RequestDies(r)
  BY <1>9 DEF RequestDies, Request
<1>10. QED
  BY <1>1, <1>2, <1>3, <1>4, <1>5, <1>6, <1>7, <1>8, <1>9, RequestNext(r) DEF RequestNext

LEMMA WorkerTypeOK ==
  ASSUME TypeOK, NEW w \in Workers, WorkerNext(w)
  PROVE  TypeOK'
<1> DEFINE Busy == [pc : {"taken", "rollback", "done"} \cup Working, job : Job,
                     claim : Nat, owned : BOOLEAN]
<1> USE DEF TypeOK, draftVars, apiVars, ledgerVars
<1>1. ASSUME NEW j \in queue, WorkerTake(w, j)
      PROVE  TypeOK'
  BY <1>1 DEF WorkerTake, Slot, Job
<1>2. ASSUME worker[w].pc # "idle"
      PROVE  /\ worker[w] \in Busy
             /\ worker[w].job \in Job
             /\ worker[w].job.draft \in Drafts
             /\ Recompute[worker[w].job.payload] \in Payloads
             /\ \A s \in {"rollback", "done"} \cup Working :
                  [worker[w] EXCEPT !.pc = s] \in Slot
  <2>1. worker[w] \in Busy
    BY <1>2 DEF Slot, IdleSlot
  <2>2. QED
    BY <2>1, RecomputeType DEF Job, Slot
<1>3. IdleSlot \in Slot
  BY DEF Slot
<1>4. CASE WorkerClaim(w)
  <2>1. worker[w] \in Busy /\ worker[w].job.draft \in Drafts
    BY <1>2, <1>4 DEF WorkerClaim
  <2>2. draft' \in [Drafts -> Draft]
    BY <1>4, <2>1, SetStatusType DEF WorkerClaim, Statuses
  <2>3. draft[worker[w].job.draft].version \in Nat
    BY <2>1 DEF Draft
  <2>4. worker' \in [Workers -> Slot]
    BY <1>4, <2>1, <2>3 DEF WorkerClaim, Slot, Working
  <2>5. QED
    BY <1>4, <2>2, <2>4 DEF WorkerClaim
<1>5. CASE WorkerSkip(w)
  BY <1>3, <1>5 DEF WorkerSkip
<1>6. CASE WorkerRefuse(w)
  <2>1. draft' \in [Drafts -> Draft]
    BY <1>2, <1>6, SetStatusType DEF WorkerRefuse, Statuses
  <2>2. [worker[w] EXCEPT !.pc = "done"] \in Slot
    BY <1>2, <1>6 DEF WorkerRefuse
  <2>3. QED
    BY <1>6, <2>1, <2>2 DEF WorkerRefuse
<1>7. CASE WorkerReserveNumber(w)
  <2>1. [worker[w] EXCEPT !.pc = "numbered"] \in Slot
    BY <1>2, <1>7 DEF WorkerReserveNumber, Working
  <2>2. worker' \in [Workers -> Slot]
    BY <1>7, <2>1 DEF WorkerReserveNumber
  <2>3. counter' \in Nat /\ number' \in [Workers \cup Creators -> Nat]
    BY <1>7 DEF WorkerReserveNumber, GenerateInvoiceNumber
  <2>4. QED
    BY <1>7, <2>2, <2>3 DEF WorkerReserveNumber
<1>8. CASE WorkerStorePdf(w)
  <2>1. [worker[w] EXCEPT !.pc = "stored"] \in Slot
    BY <1>2, <1>8 DEF WorkerStorePdf, Working
  <2>2. QED
    BY <1>8, <2>1 DEF WorkerStorePdf
<1>9. CASE WorkerSaveInvoice(w)
  <2>1. [worker[w] EXCEPT !.pc = "saved"] \in Slot
    BY <1>2, <1>9 DEF WorkerSaveInvoice, Working
  <2>2. [number |-> number[w], draft |-> worker[w].job.draft,
         payload |-> Recompute[worker[w].job.payload]] \in Invoice
    BY <1>2, <1>9 DEF WorkerSaveInvoice, Invoice
  <2>3. QED
    BY <1>9, <2>1, <2>2 DEF WorkerSaveInvoice, InsertInvoice
<1>10. CASE WorkerCommit(w)
  <2>1. worker[w].job.draft \in Drafts /\ Recompute[worker[w].job.payload] \in Payloads
    BY <1>2, <1>10 DEF WorkerCommit
  <2>2. [draft[worker[w].job.draft] EXCEPT !.status = "approved", !.invoice = number[w],
           !.payload = Recompute[worker[w].job.payload]] \in Draft
    BY <2>1, ApprovalType
  <2>3. draft' \in [Drafts -> Draft]
    BY <1>10, <2>1, <2>2, UpdateType DEF WorkerCommit
  <2>4. [worker[w] EXCEPT !.pc = "done"] \in Slot
    BY <1>2, <1>10 DEF WorkerCommit
  <2>5. QED
    BY <1>10, <2>3, <2>4 DEF WorkerCommit
<1>11. CASE WorkerThrow(w)
  <2>1. \A s \in {"cleanup", "rollback"} : [worker[w] EXCEPT !.pc = s] \in Slot
    BY <1>2, <1>11 DEF WorkerThrow, Working
  <2>2. QED
    BY <1>11, <2>1 DEF WorkerThrow
<1>12. CASE WorkerCleanup(w)
  <2>1. [worker[w] EXCEPT !.pc = "rollback"] \in Slot
    BY <1>2, <1>12 DEF WorkerCleanup, Working
  <2>2. QED
    BY <1>12, <2>1 DEF WorkerCleanup
<1>13. CASE WorkerRollback(w)
  <2>1. draft' \in [Drafts -> Draft]
    BY <1>2, <1>13, SetStatusType DEF WorkerRollback, Statuses
  <2>2. [worker[w] EXCEPT !.pc = "done"] \in Slot
    BY <1>2, <1>13 DEF WorkerRollback
  <2>3. QED
    BY <1>13, <2>1, <2>2 DEF WorkerRollback
<1>14. ASSUME worker[w].pc # "idle", Requeue(w)
       PROVE  queue' \subseteq Job
  <2>1. worker[w].job \in Job
    BY <1>2, <1>14
  <2>2. worker[w].job.stalls + 1 \in Nat
    BY <2>1 DEF Job
  <2>3. [worker[w].job EXCEPT !.stalls = @ + 1] \in Job
    BY <2>1, <2>2 DEF Job
  <2>4. QED
    BY <1>14, <2>3 DEF Requeue
<1>15. ASSUME worker[w] # IdleSlot
       PROVE  worker[w].pc # "idle"
  BY <1>15 DEF Slot, IdleSlot, Working
<1>16. CASE WorkerCrash(w)
  <2>1. queue' \subseteq Job
    BY <1>14, <1>15, <1>16 DEF WorkerCrash
  <2>2. QED
    BY <1>3, <1>16, <2>1 DEF WorkerCrash
<1>17. CASE WorkerStall(w)
  <2>1. queue' \subseteq Job
    BY <1>14, <1>15, <1>17 DEF WorkerStall
  <2>2. worker[w] \in Busy
    BY <1>2, <1>15, <1>17 DEF WorkerStall
  <2>3. [worker[w] EXCEPT !.owned = FALSE] \in Slot
    BY <2>2 DEF Slot
  <2>4. QED
    BY <1>17, <2>1, <2>3 DEF WorkerStall
<1>18. CASE WorkerFinish(w)
  BY <1>3, <1>18 DEF WorkerFinish
<1>19. QED
  BY <1>1, <1>4, <1>5, <1>6, <1>7, <1>8, <1>9, <1>10, <1>11, <1>12, <1>13,
     <1>16, <1>17, <1>18, WorkerNext(w) DEF WorkerNext

LEMMA CreatorTypeOK ==
  ASSUME TypeOK, NEW c \in Creators, CreatorNext(c)
  PROVE  TypeOK'
<1> USE DEF TypeOK, draftVars, workVars, ledgerVars
<1>1. CASE CreateReserveNumber(c)
  BY <1>1 DEF CreateReserveNumber, GenerateInvoiceNumber
<1>2. CASE CreateStorePdf(c)
  BY <1>2 DEF CreateStorePdf
<1>3. CASE CreateSaveInvoice(c)
  <2>1. [number |-> number[c], draft |-> NoDraft, payload |-> NoPayload] \in Invoice
    BY DEF Invoice
  <2>2. QED
    BY <1>3, <2>1 DEF CreateSaveInvoice, InsertInvoice
<1>4. CASE CreateDies(c)
  BY <1>4 DEF CreateDies
<1>5. QED
  BY <1>1, <1>2, <1>3, <1>4, CreatorNext(c) DEF CreatorNext

LEMMA NextTypeOK == TypeOK /\ [Next]_vars => TypeOK'
<1> SUFFICES ASSUME TypeOK, [Next]_vars
             PROVE  TypeOK'
  OBVIOUS
<1>1. ASSUME NEW i \in invoices, DeleteInvoice(i)
      PROVE  TypeOK'
  BY <1>1 DEF DeleteInvoice, TypeOK, draftVars, apiVars, workVars
<1>2. CASE UNCHANGED vars
  BY <1>2 DEF vars, TypeOK
<1>3. QED
  BY <1>1, <1>2, DraftTypeOK, RequestTypeOK, WorkerTypeOK, CreatorTypeOK DEF Next

\* Every reachable state is well typed: whatever the handlers and workers
\* interleave, documents, jobs and slots keep the shapes of the schemas.
THEOREM TypeCorrect == Spec => []TypeOK
BY InitTypeOK, NextTypeOK, PTL DEF Spec

-----------------------------------------------------------------------------
(* Invoices and their numbers *)

Issuers == Workers \cup Creators

\* Why a number is never reused: the numbers held are distinct and below the
\* counter, and one that is still to be used is in no invoice.
NumberInv ==
    /\ \A x \in Issuers : number[x] \in 0..counter
    /\ \A x, y \in Issuers : x # y /\ number[x] # 0 => number[x] # number[y]
    /\ \A x \in Issuers : Pending(x) => number[x] # 0
    /\ \A x \in Issuers : Pending(x) => \A i \in Ledger : i.number # number[x]
    /\ \A i \in Ledger : i.number \in 1..counter
    /\ \A i, j \in Ledger : i.number = j.number => i = j

LedgerInv == TypeOK /\ NumberInv /\ OneInvoicePerDraft

-----------------------------------------------------------------------------
(* The ways a step can touch numbers and invoices                          *)

\* Nobody but x changes what it holds.
Alone(x) ==
    \A y \in Issuers \ {x} : number'[y] = number[y] /\ (Pending(y)' <=> Pending(y))

\* A step by which x takes no number and issues nothing: it keeps its number,
\* or stops being able to use it.
Moves(x) ==
    /\ Alone(x)
    /\ UNCHANGED <<counter, invoices, retired>>
    /\ number'[x] \in {number[x], 0}
    /\ Pending(x)' => Pending(x) /\ number'[x] = number[x]

\* A step of another part of the system.
Quiet == UNCHANGED <<creator, worker, number, counter, invoices, retired>>

\* What they and deleteInvoice have in common: numbers are kept or dropped, a
\* dropped one is not pending, and invoices move within the ledger.
Keeps ==
    /\ counter' = counter
    /\ Ledger' = Ledger
    /\ invoices' \subseteq invoices
    /\ \A x \in Issuers : number'[x] \in {number[x], 0}
    /\ \A x \in Issuers : Pending(x)' => Pending(x) /\ number'[x] = number[x]

LEMMA MovesKeeps ==
  ASSUME NEW x \in Issuers, Moves(x)
  PROVE  Keeps
BY DEF Moves, Alone, Keeps, Ledger

LEMMA QuietKeeps == Quiet => Keeps
BY DEF Quiet, Keeps, Pending, Ledger

LEMMA DeleteKeeps ==
  ASSUME NEW i \in invoices, DeleteInvoice(i)
  PROVE  Keeps
BY DEF DeleteInvoice, Keeps, Pending, Ledger, draftVars, apiVars, workVars

LEMMA KeepsLedger ==
  ASSUME LedgerInv, Keeps
  PROVE  NumberInv' /\ OneInvoicePerDraft'
<1>1. NumberInv'
  <2>1. \A x \in Issuers : number'[x] \in 0..counter'
    BY DEF LedgerInv, Keeps, NumberInv, TypeOK
  <2>2. QED
    BY <2>1 DEF LedgerInv, Keeps, NumberInv
<1>2. OneInvoicePerDraft'
  BY DEF LedgerInv, Keeps, OneInvoicePerDraft
<1>3. QED
  BY <1>1, <1>2

\* A step by which x takes the counter's next number.
Takes(x) ==
    /\ GenerateInvoiceNumber(x)
    /\ UNCHANGED <<invoices, retired>>
    /\ ~Pending(x) /\ Pending(x)'
    /\ Alone(x)

LEMMA TakesLedger ==
  ASSUME LedgerInv, NEW x \in Issuers, Takes(x)
  PROVE  NumberInv' /\ OneInvoicePerDraft'
<1>1. /\ counter \in Nat /\ counter' = counter + 1 /\ Ledger' = Ledger
      /\ number'[x] = counter + 1
      /\ \A y \in Issuers \ {x} : number'[y] = number[y]
  BY DEF LedgerInv, TypeOK, Takes, GenerateInvoiceNumber, Issuers, Ledger
<1>2. \A y \in Issuers : number[y] \in 0..counter
  BY DEF LedgerInv, NumberInv
<1>3. \A i \in Ledger : i.number \in 1..counter
  BY DEF LedgerInv, NumberInv
<1>4. \A y \in Issuers : number'[y] \in 0..counter'
  BY <1>1, <1>2
<1>5. \A y, z \in Issuers : y # z /\ number'[y] # 0 => number'[y] # number'[z]
  <2> SUFFICES ASSUME NEW y \in Issuers, NEW z \in Issuers, y # z, number'[y] # 0
               PROVE  number'[y] # number'[z]
    OBVIOUS
  <2>1. CASE y = x
    BY <1>1, <1>2, <2>1
  <2>2. CASE z = x
    BY <1>1, <1>2, <2>2
  <2>3. CASE y # x /\ z # x
    BY <1>1, <2>3 DEF LedgerInv, NumberInv
  <2>4. QED
    BY <2>1, <2>2, <2>3
<1>6. \A y \in Issuers : Pending(y)' => number'[y] # 0
  <2> SUFFICES ASSUME NEW y \in Issuers, Pending(y)'
               PROVE  number'[y] # 0
    OBVIOUS
  <2>1. CASE y = x
    BY <1>1, <2>1
  <2>2. CASE y # x
    BY <1>1, <2>2 DEF LedgerInv, NumberInv, Takes, Alone
  <2>3. QED
    BY <2>1, <2>2
<1>7. \A y \in Issuers : Pending(y)' => \A i \in Ledger' : i.number # number'[y]
  <2> SUFFICES ASSUME NEW y \in Issuers, Pending(y)', NEW i \in Ledger
               PROVE  i.number # number'[y]
    BY <1>1
  <2>1. CASE y = x
    BY <1>1, <1>3, <2>1
  <2>2. CASE y # x
    BY <1>1, <2>2 DEF LedgerInv, NumberInv, Takes, Alone
  <2>3. QED
    BY <2>1, <2>2
<1>8. \A i \in Ledger' : i.number \in 1..counter'
  BY <1>1, <1>3
<1>9. \A i, j \in Ledger' : i.number = j.number => i = j
  BY <1>1 DEF LedgerInv, NumberInv
<1>10. OneInvoicePerDraft'
  BY DEF LedgerInv, OneInvoicePerDraft, Takes
<1>11. QED
  BY <1>4, <1>5, <1>6, <1>7, <1>8, <1>9, <1>10 DEF NumberInv

\* A step by which x issues an invoice under the number it reserved.
Issues(x, d, p) ==
    /\ Pending(x) /\ ~Pending(x)'
    /\ InsertInvoice(number[x], d, p)
    /\ UNCHANGED <<counter, retired>>
    /\ number'[x] \in {number[x], 0}
    /\ Alone(x)

LEMMA IssuesLedger ==
  ASSUME LedgerInv, NEW x \in Issuers, NEW d, NEW p, Issues(x, d, p)
  PROVE  NumberInv' /\ OneInvoicePerDraft'
<1> DEFINE new == [number |-> number[x], draft |-> d, payload |-> p]
<1>1. /\ Ledger' = Ledger \cup {new} /\ invoices' = invoices \cup {new}
      /\ counter' = counter
  BY DEF Issues, InsertInvoice, Ledger
<1>2. new.number = number[x] /\ new.draft = d
  OBVIOUS
<1>3. number[x] # 0 /\ \A i \in Ledger : i.number # number[x]
  BY DEF Issues, Alone, LedgerInv, NumberInv
<1>4. \A y \in Issuers : number'[y] \in 0..counter'
  BY DEF Issues, Alone, LedgerInv, NumberInv, TypeOK
<1>5. \A y, z \in Issuers : y # z /\ number'[y] # 0 => number'[y] # number'[z]
  BY DEF Issues, Alone, LedgerInv, NumberInv
<1>6. \A y \in Issuers : Pending(y)' => number'[y] # 0
  BY DEF Issues, Alone, LedgerInv, NumberInv
<1>7. \A y \in Issuers : Pending(y)' => \A i \in Ledger' : i.number # number'[y]
  <2> SUFFICES ASSUME NEW y \in Issuers, Pending(y)', NEW i \in Ledger \cup {new}
               PROVE  i.number # number'[y]
    BY <1>1
  <2>1. y # x /\ Pending(y) /\ number'[y] = number[y]
    BY DEF Issues, Alone
  <2>2. CASE i \in Ledger
    BY <2>1, <2>2 DEF LedgerInv, NumberInv
  <2>3. CASE i = new
    BY <1>2, <1>3, <2>1, <2>3 DEF LedgerInv, NumberInv
  <2>4. QED
    BY <2>2, <2>3
<1>8. \A i \in Ledger' : i.number \in 1..counter'
  <2>1. number[x] \in 1..counter
    BY <1>3 DEF LedgerInv, NumberInv, TypeOK
  <2>2. QED
    BY <1>1, <1>2, <2>1 DEF LedgerInv, NumberInv
<1>9. \A i, j \in Ledger' : i.number = j.number => i = j
  BY <1>1, <1>2, <1>3 DEF LedgerInv, NumberInv
<1>10. OneInvoicePerDraft'
  <2>1. \A i \in invoices : d # NoDraft => i.draft # d
    BY DEF Issues, InsertInvoice, Indexed
  <2>2. QED
    BY <1>1, <1>2, <2>1 DEF LedgerInv, OneInvoicePerDraft
<1>11. QED
  BY <1>4, <1>5, <1>6, <1>7, <1>8, <1>9, <1>10 DEF NumberInv

-----------------------------------------------------------------------------
(* Every step is one of these                                              *)

LEMMA DraftLedger ==
  ASSUME NEW d \in Drafts, DraftNext(d)
  PROVE  Quiet
<1>1. UNCHANGED <<apiVars, workVars, number, ledgerVars>>
  BY DEF DraftNext, CreateDraft, ExtractionDownloaded, ExtractionDownloadFails,
     ExtractionBuilt, ExtractionFails, ExtractionDies, Expire, AgeClaim, PollRead, PollHeal
<1>2. QED
  BY <1>1 DEF Quiet, apiVars, workVars, ledgerVars

LEMMA RequestLedger ==
  ASSUME NEW r \in Requests, RequestNext(r)
  PROVE  Quiet
<1>1. UNCHANGED <<creator, worker, number, ledgerVars>>
  BY DEF RequestNext, EditRead, EditSave, ApproveRead, ApproveClaim, ApproveEnqueue,
     ApproveEnqueueFails, ApproveEnqueueTimesOut, ApproveUnclaim, DiscardRead,
     DiscardWrite, RequestDies, workVars
<1>2. QED
  BY <1>1 DEF Quiet, ledgerVars

\* A slot's step leaves the other slots and the creators alone.
LEMMA SlotAlone ==
  ASSUME TypeOK, NEW w \in Workers, UNCHANGED creator,
         \A v \in Workers \ {w} : worker'[v].pc = worker[v].pc,
         \A y \in Issuers \ {w} : number'[y] = number[y]
  PROVE  Alone(w)
BY SlotsDisjoint DEF Alone, Pending, Issuers

\* What most of the worker's steps share: a slot that moves on without a number.
LEMMA SlotMoves ==
  ASSUME TypeOK, NEW w \in Workers, NEW slot,
         worker' = [worker EXCEPT ![w] = slot],
         number' \in {number, [number EXCEPT ![w] = 0]},
         slot.pc \notin {"numbered", "stored"},
         UNCHANGED <<creator, counter, invoices, retired>>
  PROVE  Moves(w)
<1>1. \A y \in Issuers \ {w} : number'[y] = number[y]
  BY DEF TypeOK, Issuers
<1>2. \A v \in Workers \ {w} : worker'[v].pc = worker[v].pc
  BY DEF TypeOK
<1>3. Alone(w)
  BY <1>1, <1>2, SlotAlone
<1>4. number'[w] \in {number[w], 0}
  BY DEF TypeOK
<1>5. ~Pending(w)'
  BY DEF Pending, TypeOK
<1>6. QED
  BY <1>3, <1>4, <1>5 DEF Moves

LEMMA WorkerLedger ==
  ASSUME TypeOK, NEW w \in Workers, WorkerNext(w)
  PROVE  \/ Moves(w)
         \/ Takes(w)
         \/ \E d \in Drafts, p \in Payloads : Issues(w, d, p)
<1> USE DEF draftVars, apiVars, ledgerVars
<1>1. ASSUME NEW j \in queue, WorkerTake(w, j)
      PROVE  Moves(w)
  BY <1>1, SlotMoves DEF WorkerTake
<1>2. ASSUME worker[w].pc # "idle"
      PROVE  worker[w] \in [pc : {"taken", "rollback", "done"} \cup Working, job : Job,
                          claim : Nat, owned : BOOLEAN]
  BY <1>2 DEF TypeOK, Slot, IdleSlot
<1>3. CASE WorkerClaim(w)
  <2>1. worker[w] \in [pc : {"taken", "rollback", "done"} \cup Working, job : Job,
                      claim : Nat, owned : BOOLEAN]
    BY <1>2, <1>3 DEF WorkerClaim
  <2>2. [worker[w] EXCEPT !.pc = "claimed",
                          !.claim = draft[worker[w].job.draft].version].pc = "claimed"
    BY <2>1
  <2>3. PICK slot : worker' = [worker EXCEPT ![w] = slot] /\ slot.pc = "claimed"
    BY <1>3, <2>2 DEF WorkerClaim
  <2>4. QED
    BY <1>3, <2>3, SlotMoves DEF WorkerClaim
<1>4. CASE WorkerSkip(w) \/ WorkerCrash(w) \/ WorkerFinish(w)
  <2>1. IdleSlot.pc = "idle"
    BY DEF IdleSlot
  <2>2. QED
    BY <1>4, <2>1, SlotMoves DEF WorkerSkip, WorkerCrash, WorkerFinish
<1>5. CASE WorkerRefuse(w) \/ WorkerThrow(w) \/ WorkerCleanup(w) \/ WorkerRollback(w)
           \/ WorkerCommit(w)
  <2>1. PICK s \in {"cleanup", "rollback", "done"} :
               worker' = [worker EXCEPT ![w] = [worker[w] EXCEPT !.pc = s]]
    BY <1>5 DEF TypeOK, WorkerRefuse, WorkerThrow, WorkerCleanup, WorkerRollback, WorkerCommit
  <2>2. [worker[w] EXCEPT !.pc = s].pc = s
    BY <1>2, <1>5 DEF WorkerRefuse, WorkerThrow, WorkerCleanup, WorkerRollback, WorkerCommit
  <2>3. /\ UNCHANGED <<creator, counter, invoices, retired>>
        /\ number' \in {number, [number EXCEPT ![w] = 0]}
    BY <1>5 DEF WorkerRefuse, WorkerThrow, WorkerCleanup, WorkerRollback, WorkerCommit
  <2>4. QED
    BY <2>1, <2>2, <2>3, SlotMoves
<1>6. ASSUME NEW s \in {"numbered", "stored", "saved"}, worker[w].pc # "idle",
             worker' = [worker EXCEPT ![w].pc = s]
      PROVE  /\ worker'[w].pc = s
             /\ \A v \in Workers \ {w} : worker'[v].pc = worker[v].pc
  BY <1>2, <1>6 DEF TypeOK
<1>7. CASE WorkerReserveNumber(w)
  <2>1. worker'[w].pc = "numbered" /\ \A v \in Workers \ {w} : worker'[v].pc = worker[v].pc
    BY <1>6, <1>7 DEF WorkerReserveNumber
  <2>2. \A y \in Issuers \ {w} : number'[y] = number[y]
    BY <1>7 DEF WorkerReserveNumber, GenerateInvoiceNumber, TypeOK, Issuers
  <2>3. Alone(w)
    BY <1>7, <2>1, <2>2, SlotAlone DEF WorkerReserveNumber
  <2>4. ~Pending(w) /\ Pending(w)'
    BY <1>7, <2>1 DEF WorkerReserveNumber, Pending
  <2>5. QED
    BY <1>7, <2>3, <2>4 DEF WorkerReserveNumber, Takes
<1>8. CASE WorkerStorePdf(w)
  <2>1. worker'[w].pc = "stored" /\ \A v \in Workers \ {w} : worker'[v].pc = worker[v].pc
    BY <1>6, <1>8 DEF WorkerStorePdf
  <2>2. Alone(w)
    BY <1>8, <2>1, SlotAlone DEF WorkerStorePdf
  <2>3. QED
    BY <1>8, <2>2 DEF WorkerStorePdf, Moves, Pending
<1>9. CASE WorkerSaveInvoice(w)
  <2>1. /\ worker[w].job.draft \in Drafts
        /\ Recompute[worker[w].job.payload] \in Payloads
    BY <1>2, <1>9, RecomputeType DEF WorkerSaveInvoice, Job
  <2>2. worker'[w].pc = "saved" /\ \A v \in Workers \ {w} : worker'[v].pc = worker[v].pc
    BY <1>6, <1>9 DEF WorkerSaveInvoice
  <2>3. Pending(w) /\ ~Pending(w)'
    BY <1>9, <2>2 DEF WorkerSaveInvoice, Pending
  <2>4. Alone(w)
    BY <1>9, <2>2, SlotAlone DEF WorkerSaveInvoice
  <2>5. Issues(w, worker[w].job.draft, Recompute[worker[w].job.payload])
    BY <1>9, <2>3, <2>4 DEF WorkerSaveInvoice, Issues
  <2>6. QED
    BY <2>1, <2>5
<1>10. CASE WorkerStall(w)
  <2>1. \A v \in Workers : worker'[v].pc = worker[v].pc
    <3>1. worker[w].pc # "idle"
      BY <1>10 DEF WorkerStall, TypeOK, Slot, IdleSlot, Working
    <3>2. worker'[w].pc = worker[w].pc
      BY <1>2, <1>10, <3>1 DEF WorkerStall, TypeOK
    <3>3. \A v \in Workers \ {w} : worker'[v] = worker[v]
      BY <1>10 DEF WorkerStall, TypeOK
    <3>4. QED
      BY <3>2, <3>3
  <2>2. Alone(w)
    BY <1>10, <2>1, SlotAlone DEF WorkerStall
  <2>3. QED
    BY <1>10, <2>1, <2>2 DEF WorkerStall, Moves, Pending
<1>11. QED
  BY <1>1, <1>3, <1>4, <1>5, <1>7, <1>8, <1>9, <1>10, WorkerNext(w) DEF WorkerNext

LEMMA CreatorLedger ==
  ASSUME TypeOK, NEW c \in Creators, CreatorNext(c)
  PROVE  Moves(c) \/ Takes(c) \/ Issues(c, NoDraft, NoPayload)
<1> USE DEF draftVars, workVars, ledgerVars
<1>1. c \notin Workers
  BY SlotsDisjoint
<1>2. CASE CreateReserveNumber(c)
  <2>1. Alone(c)
    BY <1>2 DEF CreateReserveNumber, GenerateInvoiceNumber, Alone, Pending, TypeOK, Issuers
  <2>2. ~Pending(c) /\ Pending(c)'
    BY <1>1, <1>2 DEF CreateReserveNumber, Pending, TypeOK
  <2>3. QED
    BY <1>2, <2>1, <2>2 DEF CreateReserveNumber, Takes
<1>3. CASE CreateStorePdf(c)
  <2>1. Alone(c)
    BY <1>3 DEF CreateStorePdf, Alone, Pending, TypeOK, Issuers
  <2>2. Pending(c)
    BY <1>1, <1>3 DEF CreateStorePdf, Pending
  <2>3. QED
    BY <1>3, <2>1, <2>2 DEF CreateStorePdf, Moves
<1>4. CASE CreateSaveInvoice(c)
  <2>1. Pending(c) /\ ~Pending(c)'
    BY <1>1, <1>4 DEF CreateSaveInvoice, Pending, TypeOK
  <2>2. Alone(c) /\ number'[c] \in {number[c], 0}
    BY <1>4 DEF CreateSaveInvoice, Alone, Pending, TypeOK, Issuers
  <2>3. QED
    BY <1>4, <2>1, <2>2 DEF CreateSaveInvoice, Issues
<1>5. CASE CreateDies(c)
  <2>1. Alone(c) /\ number'[c] \in {number[c], 0}
    BY <1>5 DEF CreateDies, Alone, Pending, TypeOK, Issuers
  <2>2. ~Pending(c)'
    BY <1>1, <1>5 DEF CreateDies, Pending, TypeOK
  <2>3. QED
    BY <1>5, <2>1, <2>2 DEF CreateDies, Moves
<1>6. QED
  BY <1>2, <1>3, <1>4, <1>5, CreatorNext(c) DEF CreatorNext

\* A step of the system, as the ledger sees it.
LedgerStep ==
    \/ Quiet
    \/ \E x \in Issuers : Moves(x) \/ Takes(x)
    \/ \E x \in Issuers, d \in Drafts \cup {NoDraft}, p \in Payloads \cup {NoPayload} :
         Issues(x, d, p)
    \/ \E i \in invoices : DeleteInvoice(i)

LEMMA NextLedger ==
  ASSUME TypeOK, [Next]_vars
  PROVE  LedgerStep
<1>1. ASSUME NEW w \in Workers, WorkerNext(w)
      PROVE  LedgerStep
  BY <1>1, WorkerLedger DEF Issuers, LedgerStep
<1>2. ASSUME NEW c \in Creators, CreatorNext(c)
      PROVE  LedgerStep
  BY <1>2, CreatorLedger DEF Issuers, LedgerStep
<1>3. UNCHANGED vars => Quiet
  BY DEF vars, Quiet
<1>4. QED
  BY <1>1, <1>2, <1>3, DraftLedger, RequestLedger DEF Next, LedgerStep

-----------------------------------------------------------------------------
(* The invariants                                                          *)

LEMMA InitLedger == Init => LedgerInv
<1> SUFFICES ASSUME Init
             PROVE  NumberInv /\ OneInvoicePerDraft
  BY InitTypeOK DEF LedgerInv
<1>1. Ledger = {} /\ counter = 0 /\ \A x \in Issuers : number[x] = 0 /\ ~Pending(x)
  BY DEF Init, Ledger, Issuers, Pending, IdleSlot
<1>2. QED
  BY <1>1 DEF Init, NumberInv, OneInvoicePerDraft

LEMMA StepLedger == LedgerInv /\ [Next]_vars => LedgerInv'
<1> SUFFICES ASSUME LedgerInv, [Next]_vars
             PROVE  LedgerInv'
  OBVIOUS
<1>1. TypeOK /\ TypeOK'
  BY NextTypeOK DEF LedgerInv
<1>2. NumberInv' /\ OneInvoicePerDraft'
  BY <1>1, NextLedger, QuietKeeps, MovesKeeps, DeleteKeeps,
     KeepsLedger, TakesLedger, IssuesLedger DEF LedgerStep
<1>3. QED
  BY <1>1, <1>2 DEF LedgerInv

LEMMA LedgerCorrect == Spec => []LedgerInv
BY InitLedger, StepLedger, PTL DEF Spec

\* A number names one invoice ever, whatever is approved, created, deleted,
\* retried or crashes, and for any number of workers and API processes.
THEOREM NumbersUnique == Spec => []NumbersNeverReused
<1>1. LedgerInv => NumbersNeverReused
  BY DEF LedgerInv, NumberInv, NumbersNeverReused
<1>2. QED
  BY <1>1, LedgerCorrect, PTL

\* At no time do two invoices of the ledger come from one draft.
THEOREM DraftInvoicedOnce == Spec => []OneInvoicePerDraft
<1>1. LedgerInv => OneInvoicePerDraft
  BY DEF LedgerInv
<1>2. QED
  BY <1>1, LedgerCorrect, PTL


-----------------------------------------------------------------------------
(* The refinement                                                          *)

LEMMA InitRegister == Init => Register!RegisterInit
<1> SUFFICES ASSUME Init
             PROVE  Register!RegisterInit
  OBVIOUS
<1>1. \A x \in Workers \cup Creators : number[x] = 0
  BY DEF Init
<1>2. Reserved = [x \in Workers \cup Creators |-> 0]
  BY <1>1 DEF Reserved
<1>3. QED
  BY <1>2 DEF Init, Register!RegisterInit

\* A step that changes nobody's holding but x's changes Reserved at x only.
LEMMA AloneReserved ==
  ASSUME NEW x \in Issuers, Alone(x)
  PROVE  Reserved' = [Reserved EXCEPT ![x] = IF Pending(x)' THEN number'[x] ELSE 0]
BY DEF Alone, Reserved, Issuers

LEMMA StepRegister ==
  ASSUME LedgerInv, LedgerStep
  PROVE  [Register!RegisterNext]_(Register!registerVars)
<1> USE DEF Register!registerVars
<1>1. \A x \in Issuers : Reserved[x] = IF Pending(x) THEN number[x] ELSE 0
  BY DEF Reserved, Issuers
<1>2. Reserved = [x \in Issuers |-> Reserved[x]]
  BY DEF Reserved, Issuers
<1>3. CASE Quiet
  <2>1. Reserved' = Reserved
    BY <1>3 DEF Quiet, Reserved, Pending
  <2>2. QED
    BY <1>3, <2>1 DEF Quiet
<1>4. ASSUME NEW x \in Issuers, Moves(x)
      PROVE  [Register!RegisterNext]_(Register!registerVars)
  <2>1. Reserved' = [Reserved EXCEPT ![x] = IF Pending(x)' THEN number'[x] ELSE 0]
    BY <1>4, AloneReserved DEF Moves
  <2>2. CASE Pending(x) /\ ~Pending(x)'
    <3>1. Reserved[x] # 0
      BY <1>1, <2>2 DEF LedgerInv, NumberInv
    <3>2. Reserved' = [Reserved EXCEPT ![x] = 0]
      BY <2>1, <2>2
    <3>3. Register!GiveUp(x)
      BY <1>4, <3>1, <3>2 DEF Moves, Register!GiveUp
    <3>4. QED
      BY <3>3 DEF Register!RegisterNext, Issuers
  <2>3. CASE ~(Pending(x) /\ ~Pending(x)')
    <3>1. (IF Pending(x)' THEN number'[x] ELSE 0) = Reserved[x]
      BY <1>1, <1>4, <2>3 DEF Moves
    <3>2. Reserved' = Reserved
      BY <1>2, <2>1, <3>1
    <3>3. QED
      BY <1>4, <3>2 DEF Moves
  <2>4. QED
    BY <2>2, <2>3
<1>5. ASSUME NEW x \in Issuers, Takes(x)
      PROVE  [Register!RegisterNext]_(Register!registerVars)
  <2>1. Reserved' = [Reserved EXCEPT ![x] = IF Pending(x)' THEN number'[x] ELSE 0]
    BY <1>5, AloneReserved DEF Takes
  <2>2. counter' = counter + 1 /\ number'[x] = counter + 1
    BY <1>5 DEF Takes, GenerateInvoiceNumber, LedgerInv, TypeOK, Issuers
  <2>3. Reserved[x] = 0 /\ Reserved' = [Reserved EXCEPT ![x] = counter + 1]
    BY <1>1, <1>5, <2>1, <2>2 DEF Takes
  <2>4. Register!Reserve(x)
    BY <1>5, <2>2, <2>3 DEF Takes, Register!Reserve
  <2>5. QED
    BY <2>4 DEF Register!RegisterNext, Issuers
<1>6. ASSUME NEW x \in Issuers, NEW d \in Drafts \cup {NoDraft},
             NEW p \in Payloads \cup {NoPayload}, Issues(x, d, p)
      PROVE  [Register!RegisterNext]_(Register!registerVars)
  <2>1. Reserved' = [Reserved EXCEPT ![x] = 0]
    BY <1>6, AloneReserved DEF Issues
  <2>2. Reserved[x] = number[x] /\ Reserved[x] # 0
    BY <1>1, <1>6 DEF Issues, LedgerInv, NumberInv
  <2>3. \A i \in invoices \cup retired : i.number # Reserved[x]
    BY <1>6, <2>2 DEF Issues, LedgerInv, NumberInv, Ledger
  <2>4. d = NoDraft \/ \A i \in invoices : i.draft # d
    BY <1>6 DEF Issues, InsertInvoice, Indexed
  <2>5. /\ invoices' = invoices \cup {[number |-> Reserved[x], draft |-> d, payload |-> p]}
        /\ UNCHANGED <<counter, retired>>
    BY <1>6, <2>2 DEF Issues, InsertInvoice
  <2>6. Register!Issue(x, d, p)
    BY <2>1, <2>2, <2>3, <2>4, <2>5 DEF Register!Issue
  <2>7. QED
    BY <2>6 DEF Register!RegisterNext, Issuers
<1>7. ASSUME NEW i \in invoices, DeleteInvoice(i)
      PROVE  [Register!RegisterNext]_(Register!registerVars)
  <2>1. Reserved' = Reserved
    BY <1>7 DEF DeleteInvoice, Reserved, Pending, apiVars, workVars
  <2>2. Register!Delete(i)
    BY <1>7, <2>1 DEF DeleteInvoice, Register!Delete
  <2>3. QED
    BY <2>2 DEF Register!RegisterNext
<1>8. QED
  BY <1>3, <1>4, <1>5, <1>6, <1>7 DEF LedgerStep

\* The approval machinery, its claims, retries, redeliveries, rollbacks and
\* crashes, implements the register: seen from the invoices there is nothing
\* but numbers handed out in sequence and used at most once.
THEOREM RegisterImplemented == Spec => ImplementsRegister
<1>1. LedgerInv /\ [Next]_vars => [Register!RegisterNext]_(Register!registerVars)
  BY NextLedger, StepRegister DEF LedgerInv
<1>2. QED
  BY <1>1, InitRegister, LedgerCorrect, PTL DEF Spec, ImplementsRegister, Register!RegisterSpec

=============================================================================
