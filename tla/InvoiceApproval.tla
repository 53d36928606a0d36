---------------------------- MODULE InvoiceApproval ----------------------------
(***************************************************************************)
(* The approval of an invoice draft: the HTTP handlers of                  *)
(* controllers/invoiceDraft.controller.js, the BullMQ queue between them   *)
(* and workers/invoiceApproval.worker.js, the worker itself, the invoice   *)
(* counter, and the two other writers of the same collections,             *)
(* createInvoice and deleteInvoice of controllers/invoice.controller.js.   *)
(*                                                                         *)
(* Every handler is cut at its awaits: what it read before an await is     *)
(* kept in its own record, and each database write is one action.          *)
(* All drafts belong to one user, who has one invoice counter.             *)
(***************************************************************************)
EXTENDS Naturals

CONSTANTS
    Drafts,         \* document ids that InvoiceDraft.create may hand out
    Requests,       \* concurrent PATCH / approve / DELETE handlers of the API
    Creators,       \* concurrent createInvoice handlers of the API
    Workers,        \* job slots: worker replicas times their concurrency
    Payloads,       \* draft contents
    NoPayload,      \* payload: null, before extraction
    NoDraft,        \* sourceDraftId of an invoice createInvoice made
    Recompute,      \* the AI service's recompute: a pure function of a payload
    Blocking,       \* recomputed payloads with a non-empty blocking_issues
    MaxStalls,      \* BullMQ's maxStalledCount (default 1)
    Lapses,         \* the lapses that happen: a claim outlives the recovery's
                    \* timeout ("aged"), an add its timeout ("late"), a job its
                    \* lock ("stall"), or a worker process dies ("crash")
    MaxVersion,     \* bound: handlers that bump __v start below it
    MaxNumber       \* bound: numbers the counter hands out

ASSUME SlotsDisjoint == Workers \cap Creators = {}
ASSUME RecomputeType == Recompute \in [Payloads -> Payloads]
ASSUME NoPayloadIsNone == NoPayload \notin Payloads
ASSUME NoDraftIsNone == NoDraft \notin Drafts
ASSUME BoundsNat == MaxStalls \in Nat /\ MaxVersion \in Nat /\ MaxNumber \in Nat
ASSUME LapsesKnown == Lapses \subseteq {"aged", "late", "stall", "crash"}

VARIABLES
    draft,      \* the invoicedrafts collection
    extraction, \* where runExtraction of a draft is
    healing,    \* drafts a getInvoiceDraft handler has read as timed out
    request,    \* what each PATCH / approve / DELETE handler holds
    creator,    \* where each createInvoice handler is
    queue,      \* approval jobs waiting in Redis
    worker,     \* what each job slot holds
    number,     \* the invoice number each worker and createInvoice reserved
    counter,    \* InvoiceCounter.counter of the user
    pdfs,       \* numbers whose rendered PDF is in storage
    invoices,   \* the invoices collection
    retired     \* invoices that deleteInvoice removed

draftVars   == <<draft, extraction, healing>>
apiVars     == <<request, creator>>
workVars    == <<queue, worker>>
ledgerVars  == <<counter, pdfs, invoices, retired>>
vars == <<draft, extraction, healing, request, creator, queue, worker,
          number, counter, pdfs, invoices, retired>>

-----------------------------------------------------------------------------
(* The documents and the records of the processes                          *)

Statuses == {"absent", "extracting", "ready", "approving", "processing",
             "approved", "failed", "discarded"}
Claimed == {"approving", "processing"}

Draft == [status : Statuses, payload : Payloads \cup {NoPayload},
          version : Nat, invoice : Nat, aged : BOOLEAN]
NoDocument == [status |-> "absent", payload |-> NoPayload,
               version |-> 0, invoice |-> 0, aged |-> FALSE]

Job == [draft : Drafts, version : Nat, payload : Payloads, stalls : Nat]

IdleRequest == [pc |-> "idle"]
Request == [pc : {"save", "claim", "enqueue", "unclaim"}, draft : Drafts,
            payload : Payloads, version : Nat, checked : BOOLEAN]
           \cup [pc : {"discard"}, draft : Drafts]
           \cup {IdleRequest}

\* A slot's steps while its job has the draft. Before them it is "idle" or
\* "taken"; after them it undoes its claim ("rollback"), and is "done" until
\* BullMQ hears so.
Working == {"claimed", "numbered", "stored", "saved", "cleanup"}
IdleSlot == [pc |-> "idle"]
Slot == [pc : {"taken", "rollback", "done"} \cup Working, job : Job, claim : Nat, owned : BOOLEAN]
        \cup {IdleSlot}

Invoice == [number : Nat, draft : Drafts \cup {NoDraft},
            payload : Payloads \cup {NoPayload}]

\* Every invoice that was ever saved, deleted since or not.
Ledger == invoices \cup retired

-----------------------------------------------------------------------------
Init ==
    /\ draft = [d \in Drafts |-> NoDocument]
    /\ extraction = [d \in Drafts |-> "new"]
    /\ healing = {}
    /\ request = [r \in Requests |-> IdleRequest]
    /\ creator = [c \in Creators |-> "idle"]
    /\ queue = {}
    /\ worker = [w \in Workers |-> IdleSlot]
    /\ number = [x \in Workers \cup Creators |-> 0]
    /\ counter = 0
    /\ pdfs = {}
    /\ invoices = {}
    /\ retired = {}

\* findByIdAndUpdate has no condition on the document: it is applied whatever
\* the status is, and to nothing once the document is gone. Any write moves
\* updatedAt.
Update(d, document) ==
    draft' = [draft EXCEPT ![d] =
                IF @.status = "absent" THEN @ ELSE [document EXCEPT !.aged = FALSE]]

SetStatus(d, s) == Update(d, [draft[d] EXCEPT !.status = s])

-----------------------------------------------------------------------------
(* Drafts: creation, background extraction, expiry                         *)

CreateDraft(d) ==
    /\ extraction[d] = "new"
    /\ draft' = [draft EXCEPT ![d].status = "extracting"]
    /\ extraction' = [extraction EXCEPT ![d] = "download"]
    /\ UNCHANGED <<healing, apiVars, workVars, number, ledgerVars>>

ExtractionDownloaded(d) ==
    /\ extraction[d] = "download"
    /\ extraction' = [extraction EXCEPT ![d] = "build"]
    /\ UNCHANGED <<draft, healing, apiVars, workVars, number, ledgerVars>>

\* The download is outside runExtraction's try: its error reaches only the
\* caller's console.error.
ExtractionDownloadFails(d) ==
    /\ extraction[d] = "download"
    /\ extraction' = [extraction EXCEPT ![d] = "ended"]
    /\ UNCHANGED <<draft, healing, apiVars, workVars, number, ledgerVars>>

\* Both outcomes of buildDraft write whatever the draft's status is by then.
ExtractionBuilt(d) ==
    /\ extraction[d] = "build"
    /\ extraction' = [extraction EXCEPT ![d] = "ended"]
    /\ \E p \in Payloads :
         Update(d, [draft[d] EXCEPT !.status = "ready", !.payload = p])
    /\ UNCHANGED <<healing, apiVars, workVars, number, ledgerVars>>

ExtractionFails(d) ==
    /\ extraction[d] = "build"
    /\ extraction' = [extraction EXCEPT ![d] = "ended"]
    /\ SetStatus(d, "failed")
    /\ UNCHANGED <<healing, apiVars, workVars, number, ledgerVars>>

\* The API process dies with the extraction it runs.
ExtractionDies(d) ==
    /\ extraction[d] \in {"download", "build"}
    /\ extraction' = [extraction EXCEPT ![d] = "died"]
    /\ UNCHANGED <<draft, healing, apiVars, workVars, number, ledgerVars>>

\* The TTL index on expiresAt removes the document, in whatever status.
Expire(d) ==
    /\ draft[d].status # "absent"
    /\ draft' = [draft EXCEPT ![d] = NoDocument]
    /\ UNCHANGED <<extraction, healing, apiVars, workVars, number, ledgerVars>>

-----------------------------------------------------------------------------
(* GET: polling, and the recovery of a claim nothing has touched for        *)
(* APPROVAL_TIMEOUT_MS                                                     *)

\* Two minutes pass without a write to a claimed draft.
AgeClaim(d) ==
    /\ "aged" \in Lapses
    /\ draft[d].status \in Claimed /\ ~draft[d].aged
    /\ draft' = [draft EXCEPT ![d].aged = TRUE]
    /\ UNCHANGED <<extraction, healing, apiVars, workVars, number, ledgerVars>>

PollRead(d) ==
    /\ draft[d].status \in Claimed /\ draft[d].aged
    /\ d \notin healing
    /\ healing' = healing \cup {d}
    /\ UNCHANGED <<draft, extraction, apiVars, workVars, number, ledgerVars>>

\* What the recovery would be if it looked for unclaimed jobs only.
PollHealApproving(d) ==
    /\ d \in healing
    /\ healing' = healing \ {d}
    /\ IF draft[d].status = "approving" THEN SetStatus(d, "ready") ELSE UNCHANGED draft
    /\ UNCHANGED <<extraction, apiVars, workVars, number, ledgerVars>>

\* The recovery's filter names the two statuses, not the time or the claim.
PollHeal(d) ==
    /\ d \in healing
    /\ healing' = healing \ {d}
    /\ IF draft[d].status \in Claimed THEN SetStatus(d, "ready") ELSE UNCHANGED draft
    /\ UNCHANGED <<extraction, apiVars, workVars, number, ledgerVars>>

-----------------------------------------------------------------------------
(* PATCH: autosave                                                         *)

\* Status and, when the client sends it, expectedVersion are checked on the
\* document read; then the handler awaits recomputeDraft.
EditRead(r, d, p) ==
    /\ request[r] = IdleRequest
    /\ draft[d].status = "ready" /\ draft[d].version < MaxVersion
    /\ \E checked \in BOOLEAN :
         request' = [request EXCEPT ![r] =
                       [pc |-> "save", draft |-> d, payload |-> Recompute[p],
                        version |-> draft[d].version, checked |-> checked]]
    /\ UNCHANGED <<draftVars, creator, workVars, number, ledgerVars>>

\* What the save would be if it wrote the document read before the await.
EditSaveWholeDocument(r) ==
    LET q == request[r] IN
    /\ q.pc = "save"
    /\ Update(q.draft, [draft[q.draft] EXCEPT !.status = "ready", !.payload = q.payload,
                                              !.version = @ + 1])
    /\ request' = [request EXCEPT ![r] = IdleRequest]
    /\ UNCHANGED <<extraction, healing, creator, workVars, number, ledgerVars>>

EditSave(r) ==
    LET q == request[r] IN
    /\ q.pc = "save"
    /\ IF /\ draft[q.draft].status = "ready"
          /\ q.checked => draft[q.draft].version = q.version
       THEN Update(q.draft, [draft[q.draft] EXCEPT !.payload = q.payload, !.version = @ + 1])
       ELSE UNCHANGED draft
    /\ request' = [request EXCEPT ![r] = IdleRequest]
    /\ UNCHANGED <<extraction, healing, creator, workVars, number, ledgerVars>>

-----------------------------------------------------------------------------
(* POST approve: claim, then enqueue                                       *)

\* The payload is the request's own or, without one, the draft's as read here.
\* An expectedVersion older than the version read never wins the claim.
ApproveRead(r, d, p) ==
    /\ request[r] = IdleRequest
    /\ draft[d].status = "ready" /\ draft[d].version < MaxVersion
    /\ p \in Payloads
    /\ request' = [request EXCEPT ![r] =
                     [pc |-> "claim", draft |-> d, payload |-> p,
                      version |-> draft[d].version, checked |-> TRUE]]
    /\ UNCHANGED <<draftVars, creator, workVars, number, ledgerVars>>

ApproveClaim(r) ==
    LET q == request[r]
        won == draft[q.draft].status = "ready" /\ draft[q.draft].version = q.version
    IN
    /\ q.pc = "claim"
    /\ IF won
       THEN /\ Update(q.draft, [draft[q.draft] EXCEPT !.status = "approving", !.version = @ + 1])
            /\ request' = [request EXCEPT ![r] = [q EXCEPT !.pc = "enqueue", !.version = @ + 1]]
       ELSE /\ request' = [request EXCEPT ![r] = IdleRequest]
            /\ UNCHANGED draft
    /\ UNCHANGED <<extraction, healing, creator, workVars, number, ledgerVars>>

\* invoiceApprovalQueue.add: jobId is the draft and the claim's version.
AddJob(q) ==
    queue' = queue \cup {[draft |-> q.draft, version |-> q.version,
                          payload |-> q.payload, stalls |-> 0]}

ApproveEnqueue(r) ==
    /\ request[r].pc = "enqueue"
    /\ AddJob(request[r])
    /\ request' = [request EXCEPT ![r] = IdleRequest]
    /\ UNCHANGED <<draftVars, creator, worker, number, ledgerVars>>

ApproveEnqueueFails(r) ==
    /\ request[r].pc = "enqueue"
    /\ request' = [request EXCEPT ![r].pc = "unclaim"]
    /\ UNCHANGED <<draftVars, creator, workVars, number, ledgerVars>>

\* withTimeout rejects after QUEUE_ADD_TIMEOUT_MS; the add it gave up on still
\* reaches Redis.
ApproveEnqueueTimesOut(r) ==
    /\ "late" \in Lapses
    /\ request[r].pc = "enqueue"
    /\ AddJob(request[r])
    /\ request' = [request EXCEPT ![r].pc = "unclaim"]
    /\ UNCHANGED <<draftVars, creator, worker, number, ledgerVars>>

ApproveUnclaim(r) ==
    /\ request[r].pc = "unclaim"
    /\ SetStatus(request[r].draft, "ready")
    /\ request' = [request EXCEPT ![r] = IdleRequest]
    /\ UNCHANGED <<extraction, healing, creator, workVars, number, ledgerVars>>

-----------------------------------------------------------------------------
(* DELETE: discard                                                         *)

Undiscardable == {"absent", "approved"} \cup Claimed

DiscardRead(r, d) ==
    /\ request[r] = IdleRequest
    /\ draft[d].status \notin Undiscardable /\ draft[d].version < MaxVersion
    /\ request' = [request EXCEPT ![r] = [pc |-> "discard", draft |-> d]]
    /\ UNCHANGED <<draftVars, creator, workVars, number, ledgerVars>>

\* What the discard would be if it trusted the status it read.
DiscardWriteUnchecked(r) ==
    LET d == request[r].draft IN
    /\ request[r].pc = "discard"
    /\ SetStatus(d, "discarded")
    /\ request' = [request EXCEPT ![r] = IdleRequest]
    /\ UNCHANGED <<extraction, healing, creator, workVars, number, ledgerVars>>

\* What the discard would be if it wrote a status the schema does not list.
DiscardWriteDeleted(r) ==
    /\ request[r].pc = "discard"
    /\ SetStatus(request[r].draft, "deleted")
    /\ request' = [request EXCEPT ![r] = IdleRequest]
    /\ UNCHANGED <<extraction, healing, creator, workVars, number, ledgerVars>>

DiscardWrite(r) ==
    LET d == request[r].draft IN
    /\ request[r].pc = "discard"
    /\ IF draft[d].status \notin Undiscardable
       THEN Update(d, [draft[d] EXCEPT !.status = "discarded", !.version = @ + 1])
       ELSE UNCHANGED draft
    /\ request' = [request EXCEPT ![r] = IdleRequest]
    /\ UNCHANGED <<extraction, healing, creator, workVars, number, ledgerVars>>

\* An await of the handler throws where nothing is compensated, or the API
\* process dies: the handler ends where it is.
RequestDies(r) ==
    /\ request[r] # IdleRequest
    /\ request' = [request EXCEPT ![r] = IdleRequest]
    /\ UNCHANGED <<draftVars, creator, workVars, number, ledgerVars>>

-----------------------------------------------------------------------------
(* Invoice numbers and the invoices collection                             *)

\* What it would be if the $inc returned the counter as it was before.
NumberBefore(x) ==
    /\ counter < MaxNumber
    /\ counter' = counter + 1
    /\ number' = [number EXCEPT ![x] = counter]

\* generateInvoiceNumber: one $inc of the user's counter returns the number.
GenerateInvoiceNumber(x) ==
    /\ counter < MaxNumber
    /\ counter' = counter + 1
    /\ number' = [number EXCEPT ![x] = counter + 1]

\* What they would be without the backstop index on sourceDraftId.
IndexedByNumber(n, d) ==
    \A i \in invoices : i.number # n

\* The unique indexes of the collection: { createdBy, invoiceNumber } and the
\* sparse { sourceDraftId }.
Indexed(n, d) ==
    \A i \in invoices : i.number # n /\ (d = NoDraft \/ i.draft # d)

InsertInvoice(n, d, p) ==
    /\ Indexed(n, d)
    /\ invoices' = invoices \cup {[number |-> n, draft |-> d, payload |-> p]}

-----------------------------------------------------------------------------
(* The worker: processApproval                                             *)

WorkerTake(w, j) ==
    /\ worker[w] = IdleSlot
    /\ j \in queue
    /\ queue' = queue \ {j}
    /\ worker' = [worker EXCEPT ![w] =
                    [pc |-> "taken", job |-> j, claim |-> 0, owned |-> TRUE]]
    /\ UNCHANGED <<draftVars, apiVars, number, ledgerVars>>

\* What the claim would be if a redelivery could take a claim over.
WorkerClaimEither(w) ==
    LET d == worker[w].job.draft IN
    /\ worker[w].pc = "taken"
    /\ draft[d].status \in Claimed
    /\ SetStatus(d, "processing")
    /\ worker' = [worker EXCEPT ![w].pc = "claimed", ![w].claim = draft[d].version]
    /\ UNCHANGED <<extraction, healing, apiVars, queue, number, ledgerVars>>

\* The compare-and-swap approving -> processing looks at the status alone; the
\* job's own version is not compared with the draft's.
WorkerClaim(w) ==
    LET d == worker[w].job.draft IN
    /\ worker[w].pc = "taken"
    /\ draft[d].status = "approving"
    /\ SetStatus(d, "processing")
    /\ worker' = [worker EXCEPT ![w].pc = "claimed", ![w].claim = draft[d].version]
    /\ UNCHANGED <<extraction, healing, apiVars, queue, number, ledgerVars>>

\* Nothing to claim: the job is skipped, or fails when the draft is gone.
WorkerSkip(w) ==
    /\ worker[w].pc = "taken"
    /\ draft[worker[w].job.draft].status # "approving"
    /\ worker' = [worker EXCEPT ![w] = IdleSlot]
    /\ UNCHANGED <<draftVars, apiVars, queue, number, ledgerVars>>

\* Blocking issues after the recompute, or no client company any more: the
\* draft is rolled back, by a write that may itself fail and is then ignored.
WorkerRefuse(w) ==
    /\ worker[w].pc = "claimed"
    /\ SetStatus(worker[w].job.draft, "ready") \/ UNCHANGED draft
    /\ worker' = [worker EXCEPT ![w].pc = "done"]
    /\ UNCHANGED <<extraction, healing, apiVars, queue, number, ledgerVars>>

WorkerReserveNumber(w) ==
    /\ worker[w].pc = "claimed"
    /\ Recompute[worker[w].job.payload] \notin Blocking
    /\ GenerateInvoiceNumber(w)
    /\ worker' = [worker EXCEPT ![w].pc = "numbered"]
    /\ UNCHANGED <<draftVars, apiVars, queue, pdfs, invoices, retired>>

\* renderInvoicePdf and saveLocalFile, under the name of the number.
WorkerStorePdf(w) ==
    /\ worker[w].pc = "numbered"
    /\ pdfs' = pdfs \cup {number[w]}
    /\ worker' = [worker EXCEPT ![w].pc = "stored"]
    /\ UNCHANGED <<draftVars, apiVars, queue, number, counter, invoices, retired>>

WorkerSaveInvoice(w) ==
    LET j == worker[w].job IN
    /\ worker[w].pc = "stored"
    /\ InsertInvoice(number[w], j.draft, Recompute[j.payload])
    /\ worker' = [worker EXCEPT ![w].pc = "saved"]
    /\ UNCHANGED <<draftVars, apiVars, queue, number, counter, pdfs, retired>>

\* What the last write would be if it came before invoice.save().
WorkerCommitUnsaved(w) ==
    LET j == worker[w].job IN
    /\ worker[w].pc = "stored"
    /\ Update(j.draft, [draft[j.draft] EXCEPT !.status = "approved", !.invoice = number[w],
                                              !.payload = Recompute[j.payload]])
    /\ worker' = [worker EXCEPT ![w].pc = "done"]
    /\ number' = [number EXCEPT ![w] = 0]
    /\ UNCHANGED <<extraction, healing, apiVars, queue, ledgerVars>>

\* The last write: unconditional, like SetStatus.
WorkerCommit(w) ==
    LET j == worker[w].job IN
    /\ worker[w].pc = "saved"
    /\ Update(j.draft, [draft[j.draft] EXCEPT !.status = "approved", !.invoice = number[w],
                                              !.payload = Recompute[j.payload]])
    /\ worker' = [worker EXCEPT ![w].pc = "done"]
    /\ number' = [number EXCEPT ![w] = 0]
    /\ UNCHANGED <<extraction, healing, apiVars, queue, ledgerVars>>

\* An await of the try block throws (the claim's own queries, recompute,
\* rendering, storage, MongoDB, a unique index): the catch block runs, first for
\* a PDF that was stored, and whether or not the claim was won.
WorkerThrow(w) ==
    /\ worker[w].pc \in {"taken", "claimed", "numbered", "stored", "saved"}
    /\ worker' = [worker EXCEPT ![w].pc =
                    IF @ \in {"stored", "saved"} THEN "cleanup" ELSE "rollback"]
    /\ UNCHANGED <<draftVars, apiVars, queue, number, ledgerVars>>

WorkerCleanup(w) ==
    /\ worker[w].pc = "cleanup"
    /\ pdfs' = pdfs \ {number[w]} \/ UNCHANGED pdfs
    /\ worker' = [worker EXCEPT ![w].pc = "rollback"]
    /\ UNCHANGED <<draftVars, apiVars, queue, number, counter, invoices, retired>>

\* What a failure would do with attempts: 2 in the queue's job options.
WorkerRollbackRetried(w) ==
    /\ worker[w].pc = "rollback"
    /\ SetStatus(worker[w].job.draft, "ready") \/ UNCHANGED draft
    /\ worker' = [worker EXCEPT ![w] = IdleSlot]
    /\ number' = [number EXCEPT ![w] = 0]
    /\ queue' = queue \cup {worker[w].job}
    /\ UNCHANGED <<extraction, healing, apiVars, ledgerVars>>

\* rollbackDraft: unconditional, and its own failure is swallowed.
WorkerRollback(w) ==
    /\ worker[w].pc = "rollback"
    /\ SetStatus(worker[w].job.draft, "ready") \/ UNCHANGED draft
    /\ worker' = [worker EXCEPT ![w].pc = "done"]
    /\ number' = [number EXCEPT ![w] = 0]
    /\ UNCHANGED <<extraction, healing, apiVars, queue, ledgerVars>>

\* BullMQ marks the job completed or failed; a failed one is not retried.
WorkerFinish(w) ==
    /\ worker[w].pc = "done"
    /\ worker' = [worker EXCEPT ![w] = IdleSlot]
    /\ UNCHANGED <<draftVars, apiVars, queue, number, ledgerVars>>

\* BullMQ's stalled check puts a job whose lock is lost back in the queue, at
\* most MaxStalls times.
Requeue(w) ==
    IF worker[w].owned /\ worker[w].job.stalls < MaxStalls
    THEN queue' = queue \cup {[worker[w].job EXCEPT !.stalls = @ + 1]}
    ELSE UNCHANGED queue

WorkerCrash(w) ==
    /\ "crash" \in Lapses
    /\ worker[w] # IdleSlot
    /\ Requeue(w)
    /\ worker' = [worker EXCEPT ![w] = IdleSlot]
    /\ number' = [number EXCEPT ![w] = 0]
    /\ UNCHANGED <<draftVars, apiVars, ledgerVars>>

\* A job outlives lockDuration: it is handed out again while its first slot
\* goes on with it.
WorkerStall(w) ==
    /\ "stall" \in Lapses
    /\ worker[w] # IdleSlot /\ worker[w].owned
    /\ Requeue(w)
    /\ worker' = [worker EXCEPT ![w].owned = FALSE]
    /\ UNCHANGED <<draftVars, apiVars, number, ledgerVars>>

-----------------------------------------------------------------------------
(* createInvoice and deleteInvoice                                         *)

CreateReserveNumber(c) ==
    /\ creator[c] = "idle"
    /\ GenerateInvoiceNumber(c)
    /\ creator' = [creator EXCEPT ![c] = "numbered"]
    /\ UNCHANGED <<draftVars, request, workVars, pdfs, invoices, retired>>

CreateStorePdf(c) ==
    /\ creator[c] = "numbered"
    /\ pdfs' = pdfs \cup {number[c]}
    /\ creator' = [creator EXCEPT ![c] = "stored"]
    /\ UNCHANGED <<draftVars, request, workVars, number, counter, invoices, retired>>

CreateSaveInvoice(c) ==
    /\ creator[c] = "stored"
    /\ InsertInvoice(number[c], NoDraft, NoPayload)
    /\ creator' = [creator EXCEPT ![c] = "idle"]
    /\ number' = [number EXCEPT ![c] = 0]
    /\ UNCHANGED <<draftVars, request, workVars, counter, pdfs, retired>>

\* A validation refuses the request after its number was taken, an await
\* throws, or the process dies: nothing is undone.
CreateDies(c) ==
    /\ creator[c] # "idle"
    /\ creator' = [creator EXCEPT ![c] = "idle"]
    /\ number' = [number EXCEPT ![c] = 0]
    /\ UNCHANGED <<draftVars, request, workVars, ledgerVars>>

\* The PDF stays in storage and the draft keeps its invoiceId.
DeleteInvoice(i) ==
    /\ i \in invoices
    /\ invoices' = invoices \ {i}
    /\ retired' = retired \cup {i}
    /\ UNCHANGED <<draftVars, apiVars, workVars, number, counter, pdfs>>

-----------------------------------------------------------------------------
DraftNext(d) ==
    \/ CreateDraft(d)
    \/ ExtractionDownloaded(d) \/ ExtractionDownloadFails(d)
    \/ ExtractionBuilt(d) \/ ExtractionFails(d) \/ ExtractionDies(d)
    \/ Expire(d)
    \/ AgeClaim(d) \/ PollRead(d) \/ PollHeal(d)

RequestNext(r) ==
    \/ \E d \in Drafts : DiscardRead(r, d)
    \/ \E d \in Drafts, p \in Payloads : EditRead(r, d, p) \/ ApproveRead(r, d, p)
    \/ EditSave(r) \/ DiscardWrite(r)
    \/ ApproveClaim(r) \/ ApproveEnqueue(r) \/ ApproveEnqueueFails(r)
    \/ ApproveEnqueueTimesOut(r) \/ ApproveUnclaim(r)
    \/ RequestDies(r)

WorkerNext(w) ==
    \/ \E j \in queue : WorkerTake(w, j)
    \/ WorkerClaim(w) \/ WorkerSkip(w) \/ WorkerRefuse(w)
    \/ WorkerReserveNumber(w) \/ WorkerStorePdf(w)
    \/ WorkerSaveInvoice(w) \/ WorkerCommit(w)
    \/ WorkerThrow(w) \/ WorkerCleanup(w) \/ WorkerRollback(w)
    \/ WorkerFinish(w) \/ WorkerCrash(w) \/ WorkerStall(w)

CreatorNext(c) ==
    \/ CreateReserveNumber(c) \/ CreateStorePdf(c)
    \/ CreateSaveInvoice(c) \/ CreateDies(c)

Next ==
    \/ \E d \in Drafts : DraftNext(d)
    \/ \E r \in Requests : RequestNext(r)
    \/ \E w \in Workers : WorkerNext(w)
    \/ \E c \in Creators : CreatorNext(c)
    \/ \E i \in invoices : DeleteInvoice(i)

Spec == Init /\ [][Next]_vars

\* The preview window polls until the draft is neither 'approving' nor
\* 'processing' (pollApprovalUntilResolved), and time passes. Nothing is assumed
\* of the workers, which may all be down.
Polling ==
    \A d \in Drafts :
      WF_vars(AgeClaim(d)) /\ WF_vars(PollRead(d)) /\ WF_vars(PollHeal(d))

LiveSpec == Spec /\ Polling

-----------------------------------------------------------------------------
(* Type invariant                                                          *)

\* Every variable holds a value of the documents and records above.
TypeOK ==
    /\ draft \in [Drafts -> Draft]
    /\ extraction \in [Drafts -> {"new", "download", "build", "ended", "died"}]
    /\ healing \subseteq Drafts
    /\ request \in [Requests -> Request]
    /\ creator \in [Creators -> {"idle", "numbered", "stored"}]
    /\ queue \subseteq Job
    /\ worker \in [Workers -> Slot]
    /\ number \in [Workers \cup Creators -> Nat]
    /\ counter \in Nat
    /\ pdfs \subseteq Nat
    /\ invoices \subseteq Invoice
    /\ retired \subseteq Invoice

-----------------------------------------------------------------------------
(* What holds whatever times out, crashes or is redelivered                *)

\* The ledger never holds two invoices for one draft at a time, whatever
\* attempts, recovered claims and redeliveries race to save one (the backstop
\* of models/Invoice.js).
OneInvoicePerDraft ==
    \A i, j \in invoices : i.draft = j.draft /\ i.draft # NoDraft => i = j

\* An invoice number is given to one invoice ever, across approvals, direct
\* creations and deletions, and is never ahead of the counter.
NumbersNeverReused ==
    /\ \A i, j \in Ledger : i.number = j.number => i = j
    /\ \A i \in Ledger : i.number \in 1..counter

\* Two slots that work on one draft hold different claims of it: a delivery
\* of a job never joins a claim another delivery has won (the comment of
\* processApproval's atomic claim).
RedeliverySafe ==
    \A v, w \in Workers :
      /\ v # w
      /\ worker[v].pc \in Working /\ worker[w].pc \in Working
      /\ worker[v].job.draft = worker[w].job.draft
      => worker[v].claim # worker[w].claim

\* A draft that says 'approved' names an invoice that was issued for it, with
\* the payload the draft shows.
ApprovedHasInvoice ==
    \A d \in Drafts :
      draft[d].status = "approved" =>
        \E i \in Ledger : /\ i.number = draft[d].invoice
                          /\ i.draft = d
                          /\ i.payload = draft[d].payload

\* Between claim and rollback only the worker's last write changes a draft's
\* payload: an edit whose recompute was awaited across the claim is lost, not
\* applied.
ClaimedDraftKeepsPayload ==
    [][\A d \in Drafts :
         /\ draft[d].status \in Claimed \cup {"approved"}
         /\ draft'[d].payload # draft[d].payload
         => draft'[d].status \in {"approved", "absent"}]_vars

\* A claim does not strand its draft: with someone polling it ends, even when
\* the job was never enqueued, no worker runs or the worker died.
ClaimResolved ==
    \A d \in Drafts :
      draft[d].status \in Claimed ~> draft[d].status \notin Claimed

\* Whether a process may still issue an invoice under the number it reserved.
Pending(x) ==
    IF x \in Workers THEN worker[x].pc \in {"numbered", "stored"}
                     ELSE creator[x] # "idle"

Reserved ==
    [x \in Workers \cup Creators |-> IF Pending(x) THEN number[x] ELSE 0]

Register == INSTANCE InvoiceRegister WITH
    Attempts <- Workers \cup Creators,
    Contents <- Payloads \cup {NoPayload},
    last <- counter,
    reserved <- Reserved,
    live <- invoices,
    void <- retired

\* The whole machinery of claims, retries, redeliveries and rollbacks is an
\* implementation of the register.
ImplementsRegister == Register!RegisterSpec

-----------------------------------------------------------------------------
(* What holds as long as nothing lapses                                    *)

\* An approved draft stays approved until the document expires.
ApprovedFinal ==
    [][\A d \in Drafts :
         draft[d].status = "approved" => draft'[d].status \in {"approved", "absent"}]_vars

\* A discarded draft does not turn into an approval: no worker or claim that
\* was under way lands on it.
DiscardedNotApproved ==
    [][\A d \in Drafts :
         draft[d].status = "discarded" => draft'[d].status \notin Claimed \cup {"approved"}]_vars

\* The job that wins a claim is the one that claim enqueued, so the invoice has
\* the payload of the approval the draft is in.
JobMatchesClaim ==
    \A w \in Workers :
      worker[w].pc \in Working => worker[w].job.version = worker[w].claim

=============================================================================
