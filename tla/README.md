# CrewIO: a TLA+ verification of the workforce and invoicing platform

CrewIO is a platform for construction subcontractors: crews check in and out
from a phone, timesheets (PDFs) are read by an AI service, and what they say
becomes invoices that a person reviews, edits and approves. This directory
holds models of the parts of the backend whose correctness depends on the order
of things: who writes a document first, what a crash leaves behind, what a
late or repeated delivery does. Paths below are relative to the repository
root.

## 1. The system

| part | where | state it keeps | what it talks to |
|---|---|---|---|
| API server | `backend/src` (Express, Socket.IO) | none of its own but an in-memory cache | MongoDB, Redis, AI service, storage, Stripe |
| approval worker | `backend/src/workers/invoiceApproval.worker.js` | none | BullMQ queue, MongoDB, storage, AI service |
| extraction worker | `backend/src/workers/extraction.worker.js` | semaphores, per-tenant counts | BullMQ queue, MongoDB, AI service |
| AI service | `ai-services` (Flask, OCR, Gemini) | none between calls | storage |
| dashboard | `crewcontrol-fron` (React) | query cache | API server |
| employee app | `aquas` (Flutter) | offline queues, tokens, in shared preferences | API server, push |

MongoDB gives atomic updates of one document (`findOneAndUpdate`) and unique
indexes, and no transaction is used around what is modelled here. Between two
`await`s of a handler, any other handler, worker or client may run: this is
the concurrency of the system. BullMQ delivers a job at least once (a job whose
lock lapses is handed out again, `maxStalledCount` times).

### Components

**Invoice drafts and their approval** (`invoiceDraft.controller.js`,
`invoiceApproval.queue.js`, `invoiceApproval.worker.js`,
`models/InvoiceDraft.js`). A draft is `extracting` while the AI service reads the
PDF in the background, then `ready`: it can be edited (autosave), discarded, or
approved. Approval claims the draft (`ready` to `approving`, version + 1) and
enqueues a job; a worker claims it again (`approving` to `processing`), has the
totals recomputed, reserves the invoice number, renders and stores the PDF,
saves the invoice and writes the draft (`approved`). Any failure deletes the PDF
and rolls the draft back to `ready`; a claim that nothing touches for two minutes
is rolled back by the next poll. Correct means: one invoice per draft at a time,
an approved draft has its invoice, no claim is shared by two deliveries, no edit
slips under an approval, no claim strands its draft, discarded stays discarded.

**Invoices and numbers** (`invoice.controller.js`, `invoiceNumber.service.js`,
`models/Invoice.js`). `createInvoice` and the worker draw from one counter per
user; `deleteInvoice` removes. Correct means: a number names one invoice ever.

**AI extraction jobs** (`extractionJob.service.js`, `extraction.worker.js`,
`extraction.queue.js`, `models/ExtractionJob.js`). Requests are deduplicated by
content, queued, run under a global and a per-tenant limit with retries and a
timeout. Correct means: a document is not extracted twice at once, a job ends
as completed or failed, limits hold.

**Caches** (`cache.util.js`, `auth.middleware.js`). Single-flight reads of
cached lists and of the authenticated user, invalidated by writers. Correct
means: after a write has returned no later read returns what was there before,
beyond the staleness the comments allow.

**Employee lifecycle and attendance** (`mobileLifecycle.controller.js`,
`employee.controller.js`, `attendance.controller.js`, `lifecycle.service.js`).
An employee checks in, starts and stops work, finishes a site, goes on leave;
the office assigns, unassigns, edits and removes employees. Correct means: one
open work session at most, the state of the employee agrees with attendance and
assignment, a replayed event does not count twice.

**Offline queues of the app** (`aquas/lib/core/services`). Attendance, push tokens
and acknowledgements made offline are stored and sent later. Correct means:
nothing is silently dropped, and order is kept.

**Subscriptions** (`subscription.controller.js`, `stripe.service.js`,
`trial.service.js`). Stripe's webhooks, unordered and repeated, and checkout
returns set the subscription on the user. Correct means: the user's status
converges to Stripe's.

**Accounts and sessions** (`auth.controller.js`, `mobileAuth.controller.js`,
`totp.util.js`, `rateLimiters.js`). Sign-up with OTP, login, two factors, password
reset, refresh tokens, `tokenVersion` for revocation. Correct means: a code is
used once and for a limited time, a revoked session ends.

**Salaries, expenses, payments** (`salarySlip.controller.js`,
`companyExpense`/`expense` controllers, `expenseHistorySync.service.js`,
`mobilePayments`). Slips and expense ledgers computed from attendance.

**Chat and notifications** (`chat.controller.js`, `socket.service.js`,
`notification.controller.js`, `push`). Messages, rooms, unread counts, pushes.

**Files** (`storage.service.js`, `files`/`upload` controllers). Objects in R2 or on
disk, named by tenant.

**Legal acceptance, audit, documents' expiry, VAT deadlines, dashboards,
locations, templates**: documents read and written by one request at a time, and
pure calculations.

**AI pipeline** (`ai-services`): OCR, table parsing and model prompts; pure
functions of a document up to the model's answers.

**How they meet.** The session check that stands before every request reads the user
through the cache; a password change, a webhook or a checkout invalidates that copy.
A worker and the API share drafts, counter and queue. The phone's handlers and the
office write one employee document; attendance decides what a salary slip says. The
app's queue talks to the lifecycle handlers only, at times the server does not choose.

`load-tests/`, `backend/loadtests`, `backend/scripts` and the deployment files are
tooling.

## 2. Modules

| module | what it is |
|---|---|
| `InvoiceApproval` | drafts, the API handlers that write them, the approval queue, the worker, numbers, invoices, PDFs |
| `InvoiceRegister` | abstract: what the invoice side promises, without any of that machinery |
| `MCInvoiceApproval` | contents, recompute and symmetry for TLC |
| `InvoiceApprovalProofs` | the type invariant of `InvoiceApproval`; numbers, one invoice per draft, the refinement of `InvoiceRegister` |
| `InvoiceClaimProofs` | exclusive claims, approved drafts have their invoice, and what holds while nothing is late |
| `SalaryLedger`, `MCSalaryLedger`, `SalaryLedgerProofs` | slips, mirrored expense history and running totals of one employee |
| `CacheAside`, `MCCacheAside`, `CacheAsideProofs` | one key of the read-through cache, on replicas over one Redis |
| `EmployeeLifecycle` | one employee's document, attendance and work sessions; the phone's handlers and the office's |
| `AttendanceQueue` | the employee's app in front of it: buttons, offline queue, refresh (EXTENDS `EmployeeLifecycle`) |
| `AttendanceProofs` | both of them |
| `ExtractionJobs`, `ExtractionJobsProofs` | AI jobs: record, queue, attempts, semaphore |
| `StripeSync`, `StripeSyncProofs` | checkout, Stripe, webhook, the cached status |
| `AuthSessions`, `MCAuthSessions`, `AuthSessionsProofs` | one account: codes, sign-in, the end of sessions |

All modules cut a handler at its `await`s: what was read before one is kept in the
handler's own record (`request`, `worker`, `reader`, `handler`, `call`, ...), and each database
write is one action. An action for which the code has no condition has none here: an
unconditional `findByIdAndUpdate` overwrites whatever is there by then. A Mongoose
`save()` of a loaded copy writes the paths that were changed and no others (`Saved`).

Definitions whose comment says what something "would be if" are no part of
the specification: each is the definition next to it with one plausible mistake, and
stands there to show that some property tells the two apart.

### InvoiceApproval

| variable | in the code |
|---|---|
| `draft` | the `invoicedrafts` collection: `status`, `payload`, `__v` as `version`, the approved invoice, and whether `updatedAt` is two minutes old (`aged`) |
| `extraction` | where the fire-and-forget `runExtraction` of a draft is |
| `healing` | drafts that a `getInvoiceDraft` has read as timed out and not yet rolled back |
| `request` | what a PATCH, approve or DELETE handler holds across its awaits |
| `queue`, `worker` | the BullMQ queue, and what each job slot does: `taken`, `claimed`, `numbered`, `stored`, `saved`, or the catch block's `cleanup` and `rollback`, then `done` until BullMQ hears so |
| `number`, `counter` | `InvoiceCounter` and the number each worker or `createInvoice` has drawn |
| `creator` | where `createInvoice` is |
| `pdfs`, `invoices`, `retired` | stored PDFs, the `invoices` collection, and what `deleteInvoice` removed (kept to state what "ever" means) |

| code | actions |
|---|---|
| `createInvoiceDraft`, `runExtraction` | `CreateDraft`, `ExtractionDownloaded`, `ExtractionDownloadFails`, `ExtractionBuilt`, `ExtractionFails`, `ExtractionDies` |
| TTL index | `Expire` |
| `getInvoiceDraft` | `PollRead`, `PollHeal` (and `AgeClaim`, the passing of two minutes) |
| `updateInvoiceDraft` | `EditRead`, `EditSave` |
| `approveInvoiceDraft` | `ApproveRead`, `ApproveClaim`, `ApproveEnqueue`, `ApproveEnqueueFails`, `ApproveEnqueueTimesOut`, `ApproveUnclaim` |
| `discardInvoiceDraft` | `DiscardRead`, `DiscardWrite` |
| `processApproval` | `WorkerTake` to `WorkerCommit`, `WorkerSkip`, `WorkerRefuse`; its catch block: `WorkerThrow`, `WorkerCleanup`, `WorkerRollback` |
| BullMQ | `WorkerFinish`, `WorkerStall` (a lock lapses and the job is handed out again while its first slot goes on), `WorkerCrash` |
| `createInvoice`, `deleteInvoice` | `CreateReserveNumber` to `CreateDies`, `DeleteInvoice` |

Any await may throw (`WorkerThrow`, `RequestDies`, `CreateDies`), and the rollbacks
themselves may fail. What a run lets go wrong beyond that is the constant
`Lapses`: a claim that outlives the recovery's two minutes ("aged"), an `add` that
lands after `withTimeout` gave up ("late"), a job that outlives its lock ("stall"), a
worker that dies ("crash").

`ImplementsRegister` maps the counter, the live and the deleted invoices as they
are, and a process's reservation to the number it holds *while it may still issue
under it* (`Pending`): between claim and `invoice.save()`. A number dropped by an
error is the register's `GiveUp`. So the whole of claims, retries, redeliveries and
rollbacks is, seen from the ledger, four operations.

### SalaryLedger

One employee. `createSalarySlip` is `CreateRead`, `CreateNumber`, `CreateInsert`;
`updateSalarySlip` is `UpdateRead`, `Save`; `addDeduction` is `DeductRead`, `Save`; each
then goes on to `Earn` (the `$inc` of the running total) and `SyncRead`, `SyncWrite` (the
mirror in `expenseHistorySync.service.js`, a read and a replacement of the whole
history), in the order of its own code. `addExpense` is `ExpenseRead` and `ExpensePush`.
The dashboard's pages load the employee (`PageLoad`) and later send all of the history back
through `updateEmployee` (`DeleteExpense`, `EditExpense`, `SaveCategories`), whatever was
written in between. `Save` writes only the paths the handler changed, as Mongoose does.
A slip's deduction list is its total; `updateSalarySlip`'s own `deductionsDetails`, which no
client in the repository sends, is left out. Records are named by a clock that ticks
with every call (`calls`), as `Date.now()` does at the rate a person clicks.

### CacheAside

`cacheGetOrSet` is `ReadRedis` or `ReadMemory`, then `AnswerGet` or `GetTimesOut`, `JoinOrFetch`,
`FetchReads` (MongoDB executes the query), `FetchReturns` or `FetchFails`, and the background
write, `AnswerSet` or `SetTimesOut`. `cacheInvalidate` is `InvalidateRedis`, `AnswerScan`,
`AnswerDel`, or `InvalidateMemory`, or `InvalidateTimesOut`. A replica's connection executes
its commands in the order they were issued; one whose caller gave up stays on the
`wire`. The cached value is the version of the document. The cursor loop of SCAN is
one command, and a command is executed when it is answered.

### EmployeeLifecycle

| variable | in the code |
|---|---|
| `employee` | the document's `state`, `assignedStatus`, `companyId`, `preLeaveState`, and whether the leave's start is set (`onLeave`) |
| `attendance`, `sessions` | the `attendances` of the employee (`Removed` when the office deleted one) and the work sessions |
| `today` | the business day |
| `request` | what each handler called by the phone holds: the copy it loaded (`seen`), the copy as changed (`want`), the record or session it found |
| `reactivating`, `officeCalls` | the office's only handler with a read before its write, and a count |

| code | actions |
|---|---|
| `employeeAuth.middleware.js` and the decision on that copy | `Arrive`, `Refuses`, `FirstStep` |
| `reconcileDailyLifecycleState` | `Reconcile`, `Reset` |
| `startWork` | `StartFind`, `StartSession`, `StartRecord`, then `Save` |
| `stopWork` | `StopFind`, `StopSession`, `StopRecord`, then `Save` |
| `checkIn`, `siteFinished`, `endLeave` | `Save`; `startLeave`: `Save`, then `LeaveMark` |
| `updateEmployee`, `assignEmployee`, `unassignEmployee`, `reactivateEmployee` | `OfficeEdit`, `Assign`, `Unassign`, `ReactivateRead`, `ReactivateWrite` |
| `attendance.controller.js` | `OfficeRecord`, `OfficeCorrects`, `OfficeDeletes` |
| midnight | `NextDay` |

`Fails` ends a handler at any await. `Assign` merges the check of the company with the write;
`deleteCompany`'s cascade is `Unassign`.

### AttendanceQueue

`stored` is the queue in secure storage; `tap`, `flush` and `refreshing` are the app's three activities,
each with one request slot at the server, in which a call the app gave up on goes on. A tap that cannot
reach the server is shown as done and enqueued (`TapOffline`, `TapLost`, then `EnqueueRead`, `EnqueueWrite`);
`flush()` is `FlushBegin`, `Replay`, `ReplayAnswered` or `ReplayLost`, `FlushWrite`. `Refresh` is Home's
`_loadInitialState`. `AppDies` leaves only the storage. `accepted` records what the server is known to have
accepted, for the properties. The composition is by EXTENDS: every step of the app either calls a handler or
leaves the server alone, and `AppImplementsLifecycle` proves `Spec => LifecycleSpec`.

### ExtractionJobs

| variable | in the code |
|---|---|
| `record` | `status` in the `extractionjobs` collection, which clients poll |
| `bull`, `slot` | the BullMQ job, and where each of the worker's slots is in its attempt |
| `free`, `waiting` | the semaphore of `extraction.worker.js`: permits and the FIFO of resolvers |
| `api` | where the request that made the job is |
| `telling` | jobs for which the `failed` event's handler has a write under way |
| `lost`, `overtaken` | kept for the properties: jobs whose only write died or that were never enqueued, and jobs that went on before a write of their failure |

`enqueueExtractionJob` is `CreateRecord`, `AddJob` (or `AddFails`, `AddTimesOut`, later `AddLands`, `AddSkipped` with
the stub queue), `MarkFailed`. An attempt is `Take`, `MarkActive`, `Download`, a call under a permit
(`CallReturns`, or `CallFails` and `CallAgain`, or `CallsExhausted`), `MarkCompleted`, `Done`. A request that finds a
young job of its own content hash creates none and so is no action. `WorkerDies` empties slots and
semaphore, and BullMQ hands its jobs out again or fails them.

### StripeSync

`subscription` is Stripe's truth, `events` what it made of every change, `owed` what it will still send. `user` has the
billing fields of the owner's document and `cached` the status in the session check's cache. `createCheckout` is
`CheckoutRead`, `CreateCustomer`, `LinkCustomer`, `CreateSession`; Stripe's side is `Subscribe` to `Abandon`, each making the events
the webhook subscribes to; `handleWebhook` is `Deliver`, `Retrieve` (for the events that make it ask Stripe), `Save`,
`Invalidate`. `WebhookFails` is an await that throws or a process that dies: no 200, so the event stays owed.
`Repeat` sends one again. `orderly` is chosen at the start: an orderly life has one event at a time, oldest first, and a
buyer who waits; in the other anything overlaps. One plan is sold; periods and prices are left out.

### AuthSessions

`user` has the fields of the document that decide: verified, the code, its attempts, the state of a reset, password and
`tokenVersion` (as numbers), the linked company. `tokens` are the sessions opened, each with the version it
carries and the password it was opened under. `tries`, `ended` and `crossed` record history for the properties.

| code | actions |
|---|---|
| signup, resend: store a code, mail it, take it back if the mail fails | `StoreCode`, `Mail`, `MailFails`, `TakeBack` |
| `verifyOtp` | `VerifyRight`, `VerifyAccept`; `VerifyWrong`, `VerifyCount`, `VerifyClear` |
| `login` and `ensureOwnerCompanyForUser` | `LoginRead`, `FindCompany`, `CreateCompany`, `LinkCompany`, `OpenSession` |
| `changePassword`, `logout` | `Enter` (the session check), `ChangeRead`, `SavePassword`, `Logout` |
| `forgotPassword`, `verifyForgotPasswordOtp`, `resetPassword` | `ForgotPassword`, `ResetCodeRead`, `ResetGrant`, `ResetRead`, `SavePassword` |

`CallDies` ends a call at any await. A code expires when nobody answers in time, so expiry is no action of its own;
the read and blind save that issue a code are one step; wrong codes for a reset are left out.


## 3. Runs

| run | instance | what it shows |
|---|---|---|
| `ApprovalRaces` | 1 draft, 1 handler, 2 workers, one redelivery, all lapses | `TypeOK`, `OneInvoicePerDraft`, `NumbersNeverReused`, `RedeliverySafe`, `ApprovedHasInvoice`, `ImplementsRegister`: no two deliveries work under one claim, an approved draft names an invoice saved for it with its contents, and the ledger behaves as the register |
| `ApprovalPunctual` | 1 draft, 2 handlers, 2 workers, no lapse | `JobMatchesClaim`, `ApprovedFinal`, `DiscardedNotApproved`, `ClaimedDraftKeepsPayload`: as long as nothing is late, the claims alone order approve, edit, discard and work, with any await failing |
| `ApprovalRecovery` | 1 draft, 1 handler, 1 `createInvoice`, 1 worker, all lapses, contents that the recompute changes or refuses | `ClaimResolved`: a claim ends when someone polls, whatever became of job and worker |
| `SalaryRaces` | 2 months, 2 handlers, 1 page, failures, 5 calls of one amount | `TypeOK`, `SlipNumbersUnique`, `SlipsNotReplaced`, `NoDuplicateHistory` |
| `SalarySerial` | 2 months, 1 handler, no failure, 4 calls of two amounts | `EarnedMatchesSlips`: one request at a time, the running total is the sum of the slips |
| `CacheReplica` | 1 replica, 2 readers, 2 writers, Redis late, down or silent | `TypeOK`, `FetchedOnce`, `ReadsEnd`, `FreshInTheEnd` |
| `ExtractionJobs` | 2 jobs, 2 slots, 1 permit, 2 attempts of 2 calls, 1 redelivery, 1 death of a process | `TypeOK`, `PermitsConserved`, `RecordTellsOutcome`, `JobSettles`: a job ends, and its record says how, except where a process died over the only write that would tell |
| `AttendanceRaces` | 3 taps of any button, 1 day, 2 sessions, 1 call of the office, 1 trouble (offline, answer lost, handler failed, app killed) | `TypeOK`, `LeaveRemembersState`, `OfficeAssignmentKept`: what handlers that save a copy read earlier must not undo |
| `AttendanceSettles` | 2 taps, 2 days, 4 sessions, 2 lost calls or answers | `RecordHasSession`, `StoredInOrder`, `FlushKeepsUndelivered`, `SyncSettles`, `TodayStartsFresh`: replays and reconciliation over midnight |
| `StripeWebhooks` | 2 subscriptions, 2 customers, 2 handlers, 1 checkout at a time, 5 changes at Stripe (2 when they are disorderly), 1 trouble | `TypeOK`, `AccessCopyFollows`, `RecordCatchesUp`: who is let in is who the record says, and the record ends up as Stripe has it |
| `AuthSessions` | 2 calls at once, 3 codes, 2 attempts, 2 calls that end sessions, 1 trouble | `TypeOK`, `SessionsStayEnded`, `OldPasswordSessionsEnd`, `GuessesBounded`, `OneOwnerCompany` |
| `FindEventDropped` | 2 taps | violates `NothingDropped`: an event enqueued while `flush()` awaits an answer is overwritten by it, against the comment at `attendance_offline_queue.dart:91` |

The passing runs explore their instances completely.

**Bounds.** `MaxVersion` stops handlers from starting on a draft edited that often: 2 allows an approval,
its failure and a second approval, which is the shortest history in which a stale job meets a later claim;
3, in `ApprovalPunctual`, adds an edit or a discard around them. `MaxNumber = 2` is enough for two attempts
to hold numbers at once (`ApprovalRecovery` has one: its question is the claim). One draft is enough where
the property is about one draft, since drafts share only the counter. `MaxStalls` is BullMQ's default 1.
`MaxCalls` bounds the calls made on one employee: five are two creations, a page's load and save and an
addition by hand between them, and there one amount is enough because the question is which write comes last,
not how much it says. `MaxWire` bounds the commands waiting on one connection. One replica suffices for the
cache's freshness: replicas share Redis and MongoDB only, and a SET another replica is late with is to this
one what its own late SET is. `MaxTaps`, `MaxDay`, `MaxSessions` and `MaxOffice` bound what a person does: three taps
are an arrival, an event made offline and one made while it is being replayed; a second day is where yesterday's state
can be left over. One company tells "assigned" from "not". `MaxChanges` and `MaxDisorder` bound Stripe's changes: five are a purchase, its
payment, a failed and a repeated payment and an end, and two suffice for a change to overtake another. Two attempts
and two calls, one permit and two slots are the least with which a call waits, times out and is tried again.
`MaxEnds` allows a second end of sessions while the first is under way; the numbers of codes and of attempts are the
least with which a wrong answer crosses a new code. `MaxTroubles` and `MaxCrashes` bound failures where failing for ever
would be the only other behaviour. The theorems below hold for every value of these bounds.

**Deadlock.** `ApprovalRaces`, `ApprovalPunctual`, `ApprovalRecovery`, the salary runs and `ExtractionJobs` turn the check
off, because a behaviour may use up its versions, calls or jobs; the others keep it on.

**Fairness.** `ClaimResolved` assumes `Polling`: time passes, and the preview window polls until the draft is
neither `approving` nor `processing` (`crewcontrol-fron/src/pages/InvoicePreviewWindow.jsx`,
`pollApprovalUntilResolved`). Nothing is assumed of workers, which may all be down. `ReadsEnd` and `FreshInTheEnd`
assume `Timers`: timers fire, MongoDB answers or fails, entries expire; nothing is assumed of Redis. `JobSettles`
assumes `Progress` of `ExtractionJobs`: an await of the request ends, a worker runs or is started again, a call ends at the worker's `withTimeout`, delays end. `SyncSettles` and `TodayStartsFresh` assume
`Progress` of `AttendanceQueue`: the app flushes when it is opened, pulled down or connected again
(`connectivity_watcher.dart:26`, `home_page.dart:71` and `:965`), Home is refreshed, handlers go on; that troubles are finitely many is
`MaxTroubles`. `RecordCatchesUp` assumes `Delivery`: Stripe sends what was not answered 200, and an await ends.
`AuthSessions` needs none.

### Where the code and its words part

`FindEventDropped` is the one divergence a run is spent on. The others below were met while modelling; a property
that would fail because of one is stated with the exception it needs, and the exception is named here.

*Drafts and invoices.*
- A delivery that lost its lock, or a late `add`, rolls back with an unconditional write and reverts an
  approved draft to `ready`; a late job claims the draft for a later approval, because the worker compares the status alone
  (`invoiceApproval.worker.js:87`) where the job id carries a version (`invoiceDraft.controller.js:403`). `ApprovedFinal`,
  `DiscardedNotApproved` and `JobMatchesClaim` are therefore claims about `Lapses = {}`.
- The catch block deletes the PDF of an invoice that was saved when only the draft's last write fails (`invoiceApproval.worker.js:272`).
- A failed download, or the death of the API, leaves a draft `extracting` (`invoiceDraft.controller.js:140`, `:158`).
- A number drawn by an attempt that fails is never used, though `invoiceDraft.controller.js:343` says discarded drafts leave
  no gaps. PDFs are named by company and number, but numbers are counted per user (`invoiceApproval.worker.js:222`).

*Salaries.*
- Two edits of one slip at once, or a failure between its write and the `$inc`, leave the running total off for good;
  hence `SalarySerial`. A record pushed between a mirror's read and its write is lost.
- The first deduction added to a slip replaces those it had (`salarySlip.controller.js:638`); slip creation and edit
  disagree on whether the gross contains the allowances (`GenerateSalarySlip.jsx:1589`, `salarySlip.controller.js:510`); a deduction
  can overdraw the balance it was checked against (`expense.controller.js:310`); the Expenses page sends only `records`, from
  which `updateEmployee` recomputes an investment of 0.

*Cache.* A fetch begun before a write stores its result after the invalidation (`cache.util.js:121`), so a read that follows
a write may be older than it, against `auth.middleware.js:26`; `FreshInTheEnd` is what remains.

*Attendance.*
- An assignment, or a poll's reset, that lands between `startWork`'s read and its save leaves an open record
  with the employee `ASSIGNED`: neither start nor stop is accepted until the next day. A failure between `stopWork`'s two saves
  leaves `WORKING` for the day.
- `startWork` looks at neither the assignment nor the company, and makes the session before the record fails validation
  without one: each replay makes another. Two at once make two sessions. A restart of work on the same day overwrites
  the hours of the first session.
- `CHECKED_IN` without Start Work is reset by any poll of the same day. A stop of yesterday replayed today
  closes today's session. An event the server answers with 409 stays at the head of the queue for ever; `SyncSettles`
  says the app then shows an error. `endLeave` and `reactivateEmployee` racing `unassignEmployee` leave an employee on site without
  a company.

*Extraction jobs.*
- The hash that finds an earlier job covers per-request trace ids, so it finds one only when a client repeats its
  own; no job carries the `tenantId` that the per-tenant cap counts by.
- `failed` is not final while BullMQ retries, and the late write of one failure overwrites the `active` or `completed` of the next
  attempt (`overtaken`). A job marked failed after its `add` timed out runs all the same. Death of the API between record and add, or of the
  worker between BullMQ's failure and its write, leaves `queued` or `active` for ever (`lost`).
- If `AI_SERVICE_TIMEOUT_MS` exceeds the worker's timeout a call outlives its permit (`extraction.worker.js:820`).

*Subscriptions.* Snapshots applied out of order leave a stale status, though
`subscription.controller.js:485` says the order does not matter; the `deleted` of an old subscription cancels an owner whose newer one is
active; an owner `past_due` can buy a second one; two checkouts at once make two customers, and what the first buys
finds no user (the exception in `AccessCopyFollows`). `RecordCatchesUp` is about an orderly life.

*Accounts.* A logout, or a second change, between a password change's read and its save makes `tokenVersion` repeat an earlier value, and
sessions opened in between survive; `OldPasswordSessionsEnd` and `SessionsStayEnded` except those (`crossed`). A failing mail of an older
code erases the newer; two answers with one code at once open two sessions; two sign-ins that both find no company create two, and
`OneOwnerCompany` says what holds when they do not overlap; attempts are not reset with a new code.

## 4. Theorems

For every value of the constants the assumptions in the modules allow: any number of
drafts, handlers, workers, months, pages, replicas, jobs, taps, days, subscriptions and calls, any bound, any set of
lapses unless a theorem says otherwise.

| theorems | states | by |
|---|---|---|
| `InvoiceApprovalProofs!TypeCorrect` | `[]TypeOK` | inductive as it stands |
| `InvoiceApprovalProofs!NumbersUnique` | `[]NumbersNeverReused` | `NumberInv` |
| `InvoiceApprovalProofs!DraftInvoicedOnce`, `RegisterImplemented` | `[]OneInvoicePerDraft`, `ImplementsRegister` | `LedgerInv` |
| `InvoiceClaimProofs!ClaimsExclusive` | `[]RedeliverySafe` | `ClaimInv` |
| `InvoiceClaimProofs!ApprovalsInvoiced` | `[]ApprovedHasInvoice` | `ApprovedInv` |
| `InvoiceClaimProofs!PayloadFrozen` | `ClaimedDraftKeepsPayload` | `UnreadInv` |
| `InvoiceClaimProofs!ApprovalsFinal`, `DiscardsFinal`, `JobsMatch` | `ApprovedFinal`, `DiscardedNotApproved`, `[]JobMatchesClaim`, from `Lapses = {}` | `HeldInv` |
| `SalaryLedgerProofs!TypeCorrect` | `[]TypeOK` | with `EntriesInv` |
| `SalaryLedgerProofs!NumbersUnique`, `NotReplaced` | `[]SlipNumbersUnique`, `SlipsNotReplaced` | `NumberInv` |
| `SalaryLedgerProofs!NoDuplicates` | `[]NoDuplicateHistory` | `HistoryInv` |
| `SalaryLedgerProofs!TotalFollowsSlips` | `[]EarnedMatchesSlips`, from `[]FreshEdits` and `NoneDiesOwing` | `BalanceInv` |
| `SalaryLedgerProofs!EarnedMatches` | `[]EarnedMatchesSlips`, from one request and no failure | the above |
| `CacheAsideProofs!TypeCorrect`, `WarmKeyFetchedOnce` | `[]TypeOK`, `[]FetchedOnce` | `WarmInv` |
| `CacheAsideProofs!NoneForgotten` | `[]NobodyForgotten`: the core of `ReadsEnd` | `WaitInv` |
| `CacheAsideProofs!StaleCondemned` | `[]StaleIsCondemned`, from no fallback and `WritesOverlapNone` | `FreshInv` |
| `AttendanceProofs!AppImplementsLifecycle` | `Spec => LifecycleSpec`: whatever the app does, the server's part is a behaviour of `EmployeeLifecycle` | each step of the app |
| `AttendanceProofs!TypesKept`, `LeaveRemembered`, `RecordsHaveSessions`, `AssignmentNotUndone` | `[]TypeOK`, `[]LeaveRemembersState`, `[]RecordHasSession`, `OfficeAssignmentKept` | `LifecycleInv` |
| `AttendanceProofs!QueueInOrder`, `FlushDropsNothing` | `[]StoredInOrder`, `FlushKeepsUndelivered` | `QueueInv` |
| `AttendanceProofs!DropsOnlyWhatOverlaps` | `NothingDropped`, from `EnqueuesApart`: the converse of run `FindEventDropped` | `SameQueue` |
| `AttendanceProofs!NobodyWaitsInVain` | `[]AnswersComing`: the core of `SyncSettles` | with `QueueInv` |
| `StripeSyncProofs!TypesKept`, `CopyFollows` | `[]TypeOK`, `[]AccessCopyFollows` | `EventInv`, `CustomerInv`, `HandlerInv` |
| `StripeSyncProofs!CaughtUp` | `[]RecordCaughtUp`: the core of `RecordCatchesUp` | `LifeInv` |
| `AuthSessionsProofs!TypeCorrect` | `[]TypeOK` | inductive as it stands |
| `AuthSessionsProofs!EndedForGood`, `OldPasswordDead` | `[]SessionsStayEnded`, `[]OldPasswordSessionsEnd` | `CopiesInv`, `SessionInv` |
| `AuthSessionsProofs!OneCompany`, `GuessesFew` | `[]OneOwnerCompany`, `[]GuessesBounded` | `CompanyInv`, `GuessInv` |
| `ExtractionJobsProofs!TypesKept`, `PermitsKept`, `OutcomeTold` | `[]TypeOK`, `[]PermitsConserved`, `[]RecordTellsOutcome` | `SlotInv`, `QueueInv`, `RecordInv` |
| `ExtractionJobsProofs!NoneForgotten` | `[]NoJobForgotten`: the core of `JobSettles` | `HeldInv` |

*Numbers.* That used numbers are distinct is not inductive: a process may hold one and
save later. `NumberInv` adds that the numbers held are distinct, none is beyond the counter,
and one still to be used is in no invoice, live or deleted. The steps are grouped by what they do to a
number (`Quiet`, `Moves`, takes, issues), so that each group is proved once.

*Claims.* `RedeliverySafe` needs to know that a claim is not won twice. The worker's claim is the
draft's version when it won; only `ApproveClaim` makes a draft `approving` and it raises the
version. `ClaimInv` says so: a slot's claim is at most the version of its draft, and below it
while the draft is `approving`. A document that has expired is never created again.

*Approved drafts.* `ApprovedInv` adds that a slot about to commit has its invoice in the ledger.

*Payloads.* An extraction ends with an unconditional write, so what keeps it off an approval is that nobody
has seen its draft `ready` before: `UnreadInv` says that until it has ended its draft is `extracting`, `discarded` or gone, and
no handler, job or slot is about it.

*While nothing is late.* Who may still write to a draft by right of a claim is a handler about to enqueue or undo,
its job, or the slot that runs it. `HeldInv` says that there is at most one of them, that its version is the draft's and that the draft is claimed (or
expired) as long as there is one. A claim starts only from `ready`, where there is none; a holder that lets go is the
last. Hence nothing is under way when a draft is `approved` or `discarded`. Each lapse breaks this: an aged claim is freed while
it has a holder, a late add or a stall makes a second one.

*History.* A stale copy written back could bring a duplicate, so `HistoryInv` says of every copy held
by a handler or a page what it says of the history itself: no two records of one identity,
none named after now, and none that is still to be pushed.

*The running total.* At every moment the slips' net amounts add up to the running total plus what the handlers under way
still owe it (`Balances`, part of `BalanceInv`); when nobody owes anything that is `EarnedMatchesSlips`. Two steps of the code break the
balance, and `TotalFollowsSlips` takes exactly their absence as hypotheses: an edit that goes by a net amount replaced since it
was read (`FreshEdits`), and a handler that dies between a slip's write and the `$inc` (`NoneDiesOwing`). Any other interleaving of any number of
requests, mirrors, page writes and failures keeps the balance. `EarnedMatches` discharges both for the
condition of run `SalarySerial`. That changing one slip changes the sum by the difference is a fact about a fold over a finite set; the
section "Sums" proves it by descent on the subsets for which it fails (`WFMin` on a set of natural numbers), because the library's induction
theorems need an operator as parameter. It rests on the set of months and the set of requests being finite (`SlipsFinite`, `RequestsFinite`).

*A warm key.* While nothing has been written, expired or gone wrong, no writer is under way, a connection has only reads and
stores on its wire, and a replica that has fetched has the flight, or the copy it reads is there: `WarmInv`. The flight is kept
until its store has been answered, and that is what makes it inductive.

*Who waits for the cache.* A call waits for its GET, which is on the wire, or for a flight that is fetching; a handler for its SCAN
or DEL; a flight for its SET. What could break it is an answer that ends the wrong flight: `WaitInv` adds that a SET somebody awaits is the only one
on its connection and belongs to the flight that is storing (a SET given up is executed, and ends nothing). It rests on calls, handlers and replicas being
different things (`KindsApart`), because a command is given up by the name of who asked for it.

*Stale copies.* A fetch begun before a write stores its result after the invalidation (section 3). `StaleCondemned` says that this and the fallback to
memory are the only ways the cache keeps a stale copy: with Redis in reach, and as long as no write falls between a fetch's read of MongoDB and the
landing of its SET (`WritesOverlapNone`), a value in Redis that is not the document's always has an invalidation coming, asked for by a handler or on a wire,
however late and though its caller gave it up. `FreshInv` adds that every version on its way is the document's. TLC finds a counterexample as soon as
either hypothesis is dropped.

*Attendance.* `LifecycleInv` relates what a handler will save to what it loaded: it never changes the company, changes the assignment
only to "site over", and about to save a record it has made the session the record names. `QueueInv` says that an
enqueue about to write has every event still stored, that a flush has none that is not, and that what it has processed was
accepted. The queue's proofs are about the phone alone; the composition theorem carries the server's over.
`FindEventDropped` shows one way to lose an event, a tap stored between a flush's read and its write; `DropsOnlyWhatOverlaps` proves there is no
other. As long as no enqueue ends in that window, a flush that is under way has the queue as it is (`SameQueue`), so what it takes out was accepted; a flush
that falls into an enqueue's window brings events back, and loses none.

*Subscriptions.* A delivery under way is of an event still owed and of no other handler's (`HandlerInv`), so whoever tears the cached
status from the record will be repeated until it is mended; events belong to customers that exist, and these to the owner, unless two
checkouts made two (`CustomerInv`). In an orderly life, the one `RecordCatchesUp` is about, at most one delivery and one checkout are
under way, the delivery is of the oldest event owed, and the owner has one customer. `LifeInv` follows the newest event already answered and says that the record is as
Stripe had its subscription then; when none is owed that event is the newest of all, and no later change is without an event.

*Sessions.* A session, or a copy a call may open one from, has the account's version and password or an older version
(`SessionInv`, `CopiesInv`). Wrong answers outnumber the counted attempts by at most the calls between answer and count and those
that died there (`GuessInv`).

*Jobs.* `QueueInv` says every waiting slot is in the semaphore's queue once, that somebody waits only when no permit is free,
and that free permits and running calls add up; `SlotInv` that an active job is one slot's; `RecordInv` follows a job
from its attempt to the write that tells of it. `HeldInv` says who has a job in each state of BullMQ, and what its end has written: a job still
`queued` or `active` in the record is with the API, in a queue, in a slot, or about to be told of, unless it is one of `lost`; and where somebody waits for
a permit, somebody has a call.

**Only model-checked.** Liveness (`ClaimResolved`, `ReadsEnd`, `FreshInTheEnd`, `JobSettles`, `SyncSettles`, `TodayStartsFresh`,
`RecordCatchesUp`), because fairness and `ENABLED` are out of the prover's reach. What is proved of four of them is that nobody waits for what nobody will do
(`NoneForgotten` of the cache and of the jobs, `NobodyWaitsInVain`) and that what is reached is the right state (`CaughtUp`); that the step which is due
is also taken is left to TLC. The definitions these theorems are about stand in the proof modules, and were themselves checked with TLC on instances of the size of the runs'.

## 5. What could follow

- Several users of one company: PDFs are keyed by company and numbers counted per user.
- Employees' tokens of the app, which share `tokenVersion`, and two factors; the composition of `AuthSessions` with `CacheAside` for a
  revocation that a cached copy delays.
- Removal of an employee and the self-healing of `assignedStatus`; attendance's hours as what a salary slip is computed from.
- Chat's unread counts, and the app's queues of push tokens and acknowledgements, which are built as the attendance queue is.
- Pure calculations against reference definitions: business day and time (`businessTime.util.js`), VAT deadline, document expiry.

## 6. Not modelled

Rendering and templates, the AI pipeline and the rules over its answers are functions of their input; chat,
notifications, dashboards, locations, legal acceptance and audit write single documents that nothing else decides on, or fire and
forget; the pages of the dashboard and of the app are forms and lists, and where the order of a page's calls matters it is part of
the module of the server side it calls. They make up most of the repository's lines. All are listed with their sources under
"components" in `PROJECT.json`.

Inside the modelled parts these are abstracted:

- *Invoices*: one user and one counter; the extraction inside `createInvoice`; lists and downloads.
- *Attendance*: an activity of the app has one request at the server at a time; `Assign` merges the check of the company with the write;
  hours and locations.
- *Extraction*: progress, metrics, the janitor of temporary files; a request that finds an earlier job.
- *Subscriptions*: one plan, no lifetime users, no periods or prices; one event is not delivered twice at the same instant; the session
  check reads its copy in one step.
- *Accounts*: the session check and the load of the account are one step; `getMe` finds a company; a code expires when nobody answers
  in time; storing a code is one step with its read; wrong codes for a reset, account deletion and profile edits are left out.
