# Galaxy OS: TLA+ models, checks and proofs

Galaxy OS is a modular monolith: one NestJS API (`apps/api`) over one
PostgreSQL database (through Prisma), a local file store, a Next.js client
(`apps/web`) and a stateless edge proxy (`apps/edge`).  Handlers run
concurrently, in one process or several; what they share is the database.  A
handler is typically *read a document, check its status, do something in a
transaction of its own, write the new status* - so the questions worth asking
are about what happens between these steps.

This directory models the parts of the system where a wrong interleaving costs
most: the stock ledger with the document workflows that post to it, the money
that is settled against payment schedules, chunked uploads over a database and
a file store, the AI runs that API processes take over from each other, and the
AI jobs that remote executors answer, with the leased delivery of the events
that tell them.

## 1. Inventory of the system

| component (under `apps/api/src` unless named) | state it keeps | operations | interacts with | hard behaviours | what makes it correct | status |
|---|---|---|---|---|---|---|
| inventory ledger: `inventory/inventory.service.ts` | `InventoryBalance`, `InventoryTransaction(Line)` | `post` | every stock workflow calls it | concurrent Serializable transactions, retries with one key, several lines per row | balances are the sum of the postings; a key or number names one posting; no forbidden negative bucket | modelled, proved |
| reservations, issues, returns: `inventory/operations.service.ts` | three documents with status histories | create, approve, reserve, release, post issue, receive return | ledger | the status is written after the posting, unconditionally, from a stale read | a status is backed by a posting; nothing is given back before it was taken; maker-checker | modelled, proved |
| stock transfers: same file | `StockTransfer(Line)` | create, approve, dispatch, receive in parts | ledger | client keys, stale remaining quantity, counting in a third transaction | goods in transit stay in the books; no more arrives than was sent (it may) | modelled, proved |
| adjustments, cycle counts: same file | `StockAdjustment`, `CycleCount(Line)` | create, approve, post; freeze, record, approve, post | ledger (which reads the freeze) | snapshot and freeze in two steps; five steps to post | what is posted is what was counted, written and approved; closed means posted | modelled, proved |
| goods receipts, inspection: `inventory/receiving.service.ts` | `GoodsReceipt`, `QualityInspection`, `DamageRecord` | create, receive, inspect, complete | ledger, purchase orders, shipments | prior receipts summed in a Serializable transaction; stale status writes | no over-receipt; held stock leaves by an approved inspection only | modelled, proved |
| installation: `installation/` | work orders, deliveries, `InstallationItem`, punch items | release, install, deliver, log, resolve, verify | ledger | two calls for one issue line | an issue line is installed once | `installItem` modelled |
| receivables: `contracts/` | contracts, schedules, `CustomerPayment`, allocations | transitions, schedules, payment | projects | Serializable allocation, key looked up outside it | paid + outstanding = amount; a key is one payment | schedules and payments modelled, proved |
| supplier payables: `procurement/`, `production/` | payables, schedules, supplier payments, approvals, allocations | generate, schedule, update, record, submit, approve, allocate | contracts, production orders | maker-checker from stale reads, sums across documents | nobody approves their own; allocations within payment and schedule | modelled, proved |
| purchase chain: `procurement/`, `logistics/`, `production/` | requests, RFQs, quotations, comparisons, orders, invoices, shipments, landed costs | about 50 commands | receipts | sums across documents | shipped within ordered | planned |
| projects and stages: `projects/` | projects, stage one and two records, approvals, products, risks | about 90 commands | files, notifications | optimistic versions, row locks, approvals against changing records | an approval holds for the version it saw | planned |
| chunked uploads: `uploads/`, `files/` | sessions, parts, file assets, quota reservations; the file store | initiate, part, complete, recover, submit, abort, cleanup | projects, chat | database and file store are not atomic; claims of completions that are taken over; cleanup races | a published file has its bytes for good; nothing is left behind | modelled (one session, without quota) |
| MCP jobs and results: `mcp/mcp.jobs.service.ts`, `mcp/mcp.results.service.ts` | the job's message row (status, metadata: state, generation, submission), the parts of its text | create, progress, cancel, retry, clarify, submit, finalize | project chat, events, remote executors | an executor whose requests come late, twice and out of order; a submit that finishes in a later transaction than it checked in | the answer is one whole submission of the current attempt; a completed job stays as it is | modelled, proved (without files) |
| imported files of results: same file | receipts with leases, artifacts, file assets | import, heartbeat, take over, bind | files, remote stores | leases over slow downloads | one artifact per reference | planned |
| MCP event delivery: `mcp/mcp.events.service.ts` | outbox events, subscriptions, deliveries with leases | subscribe, unsubscribe, reconcile, claim, post, acknowledge, settle | jobs, webhooks | one worker per process, leases that run out, process death, lost answers, rejections | a delivery is ended by its holder only; job and delivery agree; a wanted event is settled | modelled, proved |
| AI runs: `project-chat/` | answer rows with lease, attempts and checkpoint; files; receipts of tools | ask, enqueue, claim, recover, dispatch, call tools, complete, cancel, resume | model providers, file store, other API processes | leases, process death, stalled workers, late answers, recovery by replay | no request is sent twice by itself; one live run; drafts are not lost | modelled, proved (one conversation) |
| authentication, access, roles, users | sessions, credentials, reset tokens, roles, scopes | login, logout, reset, administration | all | lockout counter, one-time tokens | a reset token works once | planned |
| leads, opportunities, customers, commercial, after-sales, tasks, comments, notifications, imports, settings | their own rows | create, read, update, delete, short status workflows | projects | few | | planned in part, or not |
| web, edge, document-ai, scripts, infra | none that is authoritative | | API | | | not modelled |

`PROJECT.json` lists every component with its sources, and every hazard at
the line where it bites.

## 2. Modules

```
StockLedger            what post promises: vocabulary and abstract specification
 |-- StockPosting      how post keeps it: concurrent Serializable transactions
 |-- StockIssuing      reservations, issues, returns, installation over PostFor
 |-- StockTransfers    transfers over PostFor
 |-- StockCounting     adjustments and cycle counts, beside other movements
 `-- GoodsReceiving    receipts and inspections over PostFor
McpJobs                an AI job: what owner, executor and notification do to it
 `-- McpEvents         how the executor is told: outbox, leased deliveries, workers
Payments               supplier and customer payments, their schedules
UploadPromise          what an upload promises its client
 `-- UploadSessions    how requests, cleaner and crashes keep it
AiRuns                 the runs of one AI conversation and their workers
MC<module>             constants of the TLC runs
*Proofs                theorems, proved with TLAPS: section 4
FiniteSums             sums over finite sets, for the proofs about quantities
```

**StockLedger.** State: `balance`, the eight buckets of every balance row, and
`transactions`, the recorded postings with their net effect.  A row (an element
of `BalanceKeys`) stands for the code's `item:warehouse:location:lot:serial`
key.  `Post` is one whole posting; `PostFor(key, e)` is `inventory.post` as the
workflows see it: a new posting, or the recorded one when the payload under the
key is the same; anything else is an exception.  `LedgerSpec` is the abstract
specification, which StockPosting implements.  The workflows post by `PostFor`
alone, so that they implement it too says nothing about them; what is asked of
them is what their documents make of the postings.

**StockPosting.** The transaction line by line.  `Begin` takes the snapshot and
finds no row under the key, `Replay` finds one; `PostLine` and `RejectLine` are
a turn of the loop with its checks in the order of the code; `Commit` follows
PostgreSQL: it fails (`Abort`) when a row it writes was committed since its
snapshot or when a unique index (key, transaction number) is taken.  A row's
`version` is the number of lines posted to it.  `CycleCountStep` is the
environment that freezes and frees rows; the code writes the freeze in
transactions that are not Serializable, so a posting is not aborted by it.

**StockIssuing, StockTransfers.** Every command is a *call* that moves through
its database steps one action at a time: read and check the document, look for
the posting (where the code does), post, count (where the code does), write the
status.  The status is written from what the call remembers, unconditionally,
as the code does.  `Fail` ends a call after any of its steps: an exception, a
lost connection, a restart.  Retries are new calls.  `MovedOnce` says of the
rows what that must not change: what is issued and installed adds up over the
documents posted, each counted once.

**StockCounting.** Calls as above, but a posting is two steps here, because
the freeze of a count is read by `post` inside its transaction and written by
`freezeCount` outside of one: `BeginPost` and `CommitPost`, for the postings of
adjustments as well as for the `Movements` of other workflows.  A count's
adjustment has the count's number, so the count names it.

**GoodsReceiving.** `createReceipt` sums what was received before in a
Serializable transaction (a snapshot, then `CommitReceipt`); every receipt line
makes an inventory item of its own, so a receipt is its own balance row.
`receive`, `inspect` and `complete` are calls as above; a slow `receive` may
put a receipt back to `RECEIVED`, and then there is a second inspection of it.

**Payments.** Every allocation is a Serializable transaction: a snapshot, then
its commit.  `Footprint` is what it read; a commit of another Serializable
transaction in between dooms it when they depend on each other, as does any
change of a row it writes; that a plain command changed a row it only read goes
unnoticed, as in PostgreSQL.  Schedules are made and changed, and supplier
payments move through their statuses, by commands that read, and write in a
later step.

**UploadSessions.** One upload session with everything that can touch it: two
requests of its owner, the cleaner, and crashes of the process.  `session` is
the row with its `FileAsset`; `store` the final object, the pending ones by
claim, the staged parts and what is being assembled; `call[c]` the program
counter and memory of a request; `busy` the maps that admit one part and one
finalization at a time in a process.  A file's bytes are a token, new
with every write, so a reader sees which write it got.  A request may come
before the answer of the `initiate` that made the row, as when the client
repeats that call.  When the first call then cannot make the directory, it
releases whatever it finds: `session.spoiled` records that it found a session
in use.  `UploadPromise` is the abstract specification; the refinement reads
`stage` and `bytes` off the row and the store, and a spoiled upload is `void`
there: the code keeps no promise about it, and the invariants make none.

**AiRuns.** `run[r]` is the `ChatAiAnswer` row with its metadata; `job[w]` what
the run of worker *w* does and remembers (`runChatGpt` from claim to cleanup,
one action per transaction, request or tool); `files` and `receipts` what tools
left in the file store and the audit log; `open` has, for each run and each side
of a resume, the claims that sent a request which no checkpoint followed.  A run
without a checkpoint first prepares its question: it may ask the provider for a
public search and for summaries of its history (`Dispatch`, `Send`, `Answer` at
the step `prepare`), any number of times, and put the sources found in the row
(`Sources`); then the server reads documents (`ReadDocument`), and the rounds
begin (`Ready`).  A call of a tool may search, store a draft, or end at once
with an output or with an error that the provider is told of (`NextCall`).  A
resume may clarify the task, which then has a file to make and other documents
(`pin`).  `Lapse` is a heartbeat that stays away
for a minute, of a dead worker or of one that only stalls and goes on later;
`Crash`, `Shutdown` and `Throw` end a worker after any step.

**McpJobs.** One job: `job` is its row and metadata, `text` the saved parts of
all submissions, `finalizing` the submits that passed their first transaction
and have their last one ahead.  Every command runs in a transaction that first
locks the project's row (`access-control/project-chat.policy.ts`, `FOR
UPDATE`), so a command is one action; a submit is two (`SubmitText` or
`SubmitAgain`, then `Finalize` or `EndSubmit`), because the code checks attempt
and submission in one transaction and completes the job in another.  The
executor is remote: the actions take any attempt and submission, current or
not, at any time, so late, repeated and reordered requests are all there.  An
attempt is the job's generation plus one, as in the code.  `announced` records
which callback received which event; with it `JobSpec` says when a job may
become notified, and is the abstract specification of McpEvents.

**McpEvents.** `delivery[g][c]` is the row of generation *g*'s outbox event and
subscription *c*, with its lease; `worker[w]` is one API process's worker with
its program counter.  `FindEvent` and `InsertDelivery` are `reconcile` (also
when `subscribe` calls it: that is one more worker); `Claim`, `CheckJob`,
`Post*`, `Acknowledge*`, `Settle`, `CountOthers`, `FailJob` are the steps of
`tick`, each a transaction or a request of its own, so everything else may
happen between them.  A worker has one delivery in hand, so its identity stands
for the token of its lease.  `Crash` is the end of a process, or an exception
that leaves the tick; `StepFails` a transaction the database refused, which the
code answers by a retry; `LeaseRunsOut` the two minutes.  The owner, the
executor, subscriptions and access act at any time.  Nearly every step checks
the job first (`Checked` is `workspaceCheck`): access may be gone, and what the
job has pinned may have a new version (`pinned`), a conflict on every try from
then on, unless it is a note without sources and the owner clarifies.  Such a
job keeps `reconcile` from the later events of its owner's subscriptions;
`behind[c]` says that another job does that to ours.

Correspondence to the code is in the `map` of `PROJECT.json`, definition by
definition.

### What the models leave out

* Quantities are integers: units of the `Decimal(20, 3)` columns.  Request
  fields accept finer decimals than the columns keep; that rounding is not
  modelled.
* Documents have one line (a receipt of a transfer may name it repeatedly).
* Access policies, evidence files, numbering and status history rows: they
  refuse a call (`Fail`) or record what happened.
* Transactions older than the payload hash, which the code compares by their
  metadata.
* Reads that the code makes one after another and whose earlier result cannot
  be undone are one step: `PostIssue` reads the issue and its reservation at
  once (`issuedQuantity` only grows, and `ISSUED` is final), `InstallItem`
  finds the issue line and finds or creates the item.
* AI jobs: files and artifacts of a submission, the context snapshot, the
  executor's downloads and lists.  A repeated command that finds its effect
  done changes nothing and is a stutter.  Jobs do not interact, so there is
  one.
* Counts and adjustments: numbers, evidence, history rows.  Receipts: lots,
  serials, evidence; damage records are counted, not described (two completions
  of one inspection write them twice).
* Payments: requests, orders and proformas before a payable; currencies and
  rates; due dates.  A production order may become ready at any time.
* Uploads: quotas and storage reservations, several sessions, publication
  targets.  One API process serves a session (its maps are local).  A claim is
  taken over only when its holder is gone: fifteen minutes are far beyond any
  completion.
* AI runs: prompts, the content of answers and tools, memory and sources; the
  owner's limit of two live runs over all conversations; the limit of three
  drafts; inline runs of requests of earlier releases; resuming after a tool
  limit; workspace jobs.  Capabilities are not withdrawn in the middle of a
  draft.  `FAILED` stands for `ACCESS_REVOKED` too.  Tasks with missing
  information are not among the `Wanted`.  One conversation, because runs of
  different ones share no row but the owner's count.  Runs are pinned as the
  code pins new ones (versions 3 and 4): a row of an earlier version could reach
  the unguarded write of `Sources` without a request before it.  The tools that
  write memories checkpoint in a transaction of their own before the call's
  receipt; they keep no file and no request of a run.
* Event delivery: verification of a callback and the secrets with their
  rotation (a subscription is on or off); the limit of a hundred events that
  one pass of `reconcile` takes; the back-off between tries (a delivery that is
  due may be claimed at any time); the order in which due deliveries are
  picked; draining of workers at deployment.

## 3. Runs

All runs but `events_live` are safety checks without fairness: nothing obliges
a caller, a client or a user to retry.  `CHECK_DEADLOCK` is off because the
documents, attempts, claims and submissions of an instance run out.

| run | instance | states | shows |
|---|---|---|---|
| `posting_race` | 2 posters, 3 rows (one missing, one that may be oversold and is serialized), requests that share keys, numbers and rows or are ill-formed, one row counted | 802,000 | each posting takes effect once and whole, no lost update, replays are answered for the same payload only, implements the ledger |
| `issuing_reserve` | 2 calls, 2 users, a reservation, an issue that draws on it and one that competes, a return, installation | 435,000 | statuses are backed by postings, order, maker-checker, conservation, every document moves its goods once |
| `issuing_elsewhere` | an issue against a reservation that holds nothing | | **violation**: it takes another reservation's stock |
| `transfers_receive` | 3 calls, one transfer of 2, received whole or in parts under 2 keys | 129,000 | dispatched on approval, conservation |
| `transfers_over` | 2 calls, two transfers of 2 | | **violation**: more arrives than was sent |
| `counting_close` | 2 calls, 2 users, a count and a manual adjustment of one row, a movement that may have begun before the freeze | 1,020,000 | what is posted is what was written; a count corrects the books once approved and counted, an adjustment by hand once another approved it; closed means posted |
| `receiving_inspect` | 3 calls, 2 users, 3 receipts for an order line of 3 and a shipment of 2, 3 inspections | 190,000 | nothing beyond the order or shipment line, statuses backed, held until another releases it |
| `payments_settle` | 2 calls, 2 users, 2 payables with a schedule each (one waits for production), a payment that covers one and a half, 2 customer payments of which one takes an amount back | 694,000 | paid and outstanding make up the amount everywhere, nothing beyond the payment, nothing without another's approval |
| `uploads_promise` | 2 requests and the cleaner, 1 part, up to 3 writes of it, 1 claim of a completion, 5 of recoveries, requests also before `initiate` is done | 2,264,000 | a file has its bytes, a released session has no files, implements `UploadPromise` |
| `events_race` | 2 workers, 1 callback, 2 attempts, leases that run out under their holder, a pinned note that changes | 3,198,000 | old attempts are not delivered, job and delivery agree, the answer is one whole submission, rejections are current, only the holder ends a delivery, a completed job is final |
| `events_live` | 1 worker, 2 callbacks, 1 attempt, 1 crash or refused step, a pinned source that changes, other jobs in front; `FairSpec` | 148,000 | every wanted event is settled, implements `JobSpec` |
| `airuns_recover` | 2 workers, 4 sets of runs: one that makes a file and searches, two after each other, one and two of which an earlier release queued one with a deadline; 2 claims per run, one of them clarified | 2,399,000 | no request is sent twice by itself, one live run, no draft is lost, a file where one was asked, a settled run is final |

Why the bounds are enough: the hazards are races of two calls on one document
or row plus a retry, so two or three calls with one or two documents of each
kind reach them; quantities of at most 3 distinguish none, part, all and too
much.  Receipts need three calls: two that read the same sum and one that
consumes it.  An upload's races are of two owners' requests with the cleaner;
one part is enough because parts are replaced and not combined before the
object is assembled, and with one claim at a time a second completion takes
over the name the first left.  A job's races are of one late request with one
change of attempt, or of two submissions; those of event delivery of two
workers with one row, or of two rows of one event.  That `events_live` has one
worker is a matter of size: what it asks is what one worker, whatever fails,
must do in the end; the races are those of `events_race`.  In `events_race` a
stalled worker that never comes back is a crashed one, so it needs none
besides.  An AI run's recovery has a former worker and a new one; the third of
the code's three claims (`MaxAttempts` is 2 in the run) repeats the second.
Every passing property has a mutant, a plausible bug in the code it is about,
that the same run finds.

### Fairness of `events_live`

* Weak fairness of each worker's steps and of `LeaseRunsOut`: every API process
  starts `tick` every two seconds, and a lease ends after 120 seconds whatever
  happens.
* Strong fairness of finding and of claiming an event: other deliveries of the
  same worker, and events it cannot get past, come in between, but reconcile
  takes the oldest events and tick the deliveries that are due longest, so none
  is passed over for ever.
* Strong fairness of `Post`: a callback that is asked again and again accepts
  in the end.  This is about the environment; a callback that never answers
  keeps its delivery pending for ever, as the code intends.
* At most `MaxCrashes` failures of the infrastructure (a conflict over a pinned
  version is not one of them, and never ends), so that the workers live on in
  the end. `MayStall` is FALSE: a post is cut off after 30 seconds
  (`mcp.network.ts`), well within the lease.  The safety run `events_race` has
  it TRUE.

### Findings

1. `postIssue` does not look at the status of the reservation it draws on
   (`issuing_elsewhere`).
2. `receiveTransfer` checks a quantity it read before the posting
   (`transfers_over`): concurrent receipts, or one that names a line twice,
   receive too much, as long as another transfer of the row is in transit.

### Known not to hold

What the models show the code does, where nothing in the repository says
otherwise clearly enough for a finding, or where no run is spent on it:

* A posting that looked for a freeze before `freezeCount` wrote it commits
  afterwards, so a frozen row can move; `createAdjustment` then refuses the
  count's correction and the rows stay frozen.
* A counter whose slow `recordCount` finishes while they approve another
  person's tally ends as counter and approver of one count.
* A count recorded in part can be neither recorded again nor approved.
* Schedules added by hand beside `generateSupplierPayable` sum to more than the
  payable; a cancelled supplier payment keeps its allocations; a schedule that
  was released by hand and paid becomes `DUE` when its production order gets
  ready.
* Two completions of one inspection write its damage records twice.
* A job whose pinned note or source has a new version can be neither delivered,
  cancelled nor retried: `workspaceCheck` refuses every step, its delivery goes
  back to `PENDING` for ever, and the later events of its owner's subscriptions
  get no delivery at all while it runs.  Only a note without sources can be
  pinned anew, by a clarification.
* When a client repeats `initiate` before its first answer, and the directory of
  the first call cannot be made, the session is released under the feet of
  whoever uploads to it, and what a completion has just published goes with it.
* A receipt of a transfer that stopped after its posting is never counted in
  the transfer's lines, because its retry is answered early.
* A lost answer of a part's commit removes the file of a registered part: the
  session can only be aborted.
* An earlier question that was stored but never enqueued blocks every later run
  of its conversation until the client asks again or cancels it.

## 4. Proofs

TLAPS proves, for any constants that satisfy the modules' assumptions:

* **FiniteSums**: what `SumFunctionOnSet` of the community module Functions
  computes over any finite set: a sum splits at an element and over disjoint
  sets, is additive, monotone, zero where the terms are, and changes with one
  of them by as much.  Induction over the subsets of a finite set, and over the
  natural numbers, is done by hand: the numbers that are missing have a least
  one.  That is first order, so the provers need no induction theorem with an
  operator as a parameter, which they could not instantiate.  All theorems
  about quantities and amounts below rest on this module.
* **PostingAndCountingProofs**, postings: type correctness, `ProjectionHolds`,
  `NeverOversold`, `RecordedOnce`, `AnswerIsRecorded`, `VersionTellsChange`,
  `PostingSpec => LedgerSpec` and `BalanceIsLedgerSum`. The invariant says of
  every open transaction that its private view is its snapshot plus the effect
  of the lines so far, and that while the versions it saw are still current, so
  is the snapshot. First committer wins then makes the commit one step of the
  ledger. A step of the ledger adds one transaction, which was not there, and
  its effect to every row, so that each row is the sum over the transactions:
  the sum is proved of the abstract ledger and holds of the transactions line
  by line.
* **PostingAndCountingProofs**, counting: `PostedAsWritten`,
  `AdjustedOnApproval`, `CorrectedOnApproval` and `ClosedIsPosted`, from
  `CountingInv`.  A posting is two steps in which
  every other call goes on, and the documents' statuses are written from stale
  reads.  So `AdjustmentOK` and `CountOK` say what a status rests on that is
  never undone (lines are written once; an approval stays), `CallOK` what a
  call between two steps remembers truly, and `Grows` that no step of another
  call takes any of it back.
* **StockIssuingProofs**: type correctness, `StatusBackedByLedger`,
  `LedgerInOrder` and `MovedOnApproval`.  None of these
  is inductive: a status is only safe to write because of what an earlier step
  of the same call established.  `CallOK` records, per step, what the call may
  rely on (after `reserve.post` the posting is in the ledger; an approval step
  remembers a user other than the requester), `DocumentsOK` what documents rest
  on, and `Grows` that no step of another call takes any of it back.
  `GoodsConserved` is one more sum: every effect that a call posts keeps what
  is on hand, issued or installed over all rows, but for a return without an
  issue, which adds what it returns, and each return is posted once.
  `MovedOnce` is a sum over the documents, row by row: a posting that is new
  moves one document's goods and adds its share, and a step that finds it
  recorded moves nothing, so what is issued and installed cannot be taken twice.
* **StockTransfersProofs**: type correctness, `DispatchedFirst`,
  `DispatchedOnApproval`, along the same lines, and
  `TransitConserved`: each effect moves as much into transit as it takes off
  hand, or the reverse, over all rows.
* **GoodsReceivingProofs**: type correctness, `StatusBackedByLedger` and
  `ReleasedByAnother`.  `ReceiptOK` and `InspectionOK`
  say what a status rests on, `CallOK` what a call between two steps may rely
  on; no step takes a posting back, so both survive the steps of other calls.
  `HeldUntilReleased` is proved row by row: a row is what was received less
  what its posted inspections passed and failed, and completing one adds it to
  the sums once, however many calls complete it.  `ReceivedWithinSource` is not
  inductive without what a creation saw: `SourceInv` says that a call between
  its sum and its commit has room for its receipt beside those it saw, and the
  commit succeeds only if no other receipt of that source has come since.
* **PaymentsProofs**, the approval: `AllocatedOnApproval`.  A status is written
  from a stale read, so the approval must be looked for in what never goes:
  `PaymentOK` says that an approved or allocated payment has an approval by
  another than its recorder, approvals are never removed, and a call that is
  about to approve or allocate remembers as much (`CallOK`).
* **PaymentsProofs**, the books: `BooksBalance` and `AllocatedWithinAmount`,
  from `BooksInv`.  `PayableOK`, `RowOK` and `AllocationOK` tie the paid amount
  of a payable to the allocations of its schedules, that of a schedule to the
  allocations made to it, and the allocations of a payment to its amount.  What
  makes this inductive is `ClaimOK`: the rows a transaction read are unchanged
  (`Remembered`), what it asks is within what is outstanding, and its sum within
  the payment, until it commits or a commit it depends on dooms it.  So a write
  computed from the snapshot is the write computed from the row.  Steps are of
  four kinds, each shown to keep `BooksInv` once: those that touch no books
  (`BooksStay`), that change labels of rows (`Relabelled`), that add rows and
  payables (`RowsAdded`) and that settle (`Settling`).

* **McpEventsProofs**, the job: type correctness, `StatusMatchesState`,
  `AnswerIsSubmission`, `CompletedIsFinal` follow from `JobSpec`.  What makes
  `AnswerIsSubmission` inductive is `Fence`: a submit that is about to finalize
  and is of the current attempt names the submission the job is bound to, or
  one without any text; a change of attempt disarms all others.
* **McpEventsProofs**, the events: type correctness, `SupersededStopped`,
  `DeliveredWasReceived`, `NotifiedMeansDelivered`, `RejectionIsCurrent`,
  `HolderSettles` and `Spec => JobSpec`.  `WorkerSound` says what each step of
  a worker rests on (what one is about to acknowledge has been received; one
  that is about to fail the job has a failed delivery of the attempt, unless
  the attempt is over), `Unborn` that attempts to come have no deliveries.
  `Moves` sums up what any step may do to a delivery and to the job; that a
  step which moves so keeps the invariant is proved once (`MovesInv`).
* **RunsAndUploadsProofs**, the runs: type correctness and all five properties
  of the run, `SentOnce`, `OneLive`, `DraftsListed`, `CompletedHasFile` and
  `SettledIsFinal`.  The first four rest on `RunsInv`.  `RowOK` ties a row to
  the requests that are open and the files that are stored: it is `SAFE` only
  while no request is open since it was last resumed, and a queued row is
  `SAFE`.  `WorkerOK` says what a worker may rely on: while its claim is the
  last one and the run was not resumed since (`Current`), its memory agrees
  with the row and the mark it left is still there; a worker that stalled past
  its lease is not excluded, only what it can still do.  `Apart` keeps two
  workers of one run from holding the same claim, or both being about to send
  on the same side of a resume.  Steps fall into four kinds, each shown to keep
  `RunsInv` once: those that settle or age a row (`Milder`), a worker that
  leaves, one that goes on without writing, and the owner that writes
  (`OwnerInv`); a claim, a resume and a request sent have proofs of their own.
* **RunsAndUploadsProofs**, the uploads: type correctness, `AssetIsWhole`,
  `ReleasedIsEmpty` and `UploadSpec => PromiseSpec`, from `UploadInv`.
  `CallerOK` says what a call between two steps may rely on: one that has the
  claim (`Holder`) finds the row `VERIFYING` under its claim, without a file
  and with a lease that has not run out, and the parts it read are still the
  registered ones; one that removes files knows that the session is over
  (`Over`).  `Alone` says that two calls never hold the claim; `NoneLeft` that
  once a release has looked for a part in flight, none is on its way to the
  disk.  `Sound` is what a step of one call must be for all of this to last:
  beside its own obligations, it leaves to a holder what that relies on, and
  while files are being removed it adds none.  That a sound step keeps the
  invariant is proved once (`SoundStep`), that each action is sound once each.
  A first initiate that fails late is the exception these statements name
  (`spoiled`): it only ever ends the promises of its own session, and every
  obligation of the proof but those is kept beside it.

Assumptions of these theorems, beyond what the constants are: the sets that
sums range over (rows, receipts, inspections, payments and their schedules) are
finite, as tables are; forms carry integer quantities (units of the `Decimal`
columns), those of goods receipts none below zero, as the request schemas
require; amounts asked of supplier payments and plans are integers of any sign,
because positivity is the code's to check.  TLC evaluates each assumption on
the instances it runs.

Only model-checked: the liveness property `EventSettles` (liveness under
fairness is beyond the prover).  Every other property of a passing run is the
statement of a theorem.  Type
correctness, `StatusMatchesState`, `DeliveredWasReceived`, `DispatchedFirst`
and `VersionTellsChange` are proved, and not checked by a run of their own.

## 5. Plan

Next, in this order:

1. `McpArtifacts`: the leased import of a submission's files, composed with
   `Finalize` of McpJobs; then the races of `subscribe` and `unsubscribe`
   around the verification of a callback.
2. Liveness of AI runs: every run that was asked for is settled.  The graph
   of two workers and two runs is too large for it today.
3. Upload quotas: reservations of several sessions against one limit.
4. `PurchaseChain`: quotations, orders, shipments, with sums across documents;
   then installation's work orders and site deliveries.
5. `StageOne`: the approval workflow and its versions.
6. `AuthSessions`: lockout, rotation and one-time tokens.

## 6. Not modelled

* Content: prompts, document parsing, prices, formatting, search.  Nothing
  concurrent depends on it.
* Work behind one row lock or of one row: tasks, comments, leads, catalog,
  settings, after-sales, production orders.  A test reaches all of it.
* The web client, the edge proxy, scripts: they keep no authoritative state.
