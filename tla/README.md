# Hudumika: specifications of the parts where the order of things matters

Hudumika is a multi-tenant business platform: one Fastify/Kysely API
(`src/apps/api`), a React front end (`src/apps/web`), PostgreSQL with row-level
security, Redis/BullMQ for scheduled jobs. Most of its 250 route files validate a
request, write a row and answer. The parts specified here are those whose
correctness depends on the order in which several requests, jobs and crashes
meet: money that is reserved before an external call and settled after it,
automations that must have their effects once although they are delivered more
than once, hash-chained records that must prove they were not altered, mail and
documents handed to providers whose answer may be lost, and the books, tax
periods and stock that several requests change at a time.

All paths below are relative to `src/apps/api/src/` unless they start with `src/`.

## 1. Inventory

| Component | State it keeps | Operations | What is hard |
|---|---|---|---|
| External Services Balance, `services/esb.service.ts` | `esb_wallets`, `esb_postings` (append-only), `esb_operations`, `esb_checkout_requests` | `ensureWallet`, `topUp`, `reserve`, `capture`, `releaseReservation`, `refund`, `createTopUpCheckout` | SUM-then-insert under concurrency, statuses read without a lock, repeated verification, crash between reserve and settle |
| Provider metering, `lib/provider-metering.ts`, `lib/esb-ai-settle.ts` | `tenant_service_config`, `provider_rates` | `meterBefore`, `meterAfter`, `settleAiCall` | the configuration is read twice; "not metered" and "refused" look alike |
| Metered AI routes, `routes/ai.routes.ts`, `agent.routes.ts`, `project-os.routes.ts`, `lib/platform-settings.ts` | none of their own | provider call between reservation and settlement | every exit of a handler must settle |
| Wallet routes, `routes/billing.routes.ts` | none of their own | checkout, verify, refund | browser retries |
| Studio outbox, `jobs/studio-outbox.job.ts` | `studio_event_outbox` (status, lease, attempts) | claim, deliver, settle | overlapping sweeps, leases that expire under live sweeps |
| Studio delivery, `subscribers/studio.subscribers.ts` | `workflow_studio_apps.status`, frozen `workflow_snapshots` | choice of workflows, one run each | partial failure, targeting |
| Studio executor, `studio/executor.ts` | `workflow_studio_runs` (status, worker token and expiry, cancellation, reconciliation) | reserve run, nodes, checkpoints, finish | worker claims, time limit, cancellation between a check and an effect, lost acknowledgements |
| Studio operator routes, `routes/workflow-studio.routes.ts` | the same tables | cancel, reconcile, retry, activate, pause | decisions about runs whose worker may be alive |
| Domain events, `services/domain-events.service.ts` | `domain_events` | emit in the caller's transaction, dispatch in process, replay | commit against dispatch, replays |
| Audit chain, `lib/audit-chain.ts` | `ondi_auth_events` | append under an advisory lock, verify | lock order against timestamp order |
| Declaration and bonded-stock ledgers, `services/declaration.service.ts`, `services/seal.service.ts` | `declaration_events`, `seal_movements`, lots, bonds | append under a row lock, verify; stock projection, bond headroom | chained appends from several transactions; headroom checked without a lock |
| Mail outbox and scheduled mail, `jobs/mail-outbox.job.ts`, `scheduled-email-send.job.ts`, `services/mail.service.ts`, `routes/email.routes.ts` | `email_outbox` (status, claim token, attempts, `next_attempt_at`), `email_messages` (folder, `scheduled_at`, `outbox_id`) | compose, reschedule, delete; hand over, claim, renew, send, save under the claim | crash after the send, leases that expire under a live sender, a change of mind while a sweep holds the message |
| Accounting export, `services/accounting-outbox.service.ts`, `accounting-integration.service.ts` | `finance_accounting_outbox`, `accounting_sync_logs`, the connection | queue, claim, check, submit, settle, retry, reconcile | unknown outcome at the provider; a log row that is lost with its transaction |
| General ledger, periods and expenses, `services/gl.service.ts`, `finance-close.service.ts`, `routes/gl-periods.routes.ts`, `financeExpenses.routes.ts` | `journal_entries`, `gl_periods`, reviews, `finance_expenses` | post, void, reverse by source; review, close, reopen; record, edit, approve, delete | an expense and its entries change in separate transactions; a review that is out of date |
| VAT periods, `services/vat-period.service.ts`, `routes/vat-periods.routes.ts` | `vat_periods`, preparations, the adjustment entry | prepare, review, close, reopen; edits of documents | the adjustment survives a close that fails; overlapping closes |
| Stock ledger, allocations and counts, `services/inventory.service.ts`, `finance-stock-allocation.service.ts`, `manufacturing-quality.service.ts`, `routes/inventory-counts.routes.ts` | stock levels, allocations, quality holds, count sessions | move, allocate, dispatch, release, hold, count, post | locks of job, allocation and item in two orders; a session that is read without any |
| SMS outbox, `jobs/sms-outbox.job.ts` | `sms_messages`, `sms_campaigns` | send, fan out, close | no claim at all |
| Workflow communications, `jobs/workflow-comm.job.ts` | scheduled communications | send when due | no claim; cancel against send |
| Subscription billing, `jobs/subscription-billing.job.ts`, `lib/ai-credits.ts` | subscriptions, invoices, AI credits | charge, dun, debit | charge and status in separate transactions; check then debit |
| Recurring documents, `services/recurring-documents.service.ts` | templates with `next_due` | generate bills and invoices | two generators |
| Petty cash, `services/petti.service.ts`; e-signature, `services/sign-document.service.ts` | wallets, requests, payouts; documents | approve, pay out, confirm; stamp | a payout that is confirmed later |
| CRUD routes, web application, packages, scripts | rows; user interface | | no protocol across steps |

Interactions: a metered AI route calls `resolveAiCredentials`, which calls
`meterBefore` and so `reserve`; after the provider call the route calls
`settleAiCall`, which calls `capture` or `releaseReservation`. The wallet routes
call the same service, and meet the AI calls only through the postings and the
wallet row. A business transaction calls `emitDomainEvent`, which freezes the
active workflows into `studio_event_outbox`; the sweep calls `deliverStudioEvent`,
which calls `executeAndRecord` for each workflow; the operator routes write the
same rows under `FOR UPDATE`. A transaction that issues an invoice or a bill posts its
journal, asserts that the VAT period is open and queues its export; the exporter and the
ledger then go their own ways. Stock movements, the lots of `seal.service.ts` and the
ledger meet only through the source a journal names.

`PROJECT.json` lists every component with its status, and 40 hazards at their
lines; a hazard that no property covers yet says why.

## 2. Modules

| Module | What it is |
|---|---|
| `EsbWallet` | one tenant's wallet with its AI calls, refunds, checkouts and verify calls |
| `PrepaidAccount` | what the wallet promises: the abstract specification it refines |
| `EsbWallet_Proofs` | its theorems |
| `MCEsbWallet` | small instances for TLC |
| `StudioDelivery` | events, the outbox, sweeps, runs with their worker claims, the operator |
| `StudioDelivery_Proofs` | its theorems |
| `MCStudioDelivery` | small instances for TLC |
| `HashChain` | one hash-chained table and the transactions that append to it |
| `HashChain_Proofs` | its theorems |
| `MCHashChain` | small instances for TLC |
| `AccountingExport` | the export of documents and payments to an accounting provider |
| `MailOutbox` | scheduled messages, their hand-over, the outbox and its senders |
| `GeneralLedger` | the journal, its periods and reviews, and the expenses that post to it |
| `VatClose` | one VAT period, its closes and the edits that race with them |
| `StockLedger` | one item: movements, allocations, a quality hold, a stock count |
| `Outboxes_Proofs` | the theorems of `AccountingExport` and `MailOutbox` |
| `Books_Proofs` | those of `GeneralLedger` and `VatClose` |
| `StockLedger_Proofs` | those of `StockLedger` |
| `SumTheorems` | facts about sums over finite sets, on which the balance, the totals and the reservations rest |
| `MCAccountingExport`, `MCGeneralLedger` | small instances for TLC |
| `MCBackOffice` | the other four in one instance, one service per behaviour |
| `BackOffice_Proofs` | that this instance runs the four specifications and nothing else |

### EsbWallet

A transaction of `withTenant` is READ COMMITTED, so what a statement read may be
stale at the next one. Each is cut at the reads that a concurrent transaction can
make stale; all it writes becomes visible at its commit and is one action with it.

| Actions | Code |
|---|---|
| `ResolveConfig`, `MeterBefore` | `resolveAiCredentials`, `meterBefore`: two separate reads of the configuration, `Reconfigure` may come between |
| `ReserveLock`, `ReserveSum`, `ReservePost` | `reserve`: `SELECT ... FOR UPDATE`, the SUM, the inserts and the commit, whose acknowledgement may be lost |
| `ProviderAnswers`, `ProviderFails`, `SetupFails`, `Answer` | the exits of the routes; `ExtractTasks` are the calls of the route that does not settle an answer it cannot parse |
| `CaptureRead`, `CapturePost`, `CaptureFails` | `capture`: unlocked read of the status, then postings and an update whose WHERE does not look at it |
| `ReleaseRead`, `ReleasePost`, `ReleaseFails` | `releaseReservation`, in the same way |
| `RefundLock`, `RefundSum`, `RefundPost` | `refund` |
| `CheckoutStart`, `EnsureWallet`, `CheckoutInsert`, `Pay` | `createTopUpCheckout` with `ensureWallet`; the payer at the gateway (external) |
| `VerifyStart`, `VerifyCheckout`, `VerifyDuplicate`, `VerifyInsert` | the verify route and `topUp`, with the unique index of migration 639 |
| `CallCrashes`, `RefundCrashes`, `VerifyCrashes` | the process dies; an open transaction rolls back |

Abstractions. Postings are only ever summed, so the ledger is its sum, with the
sums per payment and per operation that the code also queries. Prices are flat per
call, as `meterBefore` with one unit makes them. The postings' foreign key would make an
insert wait for a `FOR UPDATE` of the wallet row; the model lets them interleave,
which allows more behaviours than PostgreSQL does. One assumption is made: a commit
whose acknowledgement is lost is decided before the client's next statement runs.
Without it an unacknowledged capture could commit after the release that follows it.

### StudioDelivery

A worker is one sweep in progress, cut at every transaction; several sweeps
overlap. Its local variables (`event`, `todo`, `run`, `node`, `nodeFailed`,
`failed`) die with it, in `Crash`.

| Actions | Code |
|---|---|
| `Emit`, `Pause`, `Resume` | `emitDomainEvent` with its outbox row; `PATCH /apps/:id` |
| `ClaimDelivery`, `Settle`, `LeaseExpires` | `runStudioOutboxJob`: the claim under a fresh `lease_id`, the outcome under `WHERE lease_id`, the passing of `available_at` |
| `SelectWorkflows`, `StartRun`, `RunExists`, `InsertFails`, `InsertUnacknowledged`, `AllTried` | `deliverStudioEvent` and the insert of `executeAndRecord`: `ON CONFLICT DO NOTHING` on (workflow, event) |
| `BeginRun`, `BeforeStep`, `BeforeAction`, `Execute`, `Checkpoint`, `FinishRun` | `executeWorkflow` and the hooks of `executeAndRecord`: each hook is a guarded update that renews the 60-second claim |
| `Tick` | the passing of the 60-second claim, the 5-minute limit and the 30-minute review age |
| `Cancel`, `Reconcile`, `Retry` | the operator routes |

Abstractions. Lease and worker tokens are random; a worker in one sweep at a time
is told apart by its name. Nodes are numbered: the iterations of a `forEach` body are
separate nodes, and a node may be one with no effect (trigger, condition), one that
fails validation, or one that stops the path. Failures at any database call are allowed;
the time a node takes is any number of ticks. Simulated and manual runs carry no
event and have no delivery. A lost entitlement appears as a pause of every workflow.
The run's own clock starts with its row; the code starts it one round trip later,
against a margin of twenty minutes.

### HashChain

The audit chain, the declarations' events and the bonded lots' movements are the same
protocol with one difference, so there is one module; `order` says which table it is.

| Actions | Code |
|---|---|
| `Begin` | `withTenant` opens the transaction: PostgreSQL fixes its `now()` here |
| `TakeLock` | the advisory lock of `recordAuthEvent`; the `FOR UPDATE` of the declaration or the lot |
| `ReadTail` | the hash of the last row, `ORDER BY created_at DESC` (`order = "begin"`) or `id DESC` (`"insert"`) |
| `Insert` | the insert with that hash; `NewKey` is the id or `created_at` it gets |
| `InsertMore` | another event in the same transaction, as when two lines of a dispatched order are of one lot |
| `Commit`, `Abort` | the end of the transaction; the lock goes with it |

`Linked` is what `verifyAuditChain` and both `verifyChain` compute when no row was edited. Abstractions:
a hash stands for its row, so there are no collisions and no edited rows; a lock is granted to any
waiting transaction; no two transactions begin in the same microsecond, which favours the code.
The rows of one chain only: the locks and the reads of two chains do not meet.

### AccountingExport

An exporter is one call of `processAccountingSyncTask`; two sweeps that overlap make two.

| Actions | Code |
|---|---|
| `Connect`, `Disconnect`, `EnqueueAccountingSync` | the OAuth callback, `disconnect`, the insert `ON CONFLICT DO NOTHING` in the document's transaction |
| `ClaimTask`, `TimePasses`, `ExpireClaim` | the claim of a due task; a RUNNING one of five minutes ago becomes RECONCILE, or SUCCESS when the log says so |
| `CheckDestination`, `ReadSource` | the destination is compared before the sync picks its connection; a sync without one returns in silence |
| `SkipSynced`, `FailPreflight`, `TakeLock`, `Post`, `CommitLog` | `syncInvoice`, `syncBill`, `syncPayment` as one protocol in one transaction under `pg_advisory_xact_lock`: what is already synced, what cannot be, the POST and its log row |
| `SyncThrows`, `ReadOutcome`, `Settle`, `ExporterDies` | the catch, the reading of the log, the update guarded by `RUNNING` and `attempts`, the death of the process |
| `RetryDelivery`, `ReconcileXeroInvoice` | the operator's two routes |

Abstractions. Amounts, contacts and tokens are left out; the provider (external) accepts or not, and
answers or not, independently. The log is the set of kinds of its rows, per entity and not per
organisation, as `alreadySynced` reads it. Waiting times are the set `ripe`.

### MailOutbox

| Actions | Code |
|---|---|
| `SendMessage`, `Reschedule`, `PatchFolder`, `BulkAction`, `DeleteMessage` | the routes of a composed message; the delete cancels an envelope that may still be cancelled |
| `TimerRings`, `ListDue`, `HandOver`, `ReturnToDrafts`, `PassOver` | `runScheduledEmailSendJob`: an unlocked list, then one transaction for each message, which reads it again under `FOR UPDATE` |
| `Enqueue`, `SendNow` | `MailService`: an envelope to be claimed, or one that is born claimed |
| `ClaimMail`, `Heartbeat`, `Deliver`, `SaveResult`, `DropResult`, `SenderDies`, `MailTimePasses` | `runMailOutboxJob`: the claim with `SKIP LOCKED`, the renewal, the provider, the result under `claim_token` |

Abstractions. Addresses and contents are left out. `next_attempt_at` is the set `soon`, whether it
stands for a back-off or a lease. The provider may take a mail and report a failure.

### GeneralLedger

| Actions | Code |
|---|---|
| `PostJournal`, `VoidJournal`, `NextDay` | `post` and `voidEntry`, each one transaction under the advisory lock of the tenant's ledger; a reversal is dated today |
| `CreatePeriod`, `ReviewPeriod`, `ClosePeriod`, `CloseYear`, `ReopenPeriod`, `DeletePeriod` | the routes of `gl-periods.routes.ts` with `closeDiagnostics`: a review holds for the figures it saw; the year close posts its closing entry inside its transaction |
| `SubmitExpense`, `ApproveExpense`, `RejectExpense` | the expense's status alone, or with its entry |
| `RecordExpense`, `EditExpense`, `DeleteExpense` | the first transaction of a request (an editor), which changes the row |
| `FindEntries`, `VoidFound`, `VoidFails`, `PostAgain`, `EditorDies` | `reverseBySource` and `postExpenseToGl`, a transaction each; a failure is logged and no more |

Abstractions. An entry is what it does to revenue and expense accounts, so it balances by
construction and balance checks are not claimed. `Diagnostics` is what a review compares: the number of entries in the
period, and of those voided since; pending expenses block it (`Blocked`).

### VatClose

| Actions | Code |
|---|---|
| `Prepare`, `Review` | the preparation routes, which lock the row of the period |
| `CheckPeriod`, `EditDocument` | `assertPeriodOpen`, and a change of a document that is written later in the same request |
| `RequestClose`, `LockRow`, `ComputeReturn`, `PostAdjustment`, `SaveClose`, `CloseFails`, `CloserReturns` | the close: the row lock, `closeVatPeriod`, `gl.post` in a transaction of its own, the update of the period |
| `VoidAdjustment`, `ReopenVat` | `voidEntry` on the adjustment; the reopen route |

Abstractions. Of the return only the restricted input tax is kept, which decides the adjustment.

### StockLedger

| Actions | Code |
|---|---|
| `RecordMovement`, `TakeItem`, `CommitMovement` | `recordMovement`: `FOR UPDATE` of the item, then `applyDelta` against the unreserved stock |
| `AllocateStock`, `DispatchAllocation`, `ReleaseAllocation`, `LockItem` and their commits | `finance-stock-allocation.service.ts`: job, allocation and item are locked in this order |
| `CancelJob`, `CompleteJob` | the status route: cancelling releases what is not dispatched |
| `HoldBatch` | an inspection that fails, or the release of its hold |
| `StartCount`, `CountLine`, `RequestOnSession`, `PostCount`, `CancelCount` | a count; its status is read without a lock before the transaction that posts it |
| `Rollback` | a refusal or a failure |

Abstractions. One item and one batch, whole units; a transfer is one change of two locations; the
lines of a count are posted together, as their transaction does.

## 3. Runs

| Run | Instance | What it shows |
|---|---|---|
| `esb_settlement` (192 thousand states) | 2 calls, one of them extract-task, quotes of 2 or 3 against a top-up of 4; 2 refunds of 2; 2 checkouts, 1 payment verified twice; metering switched on and off | `NeverOverdrawn`, `Conservation`, `RefundWithinCharge`, `CreditedOnce`, `NoStaleDecision`, `SettledIsFinal`, `HoldsAreSettled`, and that the wallet implements `PrepaidAccount` |
| `esb_leak` | 1 extract-task call | violation: the hold stays open (finding 1) |
| `esb_norate` | 1 call, no rate configured | violation: the provider is called with nothing reserved (finding 2) |
| `studio_sweeps` (550 thousand) | 2 sweeps, 1 workflow of 2 nodes, a claim of 2 ticks, limit 1, review at 6 | `EffectOnce`, `CancelStopsRun`, `ReviewedIsOver`, `SettledDelivery` |
| `studio_pair` (800 thousand) | 1 sweep at a time, 2 workflows of 1 node | `DeliveredIsComplete` with pauses, failures and crashes between two workflows |
| `studio_progress` (100 thousand) | 2 sweeps, 1 workflow, fairness | `EventuallySettled` |
| `studio_targeting` | 2 workflows, one targeted | violation: a failed read drops the targeted workflow (finding 3) |
| `chain_orders` (10 thousand) | 3 transactions, 2 events each where they may, both orders | `LedgerVerifies`, `ForkNeedsOvertaking` |
| `chain_audit` | the same, ordered by transaction start | violation: a chain nobody altered fails to verify (finding 4) |
| `accounting_export` (147 thousand) | an invoice and its payment, 2 exporters, 2 attempts, 1 organisation; or the invoice alone and a second organisation | `SubmittedOnce`, `SuccessIsTrue`, `PaymentFollowsDocument`, `QuarantineHolds`, `ExportSettles` |
| `back_office` (1.07 million) | mail: 1 message, 2 envelopes, 2 senders, 2 attempts; ledger: 2 days, 1 year, 1 expense, 2 requests, 4 entries; VAT: amounts 0 to 2, 2 closes, 1 edit, 3 entries; stock: 2 locations, 1 allocation, 2 requests, 1 count | `HandedOverOnce`, `DuplicatesExcused`, `SentIsFinal`, `CancelHolds`, `UndoHolds`; `ClosedAsFiled`, `YearIsCleared`, `ReversedOnce`, `DoubledByOverlap`; `AdjustedOnce`, `AdjustmentStands`; `ReservedIsCovered`, `CountedOnce`, `HeldStays` |
| `ledger_double` | 1 expense, 2 requests | violation: the expense counts twice (finding 5) |

Why the bounds are enough. Overspending needs two reservations that fit one at a
time and not together, over-refunding two refunds that fit one at a time, a double
credit two verifications of one payment; the instances have exactly those, and the
proofs lift the safety results to any number. Two sweeps are what an expired lease
makes; a third one meets the same guards, and the proofs cover it. Two nodes tell
"executed again" from "executed next"; a claim of two ticks can be renewed half-way.
Two appends can fork or reorder a chain; a third reads the tail that they leave.
`ReviewAfter = 6` is the smallest value the assumption of the module admits there.
`MaxFailures` is 1 in place of 7, so that a delivery goes dead, is retried and goes dead
again. The counters `attempts` and `age` stop at the value beyond which no guard tells
them apart. `studio_sweeps` uses symmetry of the sweeps and the chain runs of the transactions, with safety properties only.
`SecondCallBound` lets the second call and the refunds run while the service is metered and one checkout exists, so that switching
the metering and the second checkout meet one call.
Two exporters or senders are what one expired claim makes, and the export's order between a payment and
its document needs one of each. The second organisation comes after the first delivery, without a payment and with
one exporter: what it adds is the log that already knows the document. `ExportAttempts` and `MailAttempts`
are 2 in place of 5: a first failure, and a last. In `back_office` a behaviour is of one
service, chosen at the start, since the four share no state there; `EnvelopeBound` keeps the second envelope for a message that
is handed over twice, `LedgerBound` the last entry for a close, and `CountBound` puts the difference at one location. Four ledger
entries are an expense, its reversal, its new posting and the closing entry.
No bound restricts an action that fairness is stated of, except `ClaimTask` of the second exporter at the second
organisation, where the first one is always free in the end.
Deadlock is not checked where every request may have been answered and every run be over: the instances
have finitely many requests and events.

Each property of a passing run has a mutant in `PROJECT.json`: a plausible bug (a lock or
a unique index left out, a status filter too wide, a WHERE clause without the lease,
a failure that is not counted, an outcome that ignores it) with which TLC finds the property violated.

## 4. Fairness

`EsbWallet`: a call that has started goes on (each awaited statement returns or
throws, the provider call ends in an answer, an error or a timeout). A call may crash at
any point, refunds and verifications may stop. `HoldsAreSettled` is therefore stated up to
calls that crashed or ended in a database error, and not for extract-task.

`StudioDelivery`: the job is repeated every 30 seconds (`jobs/index.ts:402-404`, and
`setInterval` without Redis), so some due delivery is claimed in the end; a
sweep in progress goes on; leases and back-offs pass. `EventuallySettled` is conditional: if from
some point on no process dies and no lease ends under a live sweep, every pending
event is delivered or dead. Without that condition it is false, and rightly: `attempts`
is only compared when a sweep finishes, so a delivery that kills its worker
each time is claimed for ever.

`AccountingExport`: the sweep runs every minute (`jobs/index.ts:973`), so a due task is claimed and a claim of five
minutes expires; time passes; an exporter goes on, strongly fair because it waits for the advisory lock, which
PostgreSQL grants in the order of the requests. Exporters may die and transactions fail at any time. `ExportSettles` needs no condition, unlike
`EventuallySettled`: a claim that expires is never taken again, so a delivery that kills its worker ends in RECONCILE.

The other modules state no fairness: their properties are safety properties.

## 5. Proofs

`tlapm` checks the eight modules with theorems from nothing; no constant is bounded. Between them they state
every safety invariant and every action property that the passing runs check, and the refinement. The assumptions
are `EsbConstants`, `StudioConstants`, `ChainConstants`, `ExportConstants`, `MailConstants`, `LedgerConstants`,
`VatConstants` and `StockConstants`, evaluated by TLC in every run of their modules.

`SumTheorems`. The library defines a sum by recursion over the subsets of a set, and what a recursion computes
would ask for an induction over data, whose theorems take an operator that the provers cannot instantiate. The induction is avoided: a strict subset of a finite set
comes before it in a well-founded order, so a set of subsets that is not empty has a smallest member
(`SmallestSet`), and a smallest subset for which a fact fails is refuted. In this way the recursion is shown to
have exactly one solution (`SummingExists`, `SummingAgree`), and from it come the facts the modules use: a sum does not depend on
the order (`SumRemove`, `SumAdd`), changes as much as one summand does (`SumChange`), and is monotone for
natural numbers (`SumMonotone`). All are for any finite set.

`EsbWallet_Proofs`. The invariant `IndInv` adds to the safety properties
`LocksHeld` (who holds a row lock is where its transaction is) and `OperationLife` (an operation
not captured has no charge and no refunds). `NeverOverdrawn` is not inductive: it needs
`NoStaleDecision`, that the quote of a transaction about to post is still covered, which
needs the lock. `Conservation` is a sum over the payments and operations that have a row; however many there may be, only
finitely many have one (`Funds`), and each step changes one summand and the balance by as much. Results: `TypeCorrect`,
`NoOverdraft`, `FundsConserved`, `RefundsBounded`,
`CreditExactlyOnce`, `DecisionsStayValid`, `SettlementIsFinal`, `WalletImplementsAccount`. The last maps every
action to `Hold`, `Charge`, `GiveBack`, `Refund`, `Deposit` or a stutter.

`StudioDelivery_Proofs`. `EffectOnce` needs `RunOwner` (a sweep executes only a run
it inserted itself, so no two execute one) and `NodesAhead` (nothing executed lies at or
beyond the node a worker has still to execute). `DeliveredIsComplete` needs `NothingSkipped`:
a sweep that has seen no failure has a run for every due workflow it no longer has
to do. `ReviewIsFinal` needs `ClaimInTime`: at each point of a run there is an age beyond which its claim
is gone, the time limit plus at most five claims after the last step that was
begun; hence the assumption `ReviewAfter >= TimeLimit + 5 * (Claim - 1)`. In the code that is
30 minutes against 5 minutes and five times 60 seconds.

`HashChain_Proofs`. A committed chain that verifies is not inductive: what counts is the chain as the holder of the
lock sees it, its own rows included, and that the row it has read is still the tail (`HolderSeesChain`); `OneWriter`
makes the holder unique, and `KeysInOrder` that nothing lies above the sequence. The step that matters, `Insert`,
rests on `ChainExtends`, a lemma about any chain. Results: `TypeCorrect`,
`LedgerChainsVerify`, and `OnlyOvertakingForks`, which says that finding 4 has no other cause: while no row is
inserted below one already there, the audit chain verifies too. A `created_at` taken after the lock would be enough.

`Outboxes_Proofs`, accounting export. `SubmittedOnce` needs that a task has one exporter (`OneExporter`), and that what was submitted can
never be claimed again (`SubmittedIsKnown`): from the POST to the row, its exporter carries the verdict, or the log does, or the
task is quarantined. `SuccessIsTrue` needs the same of the truth of that verdict (`EvidenceIsTrue`), and `PaymentFollowsDocument`
that the document's success is read under the lock that its own export holds.

`Outboxes_Proofs`, mail. `HandedOverOnce` needs that a hand-over leaves its mark on the message (`HandOverIsMarked`);
`DuplicatesExcused` and `CancelHolds` rest on `TakenByOne` and `ClaimIsTheirs`: a sender that holds an envelope has its claim unless a lease ran out, so without that nobody
else can have given it to the provider. `AttemptsLeft` bounds the claims.

`Books_Proofs`, general ledger. The book changes in two ways only, a posting or a voiding by a mirror (`BookSteps`), and both ask `Postable`: hence `ClosedAsFiled`, and
`ReversedOnce` with `ReversalsExist`. `YearIsCleared` adds sums to it: the entries of a closed year and their amounts do not change
(`MovesStay`, `TotalsStay`), and the close itself posts the opposite of each total (`YearStep`). `DoubledByOverlap` needs `OneEditorKnows`: while
requests do not overlap, the entries that stand for an expense are those its one editor has found and not voided yet.

`Books_Proofs`, VAT. `AdjustedOnce` needs the row lock: a close past it is the only one (`OneCloser`), so a close that has found no adjustment still
finds none when it posts (`NoneBeforePosting`), and an entry that a failed close left behind is found by the next one. `AdjustmentStands` needs `AsComputed`: until somebody
meddles, every entry is what the documents come to, and so is what a close is about to save, unless nothing was restricted and there is no entry.

`StockLedger_Proofs`. `CountedOnce` needs `OneOnSession`, that at most one request works on a session until two have crossed, and `HeldStays`
needs `DispatchedIsFree`: an allocation let in for dispatch keeps its row lock, so no hold comes before its commit.
`ReservedIsCovered` has the longest argument. Reservations also change without the lock of the item, when a job is cancelled or stock released, but then they only
fall; so who holds that lock has seen at most what is unreserved (`SawCovered`, with `OneAtItem`). What it takes from the stock is
its own allocation or dispatch, which is still possible because it also holds the job (`Requested`), and the sums follow from the rows, of which there are finitely many (`StockRows`). That `hand` is a natural
number, part of `StockTypeCorrect`, is a consequence.

`BackOffice_Proofs`. Every step of the run is a step of each service or leaves its state alone (`RunsTheServices`), so the
instance inherits the theorems of the four; `BackOfficeTypesCorrect` is one.

Only model-checked: `HoldsAreSettled`, `EventuallySettled` and `ExportSettles`: liveness under fairness is out of
the prover's reach, as is ENABLED.

## 6. Findings

1. `esb_leak`: `POST /ai/extract-task` returns before it settles when the answer is not JSON
   (`routes/ai.routes.ts:224-226`), against `lib/esb-ai-settle.ts:5-6`; the reservation is
   never released and the reconciliation of migration 636 does not exist.
2. `esb_norate`: `meterBefore` reports a missing rate or a disabled service as `metered: false`, and
   `resolveAiCredentials` hands out the key unreserved, against its comment (`lib/platform-settings.ts:271`).
3. `studio_targeting`: a database error while reading the shipment counts as "not a shipment"
   (`subscribers/studio.subscribers.ts:44-46`), against the comment at line 22, and the targeted run is lost.
4. `chain_audit`: the audit chain is ordered by `created_at`, the start of the transaction, but appended in the order
   of the lock that follows it (`lib/audit-chain.ts:97-98`). Two concurrent events can leave a chain
   that verification reports as broken, and the next event then forks it, which the comment at lines 87-94 says the lock excludes.
5. `ledger_double`: the row of an expense, the reversal of its entries and the new posting are separate transactions
   (`routes/financeExpenses.routes.ts:446`, and 376-377 for a new one), and no lock spans them. Two requests that overlap leave it twice in the ledger,
   against the comment at 443-444. `DoubledByOverlap` shows that nothing else does.

What the models also show, where no sentence of the repository says otherwise so plainly that a run would refute it:

- Export. The destination is checked (`accounting-outbox.service.ts:63`) before the sync picks the connection, so a change of organisation between the two sends the document to the new one, and the task
  of the old one is SUCCESS: hence `SuccessIsTrue` names no organisation. `alreadySynced` looks at the provider and not at the organisation: a second one is told SUCCESS without having the document.
- Mail. A claim does not increase `attempts`, so an envelope whose sender always dies is claimed for ever. The bulk delete does not cancel an envelope, the single delete does.
- Periods. Posting at the end of a year is refused when its last month is closed, though `gl.service.ts:171-172` expects that the year close never meets its own check. An edit of an expense in a closed period
  reverses it today, and its new posting is refused and only logged. A period with a review cannot be deleted.
- VAT. An edit that has passed its check before a close writes after it, though `vat-period.service.ts:19` calls such a document unchangeable; a second close after a reopening keeps the first adjustment entry and records the new amount:
  hence the `meddled` of `AdjustmentStands`.
- Stock. Two posts of one count that overlap apply its variance twice, and a post and a cancellation may both succeed: hence the `crossed` of `CountedOnce`. An allocation made after a hold is not held.

## 7. Plan

Done, in the order in which an error would cost most: the wallet and the Studio delivery, the hash chains, the accounting export, the mail outbox, the
ledger with its periods and expenses, VAT periods, and stock. Left, in this order:

1. `SubscriptionBilling`: charge, invoice status and dunning stage in separate transactions; AI credits checked and debited in two.
2. `RecurringDocuments`: generation under `SKIP LOCKED` with the second look at `next_due`.
3. `PettyCash`: approvals, wallets and mobile-money payouts that are confirmed later.
4. `BondedStock`: bond headroom checked without a lock (`services/seal.service.ts:241`), composed with `HashChain`'s lock.
5. `DomainEventDispatch`: in-process dispatch, `subscribers_dispatched`, replay; composed with `StudioDelivery` at `Emit`.
6. More proofs: an abstract outbox ("each task takes effect at most once, and a settled one stays settled") that `StudioDelivery`,
   `AccountingExport` and `MailOutbox` refine, each with the failures it admits.

### Not modelled

The SMS outbox and workflow communications read due rows, send and update them by id. They have no claim and no guard: that overlapping sweeps send twice is plain
from the code, and a model would only repeat it. Registries, schemas and templates of Studio are data; e-signature stamps a document in one transaction;
most of the 250 route files, the migrations (38 thousand lines), the table types of `db/client.ts`, the user
interface, the packages and scripts hold no state that two steps share. The share of all lines that the map covers is therefore small, and will stay so.
