# AfriDollar in TLA+

A verification project for AfriDollar: TLA+ modules of the backend services that
move money or guard it, and of the Soroban contracts; the TLC configurations that
check them on small instances; and theorems that TLAPS checks for every size.

| file | what it is |
|---|---|
| `Stellar.tla` | the Stellar ledger and Horizon, as the backend uses them (external) |
| `PaymentExecution.tla` | instant payments: `transaction.service.ts` and the poll of `payment.service.ts` |
| `PaymentPromise.tla` | what a payment promises its requester, in two variables |
| `Payroll.tla` | payroll batches: `payroll.service.ts`, composed with the two above |
| `PaymentReview.tla` | cross-border payments, monitoring, admin review, and the rebuild of such a payment |
| `Sep24.tla`, `Sep10.tla` | deposits and withdrawals of an anchor; wallet authentication |
| `Webhook.tla`, `AuthSessions.tla`, `SecurityGate.tla`, `RateLimit.tla`, `FxConversion.tla` | one service each |
| `Soroban.tla` | the host of the contracts: clock and token balances (external) |
| `Escrow.tla`, `Multisig.tla`, `PayrollContract.tla`, `Vesting.tla`, `TreasuryContract.tla`, `Governance.tla`, `Staking.tla`, `Bridge.tla`, `TokenContract.tla`, `FxSwap.tla`, `Oracle.tla`, `BatchExecutor.tla` | one contract each |
| `Upgrade.tla` | the upgrade helpers contracts share |
| `PaymentProofs.tla`, `PayrollProofs.tla` | theorems about `PaymentExecution` and its refinement, and about `Payroll` |
| `ServiceProofs.tla`, `GatewayProofs.tla` | theorems about `Webhook`, `PaymentReview`, `Sep10`, `AuthSessions`; about `SecurityGate`, `RateLimit`, `FxConversion`, `Sep24` and all services at once |
| `SumProofs.tla` | lemmas on sums over finite sets, whole division, sequences and the host of the contracts |
| `ContractProofs.tla`, `PoolProofs.tla` | theorems about contracts between named parties, and about those that pool what many put in |
| `LedgerProofs.tla` | theorems about all contracts on one ledger (`MCContracts`) |
| `MC*.tla`, `*.cfg` | instances for TLC, and the runs |
| `PROJECT.json` | components, runs, mutants, the map from definitions to lines, findings, hazards, theorems |

Sources are named relative to `src/apps/backend/src/services/` unless they start
with `src/` or `contracts/`, which stands for `src/apps/contracts/contracts/`.

## Inventory

### Components that move money

**Payment execution** (`transaction.service.ts`). State: the rows of
`Transaction` (status, error code, unique hash, amount, metadata). Operations:
`buildAndSubmitPayment` (create or reclaim a row, load the account, sign, record
the hash, submit with one retry, write `processing`, confirm inline),
`executeBatchPayouts` (the same cycle per payout, without confirmation),
`getTransactionStatus`/`syncLocalTransaction` (ask Horizon, claim the outcome),
`rebuildFailedTransaction` (verify that the old envelope did not land, then
execute the row again). Callers: `payment.service.ts`, `payroll.service.ts`,
`wallet.service.ts`, the admin endpoints. Hard: every `await` is a point where
another request, a poll, a rebuild, the ledger or a crash comes in; a
submission may go unanswered; most row writes are unconditional, only the
reclaim and the outcome claim look at the status. Correct when: no status runs
ahead of the ledger; every envelope that may still move money stands on a row;
a request is paid once; one completion is announced; no row hangs.

**Payroll** (`payroll.service.ts`). State: `PayrollBatch.status`,
`PayrollItem.{status, stellarTxId, errorMessage}`. Operations: create, add,
approve, `payPayrollItem` (one item through `buildAndSubmitPayment`, after
reconciling a failed earlier attempt), `processPayrollBatch` (claims the batch
and its items, pays up to 100 of a group per envelope, falls back to single
payments). The two paying operations share only the database. Hard: claims
against stale reads, unanswered envelopes remembered in different places
(item hash, row hash, nowhere), failed completing writes, processors and payers
in one batch. Correct when: an item has one payer at a time and is paid once,
`completed` means paid, closed batches are settled, an unknown outcome keeps
its hash and can be reconciled.

**Cross-border payments, monitoring and review** (`payment.service.ts`,
`transaction-monitor.service.ts`, `admin.service.ts`, `compliance.service.ts`).
State: row status, flag and review action, alerts. Operations: create (row,
then monitoring, then flag), process (read, check the flag, claim by status,
submit), cancel; flag, review (`reviewing`, `release`, `block`), resolve alert; an
admin's rebuild of a failed one (`transaction.service.ts`) and the poll of its
status. Hard: the flag is read before the claim and a rebuild does not look at it,
the row exists before it is monitored, a re-flag keeps the old review action,
failed rows have no hash. Correct when: no run of a blocked payment begins (but a
rebuild's), each submission has a claim of its own, alerts follow the review.

**SEP-24 and SEP-10** (`stellar-sep24.service.ts`, `stellar-sep10.service.ts`,
`src/apps/backend/src/utils/once-claim.ts`). State: sessions, watcher cursor,
claimed challenges. Hard: the interactive form can be completed again while a
deposit is being paid, the watcher replays or skips around a crash, a failed lookup
or a full page, the claim of a challenge is that of its text and falls back from
Redis to memory. Correct when: a deposit is settled by one call at a time, a
withdrawal completes once, no credit is left behind, a text is used once.

**FX and treasury** (`fx.service.ts`, `treasury.service.ts`). State: quotes,
balances, rates. Correct when: a quote is used once, balances never go negative
and conversions conserve value at the quoted rate; the rebalance plan sums up.

**Contracts** (`src/apps/contracts/contracts/*/src/lib.rs`): escrow, multisig,
vesting, payroll, treasury, governance, staking, bridge, token, fx-swap,
batch-executor, oracle, counter. Each call is atomic; hard are long sequences
of legal calls, rounding and limits. Correct when: what is held equals what is
owed, thresholds and time locks bind.

### Components that support them

**Webhooks** (`webhook.service.ts`, `webhook-delivery.worker.ts`): deliveries
with attempts and retry times; hard are concurrent runs of one delivery, the
last attempt, a crash in an attempt. Correct when: every delivery is delivered
or failed in the end, within its attempts.
**Jobs and reports** (`job-queue.service.ts`, `job-handlers/`,
`report-worker.service.ts`): Bull with a fallback in memory; hard are retries
against the claim of a report. **Sessions** (`auth.service.ts`): rotation of
refresh tokens and reuse detection; hard are two refreshes at once. **Rate
limits and security**, **notifications**, **wallets**, **audit**, **HTTP
surface**, **frontend and shared packages**: counters, best-effort sending, key
storage, append-only logs, parsing; no protocol of their own.

How they interact: controllers call services; services share the database
(no locks, conditional `updateMany` as the only mutual exclusion) and Horizon;
payroll calls payment execution in process; payment execution emits webhooks and
notifications without waiting for them; jobs call services on a schedule;
contracts are not called by the backend.

## What is modelled

### The ledger (`Stellar.tla`)

An envelope is a signed transaction, named by its hash, with a sequence number
and the set of obligations it pays. It is `signed`, then `inflight`, then
`success` or `failed` on the ledger or `dead` (timed out, superseded, lost).
The ledger applies an envelope only when its sequence number is next, so two
envelopes of one `loadAccount` never both apply. A submission may be answered
with `success`, `rejected`, `timeout` or `gateway`; the last two leave the
outcome open and may come before or after the envelope applies. Nothing of this
is in the repository: it states what the backend relies on, and is marked
external.

An *obligation* is a request or a payroll item: money that should move once.
`Landed(o)` is the set of envelopes that moved it.

### Payments (`PaymentExecution.tla`)

A worker is one call in service. `pc[w]` names the `await` it is at, `ctx[w]`
holds its locals. One action runs from one `await` on shared state to the next.

| action | code (`transaction.service.ts`) |
|---|---|
| `CreatePayment`, `MarkSubmitted` | row `created`, then `submitted` (863-924) |
| `CreatePayout` | row of one payout (1030-1076) |
| `StartRebuild`, `VerifyNotLanded`, `Reclaim` | 1188-1232, 883-903 |
| `LoadAccount`, `SignAndRecordHash`, `SubmitEnvelope`, `ReceiveAnswer` | `runPaymentCycle` (490-507, 529-721) |
| `MarkProcessing`, `RecordFailure` | 950-959, 980-1022; 1098-1135 for payouts |
| `StartPoll`, `LookUp`, `ClaimOutcome`, `ClaimOutcomeFails` | `getPaymentDetails`, 728-855 |
| `ReconcileJob` | the job handler, whose comparison with the ledger is a TODO |
| `End`, `Crash` | the call answers; the process dies and its locals are lost |

Abstracted: amounts, assets, memos, fees, XDR, validation that fails before a
row exists, audit logs, notifications. An error code is `SUBMISSION_TIMEOUT` or
anything else, because later code tells nothing else apart. Signing and
recording the hash are one step: an envelope that was signed and never
submitted cannot apply. Asking Horizon and finding the row by hash are one step:
what the ledger holds never changes. A 404 for an envelope that the ledger has
applied (Horizon lagging behind) is left out, except that it acts like an error
of the inline confirmation, which is there.

### Payroll (`Payroll.tla`)

`job[w]` holds the locals of a payroll operation; while `payPayrollItem` is
inside `buildAndSubmitPayment` or `getTransactionStatus`, `pc[w]` and `ctx[w]` are
those of that call, and its actions run unchanged (`PaymentStep`). One batch;
`GroupOf` stands for asset and memo, `ChunkSize` for the 100 operations of an
envelope. Building, signing and submitting a chunk have no `await` between them
and are one step; a completing write per item is a step each. Left out: the
listings, ownership checks, the webhook and notifications at the end.

### Services (`MCServices.tla`)

All follow one scheme: a variable holds what each call in service has read and
the `await` it is at, one action runs from one `await` on shared state to the
next, and a crash empties every call and the memory of the process (in `PaymentReview`
and `Sep24`, where a call keeps nothing but its locals, any call may be cut short at
any `await`, which a crash and a refused write both are). The services
below share no row, so a behaviour has one of them in `focus`, chosen at the
start: their steps commute, and the states of one are not multiplied by those of
the others (`AllServices` in `GatewayProofs` has all at once). History variables
(`sent`, `signed`, `raced`, ...) are read by properties only.

| module | state | actions |
|---|---|---|
| `Webhook` | `hooks`, `deliveries` rows, `redis` (queue or in process) | `CreateWebhook`, `ToggleWebhook`, `DeleteWebhook`; `EmitEvent`, `EmitNext`, `Enqueue`; an attempt is `ReadDelivery`, `MarkAttempt`, `Send`, `Answer`; `RetryPending`, `RetryNext`; `TestWebhook`, `AnswerTest` |
| `PaymentReview` | status, flag and review action of a payment, its `alerts` | `CreatePayment`, `Monitor`, `Screen`, `ScreenRow` with `ClaimFlag`; `FlagTransaction`, `ReviewFlagged`, `ReadAlert`, `ResolveAlert`; `StartProcessing`, `ClaimPayment`, `DecryptWallet`, `SubmitPayment`, `SettlePayment`; `CancelPayment`; a rebuild is `StartRebuild`, `VerifyNotLanded`, `Reclaim`, `SignRebuilt`, `SubmitRebuilt`, `RecordRebuilt`, `ConfirmRebuilt`; `PollStatus` with `Sync` |
| `Sep24` | `session` rows, watcher `cursor`, `credits` to the hot wallet | `StartInteractive`, `ReadToken`, `IssueCookie`; `ReadForForm`, `StoreForm`; `ReadDeposit`, `ClaimDeposit`, `Sign`, `FinishDeposit`; `FinalizeWithdrawal`; `StartWatch`, `Fetch`, `MatchNext`, `SaveCursor`; `HandlerFails` |
| `AuthSessions` | status of a user, refresh `tokens` with their predecessors | `ReadEmail`, `CreateUser`, `ReadForLogin`, `IssueSession`; `ReadForRefresh`, `RevokeAll`, `Rotate`, `CreateNext`; `Logout`, `LogoutEverywhere`; `UpdateUserStatus` |
| `Sep10` | time bounds of challenges, claims of their texts in Redis and in memory | `BuildChallenge`, `CheckChallenge`, `ClaimOnce`; `RedisGoes`, `RedisReturns`, `Restart` |
| `SecurityGate` | failed attempts of an address, rate limit buckets | `Evaluate`, `Consume`, `SetExpiry`, `Password`, `ClearFailedAttempts`, `ReadRecord`, `WriteRecord` |
| `RateLimit` | the sorted set of one key in Redis, the list in memory | `Arrive`, `TrimMembers`, `AddMember`, `CountMembers`, `ConsumeMemoryLimit`, `GiveBack`, `RedisFails`, `RedisBack` |
| `FxConversion` | `rates`, `quotes`, balances of a wallet | `BeginSync`, `CommitSync`; `BeginUpsert`, `CommitUpsert`, `DeactivateRate`; `CreateQuote`; a conversion is `BeginConversion`, `TakeDate`, `ExpireQuote`, `ReadQuote`, `ReadSource`, `ReadTarget`, `CommitConversion` |

What is abstracted: what a monitoring rule matches, whether a password is right and
what a receiver or Horizon answers are choices. `Sep24` has one memo of its own
and `OtherMemo` for payments that name no session; `completeDeposit` and
`finalizeWithdrawal` have no caller but tests and the watcher is called by a job
handler, all three are entry points. `AuthSessions` leaves out expiry: an expired
token is refused before anything is read. A text in `Sep10` is a challenge and the
`Form` it is written out in: the check accepts another encoding, order of
signatures or further signature of one transaction, and the claim's key is the
digest of the text. In `Sep24` a watch pass without a cursor reads one page of
`PAGE_LIMIT` payments, the newest, and one with a cursor all that follows it; the
memo of each is looked up, or not found. `PaymentReview` keeps of the hash of a row
only whether there is one, and what Horizon says of it is a choice, since a poll may
ask about the envelope of before a rebuild (`PaymentExecution` has the ledger). `SecurityGate` has
one store for a whole behaviour, `RateLimit` leaves out the expiry of the sorted
set, which holds nothing in the window by then. `FxConversion` has one pair of
assets and one wallet; its transactions are Read Committed, as the code leaves
the isolation level to the database. In `Webhook` passes over due retries do not
overlap.

### Contracts (`MCContracts.tla`)

`Soroban.tla` has the ledger's clock `now` and `balance[asset][address]`. A call
is atomic, and a call that returns an error is undone by the host, so one action
is a whole call with every check as a guard, and refused calls are left out. The
variables are the contract's storage: the `DataKey` of the code as functions or
sequences, `XStart` is the storage at deployment. Arithmetic is that of the code
(`\div` truncates like `checked_div` of non-negative numbers); the amounts stay far
from `i128::MAX`, where `checked_*` refuses the call. Time to live of storage and
events are left out. The contracts share the clock and the balances of accounts;
none calls another, and `Only(c)` keeps the storage of the rest unchanged. `focus`
is the set of contracts that a behaviour calls, in any order, chosen at the start
from the sets in `Focus`: the theorems hold for every `Focus`, all contracts at
once included, the runs take one at a time.

An authorised caller is the argument of a call (`caller`, `from`, ...); the host
checks it, the contract says whose it must be. Where it matters afterwards who
authorised (`Escrow`), the record keeps it as history. Particular to a module:
`Multisig` takes any set of approvers, since the code counts each once;
`TreasuryContract` takes any list of them, since the code counts its length; in
`Governance` holders trade the token between votes and delegations; the rewards of
`Staking` are funded by plain transfers, and `rewardsLeft` (history) is what is left
of them; in `Bridge` any asset may be locked, paired and burned, a proof is the
sequence of keys its blocks recover to for the digest of this request and action,
`signed` (history) is who of the signers was in the proof a request was paid for, and
`OldBridge` is a contract of an earlier version with requests that wait for
migration; `FxSwap` computes square root,
fees and shares by the code's integer formulas; a call of `BatchExecutor` may be
one that fails, today and not tomorrow.

## What the runs show

Runs that pass:

| run | question | bounds |
|---|---|---|
| `payments_concurrent` | is the inductive invariant kept, and can an envelope that may move money be forgotten? | 3 calls, 2 requests, 2 envelopes, timeouts, 1 failed write, 1 crash; no rebuilds |
| `payments_rebuild` | do rebuilds pay twice; does the service keep its promise? | definite answers, 2 requests, 1 crash, and either 2 calls with 3 envelopes, or 1 call with polls, 4 envelopes and 2 failed writes |
| `payments_settle` | does every submitted row leave that status? | 2 calls, 1 request, 2 envelopes, all answers, the reconcile job, fairness |
| `payroll_payers` | do payers of the same items exclude each other; does reconciliation prevent a second payment? | 1 crash, and either 2 payers, 2 items, 2 envelopes and definite answers (no submission is sent again, which a timeout is answered by), or 1 payer that retries through timeouts, 1 item, 4 envelopes and a poll |
| `payroll_process` | do two processors exclude each other; is a closed batch settled? | 2 processors, 3 items in 2 groups, chunks of 2, 4 envelopes, all answers, 1 failed write, 1 crash |
| `payroll_anything` | is `completed` always paid, whoever acts; does a closed batch stay closed? | 2 workers serving everything between them, both adding, one approving; 1 item, timeouts, 1 failed write |
| `payroll_claims` | is a claimed item always resolved? | 2 payers, 1 item, 2 rows, 1 failed write, fairness |
| `contracts_parties` | do escrow, multisig and payroll hold what they owe, and does only who must agree move it? | 3 accounts, 2 assets with 2 units each (the wallet holds one of them), 2 escrows, transactions or batches, clock 0..2 |
| `contracts_pools` | do vesting, treasury, governance, staking, bridge, token, swap, oracle, executor and upgrades keep totals, shares, locks and delays? | 2 accounts, 2 assets with 3 units each, clock 0..2, 1 to 3 records of each kind |
| `services` | do the claims of the services exclude, their counters bound, and what is settled stay? | 2 overlapping calls (3 for rate limits), 1 crash (any number for reviews and SEP-24), 1 or 2 records of each kind, 2 rebuilds, 2 forms of a challenge, pages of 1 payment |

"Either ... or" in a run means a *load*: `MCPaymentLoads` and `MCPayrollLoads`
choose one at the start and keep the behaviour within it, because the product of
both bounds is out of reach and neither case needs the other's.

A few properties are conjunctions; the parts have names and comments in their
modules:

| property | parts |
|---|---|
| `PaymentInv` | the inductive invariant of `PaymentProofs`, `ReportedPaidIsPaid` among its consequences |
| `PayrollInv` | `PayrollTypeOK`, `CompletedItemIsPaid` |
| `WebhookInv` | `WebhookTypeOK`, `AttemptsCounted`, `RetryScheduled` |
| `ReviewInv` | `ReviewTypeOK`, `SubmittedByClaim`, `MonitoredOnce`, `ReviewClosesAlerts` |
| `SepInv` | `SepTypeOK`, `WithdrawalFunded`, `SettlesApart`, `NoCreditSkipped`, `TokenUsedOnce` |
| `AuthInv` | `AuthTypeOK`, `RotatedOnce`, `LoggedOutEverywhere` |
| `GateInv` | `GateTypeOK`, `LockoutStands`, `BucketHolds` |
| `FxInv` | `FxTypeOK`, `NeverOverdrawn`, `ConvertedInTime`, `ConvertedOnce`, `OneActiveRate` |
| `HoldsWhatItOwes` | the type invariants of the contracts and `EscrowCovered`, `BatchesCovered`, `VestingCovered`, `PrincipalIsHeld`, `PoolAddsUp` (bridge), `SupplyIsHeld` (token), `ReservesAreHeld` (swap) |
| `CountsAddUp` | `DelegationsAddUp`, `TalliesAreBallots`, `LiquidityAddsUp`, `GrantNotExceeded`, `BatchAllOrNothing` |
| `VersionsMatch` | `MigratedWhole` (bridge), `VersionNamesCode` (upgrades) |
| `PaidOnce` | `PaidOncePerProof` (bridge), `WithdrawalPaidOnce` (treasury) |
| `TimeBinds` | `LockHonoured` (treasury), `LockKept`, `EarnedOnlyByTime` (staking), `CodeWaitsItsDelay` (upgrades) |
| `NothingTakenBack` | `OutcomeIsFinal` (governance), `VestedStaysVested`, `RevokedIsSilent` (oracle) |

Two actors are enough for each race: every exclusion in the code is between two
callers of one row, item or batch, and a third meets the same guard; the handlers
of reviews that are one transaction (flag, review, cancel, poll) come in between
two calls without being one; rate limits have three because two requests must be
let in past one that waits. Two rebuilds are one that fails and one that overlaps
it. A page of one payment and two payments make the watcher's first pass leave one
out, and two forms are one text and another. Envelopes bound the
number of attempts; with three or four a request has a first attempt, a retry,
and a retry of the retry. One crash and one or two refused writes are enough for
each recovery path to be entered, interrupted and entered again. Announcements
are counted to `Many` = 2. In the contracts two or three parties fill every role
and all but one of them may be the same; two records in one contract compete for
one balance; three units of time have a before, an at and an after of each
deadline; milestones round (3 units by 30, 50 and 20 percent), swaps charge a tenth
so that fees and rounding both happen in reserves up to 6, a migration batch of 2
needs two batches for three requests, and a list of two emergency approvers may
name one of them twice.

Some safety properties hold in these runs because of what the runs leave out, and
putting it back breaks them. Two runs do that, each for a sentence in the source
that the code does not keep; the lines are under "findings":

| run | what happens |
|---|---|
| `payments_rebuild_poll` | the row of a running rebuild still has the old hash; a poll of it fails the row, and a second rebuild starts |
| `payroll_batch_and_item` | the processor re-reads items by status and pays one that `payPayrollItem` has claimed |

The other boundaries of the passing runs were found the same way. Each of these
follows from the actions of the modules as they are, in the instance named:

| instance | what happens | lines |
|---|---|---|
| `NoDoublePay`, one rebuild, answers that may time out | a 404 for an envelope in flight is taken as "never landed"; both envelopes apply | `transaction.service.ts` 1227-1232 |
| `NoDoublePay`, two rebuilds and a refused write | the check of the old envelope predates the reclaim by another rebuild, whose processing write is refused after the money moved | `transaction.service.ts` 886, 1207 |
| `completions[r] <= 1`, a payment and a poll | a poll confirms a row before its handler writes `processing` over it; the completion is announced twice | `transaction.service.ts` 950 |
| `NoDoublePay`, a payer and 5xx answers | a 5xx is not stored as indeterminate; the retry does not ask Horizon | `payroll.service.ts` 352 |
| `NoDoublePay`, two payers and timeouts | the decision to reconcile predates the claim | `payroll.service.ts` 304, 387 |
| `NoDoublePay`, a payer and a rebuild | a rebuild pays the failed row; the item's retry pays a new one | `payroll.service.ts` 305 |
| `NoDoublePay`, a payer and a refused write | the item cannot be marked completed and is paid again | `payroll.service.ts` 411 |
| `NoDoublePay`, two managers | a second approval reopens a batch in processing | `payroll.service.ts` 491 |
| `ClosedStaysClosed`, two managers | a second approval, whose read was before the first, reopens a batch that was processed and closed since | `payroll.service.ts` 491 |
| an item added to a batch, two managers | the batch is read as pending, approved by the other, and the item created after | `payroll.service.ts` 255 |
| `UnknownOutcomeKeepsHash`, a processor | a single payment without an answer leaves no hash | `payroll.service.ts` 822 |
| a closed batch | `payPayrollItem` refuses the retry of an unanswered chunk that a comment promises | `payroll.service.ts` 282, 750, 842 |
| a `processing` row no client asks about | nothing confirms it: the reconcile job compares nothing yet | `job-handlers/reconcile-transactions.handler.ts` 5 |
| a completed item, a processor and a refused write | when a later completing write of a chunk fails, items already completed are failed with the rest; reconciliation completes them again | `payroll.service.ts` 734, 756 |

The properties of the services name their exceptions, each a place where the code
lets something through (`~raced`, `escaped`, `late`, `~overlapped`, `~syncRaced`,
`forms <= 1`, `prompt`, `lifted`, `interrupted`). These are:

| where | what the code lets happen | lines |
|---|---|---|
| review | a payment can be processed between its creation and its monitoring; monitoring that fails leaves it unflagged | `payment.service.ts` 301, 346 |
| review | a payment that failed has no hash, so nothing can verify whether it landed: a rebuild skips the question to Horizon and submits again what may have been paid | `payment.service.ts` 505, `transaction.service.ts` 1207 |
| review | a rebuild looks at neither the compliance flag nor the type of a payment: a blocked one that failed is submitted again | `transaction.service.ts` 1188 |
| review | a poll of the old hash fails the row of a running rebuild, and a second one claims it (as `payments_rebuild_poll` shows of instant payments) | `transaction.service.ts` 831, 886 |
| review | flagging again after a release leaves the release in force; the gate lets the payment pass | `admin.service.ts` 686 |
| review | an alert is read as open and closed later: the second of two admins overwrites the first | `admin.service.ts` 801 |
| webhook | the attempt counter is written from a copy; overlapping passes count once and send twice | `webhook.service.ts` 293 |
| webhook | the last retryable answer leaves a delivery `retrying` at its maximum, where no pass takes it; a crash in the first attempt leaves it without a retry time | `webhook.service.ts` 297, 342 |
| webhook | jobs are added under one name and processed under another, and nothing calls `retryPendingDeliveries`: with Redis no delivery is attempted. The model lets any process serve a delivery and any pass run, so its safety properties cover the day when they do | `webhook-delivery.worker.ts` 37, `webhook.service.ts` 517 |
| SEP-24 | a form sent again sets a deposit that is being paid back to `pending_anchor`, and a second settlement claims it | `stellar-sep24.service.ts` 460 |
| SEP-24 | a crash or a missing key after the claim leaves `pending_stellar`, which nothing settles; `pending_stellar_unknown` can be settled again while the first payment may still land | `stellar-sep24.service.ts` 199, 526, 583 |
| SEP-24 | metadata read before the link was opened is written back and restores the token of a deposit | `stellar-sep24.service.ts` 547, 818 |
| SEP-24 | a watch pass without a cursor reads the newest 200 payments and stores the newest as the cursor: older credits are never matched | `stellar-sep24.service.ts` 688 |
| SEP-24 | a credit whose transaction is not found, or whose lookup fails, is passed without its memo, and the cursor moves on | `stellar-sep24.service.ts` 723 |
| sessions | two refreshes that read one token both rotate it; a refresh between its two writes escapes a revocation of all; a crash there ends the session | `auth.service.ts` 206, 231, 246 |
| SEP-10 | the claim is in one store at a time: after Redis went or came, or a restart without it, the other store does not know | `src/apps/backend/src/utils/once-claim.ts` 9 |
| SEP-10 | the claim is of the digest of the text, while the check accepts any encoding, order of signatures or further signature of a transaction: the same challenge in another form gets another token | `stellar-sep10.service.ts` 125, 188 |
| gate | a failure counted from an old copy loses the lockout set meanwhile; a crash between `INCR` and `PEXPIRE` leaves a bucket without an end | `security.service.ts` 376, 477 |
| rate limit | a request decided later than it came in is counted in a window others have trimmed; Redis and memory count apart | `src/apps/backend/src/middleware/rate-limit.middleware.ts` 163, 239 |
| FX | quote and balance are read without a lock at Read Committed: two conversions of one wallet may use one quote, and the later write of a balance wins | `fx.service.ts` 554, 581 |
| FX | `expired` is written inside the transaction whose error undoes it | `fx.service.ts` 569 |
| FX | a sync with the sources during another write leaves two active rates | `fx.service.ts` 313 |
| staking | nothing keeps rewards apart from stakes: rewards in an asset that is staked are paid out of principal once their funding is used up ("principal is only returned via unstake", 7). `PrincipalIsHeld` accounts for it: `rewardsLeft` is then below 0, and the principal short by as much | `contracts/staking/src/lib.rs` 7, 291 |
| staking | a top-up writes the average of the old rate and the current one, weighted by amounts, into the position; the documentation says that "the position's `reward_rate` is **not** touched on a top-up" (382). What was earned before is settled first, so that `EarnedOnlyByTime` holds all the same | `contracts/staking/src/lib.rs` 20, 379, 422 |
| treasury | `emergency_override` compares the length of the list it is given with the threshold and does not remove duplicates, as `multisig` does: one approver, named twice, is counted twice, unless the host refuses to authorise one address twice, which is not assumed | `contracts/treasury/src/lib.rs` 436, `contracts/multisig/src/lib.rs` 192 |
| governance | delegated power stays what it was at the time of the delegation when the delegator spends the tokens | `contracts/governance/src/lib.rs` 528 |
| bridge | any asset may be locked, a wrapped token included, and any token paired with any asset, or paired again: an unlock draws on whatever the pool holds of the asset, locked deposits included, after which a mint may be refused for want of funds | `contracts/bridge/src/lib.rs` 467, 754, 1022 |
| bridge | `unlock_asset` leaves the collected fees alone, `mint_wrapped` does not ask for them; a burn of an earlier version has no unlock recipient and is never unlocked | `contracts/bridge/src/lib.rs` 588, 784 |

### Fairness

`FairSpec` makes a call that has begun go on (`CallStep`, `End`) and the network
apply or drop what it holds: every `await` of the code ends with an answer, an
error or a timeout, and envelopes have time bounds. `PayrollFairness` says the
same of payroll operations. Nobody is obliged to start a call: no client polls,
no admin rebuilds and no user retries unless they want to. The liveness runs have
no crash, because nothing in the code resumes a call that was cut off; a row or
item left behind by a crash stays as it is until someone asks for it.
`BoundedFairSpec` of `payroll_claims` starts an operation only while a row is left
for it, so that running out of model rows does not look like a hang.

## What is proved

The runs check one small instance; the theorems hold for every value of the
constants: any number of rows, envelopes, workers, items, sessions, accounts and
contracts' records, any bound, any answer. Every property of a passing run is
stated by a theorem but the two liveness properties.

What is assumed is of two kinds. The `ASSUME`s of the modules type the constants
(and give the addresses of contracts that they differ from each other and from
people's, `LedgerAssumption`); TLC evaluates them in the runs. Conditions on the
*load* are hypotheses of single theorems, each because the statement is false
without it, and a run or a table above shows the counterexample:

| hypothesis | says | of | without it |
|---|---|---|---|
| `NoPolls \/ NoRebuilds` | no client polls, or no admin rebuilds | `OneExecution` | `payments_rebuild_poll` |
| `SafeRetries` | nobody rebuilds; or answers are definite and either nobody polls and no write fails, or one call is served at a time | `PaidAtMostOnce`, `NothingForgotten`, `PromiseIsKept` | the first two rows of the boundaries |
| `OneWriter` | nobody polls, or one call is served at a time | `PromiseIsKept` | a poll confirms a row; its handler, whose own write is refused, writes `failed` over it (`transaction.service.ts` 986) |
| `NoProcessor` | no call processes the batch | `OnePayer` | `payroll_batch_and_item` |
| `PayersApart` | single items are paid by one client, or every answer is definite; nobody processes the batch or rebuilds a row, no write is refused, and no submission is answered by a bare 5xx | `UnknownOutcomesKept`, `ItemsPaidOnce` | a row of the boundaries for each part: two payers and timeouts; `payroll_batch_and_item`; a payer and a rebuild; a payer and a refused write; a payer and 5xx answers. All are of `NoDoublePay`; `UnknownOutcomesKept` has only the row of a processor, and shares the others with the invariant it is proved from |
| `NoPayer`, `OneApprover` | no call pays a single item; one client approves | `ClosedBatchSettled`, `BatchPaysOnce` | `payroll_batch_and_item`, a second approval |
| `OneApprover` | one client approves | `ClosedForGood` | a second approval reopens a closed batch |

### Payments (`PaymentProofs`)

`PaymentInvariant` is `Spec => []PaymentInv`; `TypeCorrect` and `ReportedPaid`
follow. `ReportedPaidIsPaid` is not inductive by itself: `MarkProcessing` trusts an
answer the call received earlier, and `ClaimOutcome` a record it looked up earlier,
for a row found by a hash which may have been replaced since. `CallSound(w)` says
what a call may rely on when it resumes: its row exists, its envelope pays what
the row is for, a remembered success is on the ledger. `RowsSound` ties the hash
of a row to an envelope signed for that row's obligation. Two monotonicity lemmas
carry this over the steps of others: the ledger's outcomes and the content of
envelopes are final (`LedgerStep`), a row keeps its obligation (`RowsStep`).

`OneExecution` needs more: `Unshared` (no two calls execute one row) is kept by the
conditional write of `Reclaim` only while the status of a row is the one its holder
gave it (`StatusInv`), which is what a poll of the old hash destroys, or while there
is no rebuild at all. `PaidAtMostOnce` and `NothingForgotten` share `OnceInv`: a
request has one row, and every envelope that moved money or may stands on it; a
failed row may be executed again because its envelope is spent or, with one call at
a time, because `VerifyNotLanded` finds out (`RetryInv`). `PromiseIsKept` is the
refinement: under the mapping of `PaymentExecution` each step is one of
`PaymentPromise` or a stutter. Money moves in `Apply` alone, once per
obligation, and a row reports only after.

### Payroll (`PayrollProofs`)

`PayrollSoundness` carries `PaymentInv` through the calls that payroll makes, with
what an operation remembers (`JobSound`) and what hashes on items mean
(`HashesSound`). `CompletedItems` and `PayrollReportsPaid` follow, without any
hypothesis. `OnePayer` is by `ClaimInv`: between claim and outcome an item is
`processing` and before one call. `ClosedBatchSettled` and `BatchPaysOnce` are by
`ProcessInv`: one processor holds the batch, claimed items are before it, items it
may still submit have no live envelope, and an item has no two. `Latest` is a
predicate and `AddItem` takes a fresh item, so that both can be reasoned about.

`UnknownOutcomesKept` and `ItemsPaidOnce` are about items paid one by one and follow
from `PayersInv`, with the two invariants above. An item that may be claimed
(`Open`) is such that no envelope may move its money, or that the only one that
may has its hash on a failed row which `payPayrollItem` finds and asks Horizon
about first (`AskedFirst`). A payer that has decided to pay knows that nothing may
pay its item (`NoneMoves`), and its call that nothing but its own envelope may
(`OnlyMoves`), at each `await` in between. Each step of a payer is shown to be
`Calm` about every item but its own: no envelope begins to pay it, its rows keep
their hashes, and failed ones stay failed. With one payer the decision to ask is
still true when the item is claimed; with several it is not, unless answers are
definite and an item that failed has no envelope that may move money at all. That
an envelope which may move money stands on a row (`Recorded`) then gives both
theorems. Both loads of `payroll_payers` satisfy these conditions; that run has
other bounds but no other hypotheses.

### Services (`ServiceProofs`, `GatewayProofs`)

Each service has one invariant that says what its rows agree on and what a call
knows at each `await`; the property of the run follows from it. These theorems are
about each service's own specification. `ServicesHold` puts them together for
`AllServices`, in which all services take steps in any order; the lemmas
`...AmongAll` prove that a behaviour of `MCSpec`, the specification of the run
`services`, is one of every service's specification (those that are not in
`focus` stutter), so that `ServicesRunHolds` states all its properties under it.

* `WebhookKept`, `SettledStays`: a delivery is before one call at a time, and was
  counted before each request sent for it.
* `ReviewKept`, `BlockStandsAlways`: a payment being processed has no hash, so that
  no poll finds it, and is before one call; rebuilds may overlap, but those that
  have yet to submit and the submissions so far are together at most one more
  than the claims of rebuilds (`SendsCounted`); alerts and decisions are about
  flagged payments.
* `TextsUsedOnce`: a claim lasts `CHALLENGE_TTL` in the store it was made in, so a
  second one of its text there comes after the upper time bound of the challenge.
* `SessionsKept`, `SuspendedGetNone`: refresh tokens form chains by `from`; a token
  nobody raced for has one successor or one call making it; who passed the check
  of status before a suspension is counted, and each gets one token at most.
* `GateHolds`: a standing lockout's record is stored, and a failure counted from any
  copy locks out again; a bucket has counted what it let in.
* `LimitHolds`: a request let in through Redis is in the set until the window has
  passed it; in memory times are indistinguishable, so those let in have an
  injection into places of the list. The count of either bounds the window.
* `ConversionsHold`: what a conversion has read of quote and balance is still so
  when nothing else committed meanwhile.
* `SessionsFunded`: a hash taken for a credit's is traced to money received; two
  calls that fly one deposit have sent its form twice; credits up to the cursor
  were seen or are older than a first page, and those a pass fetched, those seen and
  those older cover all up to its newest.

### Contracts (`ContractProofs`, `PoolProofs`)

For each contract: its storage is well formed, what it holds is (at least) a sum
over its records, and each call preserves that. Sums are `SumFunctionOnSet`;
`SumProofs` proves how a sum changes when one term does, from its recursive
definition, by the well-foundedness of `<` on the cardinality of the set, the one
induction needed.

* `EscrowsCovered`, `BatchesAreCovered`, `VestingIsCovered`, `StakesAreHeld`,
  `SupplyIsExact`, `PoolHolds`, `ReservesHold`: the balance of the contract is (at
  least) the sum of open escrows, due shares, unvested grants, principal with the
  rewards left, holders' tokens, locked deposits with fees less what was unlocked,
  reserves.
* `DisputesHeld`, `QuorumMoves`, `ListsAreFinal`, `TreasuryPaysOnce`, `LocksHonoured`,
  `BridgePaysOnce`: money leaves only by the call the parties agreed to, once.
* `WalletUsable`, `AllVests`, `VestedStays`: the threshold can be met; milestones round
  to exactly the grant by the end, and nothing vested is taken back.
* `BatchesRunWhole`, `DelegationsHold`, `TalliesHold`, `VotesAreOver`: effects are those
  of completed batches; a delegation is taken back with the amount it was made
  with; a tally is the sum of its ballots, and ended votes do not change.
* `GrantsHold`, `EarnsOnlyByTime`, `LocksBind`, `CodeWaits`, `NoneLeftBehind`: allowances,
  accrual, locks, upgrade delays, and a migration whose version is stored
  only when every request before the cursor, which is all, is migrated.
* `LiquidityHolds`, `SharesKeepTheirWorth`: the product of the reserves per squared
  liquidity never falls, by hand-made steps of non-linear arithmetic on the
  code's integer formulas. Newton's iteration is a recursive function; that it
  exists and answers no more than its argument is proved, which is all that these
  properties need of it.
* `FreshAnswers`, `RevokedStaySilent`: who answers is registered, trusted and alive; a
  newest price exists by the least age and the least place; the mean is between
  the extremes by bounds on the sum. `Newest` is a set of places rather than a
  `CHOOSE`, for the same reason.

### One ledger (`LedgerProofs`)

`MCSpec`, the specification of both contract runs, has all contracts at their
addresses, and in a behaviour any set of them is called in any order by the same
accounts. `LedgerKept`: every contract is as sound as its own proofs say (`AllSound`),
however its calls are mixed with those of the others. The proof has two halves. A
call of `c` keeps `c` sound by the lemma of its own proofs. For every other contract
`d` it is a step aside (`Aside`): the storage of `d` is what it was, so is the money at
its address, and time did not run backwards; a lemma for each contract shows that
such a step keeps it sound (`EscrowAside`, ...). That a call of `c` moves no money at
any contract's address but its own (`EscrowPays`, ...) and never turns back the clock
(`EscrowTime`, ...) are lemmas too; the former is where addresses must differ.

The properties follow from `AllSound`. For action properties `CalledOrAside` says that
a step is one of the contract or leaves it aside: the first case is the lemma of
its own proofs, and in the second nothing the property speaks of changes but the
clock. By this `AllHoldWhatTheyOwe`, `AllCountsAddUp`, `AllVersionsMatch`, `AllPaidOnce`,
`ClockBindsAll`, `AllStaysSettled` and `PromisesHoldOnLedger` state every property of the
contract runs, under the specification those runs check.

### Only model-checked

* Liveness: `SubmittedResolves` and `ClaimedItemResolves` rest on fairness and
  `ENABLED`, which are out of the prover's reach.
* The two runs that expect a violation, and the boundaries in the tables.
* That a mutant of the code is caught: every property of a passing run has one.

## Not modelled

Background jobs and reports: the queue library is external, and what a job does
is modelled with the service it calls; a report is claimed by one conditional write
and read by nobody else, though a retry after a crash during generation finds it
claimed (`report-worker.service.ts` 41). The treasury service reads sums and only
records a rebalance. Notifications and the audit log are written best-effort and
read by nothing. Wallets store keys; their `sendPayment` is
`buildAndSubmitPayment`. Controllers, routes, configuration and the API
description parse and format. KYC and AML screening call external providers and
store the answer. The counter contract is a demonstration. The frontend and the
shared packages have no protocol of their own.

## Plan

What was planned is done but for the following, in the order of its worth:

1. Every operation of payroll at once keeps `PayrollInv`, but `ItemsPaidOnce` and
   `BatchPaysOnce` each exclude the other's callers. A condition on the times of
   calls, rather than on who makes them, would cover a batch that is processed
   first, with definite answers, and whose failed items are paid one by one after.
2. Modules for the parts of the backend under "Not modelled" that keep state, once
   they have a protocol: reports when a retry claims them again, and the treasury
   when a rebalance moves money.
3. A run of several contracts at once. The theorems cover it; at the bounds of
   `contracts_pools` TLC does not finish two contracts within minutes, and with one
   record of each kind it finishes a pair such as `{"escrow", "vesting"}`.
