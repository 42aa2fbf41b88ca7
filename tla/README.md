# Verification of 行止 (xingzhi)

TLA+ models, TLC runs and TLAPS proofs for the server of 行止, a planning
application in which a consumer reserves money of a debit account for purchases
of a month, buys from merchants, pays through a simulated or an external channel
and asks for closes and refunds afterwards. Paths below are relative to
`src/xingzhi/apps/server/src/` unless they start with `src/`.

Contents: [1 The system](#1-the-system), [2 Modules](#2-modules-and-the-code-they-stand-for),
[3 Runs](#3-runs), [4 Findings](#4-findings), [5 Bounds](#5-bounds),
[6 Fairness](#6-fairness), [7 Proofs](#7-proofs), [8 Not modelled](#8-what-is-not-modelled),
[9 Plan](#9-plan), [10 Running it](#10-running-it).

## 1 The system

A Fastify server and a worker process share one PostgreSQL database. Every
handler of the server and every step of the worker is one transaction or a
sequence of them; nothing else coordinates the processes. Two clients, a mini
program for consumers and a web page for merchants and reviewers, call the
routes. The external channel (Alipay sandbox) is called outside transactions and
reports back by notifications.

### 1.1 Components, their state and operations

| Component | State | Operations | Who calls it |
|---|---|---|---|
| Operation queue and worker (`domain/jobs.ts`, `domain/worker-runtime.ts`, `worker.ts`) | `operations` (state, lease_version, sent_at), `jobs` (state, lease_version, lease_until, next_run_at) | create operation and job, claim with a 60 s lease, fence, complete, back off | handlers create; any number of workers process |
| Simulated orders (`domain/consumer-orders.ts`, `domain/consumer-aftercare.ts`, `domain/merchant-consumer.ts`, `domain/worker-runtime.ts`) | order (status, payment_status, refunded), aftercare previews, cancellation requests, refund batches, manual tasks, simulation modes | handoff, pay, preview, confirm close or cancel, decide, schedule refund, process close, process batch | consumer, merchant, worker |
| Sandbox payments (`domain/channel-worker.ts`, `routes/api.ts`) | the trade at the channel, payment attempt, order, notifications with their processing state | handoff, consumer enquiry, notification, close, merchant enquiry | consumer, channel, merchant, worker |
| Sandbox refunds (`domain/channel-worker.ts`, `domain/operation-rechecks.ts`, `routes/consumer-aftercare.ts`) | batches, operations, refund numbers at the channel, tasks | request once, ask, settle, escalate, enquiries beside it | consumer, merchant, worker |
| Verified money events (`domain/verified-money-event.ts`) | events with a unique source number, ledger entries, item status | post a payment or a refund, settle the item | worker, enquiry, notification, bank feed |
| Budget periods and items (`domain/budget-periods.ts`, `routes/budget-periods.ts`, `routes/budget-items.ts`) | period (status, version, savings target), items (status, version) | create, activate, change with expected versions, archive | consumer |
| Purchase admission (`domain/purchase-*.ts`) | purchase intents, assessments with the versions they saw | preview, create intent, confirm (commit), reject, expire | consumer |
| Budget adjustments (`domain/budget-adjustments.ts`) | adjustments, their steps | propose, confirm, cancel orders through it, complete | consumer, worker |
| Cash flow (`domain/cashflow-engine.ts`, `domain/budget-cashflow.ts`, `domain/finance-facts.ts`) | none; a function of facts | forecast, lowest balance, headroom | admission, adjustments, periods |
| Ledger links (`domain/budget-ledger-links.ts`) | link of a ledger entry to an item | link, unlink | consumer |
| Finance accounts (`routes/finance-accounts.ts`, `domain/access.ts`) | account (state, financial_version), grants | revoke, authorise again | consumer |
| Idempotency and events (`domain/idempotency.ts`, `domain/events.ts`) | answer per actor, route and key | return the recorded answer, refuse another body | every writing route |
| Sessions and clients (`auth/session.ts`, `routes/api.ts`, the clients' `lib/`) | sessions; in the client what it shows (signed in, or the form and why) and a key for each write without an answer | sign in, sign out, send, repeat under the key, react to 401 | consumer, merchant |
| Assistant of a plan (`domain/agent-*.ts`, `routes/agent.ts`) | runs, their drafts, the orders they watch, wakeups, rate limit | start, draft, carry out a confirmed draft, watch, wake up, recover, stop a branch | consumer, events, worker |
| Assistant of a month (`domain/consumer-agent-runtime.ts`, `domain/model-*.ts`) | runs, calls to the model, one budget for all, planning drafts | start, reserve and settle a call, retry, save a draft, cancel, expire | consumer |
| Plans of the older flow (`domain/proposals.ts`, `domain/business-actions.ts`, `routes/api.ts`) | plan with a purchase limit, proposals, authorisations, orders, requests, batches, tasks | preview, confirm, order, pay, close, cancel, decide, schedule, recheck | consumer, assistant, merchant, worker |
| Offers, evidence, reviews, payment adapter, migrations, contracts | see `PROJECT.json` | | |

### 1.2 How they interact

* A handler that starts something slow (payment, close, refund, enquiry) writes
  an operation and a job in its own transaction and returns. The worker claims
  the job in a transaction of its own and processes it in another.
* A job of the simulation is processed in one transaction: fence, business
  writes, completion. A job of the channel takes two, with the external call
  between them: the first sets `sent_at`, the second applies what was seen, each
  after the fence.
* The channel's notification and the consumer's own enquiry write the order, the
  payment attempt and the payment operation without the queue, and race with the
  worker.
* A posted payment settles the budget item in the transaction that posts it; a
  close ends its commitment.
* A period can be archived only when its orders, requests and operations have no
  unfinished business: the three components meet there.
* An adjustment for an unexpected expense drops items and cancels a paid order in
  one transaction; the refund, batches later, brings the adjustment to its end.
* The balance a forecast starts from is a snapshot of the bank and the entries posted
  after it; orders, plans and obligations are what is still to come. A payment, a
  link or a settlement moves an amount from one side to the other.
* A client repeats a write under the key it kept until it knows the answer; the
  server runs a key once. A session that has ended takes the keys with it.
* An event of an order writes a wakeup for each assistant's run that watches it; the
  worker starts a run for the wakeup. An assistant only drafts: what moves money is
  carried out after the owner's confirmation.
* All writers of one order serialise on row locks; what is read before an
  external call, or shown to the consumer before a confirmation, is compared
  again afterwards.

### 1.3 What is hard

| Hard behaviour | Where |
|---|---|
| A lease that runs out while its holder still works | `worker-runtime.ts:25`, `channel-worker.ts:147` |
| A crash between `sent_at` and the external call, or between the call and its result | `channel-worker.ts:111` |
| An enquiry that settles an operation which another worker holds | `channel-worker.ts:163` |
| Answers, notifications and worker results applied in any order | `routes/api.ts:595`, `:722`, `channel-worker.ts:165` |
| A payment between the look-up of a trade and the request to close it | `channel-worker.ts:138` |
| A confirmation of something that changed since it was shown | `consumer-aftercare.ts:94` |
| One of two refund batches without a result | `worker-runtime.ts:211` |
| A period archived too early, or never | `routes/budget-periods.ts:138` |
| Versions compared at confirmation, data read without a lock before | `purchase-commit.ts:27`, `budget-cashflow.ts:184` |
| Plans of an earlier month that no compared version covers | `budget-cashflow.ts:144` |
| An item that changes between the checks and the INSERT of its intent | `purchase-intents.ts:43` |
| An adjustment confirmed while the order it cancels is cancelled elsewhere | `budget-adjustments.ts:137` |
| A page that shows the effect of a change and saves it later | `src/xingzhi/apps/miniapp/src/pages/item/edit.vue:85` |
| Snapshots and entries of the bank that arrive out of order | `finance-facts.ts:121` |
| One amount as plan, order, entry, link and obligation | `finance-facts.ts:57`, `budget-ledger-links.ts:121` |
| A repeated write, a late answer, a lost sign-out | `idempotency.ts:9`, `src/xingzhi/apps/miniapp/src/lib/idempotency.ts:46` |
| A run that stops halfway and what it was watching | `agent-recovery.ts:61` |
| A branch that is stopped while one of its wakeups is dispatched | `agent-runs.ts:74` |
| One ceiling of cost for all the calls of all the runs | `model-budget.ts:10` |
| A draft whose assessment compares versions, reads and inserts without a lock | `routes/planning-drafts.ts:101`, `budget-cashflow.ts:184` |
| Several change proposals of one version of a plan | `business-actions.ts:164` |

`PROJECT.json` lists each of them, and the others, under "hazards" with the
properties that would catch it.

### 1.4 What correctness means

* Queue: one holder at a time, one result, one external request per operation,
  and every accepted operation gets a result.
* Simulated order: order, budget item and posted payment agree; no more is
  returned than was confirmed, by one request; every question has a task; an
  archived period has no open promise; planned refunds are paid.
* Sandbox payment: the order never claims more than the channel did; paid and
  closed are final; no payment the channel reports is lost; a confirmed close is
  answered.
* Sandbox refund: each return is booked once, only after the channel made it;
  batch, operation and task agree; every return is learned or a person is asked.
* Purchase admission: an order exists only for an item that was reserved for it,
  never two for one item; what is confirmed is what was shown, and the plan of the
  month holds with the order in it.
* Budgets and adjustments: a change has the effect that was shown before it; an
  adjustment is applied whole, fits, and ends with the refund of the order it cancels,
  or waits for a person with it; an archived month and a revoked account keep their plan.
* Cash flow: the balance is the bank's, the forecast the sum of its days, and no
  amount is foreseen twice or forgotten; a review adds up.
* Requests: one effect per key and an answer that is true of it; a key without an
  answer is kept; a client that was told it is signed out holds no session that works.
* Assistants: one run at a time, every wakeup ends, a stopped branch stays stopped,
  the ceiling is kept, a draft whose versions are current was assessed on current facts.
* Older plans: what is paid and held keeps the limit, changes and refunds are carried
  out as confirmed.

## 2 Modules and the code they stand for

| Module | Stands for | Kind |
|---|---|---|
| `OperationLedger` | what the queue promises its callers | abstract specification |
| `JobLease` | queue, claim, lease, fence, channel call | detailed, implements `OperationLedger` |
| `OrderMoney` | what an order promises the payer | abstract specification |
| `SimulatedOrder` | one order of the simulation with its aftercare and its period | detailed, implements `OrderMoney` |
| `SandboxTrade` | one order's payment and close at the channel | detailed |
| `SandboxRefund` | one order's refund at the channel | detailed |
| `PurchaseAdmission` | how a purchase gets from a preview to an order, while the budget changes | detailed |
| `BudgetPlan` | one month from its creation to its archival: items, the page that edits them, adjustments | detailed |
| `Cashflow` | the bank's facts, the forecast made of them, the review of a month | detailed, with a reference sum |
| `EffectOnce` | what a key promises its client | abstract specification |
| `RequestGate` | a client, its sessions and kept keys, and the gate of the server | detailed, implements `EffectOnce` |
| `AgentRun` | the assistant of a plan: runs, drafts, watches, wakeups | detailed |
| `ConsumerAgent` | the assistant of a month: calls, their cost, drafts | detailed |
| `LegacyPlan` | a plan of the older flow in the simulated environment | detailed |
| `AtMostOnceProofs` | theorems about `JobLease`, `RequestGate` and `SimulatedOrder` | proofs |
| `SandboxProofs` | theorems about `SandboxTrade` and `SandboxRefund` | proofs |
| `AgentProofs` | theorems about `ConsumerAgent` and `AgentRun` | proofs |
| `PurchaseAdmissionProofs`, `BudgetPlanProofs`, `CashflowProofs`, `LegacyPlanProofs` | theorems about the module of that name | proofs |
| `FiniteSums` | lemmas about sums over finite sets, for the four above | proofs |
| `MC...` | values of the constants for TLC | model checking |

An action is one database transaction (row locks and the serialisation they give
are what makes it one step) or one external call. An error that is thrown rolls
the transaction back, so that it is either not an action at all (the guard is
false) or, when the claim survives it, a step of its own (`Crash`, `Throw`).
Definitions that start with "Fault variant" are slightly wrong copies of the
definition below them; no specification uses them. They are what a likely mistake
would look like, and each property is shown to fail when its variant takes the
place of the real definition.

How the layers fit: the order modules say "the job is open" and let one step
settle it; that this step happens once, whatever the leases do, is what `JobLease`
shows (`NothingTwice`), and that it happens at all is
`EveryJobCompletes`, which is where the fairness of the order modules comes from.
That a handler runs once, whatever the client repeats, is what `RequestGate` shows;
every other module takes a request of a client as one that passed the gate.
`PurchaseAdmission` ends with the confirmed order and keeps of its later life what
the forecast sees: paid, of unknown result, closed.
`BudgetPlan` has one balance at the end of the month where `Cashflow` has its days; its
adjustment cancels an order whose refund is that of `SimulatedOrder`, with one result
for its batches. `AgentRun` sees of an order the stages its events tell,
`LegacyPlan` has the order behind them.
`SandboxTrade` starts where `SimulatedOrder` starts, with a confirmed order, and
`SandboxRefund` where the sandbox order is paid; previews, rules and decisions are
those of `SimulatedOrder` in all environments.

### 2.1 JobLease

| TLA+ | Code |
|---|---|
| `opState`, `opVersion`, `sent` | `operations.state`, `.lease_version`, `.sent_at` |
| `jobState`, `jobVersion`, `leaseLive`, `due` | `jobs.state`, `.lease_version`, `lease_until > now()`, `next_run_at <= now()` |
| `claim[w]` | the `ClaimedJob` a worker holds, and how far it got |
| `sends`, `settlements` | ghost counts: external requests, committed results |
| `CreateOperationJob` | `createOperation`, `createOperationJob` |
| `ClaimNextJob`, `Claimable` | `claimNextJob` |
| `LeaseHeld` | the fence in `processClaimedJob` and `lockContext` |
| `ProcessSimulatedJob`, `CompleteJob` | `processClaimedJob`, `completeJob` |
| `BeginChannelCall`, `BlockChannelCall`, `RefuseEnquiry` | first transaction of `processChannelJob` |
| `SendToChannel` | `adapter.refund`, `adapter.closeTrade` |
| `FinishChannelCall`, `RetryChannelCall`, `ConfirmElsewhere` | second transaction |
| `Crash`, `LeaseExpires`, `BackoffElapses` | process stop or rollback, time |

### 2.2 SimulatedOrder

| TLA+ | Code |
|---|---|
| `order`, `item`, `posted`, `refundPosted` | order, budget item, payment event, sum of refund events |
| `preview`, `cancel`, `batch`, `op`, `reviewOp`, `refundOp`, `followUp`, `recheck` | previews, requests, batches, operations and manual tasks |
| `rule`, `modes`, `period`, `linked` | the catalogue item's rule with its version, outcomes of the simulation, period, account |
| `PrepareHandoff`, `ProcessPayment` | `prepareConsumerPaymentHandoff`, `processPayment` |
| `CreatePreview`, `PreviewExpires` | `createAftercarePreview`, the check of `expires_at` |
| `ConfirmClose`, `ConfirmApproved`, `ConfirmRejected`, `ConfirmDelayed` | the branches of `confirmAftercare` |
| `ProcessClose` | `processClose` with `finishClosedOrderBudget` and the item trigger |
| `Decide`, `ScheduleRefund` | `decideMerchantConsumerCancellation`, `scheduleMerchantConsumerRefund` |
| `ProcessRefundBatch` (`RefuseBatch`, `QuestionBatch`, `PayBatch`) | `processRefundBatch` |
| `ChangeRule`, `ToggleAccount`, `MonthEnds`, `ClosePeriod` | rule update, revoke and authorise again, the date, the closure route |
| `RefundOf`, `BatchNumbers`, `BatchAmount` | `cancellationRuleDetails` and the split in `confirmAftercare` |

### 2.3 SandboxTrade

| TLA+ | Code |
|---|---|
| `trade`, `inbox` | the channel (external): its trade and the notifications it issued |
| `order`, `attempt`, `item`, `recorded`, `log` | order, payment attempt, budget item, numbers of recorded events, notification rows |
| `handoff`, `job`, `sent`, `call`, `task`, `retries` | operations and what the worker does for each |
| `check[c]` | an enquiry of the consumer between its two halves |
| `AskChannel`, `ApplyAnswer` | `POST payment-rechecks` before and after the call |
| `Notify` (`Quarantine`, `ApplyNotification`) | the notification route |
| `BeginCall`, `QueryTrade`, `CloseTrade`, `FinishCall` | `processChannelJob` for a close and for an enquiry asked by a merchant |

What an enquiry sees is one of the states of the trade at that moment, or an answer
that identifies nothing; it is applied later, to whatever the order has become.

### 2.4 SandboxRefund

| TLA+ | Code |
|---|---|
| `plan`, `planner`, `request`, `order`, `batch`, `verified` | the batches of the request, who made them, and what is booked |
| `refund[n]` | the refund number at the channel (external) |
| `op`, `about`, `sent`, `call`, `task` | operations of refunds and enquiries |
| `MakeBatches` via `ConfirmApproved` or `ScheduleRefund` | `confirmAftercare`, `scheduleMerchantConsumerRefund` |
| `ConsumerAsks`, `MerchantAsks` | `POST refund-rechecks`, `requestOperationRecheck` |
| `Claim`, `BeginRefund`, `BeginEnquiry`, `QueryRefund`, `FinishCall`, `Throw` | `processChannelJob` for a refund and for an enquiry about one |
| `ConfirmBatch` | the confirmed branch: batch, order, request, event and the original operation |

### 2.5 PurchaseAdmission

| TLA+ | Code |
|---|---|
| `account` | `finance_accounts` (status, `financial_version`) with the cash of its last snapshot and whether that is still young enough |
| `period`, `month`, `item` | active periods (status, version, target), whether the running month is over, items with the amount a ledger link covers |
| `quote` | `offer_quotes.status`; the price is a constant, quotes are immutable |
| `assess[a]` | an assessment, from its first read on; `seen` (ghost) is what the forecast was made from |
| `intent[k]`, `order[k]` | `purchase_intents`, the payment status of its order |
| `Committed`, `Planned`, `PlannedElsewhere`, `Headroom`, `Unknown`, `Forecast` | `buildCashflowEvents`, `readPlannedItems`, `forecastBudgetCashflow`, `calculateDailyCashflow` |
| `BeginAssessment`, `FinishAssessment`, `AbortAssessment` | `assessPurchasePreview`: item, quote, period and account are read first, facts, items and orders later, without locks |
| `BeginIntent`, `InsertIntent`, `AbortIntent` | `createPurchaseIntent`: checks under the lock of item, quote and offer, then the INSERT |
| `ConfirmIntent` (`VersionsHold`, `FinalForecast`) | `commitPurchaseAssessment` with `writeConfirmedOrder` |
| `RejectIntent`, `Expire` | `rejectPurchaseIntent`, `expireStalePurchaseIntents` |
| `ChangeItem`, `CancelItem`, `ChangeTarget`, `LinkEntry`, `UnlinkEntry`, `ClosePeriod` | the routes of the budget |
| `BankFact`, `SnapshotAges`, `Revoke`, `Reauthorize`, `OfferQuote`, `WithdrawQuote`, `MonthEnds` | bank feed, time, authorisation, provider |
| `PayOrder`, `PaymentUnclear`, `CloseOrder` | the worker |

The versions rise exactly where the triggers of migrations 016 and 017 raise them:
an order, a snapshot or a ledger entry the account's, an item the period's, a link
or a target the period's by its own UPDATE. A period's version says nothing about
the items of another active period, nor about the age of the snapshot; that is why
the confirmation forecasts again under its locks.

### 2.6 BudgetPlan

| TLA+ | Code |
|---|---|
| `account`, `period`, `month`, `item` | `finance_accounts`, `budget_periods` (status, version, target), whether the month is over, `budget_items` |
| `order`, `request[r]` | the paid order of the item `Bought`, with the result its refund has in the simulation (`Results`); requests to cancel it, by the adjustment that made them or by its own page, with the batches whose job is left |
| `adj[a]` | an adjustment from its assessment on: the versions it read, its options, its state |
| `page` | the open page of an item: the versions it read, the change and the effect shown |
| `CreatePeriod`, `Activate`, `ChangeTarget`, `Close` | `budget-periods.ts` and its routes, with the blockers of the archive |
| `OpenPage`, `ShowChange`, `Save`, `SaveRefused`, `LeavePage` | `pages/item/edit.vue` with the preview and the write it calls |
| `Assess`, `Propose`, `AbortAssessment`, `ProposalExpires`, `Confirm` | the assessment with its three options (`Options`), the INSERT, `expires_at`, the confirmation |
| `CancelOrder`, `Decide`, `ScheduleRefund` | the order's own page, the merchant |
| `RefundBatch`, `RefundQuestion` | the branches of `processRefundBatch`: a success; an open result or a request that is a question already, which ends the job, leaves the request `pending_review` and its adjustment as it is |
| `BankFact`, `Revoke`, `Reauthorize`, `ChangeRule`, `MonthEnds` | bank feed, authorisation, merchant, time |

### 2.7 Cashflow

| TLA+ | Code |
|---|---|
| `entry[e]`, `snapshot`, `inFlight` | what the bank posted, whether and when it was reported; the newest snapshot, one that is delayed |
| `item`, `order`, `due` | plans, the order, obligations with the cycle an instalment belongs to |
| `Cash`, `BasisKnown` | `finance-facts.ts`: snapshot and entries after it |
| `Chain`, `InCycle`, `Remaining` | `remainingDueMinor` and the check of cycles |
| `OrderEvents`, `ItemEvents`, `DueEvents`, `Contradiction` | the facts `budget-cashflow.ts` collects, by day, each under its kind and the row it is of |
| `Days`, `Step`, `Status` | the fold of `cashflow-engine.ts`, a recursive function of the day |
| `Post`, `Deliver`, `Observe`, `TakeSnapshot`, `Capture` | the bank (external) and the routes that record it |
| `Link`, `Unlink`, `MarkPaid`, `ChangeItem`, `CancelItem`, `PlaceOrder`, `PayOrder`, `PaymentUnknown`, `CloseOrder` | what moves an amount between plan and fact |
| `LinkedActual`, `UnlinkedPosted` | the sums of `budget-period-review.ts` |

### 2.8 RequestGate

| TLA+ | Code |
|---|---|
| `kind`, `view`, `holder` | mini program, its H5 build or web; the signed-in pages, or the form and what the client knows then: signed `out`, a `guest` the program is not open to, or `unknown` after a lost answer; the token or cookie held |
| `pending`, `why` | the key kept for an entry of the client's storage; ghost: why one is no longer kept |
| `session`, `guests`, `req`, `record` | sessions, those of users who are no consumers, requests wherever they are, `idempotency_records` |
| `SignIn` (`ViewAfterSignIn`), `SignOutWeb`, `SignOutMini`, `Expire` | the sign-in and sign-out of the clients and the server; a sign-in of another role keeps the session and throws |
| `Reopen`, `Restore` | the program is opened again and asks for its session (`pages/login/index.vue`): the form is decided by the answer, which may be lost, not by the session |
| `Begin`, `ReceiveMini`, `ReceiveWeb`, `GiveUp`, `Age` | `lib/api.ts` and `lib/idempotency.ts` of the clients |
| `Arrive`, `Lock`, `Replay`, `Commit`, `Abort`, `ServerStops` | the guard, `idempotency.ts` and the transaction of `db/client.ts` |
| `Effect`, `Told` | the mapping to `EffectOnce`: the stored record is the effect of its key |

### 2.9 AgentRun

| TLA+ | Code |
|---|---|
| `agentRun`, `wakeup`, `tokens` | `agent_runs` with proposal and watch, `agent_wakeups`, `agent_rate_limits` |
| `order`, `holder` | the stage of the order, the run whose confirmed purchase is authorised |
| `StartAgentRun`, `ReadAgentRun`, `CancelAgentRun`, `AgentDeadlinePasses` | `agent-runs.ts`; the reads before and after the transaction of a cancellation are `ReadAgentRun` |
| `CreateAgentProposal`, `CreateOrder`, `RequestPayment`, `SubmitChange`, `Finish`, `FailRun` | the tools of a run (`agent-tools.ts`, `agent-actions.ts`) and its end |
| `ConfirmPurchase`, `ConfirmChange`, `OrderByHand`, `SubmitByHand` | the owner, with or without the assistant |
| `EventWritten` (`Noticed`, `Told`) | `enqueueAgentEvent` in the transaction of the event |
| `ClaimAgentWakeup` (`Candidate`, `Verdict`, `Inherit`, `Dispatch`) | `agent-recovery.ts` |

### 2.10 ConsumerAgent

| TLA+ | Code |
|---|---|
| `run`, `proc` | the row of a run and the process that works on it: every check of the row is a step of its own |
| `budget`, `usage` | `model_budget`, `model_usage` by run and call |
| `version`, `draft` | versions of period and account; planning drafts from their assessment on, with the versions they name and (ghost `facts`) those of which their facts were |
| `StartConsumerAgentRun`, `CancelConsumerAgentRun`, `ReadConsumerAgentRun` | the entry points of `consumer-agent-runtime.ts` |
| `CheckBeforeCall`, `ReserveAttempt`, `Refused`, `Answered`, `SettleModelCost` | `model-budget.ts`, `model-retry.ts` and the loop around them |
| `ReadBudgetBasis`, `CheckBeforeSave`, `SavePlanningDraft`, `CheckBeforeEnd`, `Complete`, `Fail` | tools, the draft and the end of a run |
| `SaveByHand`, `TransitionDraft` | `routes/planning-drafts.ts` |
| `CompareVersions`, `ReadFacts`, `CreatePlanningDraft`, `AbortDraft` | `createPlanningDraft` with `forecastBudgetCashflow`, in one transaction without locks: the versions are compared, the facts read one query after the other, the row inserted; any other commit may come between (`PeriodChanges`) |

### 2.11 LegacyPlan

| TLA+ | Code |
|---|---|
| `plan`, `item`, `catalog` | plan (version, limit, pauses), items, rules |
| `proposal`, `auth`, `queryAuth` | proposals with the lines they froze; authorisations |
| `order`, `op`, `request`, `task` | orders, operations, requests with their batches, manual tasks |
| `createPurchaseProposal`, `createChangeProposal` (`Quote`, `Preview`), `ConfirmPurchase`, `ConfirmChange`, `Withdraw` | `proposals.ts` and the routes of a plan |
| `createConfirmedOrder`, `submitConfirmedChange` (`Orderable`, `CancelHolds`, `LineHolds`, `NewRequest`) | `business-actions.ts` |
| `processPayment`, `processClose`, `processRefundBatch` | the worker's transactions |
| `UpdateRule`, `DecideCancellation`, `ScheduleBatch`, `ClaimTask`, `RequestRecheck` | the merchant's routes |
| `planSnapshot` | what the page of a plan shows |

## 3 Runs

| Run | Configuration | Distinct states | What it shows |
|---|---|---|---|
| `job_lease` | 2 workers, a simulated and a channel operation, 3 faults, 2 retries | 78 385 | queue properties, the ledger implemented |
| `simulated_order` | 2 previews, price 5, fee 2, one rule change, all modes | 912 930 | all properties of the simulated order, `OrderMoney` implemented |
| `sandbox_trade` | 1 consumer enquiry at a time, a close, a merchant enquiry, 1 retry, 1 crash | 218 439 | all properties of the payment |
| `sandbox_refund` | 1 or 2 batches (1 and 2 of 4), 1 enquiry, 1 retry, 1 crash | 44 486 | all properties of the refund |
| `refund_merchant` | the same without crashes | violation | a finding, section 4 |
| `purchase_admission` | 2 periods, 3 items, 2 assessments, 2 intents, one quote of 2, estimates 1 and 2, targets 0 and 1, cash 3 and 4 | 500 540 | all properties of the admission |
| `request_gate` | 3 kinds of client, 2 writes of one fingerprint, 2 keys, 2 sessions, 3 requests, 1 mishap | 4 272 111 | one write per key, keys and sessions, `EffectOnce` implemented |
| `budget_plan` | 3 items, one bought for 4 with a fee of 2, an expense of 1, amounts 1 and 2, cash 3 and 4, targets 1 and 2, a refund that succeeds or not | 3 337 309 | edits, adjustments and the archive of one month |
| `cashflow` | 2 entries, 2 items, 1 order, a bill with an instalment or a cycle, 2 days and 2 of the next month | 582 946 | balance, forecast and review |
| `agent_run` | 1 run of the owner, 2 that may be stopped, an order at 4 stages | 604 265 | runs, watches and wakeups of a plan |
| `consumer_agent` | 2 owners, 2 runs of 2 calls, 1 retry, a ceiling for 2 calls, costs below and above the reservation, 1 draft, 2 versions | 5 698 953 | runs, cost and drafts of a month |
| `legacy_plan` | 2 items of 6 and 3, fee 2, 3 proposals, limits 3 and 9, a changed rule | 1 098 441 | limits, changes and refunds of an older plan |

The properties of a module are checked together in one run. One name may stand for a
conjunction, whose parts are defined above it in the module:

* `job_lease`: `NothingTwice` (`OneHolder`: no two claims pass the fence;
  `SettledOnce`, `SentOnce`), `QueueConsistent` (types, and `RowsAgree`: a job in the
  queue belongs to an operation the claim still selects), `EveryJobCompletes`,
  `ImplementsLedger`.
* `simulated_order`: `BudgetFollowsOrder`, `RefundsAgree`, `RequestsAccountedFor`
  (types, `OneRequest`, `CancelledForAReason`, `QuestionsHaveTasks`),
  `ArchivedWithoutPromise`, `OrderSettles` (`RefundsComplete`, `CloseAnswered`),
  `ImplementsMoney` (money spent is never held again, and what was returned only grows).
* `sandbox_trade`: `OrderFollowsChannel` (types, `FactsComeFromChannel`,
  `CommitmentEndsWithOrder`, `PaymentReportSurfaces`), `DecidedIsFinal`,
  `CloseSettles`, `PaymentLearned`.
* `sandbox_refund`: `RefundTellsOneStory` (types, `RefundsFollowChannel`,
  `RefundBookedOnce`, `OperationFollowsBatch`), `SettledStays`, `RefundsSettle`
  (`ReturnLearned`, `OperationsSettle`).
* `purchase_admission`: `IntentHoldsItem` (`ItemFollowsOrder`: one purchase per item,
  whose status the item follows; `ReservationMatchesItem`: a live intent keeps its item
  as it was assessed), `BasisIsCurrent` (types, and: equal versions mean equal facts,
  although the preview reads without locks), `ConfirmKeepsBudget` (cash covers orders,
  plans and target with the new order in it), `ConfirmedAsShown`.
* `request_gate`: `GateSafe` (types, `OneCommitPerKey`, `UnansweredKeyKept`: no answer
  to an older request makes the client draw another key), `SignedOutIsRevoked` (a
  client that was told it is signed out, by the answer to its sign-out or to its question
  for the session, or that threw its token away, holds nothing that opens the account;
  section 4 says when the form is shown without that), `ImplementsOnce`
  (the write of a key happens once, with one payload, and a client is told only of what
  happened).
* `budget_plan`: `PlanSound` (types, `AdjustmentWhole`: all of an adjustment's writes or
  none; `ClosedIsSettled`: nothing to carry out in an archived month;
  `OrderCancelledOnce`), `EditedAsShown` (a saved edit has the effect that was shown),
  `AdjustmentFits` (the month keeps its target with the expense and without the refund
  that is only expected), `FrozenPlanStays` (archived month, revoked account),
  `AdjustmentEnds` (a simulated refund on its way completes its adjustment if its result
  is a success; if not, no job is left, the request waits for a person, and the adjustment
  is not taken for complete).
* `cashflow`: `DayByDay` (the fold equals the sum of the events up to each day, and the
  verdict is that of the worst day), `CashIsBank` (the balance in any order of
  delivery), `ForeseenOnce` (what moves from plan to fact does not change the end of the
  month), `ReviewAddsUp`.
* `agent_run`: `AgentSound` (types, `OneRunning`, `AttemptsInTurn`: two attempts at
  most, one after the other; `StillWatched`: what an attempt watched survives its crash;
  `CancelledStays`), `WakeupsSettle`, `StoppedStaysStopped`.
* `consumer_agent`: `AssistantsSound` (types, `OneRunning` for each owner, `CallsPaid`:
  every call on the books and the ceiling kept; `CompletedIsPaid`; `DraftsAssessed`: as
  long as the versions a draft names are current, which is what its page compares
  (`src/xingzhi/apps/miniapp/src/pages/draft/detail.vue:89-91`), it was assessed on the
  facts of those versions and no others). A ceiling that leaves out what is reserved
  (`FitsSpent`) breaks it as well as a draft that names the versions found at its INSERT.
* `legacy_plan`: `LegacySound` (types, `CarriedOutAsConfirmed`), `ShownMoneyAgrees`
  (paid and held within the limit, refunds within what was agreed), `RefundsAddUp`.

Properties that need fairness are checked under the fair specification of the module
(section 6); the others hold without it. The deadlock check is on in `simulated_order`,
where the account can always be revoked or authorised again. It is off elsewhere,
because the system may really stop: all operations are settled (`job_lease`), a request
is refused (`sandbox_refund`), the month ends and every purchase is decided
(`sandbox_trade`, `purchase_admission`, `budget_plan`, `cashflow`), or the bounded
inputs of the user are used up (`request_gate`, `agent_run`, `consumer_agent`,
`legacy_plan`).

## 4 Findings

Each is a statement of the repository, or one its code relies on, that TLC refutes. The
first is a run of `PROJECT.json`, which quotes the statement with its line; the others
have a configuration of their own (section 10).

| Configuration | Property | Statement | What the code does |
|---|---|---|---|
| `MCSandboxRefundMerchant` (run `refund_merchant`) | `ScheduledRefundIsSent` | a merchant may schedule a refund | the worker refuses the merchant's batches of a sandbox order and rolls back, without end and without a task |
| `MCSandboxTradeBudget` | `ClosedReleasesBudget` | a close ends the budget commitment | a close learned by notification or by the consumer's enquiry leaves the item committed, for ever |
| `MCSandboxTradeNotify` | `AgreeingNotificationAccepted` | the notification of a close is acknowledged | after the consumer's enquiry has recorded the close under the same number with another time, the notification conflicts and rolls back each time |
| `MCSandboxTradeHandoff` | `HandoffEndsWithOrder` | what is dealt with does not block archival | a payment first seen by the worker leaves the payment operation processing |
| `MCSimulatedOrderArchive` | `OnlyOpenMattersBlock` | only undecided matters block archival | an operation that ended without a result blocks it although the order was decided later |
| `MCSandboxRefundQuestion` | `BookedRefundAsksNobody` | a booked refund leaves no open task | an enquiry that asked before the refund took effect and is applied after it was booked opens one |
| `MCSimulatedOrderCent` | `PreviewedRefundFits` | a rule is refused only up to the fee | one cent above it the first of two batches would be 0, which the table refuses |
| `MCRequestGateRetry` | `RetryCannotDuplicate` | "an explicit retry cannot create a second business object" (`src/xingzhi/apps/miniapp/src/lib/api.ts:42-43`) | an answer 401 clears the keys without an answer (`src/xingzhi/apps/miniapp/src/lib/api.ts:44-49`); the user signs in, repeats the write, and it is a second one (a manual ledger entry, `routes/finance-accounts.ts:134-163`, is then there twice) |
| `MCBudgetPlanEnd` | `EndedAdjustmentIsComplete` | what is dealt with no longer blocks the archive | only the refund of a simulated order completes an adjustment (`worker-runtime.ts:309`); after a refund of the sandbox (`channel-worker.ts:155-174`) or a rejection (`merchant-consumer.ts:132-167`) the month can never be archived (`budget-periods.ts:143-148`) |

`refund_merchant` is the only one about liveness and runs under the fair
specification. In the passing runs the same behaviour is part of the model, and the
properties say what holds in spite of it.

Noticed while modelling, without a statement to refute: an assistant's run that submits
a change and then asks for a payment replaces its watch by one that is not active
(`agent-events.ts:25`; `WatchAgentOrder` does the same), so that nothing wakes it up for
the change; a fact that
returns to an order writes no second wakeup, because its key exists (`agent-events.ts:47`);
a call refused with 429, or answered without usage, keeps its reservation for ever
(`model-budget.ts`); a draft may still be saved after its run was cancelled, and the
completion event is written although the UPDATE matched no running row
(`consumer-agent-runtime.ts:399-402`); a simulated order of an older plan whose refund
cannot be halved is approved but can never be scheduled.

* The sign-in form does not say that nobody is signed in. The first page of the mini
  program shows it after any failure of GET /session, a lost answer included
  (`src/xingzhi/apps/miniapp/src/pages/login/index.vue:26-31`), and a sign-in by a
  merchant or reviewer throws after the cookie was set (`:39`): under the form of the H5
  build lies a session that still opens the account, or its role's routes. The review list
  of the project asks that a sign-out by hand is not undone by itself
  (`src/行止_消费者端业务闭环审查与修复清单.md:16`, `:145`); that is what
  `SignedOutIsRevoked` states, and it holds.
* A simulated refund whose result is open, or whose request has become a question, ends
  its job (`worker-runtime.ts:211-251`). Its request is then `pending_review`, and nothing
  in the code takes it or the adjustment behind it any further, so that the month cannot
  be archived (`budget-periods.ts:143-148`).
* A draft that is overtaken between the comparison of its versions and its INSERT names
  versions that are gone, with facts that are newer. Its page then calls it a historical
  assessment, which it is not quite.
* `readAgentRun` counts watches as follow-ups beside wakeups (`agent-runs.ts:50-51`).
  `WakeupsSettle` is about the wakeups; an order that never comes to an end keeps its
  watch, and its run stays in progress in the owner's view.

## 5 Bounds

| Bound | Value | Why it is enough |
|---|---|---|
| `Workers` | 2 | the fence compares a claim with the row; a third worker meets it like the second |
| `Ops` | one simulated, one channel operation | operations share no row in the queue |
| `MaxFaults` | 3 | a lease lost while sending, one while finishing, and a crash of the one that took over |
| `MaxRetries`, `MaxRefundRetries` | 2 in `job_lease`, else 1 | from the first retry on nothing changes but the count; thirty minutes end the retries at any count |
| `Previews` | 2 | two confirmations that race; a third is like the second |
| `Amount`, `Fee` | 5 and 2; 3 and 2 in `MCSimulatedOrderCent` | an odd refund that two batches split unevenly; one cent above the fee |
| `MaxRuleVersion` | 2 | one change between a preview and its confirmation |
| `Checkers` | 1 | the halves of one enquiry already overlap the notifications, the close and the merchant's enquiry |
| `Enquiries` | 1; 2 in `MCSandboxRefundQuestion` | one beside each refund is enough to settle it from outside |
| `First`, `Second`, `Amount` | 1, 2, 4 | distinct sums for every set of batches, and something left |
| `MaxCrashes`, `MaxRefundCrashes` | 1 | a crash at every step; the take-over meets the same states again |
| `Periods`, `Items` | 2 and 3 | two items of one month compete for its money, one of the last month is in the forecast but in no version |
| `Assessments`, `Intents` | 2, 2 | two purchases that race, of one item or of two; a name is used again when an assessment was aborted or expired unused |
| `Prices` | one quote of 2 | a withdrawn quote is in the run; that a newer quote replaces an older one is in the model but needs a second quote, which no property depends on |
| `Estimates`, `Targets`, `CashLevels` | 1 and 2, 0 and 1, 3 and 4 | every status of the forecast, its boundary, and a second purchase that fits only sometimes |
| `MaxVersions` | 4, at the start the sum is 3 | one change of plan, target, cash or authorisation before the first order; what undoes a link or a revocation, the purchases, the worker, the quote and the time are not bounded by it |
| `request_gate`: writes, keys, sessions | 2, 2, 2 | two writes of one fingerprint compete for one kept key; a second key and a second sign-in are what a fault would draw |
| `request_gate`: `Requests`, `MaxMishaps` | 3, 1 | the write, its retry, and one whose late answer meets the retry; one loss, stop or aged key at any point |
| `budget_plan`: `Items`, `Adjustments` | 3, 1 | the bought item, one an adjustment may drop and the one it makes; the order's own page is the second to cancel the order |
| `budget_plan`: amounts | expense 1, amounts and targets 1 and 2, cash 3 and 4, refund 2 of 4 | each of the three options fits in some states and not in others; a refund in two batches |
| `MaxAccount`, `MaxPeriod` | 2, 3 | one change of the account, two of the plan, between a page's or a proposal's reading and its write; an adjustment and the end of the month are not bounded by them |
| `cashflow`: `Entries`, `Items`, `Dues` | 2, 2, 2 | an entry before and one after a snapshot; two plans for one entry; a bill and its instalment |
| `MonthEnd`, `Window` | 2, 2 | a day before, at and after the end of the month, an overdue event, and the next month's target |
| `UserRuns`, `StopRuns` | 1, 2 | one tree of runs, which the stages of the order and two attempts of each wakeup bound; the root or its first child is stopped |
| `Reached` | paid, closed, asked, decided | an end of the purchase by either way, and two events of a change |
| `Owners`, `Runs`, `Calls` | 2, 2, 2 | two runs of one owner or of two, which share the ceiling; a call that waits for the settlement of another |
| `MaxCost`, `Costs`, `Ceiling` | 2, 1 and 3, 4 | a call that costs less and one that would cost more than was reserved, a ceiling that two reservations reach |
| `consumer_agent`: `MaxVersion`, `Drafts` | 2, 1 | a commit at any point between the reading of a basis, the comparison, the reads and the INSERT of a draft; drafts share nothing |
| `legacy_plan`: `Items`, `Limits`, `MaxProposals` | 2, 3 and 9, 3 | a limit for one item and one for both; a purchase and two changes of it, which may be confirmed side by side |
| `legacy_plan`: `MaxVersion`, `MaxRuleVersion`, `Pauses`, `Rechecked` | 3, 2, two sets, one operation | a renewed purchase; a changed rule; one or both items paused; a recheck adds a task and nothing else |

Symmetry: `purchase_admission` permutes assessments, intents and the two items of this
month, `request_gate` its two writes, `cashflow` entries and items, `consumer_agent` its
runs. No definition tells them apart, and none of these runs has a liveness property.

The theorems do not depend on these values.

## 6 Fairness

* Worker steps are weakly fair: `worker.ts` runs `tick` every second, a process
  that stops is started again, and `claimNextJob` returns the job that is due first
  (`next_run_at, created_at`). In `JobLease` each operation is claimed fairly, in
  the order modules each job is processed fairly, which is `EveryJobCompletes`. In
  `BudgetPlan` it is each batch of a simulated refund, with whichever of its two results
  (`RefundBatch \/ RefundQuestion`): fairness does not make it succeed.
* Time passes: a lease that is not renewed runs out, a back-off elapses. In `AgentRun`
  a run's deadline passes and the rate limit refills, and `worker.ts` asks for a
  wakeup again and again; the process of a run owes nothing and may have crashed.
* In `SandboxTrade` the channel repeats the report of a payment until it is
  acknowledged; this is the documented behaviour of the channel, and only
  `PaymentLearned` needs it.
* Nothing else is fair: the buyer, the consumer, the merchant, the date and the
  outcome of the channel owe nothing, and no fault has to happen.

## 7 Proofs

TLAPS proves 16 915 obligations in eight modules, for every value of the constants
that satisfies the assumptions of the component's module. Every safety invariant and
every action property of the runs is stated by a theorem.

| Module | Component and assumption | Theorems |
|---|---|---|
| `AtMostOnceProofs` | `JobLease`, `QueueAssumption`: channel operations are operations, bounds are naturals, no claim is a record | `NothingTwiceAlways`, `QueueConsistentAlways` and one for each part of them, `LedgerRefined` |
| | `RequestGate`, `GateAssumption`: each write has a slot, no name is `None` | `GateSafeAlways`, `SignedOutIsRevokedAlways`, `OnceRefined` |
| | `SimulatedOrder`, `OrderAssumption`: price, fee and rule versions are positive | one for each of the safety invariants and their parts, `SettledIsFinalAlways`, `MoneyRefined` |
| `SandboxProofs` | `SandboxTrade`, `TradeAssumption`: bounds are naturals | `OrderFollowsChannelAlways`, `DecidedIsFinalAlways` |
| | `SandboxRefund`, `RefundAssumption`: batches are positive and fit the price, enquiries are not numbers | `RefundTellsOneStoryAlways` and one for each part, `SettledStaysAlways` |
| `PurchaseAdmissionProofs` | `AdmissionAssumption`: finitely many periods, items and intents, prices and estimates are positive, targets and balances naturals with a least and a largest | `IntentHoldsItemAlways`, `BasisIsCurrentAlways`, `ConfirmedAsShownAlways`, `ConfirmKeepsBudgetAlways` |
| `BudgetPlanProofs` | `PlanAssumption`: finitely many items, amounts that are naturals and have a largest, a price above the fee | `PlanSoundAlways`, `FrozenPlanStaysAlways`, `EditedAsShownAlways`, `AdjustmentFitsAlways` |
| `CashflowProofs` | `CashflowAssumption`: finitely many entries, items and obligations, amounts of entries are not zero, those of plans and orders positive | `CashIsBankAlways`, `ReviewAddsUpAlways`, `DayByDayAlways`, `ForeseenOnceAlways` |
| `AgentProofs` | `ConsumerAgent`, `ConsumerAgentAssumption`: finitely many runs, costs are naturals | `AssistantsSoundAlways`, `EndsStay` |
| | `AgentRun`, `AgentRunAssumption`: bounds are naturals, stages are stages | `AgentSoundAlways`, `StoppedStaysStoppedAlways` |
| `LegacyPlanProofs` | `LegacyAssumption`: finitely many items, prices and the fee are positive, the rule a plan starts with fits its price | `LegacySoundAlways`, `ShownMoneyAlwaysAgrees`, `RefundsAlwaysAddUp` |
| `FiniteSums` | none | lemmas only |

Each component has an inductive invariant (some have a second one that rests on it),
with a lemma per action (or per group of actions that disturb the same part) and one
theorem per property.

**Queue.** The safety properties are not inductive: that two workers never pass
the fence depends on what the claims carry. `ClaimsOrdered` says that a claim's
version was handed out by the row and that no two claims on one job carry the same;
the fence compares with the row's current version, so at most one claim can pass.
`FreshIsUnique` says the same for the right to send: the transaction that finds
`sent_at` null is the only one that may send, and nothing was sent before it. The
refinement maps the two rows to a ledger entry, open while the job is in the queue;
`StepRefines` shows that each step maps to a step of the ledger or to nothing.

**Simulated order.** `RefundsAgree` needs to know that two requests never have
batches: `OneClaim` says that at most one request is active *or completed*, which is
stronger than what the confirmation checks (it looks for active ones only) and holds
because a completed request has returned money and a confirmation needs an order
without a refund. That is why `PlansFollowRequests` must add that every batch is
positive. `RequestsFollowPreviews` ties a request to the rule that was shown.
`RuleFacts` proves the arithmetic: two batches share the refund without loss.
`MoneyRefined` maps the posted payment, the item and the refund events to
`OrderMoney`; a step that returns money needs the bound of `RefundsAgree`.

**Sandbox payment.** What is on its way to the order, a notification, an answer to the
consumer's enquiry or to the worker's, was read earlier. `SeenIsTrue` says that it is
still true of the channel: "was ever paid" and "is closed" are stable, so that a late
report never makes the order claim something the channel did not do.

**Sandbox refund.** An answer is trusted because of what was true when it was
seen: `ClaimsKnow` says that a call that saw a return is about a refund number that
is still returned, and that only an operation that exists is worked on.
`BatchesArePlanned` ties batches and operations to the plan. With them each
conjunct of `RefundBookedOnce` is preserved by `ConfirmBatch`, whoever runs it, and
left alone by a late worker whom the fence drops.

**Purchase admission.** `IntentHoldsItem` is about pairs of intents and their item. The
invariant follows an intent through its life: one that is being created or proposed,
and has not expired, has its item planned, without a link, at the estimate that was
assessed (`Live => Held`), and of the intents of one item that are created, live or
ordered there is one (`OneKeeper`). `UsedIsMade` and `AssessmentKnown` say which
assessments an intent may come from. Steps that let nobody reserve an item share one
lemma, `QuietInv`.

The other three theorems rest on a second invariant, `FactsInv`. Its `SeenKnown` says
what an assessment may be relied on for: its versions are never ahead of the rows; while
it is being made, its target is that of its period's version; once it is made, what it
has read is what both versions stand for. `FactsFollowVersions` is the reason: a step that
changes cash or orders raises the account's version, one that changes status, target or
an item raises the period's, and no version goes down, so that an assessment that read
facts of two moments has versions that never return. `ConfirmedAsShown` follows from the
comparison of the versions and from `Held`. `ConfirmKeepsBudget` is about sums: a purchase
adds its order to `Committed` and takes its item out of the plan (`OrderReplacesPlan`), so
that what is left is what the last forecast found (`HeadroomKept`).

**Sums.** `FiniteSums` proves what the other modules need of a sum over a finite set
without the induction theorems of the library: of the subsets for which the order of the
summands would matter, one is smallest (`SmallestSet`), and it cannot be (`AnyOrder`,
`SumsAgree`). From there: one summand changes (`SumUpdate`), the terms are split into two
sums (`SumOfSums`), the set into parts (`SumOfParts`) or classes (`SumByClass`), zeros are
left out (`SumSkipsZeros`), the terms are renamed (`SumRenamed`).

**Budget plan.** An adjustment is confirmed long after it was assessed. `BasisKnown`
says that what a page or a proposal has read is never ahead of the rows, and that, if
the versions it read are still those of the rows, the items it is about are still as
they were, because whoever changes an item raises the period's version. With `Once` (at
most one request of the order runs, at most one pays, and a completed one means a
cancelled order) and `FormKnown` (the batches left fit the price, and are there exactly
while a refund is processed) every action keeps `PlanSound`. `Frozen`, the step form of
`FrozenPlanStays`, follows for each action from its guard on period and account.
`EditedAsShown` rests on `ShownHolds`: the effect a page shows is still that of its
change while the versions it read are the rows' and the month runs, since whoever
changes the cash, the target, a status or an item raises a version
(`FactsFollowVersions`). The sum over the plan is never expanded: a step that leaves
its summands alone leaves the sum alone. `AdjustmentFits` needs the sum: only a
confirmation adopts an adjustment, and after it the plan comes to what it came to without
the dropped items, as the option was assessed, and the new expense (`ConfirmFits`, by
`SumUpdate`). The versions, which the confirmation compares, make that the assessment of
the current plan.

**Cash flow.** The invariant says what the rows are of one another: `Postings` (an entry
is posted before it is reported, a link is of a reported expense, by a part of its
amount), `Observations` (no snapshot is ahead of the bank), `PlansCovered` (what is linked
to a plan is at most its estimate, and a covered plan is open), `OrderFits` and `DueFits`
(the item of an order waits for it or is settled, what is paid was due by itself).

* `ReviewAddsUp` compares the difference of two sums in the review with the sum of the
  differences; the links by item and the links by entry are one sum taken in two ways
  (`SumByClass`).
* `CashIsBank` splits what has been seen into what the snapshot covers and what was posted
  after it (`SumOfParts`); a newer snapshot moves entries from one to the other.
* `DayByDay` is about a recursive function of the day. The induction over the days is
  proved for a set of days, from the least number at which it would fail
  (`IntervalInduction`), and so is the existence of the function (`RunExists`). `DayIs`
  carries the balance, the least headroom and the unknown days up to a day; a second run
  with the expected income is never poorer (`RicherStep`, `IncomeOnlyAdds`).
* `ForeseenOnce` compares two states, but rests on an invariant: what the month is
  foreseen to end with, together with what was spent outside the plan, is the opening
  balance less the order, the open plans and the obligations of the month, whatever of
  them has happened (`Foreseen`). `EventsSplit`, `ItemsSplit`, `DuesSplit` and
  `UnforeseenIs` take the two sides apart; a step that keeps the plan keeps the right side
  (`FixedKept`). The proof showed one thing the run did not: an obligation that is paid
  early and falls due after the end of the month was never part of the month's forecast,
  so that its payment is unforeseen.

**Request gate.** `ServerKnown` says that only an ended request has an effect, and that
its effect is the stored record of its key with the same payload. The lock is not
needed for one commit per key, since record and effect are one transaction; it only
keeps the second request waiting instead of failing. `ClientKnown` says that the keys a
client keeps are distinct and that an unanswered key is among them, `HolderKnown` that
who was told he is signed out holds no live session. The refinement follows from them.

**Planning assistants.** `AssistantsSound` is inductive together with what a process
knows of its row: the call it waits for, or whose settlement is on its way, is the last
one of the run and reserved (`CallKnown`), and what it saves it has read
(`ProcessKnown`). `DraftsAssessed` is no part of the invariant: between its comparison and
its INSERT a draft may hold facts of any later moment. `DraftKnown` says that they are no
older than the versions it names and no newer than the owner's; if the two are the same,
so are the facts (`Assessed`). It needs that versions never fall (`DraftsKept`). `CallsPaid` counts reservations with a cardinality, which a step
changes by one at most. `EndsStay` says that a run that has ended is never revived.

**Assistant of a plan.** `AgentIInv` describes a tree of runs whose sequence only grows:
a run is the owner's or an attempt at a wakeup of an earlier run (`Family`), a wakeup
knows its last attempt (`Handed`), the earlier ones are over and watch nothing
(`InTurn`), and what one of them watched the last one watches, unless there is nothing
left to watch or it was stopped (`Followed`), which needs that who watches knows the
stage the order is at (`Watched`). `Halted` makes what was stopped closed under
"continues": the branch of a run is a recursive set, of which the proof uses that it is
the least set with the run and the children of its members.

**Older plans.** Two invariants. `LegacyIInv` follows a line from the proposal that froze
it to what is done: only a proposal that is carried out has operations and requests, each
from a line with that intent and with its amounts (`ChangeKnown`, `RequestKnown`), an
order is from a confirmed purchase and closed exactly by a close that succeeded
(`OrderKnown`), and one request of an order at most is active (`OneActive`). `MoneyIInv`
adds the money: the prices held are within the limit (`WithinLimit`), the second batch of
a request follows a first that succeeded, and its status is that of its batches
(`BatchesFit`), what waits for a person has its task (`TaskKnown`), and of the requests of
an order that were not rejected there is one, whose batches are what the order returned
(`OrderAddsUp`). The sums on the page of a plan are then sums over its items of terms that
are bounded one by one.

Only model-checked: liveness (`EveryJobCompletes`, `OrderSettles`, `CloseSettles`,
`PaymentLearned`, `RefundsSettle`, `AdjustmentEnds`, `WakeupsSettle`), which is out of the
prover's reach like ENABLED, and with it the fairness part of `ImplementsLedger`, whose
steps are proved by `LedgerRefined`.

## 8 What is not modelled

* Text, formatting, signatures, hashes, HTTP, the user interfaces and the schemas of
  `contracts`: no property here is about them.
* Row locks: transactions are atomic steps. The order in which locks are taken, and
  the deadlocks PostgreSQL breaks by a rollback, are not in any module.
* Plans of the older flow in the sandbox environment, and `simulate_refund`, the retired
  refund handler, beyond its place in the queue. What the sandbox's enquiries and
  notifications do for consumer orders is in `SandboxTrade`.
* Accounts of source `bank_api`: the models fix the demo account.
* In `PurchaseAdmission`: repayments, necessary expenses and expected income (no day
  adds money, so the lowest point is the end; `Cashflow` has them), months that are
  drafts, several links of one item, the 30-day forecast and the previews of changes,
  which store nothing.
* In `BudgetPlan`: several months at once; that the batches of one refund have different
  results (`SimulatedOrder` has it), and the result of a sandbox refund.
* In `Cashflow`: a snapshot whose `as_of` and `covered_through_at` differ; amounts per
  category; the view of one account, which is the same fold.
* In `AgentRun`: what a model says, pausing purchases, asking for a recheck, drafts that
  close an unpaid order, a second cancellation after a refused one. `next_run_at` is
  time that has passed or not.
* In `ConsumerAgent`: the rate limit (`AgentRun` has it), the tools that only read; what
  the versions of a draft do not cover, the items of other months (`PurchaseAdmission`).
* In `LegacyPlan`: items that cannot be booked, two items of one catalogue entry,
  several merchants.
* Everything `PROJECT.json` marks `not_modelled`, or names in the note of a component
  that is `partly` modelled.

## 9 Plan

What is left, the most important first.

| Subject | Content | Why it is not here yet |
|---|---|---|
| `LockOrder` | the locks each transaction takes, in order | two pairs of transactions are known to wait for each other; PostgreSQL aborts one, which is a step that does not happen here |
| Two months | creation and archive of several periods of one account, drafts in `PurchaseAdmission` | `PurchaseAdmission` has a leftover month, `BudgetPlan` the life of one |
| Sandbox plans | the older flow at the channel | no new order uses it |

Abstract specifications: the ledger of operations, the promise to the payer and the
effect of a key are stated and implemented; a free item that is committed once is
stated as the invariant `IntentHoldsItem`.

## 10 Running it

    tlc -config MCJobLease.cfg MCJobLease
    tlc -config MCSimulatedOrder.cfg MCSimulatedOrder
    tlc -config MCSandboxTrade.cfg MCSandboxTrade
    tlc -config MCSandboxRefund.cfg MCSandboxRefund
    tlc -config MCPurchaseAdmission.cfg MCPurchaseAdmission
    tlc -config MCRequestGate.cfg MCRequestGate
    tlc -config MCBudgetPlan.cfg MCBudgetPlan
    tlc -config MCCashflow.cfg MCCashflow
    tlc -config MCAgentRun.cfg MCAgentRun
    tlc -config MCConsumerAgent.cfg MCConsumerAgent
    tlc -config MCLegacyPlan.cfg MCLegacyPlan
    tlapm AtMostOnceProofs.tla    (and the other seven modules of section 7)

The configurations of section 4 run with the module of the same component, for instance
`tlc -config MCBudgetPlanEnd.cfg MCBudgetPlan`; each names the property it refutes.
