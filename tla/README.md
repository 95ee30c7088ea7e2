# TLA+ models of the gateway and its billing

This directory specifies and checks the parts of the repository in which several
actors write the same rows and in which money or availability depends on the
order they do it in: a request's way through the gateway, the ledger of the paid
hot path, the health status of a provider key, and, in the control plane, ledger
adjustments, vouchers and credit grants, payment captures and refunds, and the
subscription scheduler. The modules are translated from the Rust sources and the
SQL in them; docs are quoted only where a run shows that the code does something
else.

## 1. Inventory

### Components

| Component | State | Operations | Talks to |
|---|---|---|---|
| Gateway request handlers (`apps/gateway/src/main.rs`: `chat_completions`, `responses`, `embeddings`, `anthropic_messages`, the native Gemini endpoint) | local variables of the handler; rows `request_logs`, `provider_attempts`, `virtual_keys`, `provider_keys` | admission, pre-authorization, virtual-key limits, the loop over `attempt_routes`, closing sequences | database calls one at a time, one upstream call per attempt |
| Streaming (`apps/gateway/src/streaming.rs`, `crates/stream`) | `ForwardStreamState`, `StreamProgress`, the `AtomicBool` claim | the same loop, forwarding of events, finalizer (spawned), `Drop` | the HTTP server drops the body |
| Paid hot-path ledger (`apps/gateway/src/db.rs`, `crates/billing-ledger/src/pre_authorize.rs`) | `ledger_entries`, `wallets`, `credit_grants`, `budgets` | reserve, release, settle, refund, balance reads | called by the handlers and finalizers |
| Provider-key health | `provider_keys.status`, `cooldown_until` | runtime update after an attempt, recovery probe (`apps/worker`), admin patch, recovery, rotation, deletion (`apps/control-plane`) | all through the row, each with its own read and write |
| Ledger adjustments (`apps/control-plane/src/admin.rs`; `ledger.rs`, `writer_contract.rs`, `postgres_execution.rs` of `crates/billing-ledger`) | `ledger_entries`, row locks, the persistent cutover state, audit rows | execute a refund or adjustment with the legacy or the runtime writer | database transactions, up to three per call |
| Vouchers and credit grants (`admin.rs`) | `voucher_issuances`, `voucher_redemptions`, `credit_grants`, `ledger_entries` | issue, redeem, revoke, batch revoke, grant, expire, void | one transaction each, with an advisory lock on the key |
| Payments (`admin.rs`, `crates/billing-ledger/src/payment_provider.rs`) | `payment_events`, `payment_captures`, `payment_orders`, `payment_refunds`, `payment_reconciliations`, grants and ledger entries | webhook, local executor: capture, refund, chargeback | the provider redelivers, the operator retries |
| Subscriptions (`admin.rs`, `crates/billing-ledger/src/subscription_scheduler.rs`, `apps/worker`) | `subscriptions`, `subscription_events_or_schedules`, grants, orders | plan, run due, execute one; renew, payment failure and dunning, expire, prorate | the worker polls, operators execute by hand |
| Virtual-key windows, provider-key reservations (`db.rs`, `crates/db/src/rate_limit_reservation.rs`, `crates/routing/src/rate_limit.rs`) | counters in `virtual_keys` and `provider_keys.current_window_state` | acquire and release of concurrency, requests and tokens | called by the handlers |
| Routing (`crates/routing`) | none | candidate filter, selection, error classification | called by the handlers |
| Rest of the control plane (`admin.rs`, `auth.rs`, `rbac.rs`, `user_auth.rs`) | admin rows, sessions, audit log | CRUD, login, RBAC, readback documents | database |
| Rest of the worker (`billing_reconciliation.rs`, `alert_webhook.rs`, `clickhouse_log_store.rs`) | reports, export positions | reconciliation reports, alert webhooks, log export | database, HTTP |
| Adapters, token estimates, observability, configuration, admin UI, scripts | none, or only what they render | translation and formatting | — |

### What is hard here

* Every gateway handler is a sequence of awaited calls. Other requests run
  between any two of them, any call can fail, and the handler can be dropped (the
  client hung up) or die with the process. No job repairs what such a handler
  leaves: a pending reserve, a slot, a lease, a log row in status `started`.
* The errors of closing calls are logged and nothing else; the next call of the
  sequence is made all the same.
* The paid opt-in is read again by every pre-authorization, and a failed read
  counts as "not paid".
* A stream has two possible finalizers, its own end and `Drop`, which an atomic
  flag separates.
* A provider key's row is written by four kinds of actors that decide on what
  they read, or learned, earlier. Only `manual_disabled` and `deleted` are
  protected, by a condition in some of the statements.
* An adjustment may be written by either of two writers. One decides and inserts
  under one lock; the other decides on a snapshot, rolls back, and inserts in a
  second transaction, with the opposite lock order and the audit row in a third.
* A voucher's last use, its revocation and a repeated redeem meet in one row; the
  advisory lock on the key and `FOR UPDATE` order them, and behind those two
  constraints of the tables fail what they let through.
* A refund is a series of statements without a transaction, so a crash leaves any
  prefix and a retry, if there is one, has to go on from it. Repeats are told by
  hashes that differ between the webhook and the operator's executor.
* A scheduler event is executed by whoever comes first, from a list that was read
  earlier, and its retries are new events with keys of their own.

`PROJECT.json` lists these as hazards at their lines, with the properties that
would notice.

## 2. Modules

| Module | What it is |
|---|---|
| `WalletLedger` | the three ledger rows a request can own, the statements that write them, the balance that sums them |
| `GatewayRequest` | the handlers, streams and finalizers, composed with `WalletLedger` |
| `ChargeContract` | abstract specification: what a customer is promised about the money of a request |
| `ProviderKeyHealth` | one provider key and its writers |
| `LedgerAdjustment` | admin refunds and adjustments, both writers |
| `VoucherCredit` | vouchers, redemptions and credit grants |
| `PaymentProvider` | webhooks and executor: captures and refunds of one payment |
| `SubscriptionScheduler` | subscriptions, their events, the worker and the operators |
| `MC...` | instances of each for TLC |
| `GatewayRequestProofs`, `ChargeProofs`, `CapacityProofs`, `ProviderKeyHealthProofs`, `LedgerAdjustmentProofs`, `VoucherCreditProofs`, `PaymentProviderProofs`, `SubscriptionSchedulerProofs` | theorems |

### WalletLedger

`reserve[r]`, `settle[r]` and `refund[r]` stand for the request's rows; their
idempotency keys are functions of the request (the refund's of the settle row)
and unique, so there is at most one of each. `Available(p)` is the balance
window of `PRE_AUTHORIZE_WALLET_BALANCE_SQL` and of the reserve's insert: credit
minus pending reserves of the *wallet* minus settles of the *project*, because
reserve rows carry the wallet id and settle rows do not. `InsertReserve` is one
serializable transaction; `InsertSettle` inserts the settle and reverses the
pending reserve together; `InsertRefund` refunds what is left of a settle.

### GatewayRequest

`pc[r]` is the call the handler makes next; `plan[r]` is the closing sequence it
has entered and `After` the order of the calls in it:

| plan | entered by | calls |
|---|---|---|
| `abort` | a refusal before there is an attempt, or an attempt row that cannot be created | (release lease,) finish log, release reserve, release slot |
| `fail` | a failed last attempt | release lease, finish attempt, finish log, release reserve, release slot |
| `fallback` | a failed attempt with a route left | release lease, finish attempt, next route |
| `success` | an answer | finish attempt, finish log, settle, release slot |
| `completed` | a stream that ended with its success event | finish log, settle, finish attempt, release slot |
| `ended` | any other end of a stream, and `Drop` | release lease, release reserve, finish log, finish attempt, release slot |

The five handlers share the loop. Only chat takes virtual-key limits and the
pre-authorization before them (`Chat`). A success keeps the lease of its
provider key, as the code does. `Arrive` lets any subset of the provider keys be
selectable, which stands for their health; `AcquireWindows` lets the per-minute
limits grant or refuse. `Fault` is a call that fails; for the calls that acquire
something both outcomes are possible, the statement took effect or it did not.
`Disconnect` drops one handler, `Crash` all of them.

Abstractions: an active price version exists and is billable; each project has
one budget; every request reserves `ReserveAmount`; statuses `rejected` and
`failed` are one; provider traffic is an answer, an error that allows a
fallback, or one that does not.

### ChargeContract

The money of a request is `free`, `held`, `returned`, `charged` or `refunded`.
It is held at most once, a hold ends as one charge or one return, a charge has
one amount and is refunded at most once. `GatewayRequest` implements it under
`MoneyOf`, which reads the state from the three ledger rows.

### ProviderKeyHealth

Time is what `cooldown_until` is compared with: unset, future or past. An
attempt selects the key, opens it, gets its answer and writes the status in four
steps; a probe is listed, runs and persists in three; an admin request reads in
one and writes in another. A rotation is accepted for an `enabled` key only, a
recovery for one in `cooldown`, `degraded` or `recovery_probe`.

### LedgerAdjustment

One call is one `execute_ledger_adjustment`. `pc` is its place; `entryLock` and
`walletLock` are the rows it holds `FOR UPDATE`; `entries` are the rows written
with their key; `sums` is what the queries over confirmed rows return. The steps
are the points at which another transaction can intervene: `Begin` locks the
entry, `LockWallet` the wallet, `Replay` and `RefuseOverRemaining` answer,
`CheckLegacy` and `CommitLegacy` are the legacy writer, `PlanRuntime` takes the
snapshot, rolls back and plans, `WriterLockWallet`, `WriterLockRows` and
`WriterCommit` are the runtime writer's transaction (whose conflict clause finds
a row with its key), `WriteAudit` its audit transaction. The writer locks the source
row for a refund only. `SwitchWriter` is the operator's cutover, `Fail` a failed
statement in any open transaction, `LoseAck` a commit that took effect and whose
acknowledgement is lost; what the runtime writer does not see committed is answered
`not_committed`, the 409 of the code. `DeadlockAbort` what Postgres does when two transactions wait for each other. A
retry is another call with the same body. Amounts are small integers, one wallet,
one project, one currency; `Booked` and `balance_window` add as the code does.

### VoucherCredit

A request (`job`) takes the advisory lock of its key (`LockKey`, or `AnswerByKey`
when the key has a row), then its rows (`LockRows`), and commits one of the
operations or a refusal. `seen` is the voucher as it was read; `held` the row
locks. `ExpiresAt` lets the clock pass a voucher's `expires_at`; a transaction
keeps the time at which it began (`late`), as `now()` does. Revocations have no
key, as in the code. `lookup` says how the redeem's search for its key is written:
`"written"` is the statement of the source, which names a column both joined tables
have and locks the nullable side of a left join, so that Postgres rejects it and the
redeem ends in an error (`LookupRejected`); `"qualified"` is the same statement with
its columns and its lock qualified, the redeem the rest of the code is written for.
The run and the proofs cover both. `TableAccepts` are the constraints of the tables
that would fail a redeem at its commit.

### PaymentProvider

A delivery carries a body through `Receive` (signature, deduplication, kind of
event), then either the capture, one transaction (`CaptureCommit` or
`CaptureWritesNothing`), or the reversal plan: `FindRefund`, `InsertRefund`,
`MarkOrder`, `BookReversal`, `LinkReversal`, `VoidGrant`, `Reconcile`, each a
statement that commits alone. `Crash` stops a delivery before its answer, `Resend`
repeats it under its next attempt; nothing forces it to. Captures, grants and entries
are named by the try (delivery and attempt) that inserted them, so that two rows for
one message are two rows. `IdempotencyHash` is the key that was sent (the executor's
always, the webhook's if its body has one) or else one made from the `payment_events`
row, which is new on every delivery. `HashAssumption` says that events and keys are
hashed per path, so that a webhook and an executor request never share one.
`EndGrant` is the lifecycle endpoint, which expires or revokes the capture's grant.

### SubscriptionScheduler

An event is named by its idempotency key: subscription, type, tag (effective
time, `now`, or the number of a retry) and target plan, so that inserting one
that exists changes nothing. `PlanRequest` reads the subscription and fills
`todo`, `InsertEvent` inserts one event per statement. `RunDue` (worker, with the
filter of its command line, `scheduled` by default), `OperatorRunDue` (any filter and
mode) and `ExecutePlan` (one event, due or not) fill `list`; then each event is one transaction:
`LockEvent`, followed by `SkipEvent`, `CloseEvent` (modes refuse and replay) or
one of the `Apply` actions. `FailRenew` is the check constraint that rejects the
renewal of a `one_time` plan. What an event wrote elsewhere (grants, ledger
entries, orders) is kept in its row. Time is a small counter. `Daemons` are the
workers that were started with `--interval-seconds` and no `--max-runs`, which run
for ever; any other worker stops after its runs (one by default).

## 3. Runs

| Run | Expect | Shows |
|---|---|---|
| `limits` | pass | Two chat requests (one streams) on one slot, one lease and a fallback route; one failing call, one dropped handler, one change of the opt-in. `TypeOK`, `SlotsCounted`, `SlotsReturned`, `LeasesCounted`, `PaidCallIsReserved`, `ChargedOnlyForSuccess`, `ReserveReturned`, `DoneIsLogged`. |
| `wallet` | pass | Three requests on a wallet that covers two: `WalletSolvent`, and `ImplementsContract` as a refinement. |
| `live` | pass | Under fairness: `Finishes`, `StreamFinalized`. |
| `key_writers` | pass | Two attempts, a probe, two admin requests: `TypeOK`, `WithdrawnStays`, `CooldownEnds` (of a cooldown that has an end). |
| `adjust` | pass | Three calls with partial refunds and adjustments of two debits, one cutover, one fault or lost acknowledgement, crossing lock orders: `TypeOK`, `RepeatsAgree`, `AnswerMatchesLedger`, `LegacyRefundWithin`, `CallsEnd`. |
| `vouchers` | pass | Three requests, two vouchers, reused and fresh keys, revocations, a grant, its expiry and its revocation, one fault, a voucher that expires, with the redeem's lookup as written and qualified: `TypeOK`, `RedemptionLimit`, `RevokedStays`, `FinalStays`, `RequestsEnd`. |
| `payments` | pass | Three deliveries by webhook (with and without a key) and executor, one crash anywhere, grants expired and revoked: `TypeOK`, `CapturedOnce`, `RefundBookedOnce`, `AnsweredRefundHolds`, `EndedStays`. |
| `subscriptions` | pass | A worker with an interval and an operator on one subscription that renews, fails, is dunned, expires and changes plan; one fault: `TypeOK`, `CreditOnce`, `ClosedStays`, `RetryPending`, `AttemptsBounded`, `DueEventsSettle`. |
| `late_error` | violation | The error of an attempt that began before a 429 is written after it and ends the key's cooldown before its Retry-After. |
| `refund_race` | violation | Two refunds planned by the runtime writer on one snapshot are both booked: more than the debit is refunded. |
| `refund_credit` | violation | After a completed refund the credit can still be spent. |
| `failed_event` | violation | The renewal of a `one_time` plan fails for ever, stays first in the list, and the due events of other subscriptions wait for ever. |

Each violation quotes, under `findings`, the line it contradicts. Every property
of a passing run has a mutant in the module it is about, a plausible bug that
makes TLC report the property.

**Bounds.** `MaxFaults`, `MaxDrops`, `MaxToggles` and `MaxCrashes` bound the
environment; one of each is enough to reach every error path. In `limits` the
counters they disturb are compared with sets of holders, so a second disturbance
of the same kind adds no new case. Two requests are the smallest number that
compete for a limit of one; the wallet needs a third, so that one is refused while
two hold. Two provider keys give a fallback. `Costs = {2}` against a reserve of 1
lets a request cost more than it froze; in `wallet` no cost exceeds the reserve,
which is the condition under which the wallet stays covered. `adjust` has refunds
of 3 and 2 on a debit of 4, so that each fits and both do not, and a third call,
so that a retry meets a race. `vouchers` has a voucher with two uses and three
redeems. `payments` has three deliveries: a capture, its refund, and a duplicate
of either. `subscriptions` has a dunning policy of two attempts (the code's three
only lengthens the chain) and enough time for the period, the grace and two
retries. `limits` has 2.7 million distinct states, `wallet` 0.6, `live` 0.3,
`key_writers` 0.3, `adjust` 0.5, `vouchers` 0.24, `payments` 0.7 and
`subscriptions` 0.4 million.

**Deadlock** is not checked: a run ends when all requests are done. That nobody
waits for ever is what `Finishes`, `CallsEnd`, `RequestsEnd` and `DueEventsSettle`
say.

**Fairness.** All of it is weak fairness of a handler's own steps: the runtime
polls a ready future, awaited calls have timeouts, a lock that is free is granted
to a waiter. Arrivals, streams that go on, disconnects, crashes, faults and
switches are not fair; only in `LedgerAdjustment` are the `Calls` requests that have
been sent, which at `new` wait for the lock on their entry. There the deadlock
detector of Postgres is fair as well; without it `CallsEnd` fails, because the two
lock orders cross. `PaymentProvider` has no fairness: nothing in the code repeats a
delivery that was cut off, so nothing is claimed about when a refund is finished. In
`SubscriptionScheduler` transactions that have begun run on, and only a worker with an
interval and no limit of runs polls for ever (its loop backs off after errors and never
gives up); `DueEventsSettle` needs one and speaks of the statuses its filter names.
`FairSpec` of `ProviderKeyHealth` only lets the clock go on.

`SlotsReturned`, `WalletSolvent`, `ReserveReturned` and `DoneIsLogged` are stated
for behaviours without faults (and the first without drops): with them the code
leaks, by design of its error handling, and nothing recovers the rows.

### Observations

Met while modelling; each can be read off the modules, no run of its own is kept
for them.

* Gateway: the second pre-authorization of a chat request counts the request's own
  reserve (`main.rs:1281`, `db.rs:563`), although `docs/07_BILLING_LEDGER_SPEC.md:112`
  allows repeated calls. Settles have no wallet id, so two projects that share a
  wallet can overdraw it (`db.rs:568`). A success without a rating leaves its
  reserve pending (`main.rs:10152`). A client that hangs up after the final event
  is logged as cancelled and not charged (`streaming.rs:2757`).
* Provider keys: a failed probe, or an admin patch, can leave a key in `cooldown`
  without `cooldown_until` (`repository.rs:2190`), and it is not selected again; an
  admin patch writes the status it read over another operator's disable
  (`admin.rs:16065`); a recovery overwrites an `auth_failed` that came in after its
  validation (`admin.rs:16111`).
* Ledger adjustments: the runtime writer's audit row is a transaction of its own,
  although the contract says `audit_insert_failure_rolls_back_ledger_write`; its
  idempotent replay writes another audit row; the two writers use different keys,
  so that a retry across the cutover books an adjustment twice. A runtime commit whose
  acknowledgement is lost is answered 409 with `"ledger_write": false`
  (`admin.rs:33640`) although the entry is there. The runtime writer looks for a
  repeat only after the refund check, so a repeat may be refused as over-refunding.
* Vouchers: as written, `get_voucher_redemption_by_idempotency_fingerprint_tx`
  (`admin.rs:24357` with the select of `24595`) cannot be executed by Postgres, so every
  redeem fails after its advisory lock (`LookupRejected`). A redeem inserts both an active grant and a confirmed `credit_grant`
  entry and the balance adds both; expiring or voiding a grant writes no entry, so
  the entry's share stays spendable.
* Payments: `payment_intent.succeeded` and `charge.succeeded` both capture, and so do
  an operator's capture and the webhook of the same payment (their event hashes are in
  different namespaces, `admin.rs:26236` and `27204`), so the two messages of one
  payment credit twice. A redelivered capture webhook ends in the unique violation
  (500). A redelivered refund webhook without a key writes another refund and entry.
  A retry that is answered as replayed repairs neither the order (`refunded`) nor the
  reconciliation row, and a refund found by its key is not compared with the capture
  the request names, whose grant is voided. A refund that was cut off stays without its
  entry unless somebody sends it again with the same key. A capture after a refund sets
  the order back to paid.
* Subscriptions: a renewal executed after the expiry still grants its credit; stale
  dunning and expire events still change the status after a renewal
  (`admin.rs:40070`); retries are counted over all periods; the key contains the
  target plan for every type, so a renewal with a target schedules a second renewal;
  proration sets an expired subscription to active; a worker with the default filter
  never takes up replayed events; a refused retry leaves
  `payment_failed` with no next step (`RetryPending` says so).

## 4. Proofs

TLAPS proves, for any finite set of requests, any keys, limits, amounts, bounds:

* `TypeCorrect` (`GatewayRequestProofs`): one lemma per group of variables, with
  a step for each action that writes the group.
* `ChargeInvariant` (`ChargeProofs`): `ChargeInv` is inductive together with
  `TypeOK`. `ChargedOnlyForSuccess` is not inductive by itself: one has to know
  that a handler at `settle` follows `success` or `completed`, one at
  `release_reserve` one of the other plans, that after either the money is not
  touched again, and that an unclaimed body belongs to a handler that is
  streaming (otherwise `Drop` could restart a closed sequence). The proof
  separates the request that steps (`OwnStep`, a case per action) from the
  others (`OthersUntouched`, `ViewDetermines`).
* `ChargeSafe`, `PaidCallsReserved`: `ChargedOnlyForSuccess` and
  `PaidCallIsReserved` from it.
* `GatewayImplementsContract`: the refinement; each of the four ledger actions
  is the contract's step or a stutter, everything else a stutter.
* `ReservesComeBack`, `DoneRequestsLogged`: `ReserveReturned` and `DoneIsLogged` say
  what is true at `done`; `DoneInv` says for every call of a closing sequence what the
  calls before it have written (log row, attempt row, money) and which attempt may
  still be open. It also needs that only the plans `abort`, `fail`, `fallback` and
  `ended` pass `release_pk`. It holds as long as no database call failed (`DoneInvs`),
  whatever is disconnected or crashes.
* `WalletsStaySolvent`: `WalletSolvent` under `Prepaid`, the hypothesis that every key
  is opted in and stays so, that no two projects share a wallet, that no response costs
  more than the reserve and that no wallet starts below its floor. The wallet run is an
  instance of it; without the second the code does overdraw a wallet (`NetSpend`
  counts a settle row for its own project only), and without the third the charge
  may be larger than what was frozen. `WalletInv` is inductive with `ChargeInv` and
  `DoneInvs`: every request that calls a provider pays (`PayInv`), one that owes a
  settle still has its reserve pending, so each settle frees at least what it debits;
  and a reserve is inserted only into a balance that covers it (`Covers`). TLC checked
  `WalletInv` on the wallet instance first. The balance is a sum over requests
  (`SumFunctionOnSet`); what such a sum does when one summand changes (`SumChange`) is
  proved in the section "Sums", from the definition of the library's fold, by taking a
  smallest set that contradicts it (`LeastNatural`, `FoldInduction`).
* `SlotsAreCounted`, `SlotsComeBack` (`CapacityProofs`): what a step does to the
  holders of a slot is one of five effects (`SlotEffect`), and each keeps the
  cardinality of the holders and the counter in step.
* `LeasesAreCounted` (`CapacityProofs`): the same for the reservations of provider
  keys (`LeaseEffect`). The invariant adds that a handler that asks for a lease has
  none (`NoLeaseYet`): a fallback gives its lease back before the next route, otherwise
  the holder would move to another key's counter together with `route`.
* `KeyTypeCorrect`, `WithdrawnKeysStay` (`ProviderKeyHealthProofs`): an auxiliary
  invariant says that whoever will write has read something to write.
* `AdjustTypeCorrect`, `LegacyRefundsWithin`, `AnswersMatchLedger`
  (`LedgerAdjustmentProofs`): the invariant says that a call between the wallet lock
  and its commit holds the wallet (`WalletHeld`), so that what `CheckLegacy` found is
  still true at `CommitLegacy` (`CheckHolds`). `Progress` relates places to answers.
* `RepeatedRequestsAgree` (`LedgerAdjustmentProofs`): `OneWriter` says that until the
  first switch one writer books everything, that its key is unique, and that a call was
  refused only because its request is invalid or the source was used up by then; credits
  only grow, so the request cannot be booked later.
* `VoucherTypeCorrect`, `RedemptionsLimited`, `RevokedVouchersStay`, `FinalStatesStay`
  (`VoucherCreditProofs`): row locks exclude each other (`RowsExclusive`), therefore what
  a holder has read is current (`ReadsCurrent`); for keys, two requests past the advisory
  lock have different fingerprints (`KeysExclusive`).
* `PaymentTypeCorrect`, `MessagesCaptureOnce`, `RefundMessagesBookOnce`,
  `AnsweredRefundsHold`, `EndedGrantsStay` (`PaymentProviderProofs`): `Kept` is what
  no step undoes (rows, links, ended grants); given that, what a delivery knows at
  each statement survives the steps of the others, and only its own steps need a case
  each.
* `SchedulerTypeCorrect`, `CreditGivenOnce`, `ClosedEventsStay`
  (`SubscriptionSchedulerProofs`): whoever executes an event holds its subscription
  (`LocksHeld`) and has seen its present status, so an event is closed once.
* `RetriesPending`, `AttemptsAreBounded` (`SubscriptionSchedulerProofs`): `RetryInv`
  adds the numbering of the chain (`RetryNumbers`): the retry of number m exists only
  when at least m - 1 dunning events are applied, and is applied itself only when there
  are m. So the key of the next retry is always new, or its event not applied yet, and
  an insert that finds the key taken breaks nothing. `PlannedOnly` says that requests
  never plan a retry key.

The assumptions are the named `ASSUME`s of the modules, which TLC evaluates on
every run.

Only model-checked: liveness, which is out of the prover's reach (`Finishes`,
`StreamFinalized`, `CooldownEnds`, `CallsEnd`, `RequestsEnd`, `DueEventsSettle`). Every safety property of a passing run is also a theorem.

## 5. Not modelled

The modules map a small share of the repository's Rust, and the rest is mostly of
kinds a model would only repeat:

* Contract, readback and evidence documents: most of `admin.rs`, of the
  `billing-ledger` crate and of the worker builds JSON that describes what the code
  does, or would do, and changes no row. Tests are the second large part.
* Token estimation (`tpm_estimate.rs`), adapters, prompt protection, payload logging,
  metrics, configuration and the user interface: translation and formatting without
  state that several actors share.
* Trace affinity and route scoring only change which candidate comes first. Decimal
  arithmetic of amounts is integers here.
* Reconciliation reads and reports. Alert delivery and the log export are
  best-effort HTTP calls without shared state.
* Sessions, RBAC and CRUD endpoints are single statements.
* Of the modelled parts: the minute buckets of the rate windows; the batch issue of
  vouchers (several issues in one transaction, whose advisory locks two batches may
  take in opposite orders); the recharge and storefront order flows; the scheduler's
  supervisor and lease endpoints, which write metadata that nothing reads, its
  read-only handoffs, and the limit of the due list.

## 6. Plan

1. Done: the modules, runs and proofs above.
2. Proofs: the safety half of `Finishes`, a measure of a request that every step of its
   handler decreases, which leaves only fairness to TLC; a balance theorem for wallets
   that several projects share, with the overdraft bounded by what the other projects
   have settled.
3. Rate windows: the minute buckets of virtual keys (`db.rs`) and the reservation SQL
   of provider keys with its three dimensions (`rate_limit_reservation.rs`), with
   `HasCapacity` replaced by the real statement.
4. Route selection and error classification as pure operators
   (`crates/routing/src/selection.rs`, `errors.rs`), checked against reference
   definitions; the stream's decoder and end reasons (`crates/stream`).
5. One ledger: `VoucherCredit`, `PaymentProvider` and `SubscriptionScheduler` each
   write grants and entries that `WalletLedger` only knows as credit; composing them
   would state the balance across all of them.
