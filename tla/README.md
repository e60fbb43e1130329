# BrollyZapper: specification and verification

BrollyZapper is a self-hosted Lightning wallet server in Go. It answers a
lightning address (LNURL-pay) and publishes Nostr zap receipts for what it
receives, and it lets paired apps spend a capped part of one shared LND node over
Nostr Wallet Connect (NWC, NIP-47). A second process, the guard, holds the node's
admin credential and bakes restricted ones for the server.

This directory holds TLA+ models of that program, TLC configurations that check
them on small instances, and TLAPS proofs of the properties that matter most for
every instance. The models are written from the code; paths below are relative to
the repository's root. `PROJECT.json` has the machine-readable index: which lines
each definition stands for, the runs, the hazards and the theorems.

    tlc -workers 2 -config PaymentsSafety.cfg MCPayments
    tlapm PaymentsProofs.tla

1. [Inventory](#1-inventory)
2. [Modules](#2-modules)
3. [Runs](#3-runs)
4. [What the violations show](#4-what-the-violations-show)
5. [Proofs](#5-proofs)
6. [Fairness](#6-fairness)
7. [Bounds](#7-bounds)
8. [Abstractions and assumptions](#8-abstractions-and-assumptions)
9. [Observations without a run](#9-observations-without-a-run)
10. [Not modelled, and the plan](#10-not-modelled-and-the-plan)

## 1. Inventory

The server (`cmd/brollyzapper`) is one process over one SQLite database with a
single connection, so a statement or a transaction is atomic and everything
between two of them is not. Its goroutines are the HTTP handlers, one reader per
relay and up to four workers per NWC pairing, the reconciliation loop (which also
runs the payment resolver), the invoice stream, the expiry sweep and the receipt
publisher. They interact through tables, a few channels, and the node.

| Component | State it keeps | Operations | What is hard | Correct when |
|---|---|---|---|---|
| **Outbound payments** `cmd/brollyzapper/payments.go`, `internal/wallet`, `internal/store/balance.go`, `internal/lnd/payments.go` | `txns` rows with `dispatched_at`, `resolve_attempts`, `unresolvable_reason`; append-only `balance_entries`; the recorded shortfall | Reserve, MarkDispatched, send, close; the resolver's pass; the operator's verdict; Allocate/Deallocate | A send whose outcome is unknown; the resolver racing the live path; crashes between mark, send and booking; records the node has deleted | A reservation is given back only if its money never leaves; the books match the outcomes; every row reaches an end |
| **Connection budget** `internal/nwc/pay.go`, `internal/store/nwc.go` | `budget_used_msat`, `budget_renews_at` | ReserveNWCBudget, AdjustNWCBudget from the ladder or from the resolver | Two correctors, no common transaction with the reservation, a window that rolls in between | One correction per payment; no budget overspent |
| **NWC requests** `internal/nwc` | The replay cache `nwc_handled_requests`, `nwc_since`, `panic_count`, `paused_reason`; the limiter; sockets and slots | Deliver, limit, claim, execute, complete, publish, advance; panic, pause, reload, resume; prune | One request over many relays and again after reconnects and crashes; clocks of clients; slots held by crashing handlers | Executed at most once; answered; never resumed past what is unhandled |
| **Incoming invoices** `internal/store/invoices.go`, `internal/lnd/stream.go`, `internal/lnurl/service.go` | `invoices`, credited `txns`, `last_settle_index`, `credit_received` | Callback/Mint, the stream's credit and resume point, sweep, the operator's switch | Redelivery after a crash, settlements of other apps, expiry racing settlement, the meaning of index zero | Every payment of ours credited exactly once |
| **Zap receipts** `internal/zap` | `pending_zap_receipts`, `zap_receipt_id`, the hand-off channel | OnSettled, PublishNow, RetryDue, reschedule, drop | Two sources of one job, retries and deadlines, failed statements | No debt forgotten, none given up early, none retried forever |
| **Guard: credentials** `internal/guard/guard.go`, `spend.go`, `orphans.go`, `state.go` | The state file (current and pending root keys), two macaroon files and their sidecars; the node's root keys | bake, RevokeSpend, EnsureReceive/Spend, sweepOrphans, acceptExternalRevocation | A crash between any two of six writes; an unattended sweep beside them | The live file's key is never revoked; no honoured key is forgotten |
| **Guard: spend cap** `internal/guard/spendcap.go`, `internal/lnd/middleware.go` | The rolling window of attempts | InterceptRequest, ObserveResponse, registration | Concurrent attempts, restarts of either side, refunds only on observed failures | What may still settle in any 24 h stays under the cap |
| **Guard: controls** `internal/guard/operator.go`, `authorisation.go` | Caps, send permission, one outstanding grant | RequestAuthorisation, ApplyChange/redeem, SweepExpired | A grant displaced, expired or redeemed twice | Loosening only with an unexpired code for that change |
| **Guard: rotation** `internal/guard/rotation.go`, `rotationmemory.go` | Armed flag, run of rejected probes, the recorded exit | Rejected, probe, Success, declareRotated | Transient refusals; a restart loop | Exit only after consecutive rejections, once per credential |
| **Reconciliation** `internal/recon`, `internal/wallet/deficit.go` | The recorded deficit, the previous observation, the last check | Check, RecordShortfall, ClearShortfall | A shared node's balance moves by itself; record and audit are two writes | Frozen exactly while the last check that ran found a shortfall |
| **Connections** `internal/store/nwc.go`, `internal/api/pages_connections.go` | `nwc_connections` | Create, edit, revoke, pause, resume, reload | An edit against a rolling window; a revoke against a request in progress | An edit grants nothing extra; a revoked pairing stops |
| **Relay pool** `internal/nostr/pool.go`, `subscribe.go` | One map of sockets, the count of subscriptions per relay, refusal audit bound | Publish, PublishToConnection, Subscribe, close transient | Dials of one URL at once; a publish closing a socket a subscription uses | One live socket per relay; a stranger's is closed again, a subscribed one is not |
| **Public limits, sessions** `internal/api` | Sliding windows per key; the last open-invoice count; the session secret | Allow, sweep, callback gate; login, sign-out, password change | Check before mint; sign-out against requests in progress | Limits hold per key; an ended session is refused |
| **Audit and logging** `internal/store/audit.go`, `internal/logging` | The bounded `audit_events` ring, refusal budgets | Append, AppendUnique | Floods | A bounded trail whose security rows survive |
| **The rest** | `internal/lnurl` (parsing), `internal/nostr` (crypto), `internal/preflight`, `internal/config`, `internal/web`, migrations, deployment | | | |

## 2. Modules

| Module | Models | Extends |
|---|---|---|
| `Payments` | Rows of `txns`, their entries, the live path, the resolver, the operator, the node | |
| `Escrow` | The abstract promise `Payments` implements | |
| `FiniteSums` | Lemmas about sums over finite sets, for the proofs about money | FiniteSetTheorems, TLAPS |
| `PaymentsProofs` | Theorems about `Payments`, its ledger and the refinement | `Payments`, `FiniteSums`, TLAPS |
| `MCPayments` | Symmetry for TLC | `Payments` |
| `ConnectionBudget` | One connection's budget between ladder, resolver and the operator's edits | |
| `MCConnectionBudget` | Symmetry for TLC | `ConnectionBudget` |
| `ConnectionBudgetProofs` | Theorems about `ConnectionBudget` | `ConnectionBudget`, `FiniteSums`, TLAPS |
| `NwcRequests`, `MCNwcRequests` | One pairing, its relays, workers and replay cache | |
| `NwcProofs` | Theorems about `NwcRequests` | `NwcRequests`, TLAPS |
| `Invoices` | Minting, the invoice stream, crediting, the sweep | |
| `ZapReceipts` | The receipt's debt, publisher and retries, composed with the stream | `Invoices` |
| `InvoicesProofs` | Theorems about `Invoices` and `ZapReceipts` | `ZapReceipts`, `FiniteSums`, TLAPS |
| `GuardKeys` | The guard's root keys: state file, macaroon files, sidecars, the node | |
| `GuardKeysProofs` | Theorems about `GuardKeys` | `GuardKeys`, TLAPS |
| `GuardSpendCap`, `MCGuardSpendCap` | The window of attempts in the node's request path | |
| `GuardControls` | The three controls, the grant and its file | |
| `Ceremony` | The abstract promise `GuardControls` implements | |
| `GuardProofs` | Theorems about `GuardControls`, its refinement and `GuardSpendCap` | `GuardControls`, `GuardSpendCap`, `FiniteSums`, TLAPS |
| `RelayPool`, `MCRelayPool` | The shared sockets: sessions, answers and publishes that dial and close them | |
| `RelayPoolProofs` | Theorems about `RelayPool` | `RelayPool`, TLAPS |

### Payments

An element of `Rows` is one `payment_out` row together with the goroutine that
made it, an element of `Hashes` one invoice. `pc` is where that goroutine is
between two atomic steps:

    Admit     wallet.Reserve: freezes read
    Reserve   store.ReserveSpend: unique index and balance, one transaction
    MarkDispatched, SendPayment, Answer / StreamBreaks / AskRecord
    ClearDispatched, CloseLive

The resolver works a snapshot (`todo`, with the markers it saw in `seen`):
`StartPass`, `Track` or `Deadline`, then `ReverseUnsent`, `NameForgotten`,
`NoAnswer` or `BookAnswer` per row. `AssertOutcome` is the operator's verdict,
`AdjustBalance` the ceiling, `ReconCheck` the freeze, `Restart` a crash with the
next start, `Age` the passing of `wallet.UnresolvedAfter`. The node is external:
it takes, refuses or loses a request, settles or fails what is in flight, forgets
records when another application deletes them, and goes up and down.

`Escrow` says in a page what all this is for: hold, move, keep, give back,
overrule. The refinement maps `status` to `state`, `moved` to the rows whose
request moved money and `overruled` to the rows the operator closed.

### ConnectionBudget

`limits`, `used`, `renews` and `revoked` are the row of `nwc_connections`;
`served` is the copy of it the service goes by (`connection.current`), `demand`
the channel of nudges and `reading` the row a reload has read and not yet applied.
`EditRead` and `EditWrite` are the two statements of
`UpdateNWCConnectionLimits`, with the window worked out in between; `Revoke`,
`Nudge`, `ReloadRead` and `ReloadApply` are the rest of an operator's change.

The ladder of a payment is `Permit`, `Measure` (both by the served copy, the
period by one snapshot of it), `ReserveBudget` (one guarded UPDATE of the row), the
wallet's arms, the send and `Correct`. `Resolve` and `CorrectResolved` are
`resolveOne` and `correctConnectionBudget`, two steps because the code makes two
transactions of them. The reservation is reduced to what the budget can tell apart
(open or closed, old enough for the resolver, what became of it at the node).
`window`, `begun`, `loose` and `fixes` are history: how often the counter has begun
and when, whether that moment has since been given up or overwritten, and the
corrections made for each payment.

### NwcRequests

`held`, `inbox`, `up` and `from` are the relays and their subscriptions;
`row`, `at`, `since`, `panics`, `paused` the database; `stage`, `on` and `target`
the workers. `Dispatch` takes a slot and an event; `Refuse`, `Admit`, `Claim`,
`Execute`, `Complete`, `Publish`, `ReadSince`, `AdvanceSince` and `Panic` follow
`Service.handle` and `handleOne`. `Reload`, `Resume`, `Crash` and `Prune` are the
process around them. The slots are the set `Workers`.

### Invoices and ZapReceipts

`call` follows a minting call (node first, row second, answer last), `index` and
`last` are the node's settle indexes, `cursor` what the open stream has delivered,
`stage` and `cur` the settlement the handler has in hand. `ZapReceipts` adds the
two statements of `OnSettled` in the middle of that handler and the one publishing
goroutine: `Take` for what is handed to it, `RetryDue` and `TakeDue` for what has
become due, then `Build`, `Accept` or `Reject`, `RecordZapReceipt`, `Drop`.

### GuardKeys

`listed` is what the node honours; `file` and `sidecar` the credential volume;
`current`, `pending`, `latch` and `fresh` the guard's state file. One operation at
a time holds `bakeMu` (`holder`, `step`), and its steps are the writes and calls it
makes, in the code's order:

    bake            Begin (pending) Mint (node) WriteSidecar WriteMacaroon
                    Record (state) Sweep... Forget (state)
    RevokeSpend     Revoke DeleteCurrent (node) RemoveFile Sweep...
                    ClearSpendState (state), Tidy when no key was recorded
    external        MissSpendKey, without the lock; AcceptExternal, RemoveFile, ...
    hourly          SweepOrphans Sweep... Forget

`Abort` is any failure inside a bake, `Restart` the end of the process at any step,
`Drop` a key deleted by the node's owner. `Ask` and `Renew` read the latch before
the lock is taken (`gated`), as `BakeSpend` and `EnsureSpendMacaroon` do. `Init`
has the installations the code speaks of: a fresh one, one upgraded from a build
without sidecars, and one whose older build died between macaroon and state.

### GuardSpendCap

`call` follows one `SendPaymentV2`: asking, allowed or refused by the guard, sent
or refused by the node, settled or failed. `attempts` are the records of the state
file. `InterceptRequest` prices, decides and records in one step, because the code
does so in one `updateIf`; `ObserveResponse` hands back one record on FAILED.
Arithmetic wraps at `MaxInt`, and `Requests` has figures that make it wrap. Its
specification is `SpendSpec`, and its parts are named so that one proof module can
extend it beside `GuardControls`.

### GuardControls

Each connection of the socket is a goroutine (`conn`) between the load it decided
on and the write it makes; `apply` is the one `ApplyChange` inside `bakeMu`,
between its load, the redemption and the change. `grant` and `file` are the two
files the same lock guards. Each outcome of a closure is a disjunct: done, file
gone and save failed, file not removed. `Ceremony` is what it is for: offer,
take, loosen; `OpenPermit` and `TakenPermit` are the refinement mapping.

### RelayPool

`map` is the pool's map from URL to relay, `up` the sockets that are connected; an
entry may be dead. A caller is a goroutine that wants a relay: the session of a
pairing on one of its relays, an answer the pairing publishes there, a leg of a
publish. All of them go through `Look`, `Connect` (or `Fail`) and `Store`, which are
`Pool.dial` with a step between each of its reads and writes; `hand` is what was
dialled and is not yet stored. A session's way is `Begin` (the count goes up before
the dial), the dial, `Attach` or `FailToSubscribe`, then `Interrupt` and round again,
until its pairing is closed (`Close`, `End`). A publish is `Choose`, `StartLegs`, the
legs, `JoinLegs`, and for each entry `CloseTransient` and `DeleteTransient`, which the
code makes one after the other with nothing held. `guarded` and `torn` are history.

## 3. Runs

| Run | Question | Properties |
|---|---|---|
| `PaymentsSafety` | Two rows over one or two invoices, one restart, records deleted at will: do the books stay right? | `TypeOK`, `NeverReversesAPayment`, `MarkerNeverLies`, `LedgerMatchesOutcome`, `BalanceCoversSpend`, `RefinesEscrow` |
| `PaymentsLiveness` | Does every reservation reach an end through outages, a restart and bookings that fail? | `EveryPaymentIsDecided` |
| `PaymentsDoubleDebit` | Can one payment settle two rows? (violation) | `DebitedOncePerInvoice` |
| `ConnectionBudget` | Two payments of one connection while its limits are edited or it is revoked, one crash or failed statement, a window that may roll | `TypeOK`, `CorrectedAtMostOnce`, `NoCorrectionIsLost`, `NoChangeIsLost`, `ChargesFitTheBudget`, `NoEarlyWindow` |
| `NwcSafety` | One request over three relays, two workers, a crash or resume, a drop, a failed statement, clocks off by one | `ExecutedAtMostOnce`, `NeverAhead`, `AnswerOutlivesRequest` |
| `NwcLiveness` | Two requests, some of them crashing their handler: is the readable one answered? | `EveryRequestIsAnswered` |
| `NwcResume` | Is what arrived while a socket was down still asked for? (violation) | `StillDeliverable` |
| `ZapReceipts` | From the mint to the receipt: one invoice of ours, one of another app, one crash, one broken stream, one failed statement | `ZTypeOK`, `CreditedOnce`, `NothingSkipped`, `EveryPaymentIsCredited`, `DebtKept`, `NotGivenUpEarly`, `EveryDebtEnds` |
| `GuardKeys` | A fresh or upgraded installation, four keys, one fault and one key deleted by the node's owner between any two writes | `TypeOK`, `NothingForgotten`, `LiveKeySpared`, `KillSwitchIsComplete`, `OrphansAreRevoked` |
| `GuardSpendCap` | Three calls, figures that wrap, limits that move, one restart of guard or node | `SpendTypeOK`, `SpendCapHolds` |
| `GuardControls` | Two connections beside one `ApplyChange`, two codes, one failed save or crash | `TypeOK`, `CapPairHolds`, `FileNamesTheGrant`, `KeepsItsCeremony` |
| `RelayPool` | A relay two pairings, an answer and the publishes share, two relays of strangers with room for one; sockets drop, dials fail, pairings end, the list is edited | `TypeOK`, `NothingLeaks`, `StrangersGone`, `CountsAreExact`, `SubscriptionsSpared` |

What the central properties say:

* `NeverReversesAPayment`: no interleaving of live path, resolver, crashes, lost
  requests and deleted records makes the app give back a reservation whose money
  left or can still leave. It is what the dispatch marker, the snapshot and
  `neverInitiated`'s lookup exist for.
* `MarkerNeverLies`: on an open row, a missing `dispatched_at` proves that the
  node was never handed the payment.
* `LedgerMatchesOutcome` and `BalanceCoversSpend`: each row's entries come to what
  its outcome says, fee excess included, and what was spent with what is free
  never exceeds the ceiling.
* `RefinesEscrow`: server, database and node together behave as the escrow.
* `CorrectedAtMostOnce` and `NoCorrectionIsLost`: the budget's correction is a
  signed addition; of ladder and resolver exactly one makes it, unless the process
  dies, or the statement fails, between the row's end and the correction.
* `ChargesFitTheBudget`: within the first window, a payment is charged only if it
  fits the budget in force at that moment together with everything spent or still
  to be spent, whatever edits, crashes and resolver passes came before; and never
  on a revoked connection. Section 9 says why the later windows are left out.
* `NoEarlyWindow`: neither an edit nor a reload nor a restart hands out a fresh
  budget before the period is over, save for the two cases it names.
* `NoChangeIsLost`: as long as the service goes by an older row than the
  operator's, somebody still has a nudge or a reload to bring it.
* `ExecutedAtMostOnce` and `AnswerOutlivesRequest`: the claim, the two time
  windows and the prune fit together, for a clock of the client that is wrong in
  either direction.
* `NothingSkipped`: a settlement of ours with an index at or below the resume
  point has been credited. `EveryPaymentIsCredited` is its liveness.
* `DebtKept`, `NotGivenUpEarly`, `EveryDebtEnds`: a receipt that is owed is
  crossed off only for a reason, not before its window has passed, and not never.

* `NothingForgotten`: every key of the guard's that the node honours is current or
  pending in the state file; the guard cannot revoke what it cannot name.
* `LiveKeySpared`: no sweep takes the key of a credential on disk, after any one
  fault. The bound on faults is in the property: section 9 says what two can do.
* `KillSwitchIsComplete`: when sending has ended, of all the keys ever minted for
  spending the node honours only those it refused to delete.
* `OrphansAreRevoked`: a key no credential depends on goes without anybody's help.
* `SpendCapHolds`: when the guard allows a payment, the full cost of everything it
  has allowed within the window and that has not failed fits the limit.
  No refund may take another payment's record, although the node's request ids start
  again.
* `KeepsItsCeremony`: whatever requests, polls, sweeps, tightenings and crashes do
  in between, a control is loosened only with a code that was stored, unexpired
  and for that very change at the moment it was redeemed, and each serves once.
* `NothingLeaks`: whoever dials one URL at the same time, whatever drops, no live
  socket is left that neither the map nor its dialler knows. The one exception is by
  name, what a teardown tears out of the map (`torn`): section 9.
* `StrangersGone`: what a publish opens for a stranger is within the cap, and closed
  when the publish is over, although the operator may edit the list and the relay
  may drop and be dialled again in between.
* `CountsAreExact` and `SubscriptionsSpared`: a relay's count is the number of
  sessions that hold or seek a subscription on it, through drops, replacements and
  pairings that close under a dial. So the one reading of it that a teardown takes
  is enough to leave alone every relay that had a session at work on it.

`CHECK_DEADLOCK FALSE` is set everywhere but for `RelayPool`: with bounded inputs
the other systems may come to rest when there is nothing left to do. In `RelayPool`
the operator can always edit the list, so the check is on there and finds nothing.

## 4. What the violations show

Each of these checks a sentence the repository states against what the code does.

* **PaymentsDoubleDebit.** `migrations/0008` explains why two rows of one hash must
  not both be settled from the node's one record. Its unique index covers rows
  that are pending at the same time. An invoice that is paid again after its first
  row settled gets a second row; the node refuses the send, and if the live path
  cannot establish that (the stream broke, or a record exists), the resolver books
  the old success to the new row.
* **NwcResume.** `internal/nwc/run.go` says a new subscription delivers what
  arrived while the socket was down. `nwc_since` is one setting for all relays and
  is moved to the created_at of whichever request is handled; an older one that
  another relay still holds falls behind it.

## 5. Proofs

The statements are `Spec => []P`, `Spec => [][A]_vars` or, for the refinement,
`Spec => Abstract!Spec`, for every value of the constants that meets the module's
named assumption. Each module proves three facts
about an inductive invariant: it holds initially, every step preserves it (in
`PaymentsProofs` one lemma per action, named `<Action>Keeps`; in the others the
actions that disturb the same parts share one), and it implies the property.

| Theorem | States |
|---|---|
| `PaymentsProofs!TypeCorrect` | `TypeOK` |
| `PaymentsProofs!NoPaymentIsReversed` | `NeverReversesAPayment` |
| `PaymentsProofs!TheMarkerIsTrue` | `MarkerNeverLies` |
| `PaymentsProofs!ClosedRowsAreFinal` | `ClosedForGood` |
| `PaymentsProofs!BooksMatchOutcomes` | `LedgerMatchesOutcome` |
| `PaymentsProofs!SettledOnlyIfPaid` | `SettledWasPaid` |
| `PaymentsProofs!TheCeilingCoversSpend` | `BalanceCoversSpend`, for a finite set of rows |
| `PaymentsProofs!PaymentsAreAnEscrow` | `RefinesEscrow` |
| `NwcProofs!TypeCorrect`, `AtMostOnce`, `AnswersOutlive`, `ResumePointNeverAhead` | `TypeOK`, `ExecutedAtMostOnce`, `AnswerOutlivesRequest`, `NeverAhead` |
| `ConnectionBudgetProofs!BudgetTyped`, `ChangesAreTold`, `WindowsKeepTheirLength` | `TypeOK`, `NoChangeIsLost`, `NoEarlyWindow` |
| `ConnectionBudgetProofs!OneCorrection`, `NoCorrectionLost` | `CorrectedAtMostOnce`, `NoCorrectionIsLost`, both assuming `~SlowSends` |
| `ConnectionBudgetProofs!ChargesFit` | `ChargesFitTheBudget`, for a finite set of payments and `~SlowSends` |
| `GuardKeysProofs!KeysTyped`, `NoKeyIsForgotten`, `NoSpendKeyOutlivesSending` | `TypeOK`, `NothingForgotten`, `KillSwitchIsComplete` |
| `GuardKeysProofs!NoLiveKeyIsTaken` | `LiveKeySpared`, without the history "interrupted" |
| `GuardProofs!ControlsTyped`, `LimitsStayOrdered`, `FileFollowsTheGrant`, `SweepSparesTheLive` | `TypeOK`, `CapPairHolds`, `FileNamesTheGrant`, `LiveGrantNotSwept` |
| `GuardProofs!GuardKeepsItsCeremony` | `KeepsItsCeremony`, the refinement |
| `GuardProofs!SpendTyped` | `SpendTypeOK` |
| `GuardProofs!SpendStaysUnderTheCap` | `SpendCapHolds`, for a finite set of calls |
| `RelayPoolProofs!PoolTyped`, `NoSocketLeaks`, `StrangersLeave` | `TypeOK`, `NothingLeaks`, `StrangersGone` |
| `RelayPoolProofs!CountsStayExact`, `SubscriptionsAreSpared` | `CountsAreExact`, `SubscriptionsSpared` |
| `InvoicesProofs!TypeCorrect`, `CreditsOnce`, `RecordsAgree`, `NothingIsSkipped` | of `Spec`: `TypeOK`, `CreditedOnce`, `SettledTogether`, and `NothingSkipped` when `FirstIndex > 0` |
| `InvoicesProofs!CreditsOnceWithReceipts`, `NothingIsSkippedWithReceipts` | of `ZSpec`: `CreditedOnce`, and `NothingSkipped` when `FirstIndex > 0` |
| `InvoicesProofs!ReceiptsTyped`, `DebtsAreKept`, `NobodyGivesUpEarly` | of `ZSpec`: `ZTypeOK`, `DebtKept`, `NotGivenUpEarly` |

**Payments.** That a failed row is not movable is not inductive: whether the
resolver may reverse a row depends on the marker it saw in a snapshot, on where
the row's goroutine is and on what is still on the wire. The parts of `IInv` say so
one by one. `OnePending`: the unique index leaves one open row per invoice.
`Lifecycle`: a row's goroutine, its age and its request agree; what is on the wire
is open, marked and too young for the resolver, and so is a row whose goroutine is
`Early`. `Untouched`: a row without a marker, an early one, one whose request is
still on the wire and one the pass saw unmarked were never with the node
(`Touched`). `NodeAgrees`: what is in flight or paid belongs to a row that still
holds its money. `Answers`: an answer somebody is holding on to is still true.
`Money` adds that the entries match the outcome and what is settled was paid, and
every step is a step of `Escrow` or a stutter (`ClosingIsAbstract`,
`StepIsAbstract`). For `BalanceCoversSpend` no bound is inductive, but an equation
is: the ceiling is what is free plus what the rows have taken out of it
(`CeilingAccounted`). A step moves the balance and one row's share by the same
amount (`OneRowMoves`, `NextAccounts`), and what has been spent is at most what has
been taken (`AccountCoversSpend`).

**NwcRequests.** Whoever claims a request knows it to be in its window (`Fresh`).
A request claimed in its window has a row stamped no earlier than `Window` before
its created_at (`Stamped`), so when the prune takes that row away it has left its
window for good (`Remembered`) and cannot be claimed again. Hence one claimant, who
has not executed it yet (`Sole`). `Unseen` says that a request that was not sent has
left no trace. `Remembered` is where `Retention >= 2 * Window` is needed: a request
stamped a full window in the future stays acceptable for two. For `NeverAhead`,
`Behind` bounds what a worker is about to write to the resume point.

**ConnectionBudget.** `Told` is `NoChangeIsLost` with what the reload in progress
has read: a row that is newer than the one it holds has a nudge behind it.
`Windows` says that the moment of renewal, in the row and in the form of an edit
under way, is no sooner than a period after the counter began (`Kept`), unless the
limit was lifted or an edit overtook a roll, and that a payment that rolls has
measured itself against a daily period. `Corrections` counts who may still correct
a payment: whoever closed its row holds the one step, ladder and resolver are never
both ahead of an open row (that is where `~SlowSends` is needed: a ladder that
still waits for the node keeps the row too young for the resolver), and a row that
is open has had no correction. For `ChargesFit`, `Covered` says that in the first window
the counter is no less than what all payments together still hold of it; `Outcomes`
ties what a payment may still give back to what became of it, so that no correction
takes the counter below that sum. The guard of the charge does the rest.

**Invoices.** `Recorded`: a settled row and a ledger row come together, an entry
only with them, and no row comes before its call or for another application's
invoice. For `NothingIsSkipped`, `Position` adds where the stream is: `OnRecord`
(an invoice of ours is paid only after its row was written), `Ordered` (settle
indexes are distinct), `InHand` (a handler at work has the settlement at the cursor
of an open stream, and has recorded it before it goes on), `Delivered` (what the
stream has delivered is on record or in hand) and a positive resume point, which is
what makes the node send a backlog. Without that premise the formula is false
(section 9).

**ZapReceipts.** Every step is a step of `Invoices` or leaves its variables alone but
for the handler's stage and the count of failed statements (`ReceiptsApart`), so both
invariants of the stream hold with the receipts on top (`ZStepIInv`,
`NothingIsSkippedWithReceipts`). The receipts' own is `ZIInv`. A payment is known to
the publisher, by row, channel or job, only once `OnSettled` has been told of it
(`Told`), so the first row of a debt finds neither an older row nor a job.
`Working`: a payment has one job at most, with a deadline no earlier than its row's;
`QueueZapReceipt` keeps the row's, the clock shortens both. So whoever gives up at the
job's deadline is past the row's. `Excused`: a row about to be dropped has its reason.
`Timely`: attempts and ticks left come to no more than the window and the wait, which
bounds the attempts by the ticks of the window. It needs that a wait is one tick at
least: `Doubled` is recursive, and `WaitsExist` and `WaitsAgree` show that the
recursion has one solution.

**GuardKeys.** `Baking`: from `Begin` on the key of a bake is pending and nobody's
current key, so it may fail or die at any step. `Sweeping`: what is pending and
honoured is still to be deleted, spared or refused, so the write that ends a sweep
forgets only what is gone. `Ending`: once ending sending has passed its first step,
the current spend key is not honoured, so everything spendable the node honours is
pending (by `NothingForgotten`) and, because no key named by the receive sidecar
was ever minted for spending (`Receiving`), nothing of it is spared. `Counted`
makes every minted key new. The invariant was first checked by TLC with five keys,
three faults and all three histories. For `NoLiveKeyIsTaken`: `Parted` keeps the two
credentials' keys apart; a bake writes the sidecar before the macaroon (`Written`), so
while at most one operation has been cut short, a key that is on disk and pending is
named by its sidecar (`Backed`), and every sweep spares it (`Unharmed`). A key can be
parted from its sidecar only between the two writes of a later bake, and it takes a
second fault to leave it there. "interrupted" starts with a pending key on disk and no
sidecar, which is the second case of section 9; there the formula is false.

**GuardControls.** `Asked` says that whoever is about to issue a code holds a
change that is valid, and `Decided` what an `ApplyChange` past its redemption has
established: the pair of limits still fits, because only it, under `bakeMu`, changes
the limits, and a request decides on nothing. Every step is then a step of
`Ceremony` or a stutter.

**GuardSpendCap.** `PriceIsRight` is about arithmetic: whatever figures a request
carries and wherever they wrap, it is refused or priced at no less than the node will
spend (`SatsCount`, `NoWrap`). `Recorded`: a call that may still be spending has a
record of its own, of its price and age. It survives an observation because the
record it takes is the failed call's: `Registered` and `Numbered` say that the guard's
run, the registration and the node's request id name at most one call that has not
ended, though the ids start again. The sum over the calls is then at most the sum over
the records that `InterceptRequest` compared with the limit (`AllowedFits`).

**RelayPool.** `Owned` says that a socket is in one place: in one hand, or in the map,
or torn from it. `Store` keeps that because it leaves the live one of two in the map
and closes or stores the other. `Strangers` follows `Opened`, the strangers' relays
with an entry or with a leg at work: none before the legs start, within the targets
while they run, within what the teardown has still to look at afterwards. No session
or answer ever calls such a relay, so an entry that a leg found dead stays dead under
its dial, and `StrangersGone` follows by counting: its sockets map one to one into
`Opened` (`OneSocketEach`). `CountsAreExact` is inductive by itself; each step adds or
takes one element of one of its two sets. With it, a session at work when a teardown
starts has a positive count, and so its relay is spared to the end (`Spared`).

**Sums and recursion.** The library's induction theorems take an operator as a
parameter and cannot be cited here. `FiniteSums` argues by a smallest counterexample
instead (`CountsUp` for numbers, a well-founded subset order for finite sets), and
shows that the fold behind a sum has one solution, that the order of the terms is no
matter, and how a sum moves with one term. It is about finite sets, which is why three
theorems assume theirs to be finite.

Every safety property of a passing run is stated by a theorem, and the inductive
invariants were checked by TLC on small instances before they were proved. The
assumptions beyond the named ones of the modules are finiteness, `~SlowSends`,
`FirstIndex > 0` and the histories of `NoLiveKeyIsTaken`; each is one the run makes
too, and sections 8 and 9 say what happens without the last three. Model-checked only
is liveness under fairness, which the provers cannot reach: `EveryPaymentIsDecided`,
`EveryRequestIsAnswered`, `EveryPaymentIsCredited`, `EveryDebtEnds`,
`OrphansAreRevoked`. `ClosedForGood`, `SettledWasPaid`, `SettledTogether`,
`LiveGrantNotSwept` and the `TypeOK` of `NwcRequests` are stated by theorems and by no
run: TLC agreed with each of them before it was proved.

## 6. Fairness

* `Payments`: weak fairness of each row's goroutine, of the resolver (it runs at
  start, on every reconciliation tick and on demand) and of ageing, because Go
  schedules goroutines and the clock goes on. Of the node: a request lands or is
  lost, what is in flight ends, an outage ends. None of crashes, the operator,
  deleted records or breaking streams.
* `NwcRequests`: readers and workers. None of relays, clients, the clock, crashes
  or the operator.
* `ZapReceipts`: subscribing, receiving, the handler's statements, the publisher
  and the clock. A publish ends, accepted or not; nothing says that it is accepted.
  `MaxFaults` bounds failed statements, so a statement that is retried succeeds in
  the end; without that, a database that never works again owes everybody.

* `GuardKeys`: weak fairness of whoever holds `bakeMu`, which goes on or gives up,
  and strong fairness of the hourly sweep: a Go mutex hands itself to a waiter
  after a millisecond, so a sweep that waits is not passed over for ever.

## 7. Bounds

| Module | Bound | Why it is enough |
|---|---|---|
| `Payments` | Safety: 2 rows, 2 hashes (equal or different), amount 3, reserve 2, fees 1 and 3, ceiling 10, 1 attempt, 1 restart | A row and its successor over the same invoice, below and above the reserve; the third row of one invoice meets the same two states. Outages change no booking and are left to the liveness run |
| | Liveness: 1 row, 2 attempts, 1 restart, 2 outages; ceilings 4 and 5, so that booking an excess fee can fail | Failures must recur and be forgotten between |
| `ConnectionBudget` | 2 interchangeable payments of 2 + 1, budgets 3 and 5 or none, one edit and a revocation, one crash or failed statement, clock 0..1, period 1 | Two payments compete for a budget that holds one, and an edit changes it under both; the window may roll once, before, between or after the two statements of the edit |
| `NwcRequests` | Safety: 1 request, 3 relays, 2 workers, one each of crash or resume, drop, failed statement; clock to 3, window 1, retention 2 | Three copies of one request against two workers, and a clock that passes both windows. Liveness: 2 requests, 2 relays, 2 workers, burst 1, 2 panics to the pause |
| `ZapReceipts` | 1 own and 1 foreign invoice, one crash, break and failed statement, window and backoff 2 ticks | The foreign settlement is what can be skipped wrongly; the deadline passes before, during and after an attempt |
| `GuardKeys` | 4 keys, 1 fault, 1 deleted key, two histories | Two credentials, each with a predecessor; the fault falls between any two writes. The history "interrupted" is covered by the proofs but for `LiveKeySpared`, and by section 9 |
| `GuardSpendCap` | 3 calls, costs 2 and 3 and figures that wrap, limits 3 and 5, `MaxInt` 15 with 3 msat to the satoshi, window 1 tick, 2 records, 1 fault | Two that fit, a third that does not; a refund and a repeated request id need one restart. A window of 2 ticks and 2 faults with two calls gives the same answers |
| `GuardControls` | 2 connections, limits 1..3, 2 codes, 2 attempts, 1 fault | A superseding grant while a sweep of the first is under way |
| `RelayPool` | 1 shared relay with 2 pairings, 2 relays of strangers, room for 1, 2 sockets to a relay at a time | Two sessions and an answer dial the relay a publish is tearing down; a second stranger's relay is what the cap refuses. With 3 sockets to a relay the answers are the same |

`Ids`, `MaxKeys`, `MaxRestarts`, `MaxOutages`, `Horizon`, `MaxResets`, `MaxDrops`, `MaxCrashes`,
`MaxBreaks`, `MaxEdits`, `MaxFaults`, `MaxMishaps` and `MaxClock` exist for TLC only; the proofs hold for
each of their values.

## 8. Abstractions and assumptions

**Payments.** Every invoice has one `Amount` and one `MaxFee`. `MaxMsat` is out of
reach. `Restart` and `Age` wait for the row's request to land or be lost: LND
handles or drops a request within the five minutes of `UnresolvedAfter` and within
a restart. The residual cases `IsTransportOrCallerFailure` names for a proxied
status are not modelled. `resolveTimeout` runs out only while the pass waits for
the node. The reconciliation's verdict is any, since the channel balance belongs
to every application on the node.

**ConnectionBudget.** The run takes `SlowSends = FALSE`, which is `wallet.go`'s
claim about `UnresolvedAfter`; section 9 says what depends on it. All payments ask
for one amount, and a cap either lets it pass or not; a cap on a pairing that may
not pay does nothing and is left out. No form sets a period other than daily. Fees
do not exceed the reserve, and no other application pays the same
invoice; both are in `Payments`.

**NwcRequests.** One pairing; others share `nwc_since` only. Ticks are seconds and
one token returns per tick. The clock does not step back, and does not tick between
a worker's freshness check and its claim. Events that fail the author, id or
signature check change nothing and are absent. The retries of one publish are one
step, so `told` means a publish was begun. A resumed pairing shares its slots with
the workers of the connection it replaces. `Retention >= 2 * Window` is assumed
(24 hours against 60 seconds in the code).

**Invoices and ZapReceipts.** Amounts, texts, the backoff between streams and the
sweep's clock are abstracted: any open row may be past due. Reading
`credit_received` and posting are one transaction, as in the code. The node is
external; its treatment of index zero follows `lightning.pb.go`. A full hand-off
buffer and batch places taken by other payments are nondeterministic choices. A
relay set is reduced to whether any took the event. The hourly bound on audit rows
is abstracted: abandoned means said, in the trail or in the log.

**GuardKeys.** Macaroons are reduced to the key they were baked under, caveats to
whether the guard's own is there, expiry and the age of a bake to `fresh`. Key
numbers are the order of minting; a random id that collides is not modelled. The
server's socket asks for any operation at any time. A failed call of the node has
either no effect or, in a bake, made the key.

**GuardSpendCap.** The clock is read as the lock is taken, and a record's age counts
from the decision. A decision that finishes after its stream broke is `TimeOut`: the
record stays and the node has refused. The node asks about every call with the
caveat and does nothing before the answer; that and its own validation are external.

**GuardControls.** Codes are numbers; that they cannot be guessed is assumed. A value
is one of `Caps`, or 0 and 1 for sending. A crash inside a closure leaves what a
failed save leaves. Audit rows and their budgets are left out.

**RelayPool.** Which dials succeed is open, so the check of the address, the connect
budget and a publish's own deadline need no state. `Connected` and one entry of
`Range` are each read in one step, and the losing socket of `Compute` is closed in
the step that finds it has lost: nobody else has seen it. Sends change nothing here.
A pairing sends one answer to a relay at a time, and one that is resumed counts as
another pairing. A relay that pairings use is never one only strangers name, but a
stranger may name it too. `Pool.Close` and the end of the process are left out.

## 9. Observations without a run

* One context with `resolveTimeout` bounds a pass of the resolver and is also what
  `countAttempt` writes with. When the node hangs until it expires, the failure is
  not counted, against `store.MaxResolveAttempts` ("Any persistent failure now walks
  this counter"), and the row is never named. `PaymentsLiveness` has a node that
  answers in the end.
* `closeTransient` closes the relay `Range` gave it and then deletes whatever is
  under the URL. An answer to a pairing's relay that has dialled before the close
  and stores between the two has its live socket taken out of the map: no later
  teardown, and not `Pool.Close`, can find it, and the next caller opens another.
  With `torn` not excepted TLC finds `NothingLeaks` violated in 12 steps. The comment
  in `dial` says "there is no second writer left to tear the store", and `subscribe.go`
  "One door, one kind of write, no torn outcome"; the teardown is a second writer. It
  takes a stranger's publish that opened the relay of a pairing while none of its
  sessions was at work on it, for the count of subscriptions covers sessions only.
* `closeTransient` reads the subscriptions once, before it walks the map. A session
  that begins after that and is handed a relay this publish opened has it closed
  under it, and subscribes again after its backoff. `SubscriptionsSpared` speaks of
  the sessions at work when the teardown starts.
* A relay in the map stays there when its pairing is closed or the operator takes
  it off the list; it is in every later `before`, so no teardown closes it, nor a socket that a
  stranger's publish dials to replace a dead entry of that kind.
* `advanceSince` reads and then writes `nwc_since`; of two workers the slower may
  move it backwards. That only re-delivers.
* The comment on `dispatchOne` mentions handleOne's "own deferred advance"; the
  advance is not deferred, so a panic skips it.
* A copy of a request that was refused by the limiter may be served when a token
  has come back; its client then hears both answers.
* A request that crashes its handler before the claim does so once per relay, so
  one request over three relays is three panics and pauses the pairing.
* A crash between the charge of a budget and the reservation leaves a charge that
  nothing returns.
* `UpdateNWCConnectionLimits` reads `budget_renews_at` and writes it in a second
  statement. A roll between the two is overwritten by the older moment, so that the
  next charge rolls again and one window's budget is had twice. `NoEarlyWindow`
  excepts the case by name (`loose`).
* Lifting a limit leaves `budget_used_msat` as it is, and charges go on counting:
  what was spent without a limit counts against a budget that is set later, until
  its first window has rolled.
* A reload that cannot read the rows is logged and waits for the next nudge: a
  revoked pairing stays subscribed until then, though its payments are refused by
  the row. `NoChangeIsLost` excepts it.
* The period "never" is understood by the store and offered by no form.
* `RetryDue` drops a due receipt on any failed read of its zap, without an audit
  row. `DebtKept` names this arm.
* A payment handed over and due in the table at once may publish its receipt
  twice; the event is the same, so relays keep one.
* A crash between the credit and the debt's row loses the receipt, as the code's
  own comment says; the redelivered settlement is already credited.
* `SubscribeInvoices` with index zero: `internal/store/store.go:241` says that "LND
  reads [it] as 'send me everything from the beginning'", LND's own comment on the
  field (`lightning.pb.go:13530`) that only a non-zero index starts with a backlog.
  With `FirstIndex = 0` TLC finds `NothingSkipped` of `Invoices` violated: until an
  installation has handled its first settlement, a payment that settles while the
  stream is down is not delivered, and the next settlement of any application
  writes a resume point past it. The test double `lndtest` sends a backlog for zero.
* `AdjustNWCBudget` clamps at zero so that "a refund must never become spending
  authority". The counter it subtracts from may be the next window's: a charge that
  is returned after the roll comes off what another payment was charged since. So
  `ChargesFitTheBudget` speaks of the first window.
* `internal/wallet/wallet.go` states that a payment legitimately in flight cannot be
  older than `UnresolvedAfter`. LND's timeout bounds its attempts, not an HTLC in
  flight. With `SlowSends = TRUE`, `CorrectedAtMostOnce` is violated: the resolver
  closes the row and corrects the budget, and the ladder, which reads a row closed
  by somebody else as agreement, corrects it again.
* `EnsureSpendMacaroon` and `BakeSpend` read state and latch before `bake` takes
  `bakeMu`, and `bake` looks at neither again. A whole `RevokeSpend` fits in between
  (`RevokedStaysRevoked` of `GuardKeys`, violated without a fault): the renewal then
  bakes under a new key, against "Revoked must stay revoked" in `spend.go`.
  `acceptExternalRevocation` does look again.
* `bake` says that its order of writes never leaves "a NEW macaroon beside a sidecar
  that does not name it". With two faults it does (`LiveKeyAlwaysSpared`): a bake
  that fails after the macaroon leaves its key pending and protected by its sidecar;
  the next bake, failing after its own sidecar, takes that protection away, and the
  hourly sweep deletes the key of the file on disk. And `sweepAndForgetSpend` has no
  check for a missing sidecar, so on an installation whose older build died inside
  a receive bake, switching sending off deletes the receive credential's live key.
* `redeem` says that clearing the code's file before the save leaves, after a crash,
  "a file with no grant behind it". A crash after the removal and before the save
  leaves the grant and no file (`GrantIsReadable` of `GuardControls`); a save that
  fails after a superseding request wrote its file leaves the old grant beside the
  new code. Both cost a new request.

## 10. Not modelled, and the plan

In the order in which modules are to be written:

1. Connections: creating a pairing, announcements, outcome rows.
2. `Reconciliation`: deficit, previous observation, audit rows.
3. Limits and sessions: `RequestLimit`, the sliding-window limiter and its sweep,
   the open-invoice cap, sign-out and password change.
4. Pure operators against reference definitions: `MaxFee` at 64 bits,
   `payableAmount`, `nextWindow`, `fitHistory`, the migration order.
5. An abstract specification of the receipts (a debt, settled or given up) and of the
   spend cap's window, with `ZapReceipts` and `GuardSpendCap` shown to implement them.

Left out for good: bolt11 and JSON parsing, event signatures and encryption, HTML,
configuration and deployment (no state, or wording only), generated protobuf code,
and test doubles, which were read as evidence of what the node is thought to do.
