# OverSync: a TLA+ verification project

OverSync swaps assets between Ethereum and Stellar. A user locks funds in a
hash- and time-locked escrow on the source chain, a resolver locks the
counterpart on the destination chain, the revealed preimage opens both, and
whatever is not claimed in time is refunded. Around the contracts run a
coordinator (order records), a relayer (custodial payouts, notifications,
pricing), a resolver (command line and planner) and a browser client. This
directory models the parts that move, account for or advise about money,
checks them with TLC on small instances, and proves with TLAPS, for instances
of any size, every invariant that those runs check: of the escrows and
registries on both chains and the legacy contracts, of the relayer's tracker,
payouts, pollers and books, of the coordinator's records, and of the resolver
and the browser.

## 1. The system

| Component | State | Operations | What makes it correct |
|---|---|---|---|
| Ethereum escrow (`contracts/contracts/v2/HTLCEscrow.sol`) | orders, next id, pooled ETH and tokens | `createOrder`, `claimOrder`, `refundOrder` | solvent in every asset; claim and refund windows disjoint; nothing gets stuck |
| Soroban HTLC (`soroban/contracts/htlc`) | orders, next id, admin, registry, minimum deposit | `initialize`, setters, `create_order`, `claim_order`, `refund_order` | the same, whatever the admin does; a hashlock opens one order; it is a hash-timelock |
| Resolver registries (v2 and Soroban) | stakes, active flags, list (and index) | register, top up, unregister, slash, setters | the pool backs the stakes; list and index agree; the chains agree |
| Legacy contracts (`MainnetHTLC.sol`, `EscrowFactory.sol`) | orders or escrows, holdings | create, fund, claim, refund, slash, withdraw | they keep the settlement rules of v2 and cover what is open |
| Relay submission tracker and store (`relayer/src/relay-submission-*.ts`) | records, store file, in-flight promises | `submit`, stage, broadcast, reconcile, persist, prune, restore, `forget` | one transaction per payment; claim and refund never both land; pending records end |
| Relayer process (`relayer/src/index.ts`, `refund-watchdog.ts`) | in-memory order map | order routes, payouts, refunds, watchdog scans, restart | a user is paid once and, if owed, eventually |
| Chain monitoring (`index.ts`, `adaptive-poll.ts`, `contract-event-poller.ts`) | flags, pollers, block cursor | start, stop, reconcile, tick | one HTLC per payment; no order unwatched; no log passed over |
| Relayer services (Fusion+ RPC, partial fills, subscriptions, websocket, event history, quotes, gas) | books, queues, sockets, files, timers | see section 2 | nothing lost, nothing leaked, limits kept |
| Coordinator order record (`coordinator/src/state-machine`, `services`, `persistence`) | the orders rows | announce, lock, reveal, claim and refund edges | a row follows the chains and moves forward |
| Chain listeners (`coordinator/src/listeners`, `services/chain-events.ts`) | cursors, processed events | catch-up, watching, polling | nothing is lost behind the cursor |
| Coordinator quotes and history routes | price cache, quotes, pages | fetch, issue, reissue, expire; keyset pages | an announced quote is recent; a walk over pages is complete |
| Resolver (`resolver/src`) | settings, plans | register, check, preflight, readiness, run, plan, submit | commands tell the truth; no stale plan is submitted |
| Claimable balances (`stellar/src`) | balances on Stellar | fund, match, claim, refund | a settled balance is the order's own |
| SDK and frontend | form, lists, wallet copies | submit, restore, poll, sign, connect | no late answer is shown for the current one; a refund is offered and sent only when due |

Interaction. The chains are the truth and the coordinator's row is a cache of
it: listeners and the restart catch-up feed events to `OrderService`, racing
with HTTP clients. The escrow contracts ask their registry whether an account
is an active resolver. In the relayer every handler and the watchdog pay
through one tracker, whose store survives restarts; pollers write to the same
order map as the HTTP handlers. The browser reads coordinator and relayer over
HTTP and signs with two wallet extensions that change under it.

What is hard: handlers that read, await and write; events delivered late,
twice or out of order; a broadcast that times out and lands anyway; a crash
between two saves; a save that fails silently; a payee that cannot be paid; a
start that fails after it announced itself; two implementations of one rule.
The complete list, by line, is `hazards` in `PROJECT.json`.

## 2. Modules

| Module | Models |
|---|---|
| `Ledger` | balances per holder and asset, transfers, finite sums |
| `HashTimelock` | abstract: locks that open once and end once, claimed no later than their deadline or refunded after it |
| `HTLCEscrow`, `SorobanHTLC` | the two v2 escrows |
| `ResolverRegistry`, `SorobanRegistry`, `RegistryParity` | the two registries, and both under the same calls |
| `MainnetHTLC`, `EscrowFactory` | the legacy contracts |
| `RelaySubmissionTracker` | the tracker, its store as one snapshot, the networks |
| `SubmissionStore` | the store file: temporary file and rename, failing writes, pruning, `forget` |
| `RelayerPayouts` | order map, payout and refund handlers, watchdog, restarts |
| `ChainMonitoring` | start, stop and reconciliation of the pollers, the stellar-incoming tick |
| `EventPoller` | the block cursor loop and its timer |
| `ClientSubscriptions`, `WebSocketServer`, `EventHistory` | notifications |
| `FusionRpc`, `PartialFills`, `RelayerPricing` | Fusion+ book and rate limit, splitting and Merkle proofs, quotes and timers |
| `OrderService` | one order row, its audit trail, its racing handlers, the two legs on chain |
| `ChainCatchUp` | cursors, processed events, catch-up, hand-over, Soroban loop, crashes |
| `OrderHistory` | history route and cursor, and the browser's walk over pages |
| `QuoteBook` | price cache, quotes, `announce` |
| `ResolverCommands`, `ResolverPlanner` | the resolver |
| `ClaimableBalances` | the claimable-balance client |
| `SwapViews` | SDK lifecycle, refund simulator, freshness banner, timeline; amount conversion |
| `BridgeForm`, `RefundFlow`, `WalletSession` | the browser |
| `MC...` | instances for TLC |
| `LedgerProofs` | lemmas on finite sums and transfers |
| `HTLCEscrowProofs`, `SorobanHTLCProofs` | theorems on the two v2 escrows |
| `RegistryProofs` | theorems on the registries and the legacy contracts |
| `RelaySubmissionTrackerProofs` | theorems on the tracker and on notifications |
| `RelayerPayoutsProofs` | theorems on payouts, monitoring and the block poller |
| `ServersProofs` | theorems on the coordinator's order record, listeners, pages and quotes, and on the relayer's store, event history, splits, Fusion+ book and prices |
| `ClientsProofs` | theorems on form, wallets, refund dialog, views, commands, planner and claimable balances |

Names follow the source. A definition `D_Slip` next to `D` is `D` with a
plausible slip of the code in it (a dropped guard, a wrong payee, an
off-by-one); for each checked property `PROJECT.json` names a slip that
violates it.

**Sums of components.** Components that run in different processes, or that
share no variable, are checked in one run without their product:
`MCRelayerServices`, `MCServers`, `MCClients`, `MCRelayer` and
`MCRegistryParity` have a variable `part` that is chosen in the initial state
and says which of them moves. Each component is explored in full; the others
keep one of their initial states. A property of such a run is the conjunction
of what its parts promise.

**Contracts.** A transaction is one step and a revert is a guard that is
false. All functions of the escrow are `nonReentrant`, so a payee called in
the middle of a payout cannot interleave. `now` is the block timestamp and
only grows. The registry is a set of accounts that may change between any two
transactions. A native payout fails when the payee rejects ETH (the escrow
itself always does), a Stellar payout when the payee has no trustline.
Digests are an uninterpreted function, injective in the instances; that
Ethereum hashes the preimage alone and Soroban hashes order id and preimage
is kept. Amounts are unbounded naturals: the contracts use checked
arithmetic, so an overflow is a revert and reaches no state. In
`EscrowFactory` the deposits are pooled in the factory while tokens sit at
each escrow's own address and move whole.

**Node processes.** Node runs one callback at a time, so an action is what
happens between two awaits. In the tracker `persist` may write the snapshot or
fail without the caller noticing, and a crash keeps the store and the chain.
`durability` remembers whether a restart ever lost a write; the guarantees are
stated for runs in which none did, since a lost write leaves the code nothing
to recover from. `SubmissionStore` looks into the save itself. The head of
`track` is missing from the source file (its body runs into the previous
method), so joining an in-flight promise is modelled from its uses.
`RelayerPayouts` uses the tracker by its promise (one transaction per key,
callers join, claim and refund exclude each other, a restart keeps what was
saved); the `tracker` run is where that promise is checked. Pollers appear in
it as overwrites of an order's status at any time, since that is what they do
to the map.

**Order record.** A handler is resolve, load-and-judge, write; every other
handler may run in between. Lock handlers stand for the listeners and for the
`/src-locked` and `/dst-locked` routes. The legs on chain are external and
follow the two escrow models. The hashlock commits to either leg's order id or
to none, as the parties choose: the Ethereum leg opens only for one that
commits to none, the Soroban leg only for one that commits to its own id. The
`fail` and `expire` edges are left out: only tests call `markStatus`. Of the
`order_events` trail the model keeps the target of the last applied entry and
the code of the last refused one, as `classifyIllegalTransition` gives it; a
lock that violates the timelock gap is refused without an entry, as in the
code. The trail names the edge's target even where the UPDATE kept a status
that had moved on, so the two agree only while no write has landed on a row
that moved.
`ChainCatchUp` makes applying an event one step and looks at what
`OrderService` does not: which events are applied at all, across crashes.

**Browser.** A request in flight is a record of what the caller captured when
it was sent; the answer may come at any later time, or never. Wallet
extensions and the chains are external and change between any two steps.
`BridgeForm.tsx` uses some helpers it does not import (`checkOrderFreshness`,
`getActiveOrderId`, ...); they are taken for what their uses say.

## 3. Runs

| Run | Shows | Distinct states |
|---|---|---|
| `escrow` | solvency, windows, non-custody, nothing stuck, on Ethereum | 44,944 |
| `soroban` | solvency, one claim per hashlock, nothing stuck, and the refinement of `HashTimelock`, on Stellar with an active admin | 137,872 |
| `registries` | exact lists, backed and equal stakes, ordered flags; both legacy contracts refine `HashTimelock` and cover what is open | 525,969 |
| `tracker` | one transaction per key, one action per order, pending ends; queued events are delivered, vanished peers dropped | 66,248 |
| `servers` | rows follow the chains and move forward; nothing is lost behind a cursor; complete walks; recent quotes and one order per hashlock; one payment per key across crashes; complete event history; sound splits, book, rate limit and timers | 679,417 |
| `clients` | current answers in form and wallet menu; refunds and signatures only when due; truthful commands; safe plans; exact amounts and balances | 1,102,287 |
| `relayer` | an XLM order is paid once; one HTLC per payment; the watchdog rescues; every log handled | 133,967 |

The runs below state what a comment or a document of the repository says of
the code, and TLC finds a behaviour of the code that breaks it (`findings` in
`PROJECT.json` quotes the lines):

| Run | Statement | What happens |
|---|---|---|
| `escrow_replay` | a preimage cannot be replayed against another order | `claimOrder` hashes the preimage without the order id |
| `tracker_late_landing` | one action per order | `not_found` releases the lock while the payment may still land |
| `order_settles_once` | no event settles an order twice | two handlers judge the same row and both write |
| `relayer_pays_twice` | an ambiguous submit is reconciled rather than paid twice | the ETH-to-XLM payout is sent inside the tracker's staging step, which then counts as failed |
| `catch_up_claims` | settlement events are applied exactly once across restarts | a claim seen in the catch-up is refused by `reveal`, marked processed and never applied |

**What the properties exclude, and why.** Several properties are stated for
the behaviours in which the code has a chance, and name the rest:
`HistoryComplete` while no unfiltered query has sorted the memory array in
place and no archive of a day was written twice; `PaidOnceWithinWindow` unless
the record was forgotten while live, its save failed before a restart, or as
many records ended later as the file keeps; `OneHtlcPerPayment` while no failed
or overtaken start has left a second poller; `XlmOrderPaysOnce` for the claim
and the refund key of an order, since a manual refund that fell back to the
payment hash is a third key outside the order's lock; `WatchdogRescues` unless
a release was left unconfirmed, which only the client polls again;
`WalkIsComplete` unless an overtaken answer was folded in; `DepositsPooled`
until the owner withdraws or slashes a settled escrow; `StatusMovesForward`
while no write lands on a row that moved; `DisconnectLasts` unless a wallet
call that was in flight answers late; `OneOrderPerHashlock` on SQLite. Each of
the excluded cases is a behaviour of the code that the model contains.

**Bounds.** Two orders suffice for one to be paid from the other's funds, to
share a hashlock, or to be overwritten. Durations, amounts and deposits have
values on both sides of each guard, time runs past every expiry, and payees
include the contract itself and an account that cannot be paid. Three
resolvers are the least for which swap-and-pop moves a third one's entry. One
order with a claim and a refund is the scope of the tracker's lock; two polls
and two transactions per key make a second transaction possible, and one
restart makes a stale snapshot visible. Two keys and a file of one ended record
make pruning bite. Two handlers race on the row; more are covered by the
theorems on `RowFollowsChains` and `StatusMovesForward`. A lock and its
settlement in two blocks, with three starts of the listener, put a crash between any two of apply, mark and advance and between catch-up and
watchers. Pages of one row and two rows in one second put the page boundary
inside a second. A queue longer than one batch, an event memory of three and
one-entry histories fill up. Three starts of the monitoring let a second one
overtake a failing first and a third find what they left; three blocks in
windows of two let the cursor fall behind. Two concurrent calls of the wallet
hook let a mount check, a connect and a refresh overtake each other. Symmetry is
used for the handlers of `servers` and the resolvers of `registries`; neither
run checks liveness. `MaxOrders`, `MaxTime`, `MaxStages`, `MaxCrashes`,
`MaxBoots`, `MaxRestarts` and the other `Max...` constants that are not named
in the code bound the models only.

**Deadlock** is not checked: in every run the system may legitimately stop,
with all orders settled, every request answered and time at its bound.

**Fairness.** Escrows: time advances, and somebody keeps trying the
permissionless refund of each expired order, for which the deposit is the
incentive. Tracker: callbacks that are due run (weak fairness); networks settle
what they were handed; unsettled keys are asked about again (clients' retries);
and the last poll of a polling window reaches a node infinitely often. That
`confirm` returns at all is assumed: the code puts no timeout on it.
Subscriptions and sockets: the interval timers fire. Relayer: awaits resume, the
watchdog's interval comes round to every order infinitely often, and a refund
that is staged again and again succeeds at some point. Block poller: the armed
timer fires, a started tick ends, and the RPC stops failing at some time. In a
run with several parts, each fairness condition is asked of the behaviours of
its own part.

**Refinement.** `SorobanHTLC`, `MainnetHTLC` and `EscrowFactory` implement
`HashTimelock` under mappings that read a lock's state and deadline off an
order: an order opens once with a deadline in the future, and ends once, by a
claim no later than the deadline or by a refund after it. That puts the three
contracts and the boundary second of each on one footing.

## 4. Observations

What modelling brought up beside the findings, without a run of its own:

* `ARCHITECTURE.md:46` says the registry does not gate `claim`; `HTLCEscrow.claimOrder` asks it about the caller. `docs/REVIEW_RESPONSE.md:21` claims parity of `MainnetHTLC`, which does not gate.
* The Soroban registry's flag is not recomputed on a top-up or when the minimum moves (`docs/AUDIT_PROCUREMENT.md:38` says it mirrors the Ethereum one).
* The catch-up records every Ethereum lock as the source lock (`ethereum-listener.ts:152`), against `order-events.ts:94-102`. The live Ethereum path never advances the cursor. Soroban outcomes that are errors are swallowed while the cursor advances (`soroban-listener.ts:93-105`).
* `EscrowFactory`: the deposit stays recorded after a claim or refund, so a later slash pays it from other deposits; `emergencyWithdraw` is unrestricted; a claim or refund needs an allowance that `HTLCBridge` never gives; an escrow in token 0, which the comment on `createEscrow` allows, can never be funded and its deposit never returned.
* A manual refund without an order id uses the payment hash as its key and so bypasses the order lock (`relayer/src/index.ts:2498-2502`); `/process` takes the caller's word for the deposit; a second order during a monitoring start, or a start that fails late, leaves pollers behind.
* A release that timed out is polled again only by the client; the watchdog passes it over, against `refund-watchdog.ts:2-4`.
* Merkle proofs list siblings from the root while verification folds from the leaf, so a proof verifies only for one part, or the first of two (`merkle-tree.ts:129`).
* An unfiltered query of the event history sorts the live array, after which the newest events are spilled; an archive of the same day is overwritten. A second `createSubscription` orphans the first; unsubscribing the last order filter of a socket widens it to all orders.
* Fixed rate windows admit twice the limit across a reset, and `/api/rpc` counts all callers as one client. `/quote/build` serves expired quotes. The price cache keeps failed lookups for 30 s.
* A claim on an order that was refunded after its preimage was recorded is refused with `CLAIM_BEFORE_SECRET` (`order-machine.ts:234`), which the comment at 157 reserves for a claim before the preimage; `ALREADY_SETTLED` is never reached for a claim.
* There is no UNIQUE constraint on the hashlock (`schema.sql`): on Postgres two announcements may both insert.
* The planner's clamp to 300 s lets a fill outlive a source order that has less time left. `register.ts:459` says `"0"` means the minimum stake; the Soroban registry refuses it.
* `createClaimableBalance` throws after landing in some cases, and a retry funds twice; refunds there have no timelock.
* `BridgeForm.tsx:844,884` assumes success of a transaction it saw in a block, against the comment at 948; an answer of 202 is shown as completed. The refund dialog's poll overwrites "submitting" and "done". A wallet call in flight at "Disconnect All" reconnects. `useBackendStatus` increments a `const` ref, so its status stays "checking". `classifyOrderFreshness` offers a refund at the timelock itself, where the contract still refuses.

## 5. Proofs

| Module | Theorem | States |
|---|---|---|
| `HTLCEscrowProofs` | `TypeCorrect` | `TypeOK`; no balance goes negative |
| | `EscrowSolvent` | `Solvent` |
| | `ClaimAndRefundWindowsAreDisjoint` | `SettlementWindow` |
| | `OrdersNeverRewritten` | the action property `OrdersAreFinal` |
| | `EscrowIsNonCustodial` | `NobodyLosesFunds` |
| `SorobanHTLCProofs` | `TypeCorrect`, `ContractSolvent` | `TypeOK`, `Solvent`, whatever the admin does |
| | `SecretsClaimOnce` | `OneClaimPerHashlock` |
| | `ContractImplementsHashTimelock` | the refinement `ImplementsHashTimelock` |
| `RegistryProofs` | `TypeCorrect`, `ListsStayExact`, `StakesStayBacked`, `FlagsNeverDivergeUpwards` | `TypeOK`, `ListsExact`, `StakesBacked`, `StellarFlagImpliesEthereumFlag` |
| | `ContractsTypeCorrect` | `ContractsTypeOK` |
| | `LegacyTheorem` | `LegacyFollowsV2`: both legacy contracts refine `HashTimelock` and cover what is open |
| `RelaySubmissionTrackerProofs` | `TypeCorrect`, `NeverSignsTwice` | `TypeOK`; a key signs one transaction if no restart lost a write |
| | `KeepsOneTransactionPerKey`, `KeepsOneActionPerOrder` | `OneTransactionPerKey`, `OneActionLands`, if `NotFoundIsFinal` |
| | `ServicesTypeCorrect` | `ServicesTypeOK` |
| | `NotificationsAreOwned` | `QueueHasOwner` and `ServedAskedFor`, the safety half of `NotificationsFlow` |
| `RelayerPayoutsProofs` | `TypeCorrect`, `XlmUserPaidOnce` | `TypeOK`, `XlmOrderPaysOnce` |
| | `OneHtlcTheorem`, `RelayerTypeCorrect` | `OneHtlcPerPayment`, `RelayerTypeOK` |
| | `NoLogSkippedTheorem` | `NoLogSkipped`, the safety half of `LogsHandled` |
| `ServersProofs` | `TypeCorrect`, `RowIsCacheOfChains` | `TypeOK`, `RowFollowsChains` |
| | `StatusNeverFallsBack` | the action property `StatusMovesForward` |
| | `NothingIsLost` | `NothingLostBehindCursor` |
| | `FreshQuotesTheorem` | `AnnouncedOnFreshQuotes` |
| | `PaidOnceTheorem` | `PaidOnceWithinWindow` |
| | `WalkTheorem` | `WalkIsComplete` |
| | `HistoryTheorem` | `HistoryComplete` |
| | `BookTheorem` | `BookKeepsItsTerms` |
| | `ServersTypeCorrect` | `ServersTypeOK` |
| `ClientsProofs` | `ClientsTypeCorrect` | `ClientsTypeOK` |
| | `RefundAdviceTheorem`, `CommandsTheorem`, `AmountsTheorem` | `RefundAdviceIsSound`, `CommandsTellTheTruth`, `AmountsArriveAsAgreed` |
| | `PlansTheorem`, `CurrentAnswersTheorem` | `PlansAreSafe`, `FormShowsCurrentAnswers`, with their action properties |

They hold for every choice of accounts, tokens, amounts, orders, handlers,
keys and bounds. A theorem on one part of a run is stated of that part's own
specification or of the run's; `BooksApart` and its like show that a step of
the run is a step of one part and a stutter of the others, so both say the
same of the part.

**Assumptions.** `EscrowAssumption` and its like on the other modules type the
constants and keep the special addresses apart. Beyond that: on Stellar the
minimum timelock is positive, as the contract's constant is, and the digest is
injective in order id and preimage (`DigestAssumption`: no SHA-256 collision);
the accounts of the registries are finite, so that their stakes have a sum.
`ContractsAssumption` asks that `MainnetHTLC`'s shortest timelock is positive
(5 minutes in the code): with none, an order would open already expired.
`ServersAssumption`, `PollersAssumption` and `ServicesAssumption` type the
bounds and keep the placeholder `"none"` out of the sets of names; a page and
the store's file hold at least one entry, the limits of the event memory (1000)
and of the rate (100) are positive, token prices are positive, and a split is
into a number of parts that divides 100, the only ones the model has.
`ClientsAssumption` has the destination leg expire before the source leg, as
the timelock policy of every announced order demands, a planner's buffer that is
not zero, and says of the power of ten between the two chains' decimals that it
is a positive number: the provers do not compute exponentials.
The tracker's two theorems about the networks have the hypothesis
`NotFoundIsFinal`, without which they are false (run `tracker_late_landing`);
`NeverSignsTwice` does without it. Everything said of the tracker is
conditional on `NothingLost`, as in the runs.

**The escrows.** `TypeOK` is not inductive by itself: a payout subtracts from
the escrow's balance, which stays a natural number only because the escrow is
solvent. Solvency in turn needs that creating an order writes over an unset
entry, otherwise an owed amount would vanish from the sum, and that a payee has
a balance. Their conjunction is inductive (`EscrowInv`; on Stellar
`ContractInv`, which adds that nothing is stored before `initialize`, since
that call sets the ids back to 1). `SettleStep` treats claim and
refund at once: both clear one term of the sum and take exactly that much from
the pool. The sum is a recursive function; `LedgerProofs` derives from a
least-counterexample argument that it exists, that it changes by exactly the
changed term, and that each term is below it. Non-custody compares two such
sums: settling moves one order's amount from one to the other. One claim per
hashlock needs that a claimed order shows a preimage whose digest, taken with
its own id, is its hashlock (`ClaimInv`). For the refinement each contract step
is shown to be the abstract step on the same lock, or to leave all locks as
they are.

**The registries.** The swap-and-pop needs the list, the index and the flags at
once: the list holds exactly the registered resolvers, and the index is its
inverse. The Stellar list is rebuilt by a loop, a recursive function here;
`ListWithout` is characterised by induction on its prefix. A payout finds its
funds because the stakes are backed, and the stakes are backed because a
resolver that is not registered has none. The flags stay ordered only as long
as both registries compare with one minimum (`InSync`).

**Tracker and payouts.** What a record says of the chain (`RecordTrue`: it names
the only transaction its key ever signed, and a status that fits it) is kept by
the in-flight driver, by the store as long as no write was lost
(`StoreCurrent`), and by a restart that reads the store back. The lock is a
fact about pairs of keys of one order. `PayInv` says the same of the payouts'
view of the tracker, and adds what a handler between two awaits may still
believe (`CallsTrue`): the mark it is about to write is the one of a payment
that landed.

**The order record.** `RowFollowsChains` is about the row alone, but a write
depends on what its handler saw several steps earlier. `ServiceInv` therefore
says of each handler that what it carries was legal and is founded on facts
that cannot be taken back (a leg claimed or refunded, an escrow recorded, a
preimage stored). `raced` marks the first write over a row that moved, after
which order is lost (run `order_settles_once`) but grounding is not.

**The listeners.** `NothingLostBehindCursor` speaks of the saved cursor, but
what a crash leaves behind depends on the pass that was under way. `CatchInv`
therefore says how far the locks and the refunds of the current range have
reached their rows (`LocksDone`, `RefundsDone`), that the escrow's log has no
refund of a claimed order, and that the Soroban loop resumes at or before its
cursor.

**Quotes, pages, store.** A quote is recent because the sampled price, the
fetch that brings it and the cache that keeps it each add a bounded delay
(`QuoteInv`). A walk is complete because the latest answer and the cursor it
carries together cover what is still wanted, and an answer that is not the
latest is marked as crossed (`PageInv`). One payment per key rests on the
record of a key with a landed transaction being in the file, or excused, or
pushed out by as many later ends as the file keeps (`StoreInv`).

**Event history.** `HistoryComplete` compares sets; the induction needs the
order. Until a query has turned the array round, memory holds the latest
events, one after the other (`LatestInMemory`), and the disk exactly the ones
before (`OthersOnDisk`). Spilling then takes a prefix, and the filter of the
archive leaves a suffix: `KeepFacts` proves that of the filter, for any array,
by induction on its prefixes.

**Splits.** The two functions that compute a hash lock build their levels from
nodes and from hashes. `TreesAgree` shows by induction on the level that each
level of the one is the list of hashes of the other's.

**Rate limit.** The counter knows only the current window, the promise is about
any stretch of a window's length. `RateSound` adds what the past contributes:
the window accounts for everything served since it began, and the stretch just
before it saw no more than the limit, since only one window reaches into it. A
stretch meets at most these two.

**Quotes and timers of the relayer.** A quote whose term the clock has not
reached is still stored, quotes have distinct numbers, and the two services
hold distinct timers and only those run (`PricingInv`).

**Monitoring and the block poller.** While at most one poller lives, an order
that was answered is marked in the map before another tick can read it
(`MonInv`). Between two queries of a tick the window begins at the cursor and
ends at a block that was mined (`PollInv`).

**Legacy contracts.** The steps map to `HashTimelock` as on Stellar.
`LegacyInv` counts the open orders of each asset against the vault;
`FactoryInv` sums the deposits of the unsettled escrows, until the owner takes
from the pool.

**Clients.** What a late answer may do depends on what its request captured.
`FormInv` says that an answer which is still accepted belongs to the order and
the estimate on screen, `WalletInv` the same of the calls in flight at
"Disconnect All"; `RefundInv` that a click carries an eligibility that was true
when it was read and, since clocks only grow, still is; `CliInv` what each
progress of a command has established on the registries; `PlannerInv` that a
plan keeps the terms it was built from; `ClaimableInv` that a balance is
settled once.

**How the data inductions are done.** The library's induction theorems take an
operator as parameter, which the installed provers cannot instantiate.
`SetInduction` in `LedgerProofs` states induction over sets of numbers instead;
a recursive function is shown to satisfy its defining equation by a unique
partial solution for each length (`SumTo`, `ListWithout`, `KeepRecursion`,
`NodeRecursion`, `HashRecursion`).

Each inductive invariant was first checked by TLC as an invariant of its run.

**Only model-checked.** Liveness under fairness, and everything that needs
ENABLED, is out of the prover's reach: that nothing gets stuck in the escrows,
that pending submissions end, that queued events are delivered and vanished
peers dropped, that the watchdog rescues, that every log is handled. The runs
that expect a violation are TLC's by nature. That a Merkle proof of `getProof`
verifies holds only of the smallest trees (section 4) and is not claimed.

## 6. Not modelled

* `HTLCBridge.sol`: a stub that keeps what it is sent.
* `recovery-service.ts`: never constructed, and it looks for a hash in `record.result`, which only succeeded rows have. `phase6-bridge-service.ts` and `EnhancedStellarBridge`: never instantiated. `preset-manager.ts`: lookups; its usage counter has no caller.
* Relayer: admin, debug and price routes; `processEscrowToStellar` and `createEscrowForOrder`, which nothing reaches; statistics.
* Coordinator: metrics, the older entries of the audit trail, fixtures, replay tool, request parsing, CORS and redaction.
* Resolver: the listeners, which only observe and log.
* SDK: encoders and call wrappers, secret generation, deployment evidence.
* Frontend: rendering, balances, receipts, static pages, `handleClaim` and `handleRefund` of the form; marking refunds in the transaction list, which depends on a helper missing from `orderRecovery.ts`.
* Scripts, end-to-end harness, vendored and generated code.
* Data is abstract throughout: signatures, encodings, gas, fees of the networks and wording are left out.

## 7. What is left

Every invariant and action property of a passing run is a theorem, as is the
safety half of `LogsHandled` and `NotificationsFlow`. Worth adding: the
refinement of `HashTimelock` by `HTLCEscrow`, which would put all four
contracts under one theorem; and the composition of `RelayerPayouts` with the
tracker itself in place of the tracker's promise.
