# Verification of the Outcome Liquidity Exchange

TLA+ models of the exchange (`src/src/modules`, and the parts of `src/apps/web` that
follow it), the TLC runs that check them on small instances and the theorems TLAPS
proves about them for all instances.

- [1. The system](#1-the-system)
- [2. The modules](#2-the-modules)
- [3. What the runs check](#3-what-the-runs-check)
- [4. What is proved](#4-what-is-proved)
- [5. Where code and documentation disagree](#5-where-code-and-documentation-disagree)
- [6. Abstractions, bounds and what is left out](#6-abstractions-bounds-and-what-is-left-out)
- [7. Plan](#7-plan)

## 1. The system

A modular NestJS monolith on PostgreSQL, with Redis for the order book, for the
BullMQ queue of settlements, for revoked tokens and for cached users. Users deposit
money, place YES and NO orders on a binary market, and are matched at complementary
prices and equal quantities; a worker settles the trades, and when an administrator
resolves the market the winners are paid 100 cents a share.

| Component | State | Operations | What is hard | Modelled in |
|---|---|---|---|---|
| Wallet and ledger (`wallet/`) | `wallets` (available, reserved), append-only `wallet_entries` | create, deposit, withdraw, reserve, release, settleDebit, settleCredit, each by `mutateWallet` | concurrent mutations of one row; several in one transaction, and deadlocks between such; repeated keys; overflow of INTEGER; rollback | `Ledger`, `LedgerContract`, `WalletService` |
| Orders (`orders/`) | `orders` | `placeOrder`, `cancelOrder` | one key sent twice at once; the steps after the commit (projection, matching) may fail or come late | `Trading`, `OrderBook` |
| Matching (`matching-engine/`) | `trades`, statuses of orders | `tryMatchOrder`, rollback after a failed enqueue, startup recovery | two attempts for one counterparty; SKIP LOCKED; crash between commit and enqueue | `Trading`, `OrderBook`, `Settlement` |
| Order book projection (`order-book-projection.service.ts`) | sorted sets and hashes in Redis | project, remove, rebuild | Redis follows PostgreSQL outside the transaction, and forgets when it restarts | `OrderBook` |
| Settlement (`jobs/`) | BullMQ jobs, statuses of trades | enqueue, `handleSettlement`, `markSettlementFailure`, retry by trade or by job | at-least-once delivery, attempts, stalled and evicted jobs, retries crossing failures, crashes, a Redis that forgets | `Settlement`, `Trading`, `TradeLifecycle` |
| Markets (`markets/`) | `markets`, resolved outcome | create, close, close expired (every minute), `resolveMarket` | resolution reads trades without locking them | `Trading` |
| Users (`users/`) | `users` | registration with a wallet | one transaction for both | `WalletService`, `Auth` |
| Authentication (`auth/`) | revoked tokens and cached users in Redis | register, login, logout, the guards of a request | awaits between the checks, times to live in whole seconds, a cache that is filled with what was read before a change, Redis away or empty | `Auth` |
| Realtime (`realtime/`) | rooms of sockets | subscriptions, broadcasts after commits | order and loss of messages | `Realtime` (partly) |
| Web client (`apps/web`) | the session in storage, cookie and tabs; caches of pages | opening pages, the router, forms, restoring a session, logout, reconnection | tabs that share a session, late answers, redirects that could go on for ever, stale views | `BrowserSession`, `Realtime` (partly) |
| Redis client and keyspace (`redis/`) | – | commands that wait or reject | whoever waits for Redis waits as long as it is away | `Auth`, `OrderBook`, `Settlement` |
| Schema, HTTP layer, configuration, health | – | wiring | – | constraints and column widths only |

How they interact: `placeOrder` locks the market row, reserves the collateral in the
same transaction, then projects the order and calls `tryMatchOrder`; that commits a
trade with both orders, removes them from the book and enqueues a job whose
identifier is the trade's. The worker runs in the API process and settles the trade,
its orders and both wallets in one transaction; when it throws, a second transaction
releases the collateral and marks the trade as failed. An administrator may arm a
failed trade again, which reserves the collateral once more and revives the job. A
resolution locks the market row, refuses while a settlement is pending, and credits
the winners of the settled trades. At startup the order book is rebuilt and pending
trades are enqueued before the server listens. Every request to a guarded route first
asks Redis whether its token is revoked and Redis or PostgreSQL for its user. In the
browser the proxy decides by a cookie, the guard of a page and the forms by the token
in the tab.

What makes each part correct: a wallet's balances are what its entries add up to and
no key counts twice; trade and orders move together; a trade is debited on both sides
or on neither; a credit goes to the winner of a settled trade of a resolved market,
once; money is conserved; no pending trade is forgotten; the book shows every open
order; a logout holds until its token expires and ends no other session; an old role
is served for a bounded time; a tab shows whom its token belongs to and comes to rest.

## 2. The modules

| Module | Models | Correspondence |
|---|---|---|
| `Ledger` | one wallet mutation, as pure operators; what the balances of a ledger must be | `Accepted` and `Posted` are `mutateWallet`: the key is looked up first (`Replayed` compares neither type nor amount), then `Applied` is the operation's callback and `Fits` its checks with the CHECK constraints and the INTEGER columns; `Balance` is what the entries of a wallet add up to, `Sound` the promise |
| `LedgerContract` | what the wallet promises: the ledger stays sound and its entries only grow | abstract; `WalletService` and `Trading` implement it |
| `WalletService` | concurrent requests, each a transaction of one or more calls of `mutateWallet`, statement by statement | `pc` is where a request is and `at` its mutation in hand, `rowLock` the FOR UPDATE locks it keeps until it commits, `draft` the rows it has locked as it sees them, `written` its entries; `Commit` makes them visible, `RollBack` may happen at any point, and `AbortVictim` is PostgreSQL letting one go of those that wait in a `Circle`; `read` is history |
| `TradeLifecycle` | the statuses a trade goes through | abstract; `Trading` and `Settlement` implement it |
| `OrderLifecycle` | what users rely on about their orders: open, then cancelled or matched for good, a match both orders in one step | abstract; `OrderBook` and `Trading` implement it |
| `Trading` | orders, trades, markets, wallets in PostgreSQL | one action per handler's transaction; `resolveMarket` is three steps (`ResolveCheck`, `ResolveRead`, `ResolveCommit`) since it reads trades without locking them; `EXTENDS Ledger` |
| `Settlement` | from the commit of a match to a settled or failed trade, through the queue, the worker, the retry, crashes and startup | one action per transaction or call to the queue; `matcher`, `worker`, `admin`, `recovering` are where each handler is; `MatchCommitThrows` is a COMMIT whose answer is lost, after which nobody enqueues the trade; `failedJobs` is the queue's list of failed jobs, the oldest of which is dropped; a Redis that restarts has forgotten all jobs (`lost` is history: the trades whose job Redis forgot or whose match was committed without an answer) |
| `OrderBook` | placing, matching and cancelling between the awaits, row locks with SKIP LOCKED, the book in Redis | one action per transaction or call to Redis, the matching transaction split at its two locking reads; `InsertThrows` and `CommitMatchThrows` include a COMMIT whose answer is lost, and the calls to Redis may throw before or after they took effect; a Redis that restarts has an empty book |
| `Auth` | registration, login, the guards of a request, logout | one action per await of `JwtStrategy.validate`, `AuthUserCacheService.getUserById`, `AdminOnlyGuard` and `revokeToken`; the clock counts half seconds and the code whole ones; `loggedOut`, `staleUntil`, `late`, `sees` are history |
| `BrowserSession` | tabs of one browser: `auth-provider.tsx`, `auth-guard.tsx`, `proxy.ts`, the login and register forms | `storage` and `cookie` are shared, a record per tab holds its page, where the router is going, whether the page's effect is due, and the state of its provider; `Persist` is `persistToken` |
| `Realtime` | a page of the web client and what the server sends it: query, polling, socket, room, reconnection | values are versions; `page` is the market page (`use-order-book-realtime.ts`, polled every five seconds) or the wallet page (`wallet/page.tsx`, not polled); a handler changes, reads and emits in three steps (`matching-engine-broadcast.service.ts`, the gateways); `link` is the socket up to its membership of the room |
| `MC_*` | instances for TLC | constants and the orders, requests and keys of each instance |
| `LedgerTheorems` | lemmas on sums over entries and on one mutation | section 4 |
| `WalletServiceProofs`, `TradingProofs`, `SettlementProofs`, `OrderBookProofs`, `AuthProofs`, `BrowserSessionProofs`, `RealtimeProofs` | theorems about the module each is named after | section 4 |

An order stands for a (user, idempotency key) pair, which the schema makes unique, and
a trade for its pair of a YES and a NO order. An idempotency key of the services is a
pair of the text the code builds it with and what follows. The key of a deposit or
withdrawal is taken as the user gives it, in the same column: `ClientKeys` is any set of
keys for each user, those the services build for his wallet among them. A mutation whose
key was used up that way is a replay, and changes nothing, as in `mutateWallet`. So the
claims on debits, credits, collateral and money say which mutation may be missing for
that reason (`KeyTaken`, `KeysApart`, `Uncharged`), and that no other is.

The split between `Trading`, `Settlement` and `OrderBook` follows the locks. A
transaction that locks trade, orders and wallets before it changes them is one step
of `Trading`, and `WalletService` shows why that is right for its wallet part: the
row locks make concurrent transactions implement the same contract. What happens
between the transactions of a handler is the subject of the two others, which leave
the balances out. In `Trading` any pending trade may be settled, failed or left at
any time, which covers every schedule of `Settlement`, and a matching attempt may
take any counterparty that fits, which covers every outcome of `OrderBook`. What the
modules share is stated between them: `Trading` and `Settlement` both implement
`TradeLifecycle`, `Trading` and `OrderBook` both implement `OrderLifecycle`, so that
the `Match` and `CancelOrder` that are one step in `Trading` are one step for the
users of the interleaved handlers too.

Definitions marked "Wrong on purpose" are not part of any specification: each is a
plausible mistake in the definition after it and shows that a property notices it.

## 3. What the runs check

| Run | States | Question and answer |
|---|---|---|
| `wallet` | 75,036 | Seven concurrent transactions on two wallets, one a repetition, a retry and a resolution with two mutations each, with refusals, an overflow (`IntMax = 7`), an invalid key, rollbacks and deadlocks: is the ledger's contract kept, is every request answered? |
| `trading` | 69,010 | One market and one price, 40 against 60: two YES orders of alice, a NO order of bob and one of her own; two retries, closing and resolution; a deposit of hers with the key of her debit, and deposits and withdrawals of bob with the keys of a credit and of his reservation: do orders, trades, debits and collateral agree, is a pending trade covered after retries, do orders keep to their life cycle, who is credited, is money conserved, and what is missing where a key had been used up? |
| `settlement` | 397,031 | Two trades, one worker, one retry, one crash, one restart of Redis, two calls that throw at any steps, the COMMIT of a match included, and a queue that keeps one failed job: is the life cycle kept, is no trade forgotten but one whose own COMMIT threw, is every match settled unless a call throws, does it end settled or failed unless its own COMMIT or a second call throws, there is a crash or a retry? |
| `order_book` | 814,847 | Three orders, one sent twice and one cancelled, and two troubles (calls that throw, COMMITs whose answer is lost, crashes, restarts of Redis): is an order inserted once, is every open order visible that no trouble kept out, is nobody matched twice, do orders keep to their life cycle, when do orders that fit rest, is every request answered? |
| `realtime` | 192,843 | Two changes, one of them asked for by the page, two failing calls, two lost connections: does the polling market page end with the current order book, and why may a connected page at rest show an old value? |
| `auth` | 822,810 | Two devices of one user, a logout and a request to an administrator's route over three seconds, with tokens that live for two, a change of role, and a call that throws or a restart of Redis: does a logout hold, does it end only its own session, how long is an old role served, is every request answered? |
| `session` | 1,418,451 | Two tabs, two accounts, two logins, three moves and one failing request or expired token: who is shown, why does a session appear or disappear, where does a tab come to rest, does it? |
| the five others | – | violations, section 5 |

Bounds. Two users, one market and three or four orders are enough for the cases the
properties tell apart: two counterparties for one order, a user on both sides, two
payouts to one wallet, a wallet that cannot pay for its order. Two retries are
needed for the second reservation to be a replay. Two wallets are enough for a
deadlock; a circle of three transactions needs a third. `IntMax` is chosen above the
balances of a run, or below one of them where overflow is the question; the INTEGER
column is `IntMax = 2^31 - 1`, and the theorems hold for it. In `trading` every deposit
and withdrawal is of 280 cents, which pays for all orders of one user, and the keys are
one of each kind the services build for a debit, a credit and a reservation; keys that
nobody else builds are those of the runs `failure_releases` and `resolved_is_paid`, and
in `trading` those of orders that never come to be. `KeepFailed` is 1 for the
100 of the code, so that the second of two failures drops the first. In `auth` the
token's lifetime is longer than the cached role's, as in the code (an hour and 15
seconds), and six half seconds let a token be revoked, expire and be replaced by a new
one. In `session` a third move lets a tab that was sent to the login page leave it
again. `MaxFaults`, `MaxTroubles`, `MaxCrashes` and `MaxLosses` bound what goes wrong,
not what the code does; the liveness properties of `Settlement` name which troubles
excuse a trade that stays pending. Deadlock is not checked by TLC, since each system
may really stop: all requests answered, all trades final, the clock at its bound.

Fairness. `WalletService` and `OrderBook`: a handler that has started goes on (weak
fairness), because each statement is awaited and PostgreSQL answers or rejects; a
lock is granted to a waiter, and a deadlock is found (`deadlock_timeout`). Nobody is
assumed to send a request. `Settlement`:
handlers, timers, the stalled check and startup go on while the process is up, and
Docker restarts it (`restart: unless-stopped` in `docker-compose.yml`). `TakeJob` is
strongly fair for each trade: the one worker is busy again and again with other
jobs, and BullMQ hands out waiting jobs in the order they came. No crash, throwing
call, match or retry is ever assumed to happen. `Auth`: a guard goes on while Redis is
up, and Docker restarts Redis; the clock may stand still. `Realtime`: a handler that
reads goes on, requests are answered, messages on an open connection are processed and a
market page in front of its user polls; that a socket ever connects is not assumed,
since the client gives up after eight attempts. `BrowserSession`: React runs the effects
that are due, the router arrives, and a request is answered or given up after ten
seconds (`api-client.ts`); nobody has to sign in or go anywhere.

## 4. What is proved

All theorems hold for every set of users, orders, markets, requests, trades, keys and
tokens, every `IntMax`, every lifetime and every bound on troubles, from the assumptions
named in the modules: prices from 1 to 99 and positive quantities, which the DTO and
the CHECK constraints enforce and that there are finitely many users
(`TradingAssumption`, `IntMaxAssumption`), a wallet named
in every mutation (`AsksAssumption`), that orders which fit are two
(`OrderBookAssumption`), that lifetimes are positive (`AuthAssumption`), that
"no token" and "no user" are none (`SessionAssumption`, `NoTokenAssumption`), that
"no trade" is none and the queue keeps a failed job (`SettlementAssumption`), and that
finitely many handlers change what a page shows (`RealtimeAssumption`). Orders, trades and
requests may be infinitely many. Every invariant and every action property the runs check
is proved, and every refinement; the liveness properties are not.

**`LedgerTheorems`.** Balances are sums over sets of entries, which the community
modules define by recursion over subsets. What such a sum does when an entry or a set of
entries is added is proved by induction over finite sets in a form that needs no operator
parameter: among the subsets of a finite set for which a statement fails there is a
smallest (`MinimalSubset`), and the lemma shows for each statement that it would not
fail there (`SumRemove`, `SumUnion`, `SumImage`, `SumPlus`). On these rest the two lemmas
the ledger needs: an accepted mutation keeps a ledger sound (`PostedSound`), and the
balances of all wallets are the deposits, debits and credits of all entries
(`BalancesAddUp`).

**`WalletServiceProofs`.** The inductive invariant `WalletInv` adds to the types that
a transaction holds the rows of the mutations it has done (`HoldsRows`), that its
drafts are the committed rows with its own changes (`DraftIsCurrent`), that the keys it
passed as replays are in the ledger (`PassedAreKnown`), and that an answered request
has its keys there (`DoneIsRecorded`). `DraftIsCurrent` alone is not inductive: without
the locks two requests could both be "saved". Consequences: `WalletTypeCorrect`,
`DraftsAreCurrent`, `AnswersAreRecorded`. `WalletImplementsContract` is the refinement
to `LedgerContract`. A sound ledger is not an inductive invariant: what a commit makes
visible was computed statements earlier. `LedgerInv` adds that the rows a transaction has
locked hold what the committed entries and its own add up to (`DraftAddsUp`), which the
commits of others leave alone because they lock other rows.

`OrderedLocksNeverDeadlock` says what would make the claim hold that `nobody_deadlocks`
refutes: if the mutations of every transaction come in one order of the users (some
ranking of them by natural numbers, no two alike), no set of transactions ever waits in
a circle. Who holds a row and waits for another waits for one of a higher rank
(`WaitsForHigher`), so that the ranks waited for in a circle would have no least one.
The hypothesis is about the requests alone. One mutation a transaction satisfies it, as
do deposits, withdrawals and orders in the code; `settleDebit` and `settleCredit` do
not, and the instance of the run has two transactions that disagree.

**`TradingProofs`.** `TypeCorrect` bounds the balances through every transaction,
two-legged ones and payouts included. `OrdersFollowTrades` proves `Lockstep`, which is
inductive with the types: the transactions that move a trade move the same two orders
(`AdvanceKeepsLockstep`), a match takes two orders that have no trade
(`MatchKeepsLockstep`), and everything else leaves traded orders alone. `FinalStays`
(nothing final changes) needs in addition that a market locked by a resolution is
not resolved (`ResolvingIsUnresolved`). `TradingImplementsLifecycle` is two refinements.
To `TradeLifecycle` (`TradesFollowLifecycle`), each step maps to a move of one trade or
to a stutter. To `OrderLifecycle` (`OrdersFollowLifecycle`), MATCH_PENDING, MATCHED and
SETTLEMENT_FAILED are all "matched", so that whatever moves a trade must leave its orders
matched and the pair as it is, which needs `Lockstep`.

`DebitsFollowSettlement`: no debit of a trade is in the ledger unless it is settled, and
both are when it is, but for one whose key its user had used up. It rests on `KeysTell`:
whatever is in the ledger is a deposit, a withdrawal or one of the services' entries,
whose key determines the whole entry. So a mutation that was taken for a replay is one
that really happened, or there is a deposit or withdrawal with its key (`ReplayIsKnown`).

`CreditsFollowResolution`: every credit is the payout of a settled trade to the winner
announced. `ResolutionPaysAll`: the step that resolves a market leaves no settled trade
of it unpaid, except one that had failed when the resolution checked and was settled when
it had read, which takes a retry in between, and one whose winner had used up the key of
the credit. The invariant is `ResolutionWindow`, what holds between a resolution's check
and its commit: the trades it has read are settled trades of its market, and only a trade
that had failed at the check (`failed` is history) can be pending there, or settled and
not read. It needs the lock on the market row, which keeps new trades out.

`TradingImplementsContract`, the refinement to `LedgerContract`, follows from what a step
posts (`StepPosts`: one mutation, two, or a resolution's payouts) and `PostedSound`. A
resolution posts a set of credits at once; that this set is finite needs
`FinitelyManyTrades`. `MoneyIsConserved` compares sums of four kinds: balances are what
the entries add up to; every settled trade has its two debits, 100 cents a share
together (`DebitsAddUp`, from `SettledIsDebited`), but for those that were taken for
replays (`Uncharged`); every credit is a payout of a settled
trade, of the same 100 cents (`CreditsAddUp`, from `CreditsAreDue`); the rest cancels.

`CollateralStaysExact` is about the orders whose keys their user kept out of his deposits
and withdrawals (`KeysApart`); for another one it would be false, since a reservation
that is a replay reserves nothing. It has two parts. `UnretriedStaysExact` needs that the
entries tell how far orders and trades got (`EntriesTellStatus`): an order's reservation
is there once it is placed, its release once it is cancelled, and of a trade that was
never retried each side has one release if it failed and none otherwise. Two handlers
release under different keys, and the order of a user who trades with himself has both of
its sides in one wallet: `GoneOnce` says that one entry takes an order's collateral away,
never two.

What retries do to the collateral is the other part, `PendingStaysCovered`: a pending
trade has the collateral of both orders behind it after any number of failures and
retries, unless both handlers that fail trades have failed it. It needs that an order
that was armed again had been released, by one handler or both (`LegEntries`), and counts
entries: two reservations, one release (`CoveredAgain`). A theorem of its own is
`FailuresReleaseUntilRetried`: the claim that `failure_releases` refutes, that a failed
order holds nothing, is true until the first retry while users keep the services' keys
out of their deposits and withdrawals, since only `prepareTradeForRetry` posts an entry
with a retry's key (`CountedRetries`).

**`SettlementProofs`.** `SettlementInv` adds to the types that no job is listed twice
among the failed ones (`ListedOnce`), that whatever names a trade, a handler, a job, a
retry or the recovery, names one that was matched (`HandsMatched`), and that a worker
that is about to report success has settled (`SuccessIsSettled`). From it follow
`SettlementImplementsLifecycle`, the refinement to `TradeLifecycle` through crashes and
lost jobs, and `JobsLeaveForAReason`. What happens to the list of failed jobs is stated
once (`JobSet`): at most one job changes, and a full list drops its oldest one.

`PendingStaysInHand` is about at most one mishap, a call that throws or a crash, and of
trades that `lost` does not name: Redis has not forgotten their job, and the COMMIT of
their match was answered. The invariant counts: each mishap troubles at most one trade, and nothing else does
(`TroubleCounts`; `Troubled` is what a trade shows of a failure, from an attempt used up
to a job left active without its worker). So before any mishap every pending trade has
its job or its matching handler (`Calm`), and after one there is one troubled trade
(`OneTroubled`): no job is dropped to make room for another failure, no rollback fails,
and no retry that fails was the only one to add a job. A recovery that throws is the
second mishap, since startup follows a crash (`ServingUnlessCrashed`). Who had the trade
in hand passes it on or adds the job (`PromiseKept`).

**`OrderBookProofs`.** `OrderBookInv` says what each handler holds and knows where it
stands: who is between the first lock and the commit holds the rows of its order and of
the partner it found, and these are still open (`LocksHeld`); what a handler remembers
of its order is what the order was or has left behind since (`HandlersSound`). From it
`NobodyMatchedTwice`, `OpenStaysVisible` (whoever could have projected an open order is
still to do so, or `hidden` names the order: its placement threw, in the COMMIT or in the
call to Redis, or Redis restarted) and `BookImplementsOrderLifecycle`, the
refinement to `OrderLifecycle`: only an insertion, a cancellation and the commit of a
match move an order, and at the commit both orders are still open because of
`LocksHeld`; every other step, a crash included, is a stutter. `RestOnlyIfSkipped` needs
a fact about the past: of two open orders that fit and were both tried, one passed over the other
(`TriedIsSkipped`), because the later attempt either found the other row free, and then
took it or an older one, or found it locked.

**`AuthProofs`.** `AuthInv` carries what each action property rests on. The key of a
revoked token expires no earlier than the token, in half seconds, although the code
reckons in whole ones and the clock may go on between the reckoning and the write
(`RevokedLongEnough`, from `Seconds`); a key is there only for a token whose logout was
accepted (`RevokedByLogout`); a cached role is the user's or expires before the history
says that no old copy is left (`CacheInTime`), and a request that began after that has
found the current one (`RolesSeen`). From these `LogoutsHold`, `RefusalsHaveReasons` and
`StaleRolesEnd`.

**`BrowserSessionProofs`.** `RestsWhereItBelongs` is not inductive: a tab rests where it
belongs because its effect has run since anything it depends on changed. `SessionInv`
says, of every tab, that it keeps the token it restores until its user signs in anew
(`RestoresItsToken`), that the profile is that of the token (`ShowsItsUser`), that what
its effect has decided leads away from where it does not belong (`GoesWhereItBelongs`),
and that it agrees with the storage unless another tab signed in or out since
(`KnowsTheStorage`); and that the cookie, which the proxy goes by, is there exactly if
a token is stored. From it follow `ShowsOneIdentity`, `TabsRestWhereTheyBelong` and
`SessionsChangeForAReason`, for any number of tabs.

**`RealtimeProofs`.** That a page at rest is up to date is not inductive, since most of
the time it is not at rest. `FreshOrComing` says of any moment: unless something passed
by the page or failed, it shows the current version or that is under way (`UnderWay`) in
a handler that has still to read it, has read it or answers the page, on the connection,
in the query, or in a lost connection, after which the page fetches again. That an older
copy overwrites the current one is one of the recorded reasons, which needs that nothing
under way is newer than the value (`NoneNewer`). The bound on messages in `TypeOK`
counts handlers (`Counted`). From these `RealtimeTypes` and `StaleOnlyForAReason`.

Only model-checked: liveness (`EveryRequestEnds` of `WalletService` and `OrderBook`,
`PendingSettles`, `PendingEnds`, `EveryRequestIsAnswered`, `EveryTabRests`,
`BookConverges`), because fairness is stated with ENABLED, which the installed provers
do not support, and the properties of section 5, which do not hold.

## 5. Where code and documentation disagree

Each is a run that ends in a violation, with the shortest way there.

| Run | What the code does |
|---|---|
| `nobody_deadlocks` | Transactions lock wallets in the order of their calls, YES before NO or trade by trade; two of them can wait for each other, and PostgreSQL aborts one (`wallet.service.ts:230`, `ARCHITECTURE.md:121`). |
| `failure_releases` | A settlement that fails again after a retry keeps the collateral reserved: the keys of the releases are those of the first failure, so the second is taken for a replay (`settlement-worker.service.ts:157`, `settlement-recovery.service.ts:136`). |
| `resolved_is_paid` | Orders left open are matched and settled after the resolution; their winners are never paid (`matching-engine.service.ts:41`, `markets.service.ts:162`). |
| `retried_can_settle` | The first failed attempt marks the trade as failed, so the job's other attempts cannot settle it. |
| `book_shows_open` | An order matched or cancelled before its placement projects it stays in the book until the next startup. |

## 6. Abstractions, bounds and what is left out

- Transactions are one step where row locks serialise them. In `Trading` a matching
  attempt takes any counterparty that fits (the oldest unlocked one in `OrderBook`).
- A call that throws may have taken effect. For a COMMIT this is a step of its own where
  it makes a difference, after a placement and after a match (`InsertThrows`,
  `CommitMatchThrows`, `MatchCommitThrows`) and in a settlement (`SettlementThrows`). After
  the others, marking or rolling back a failed trade, preparing a retry, cancelling, it
  leads where the step leads and the next call of the handler that throws.
- Only wallets can be locked in a circle: the other rows are locked by class, market or
  trade before orders before wallets, and an order that belongs to an active trade is
  locked by who has locked the trade. So deadlocks are in `WalletService` alone; for
  `Settlement` one is a settlement that throws.
- `ClosingTimePasses` stands for the clock; closing early and by the scheduler set the
  same status.
- The queue is modelled from how the code uses it: an identifier exists at most once,
  three attempts, back-off, one stall, completed jobs removed, a number of failed jobs
  kept. Redis has no disk (`docker-compose.yml`), so a restart empties it.
- The recovery of MATCH_PENDING orders without a trade at startup is not an action:
  `Lockstep`, proved for all instances, says that there is none to recover.
- Reads (wallets, entries, orders, markets, order book levels) change nothing and are
  left out, as are logging and broadcasts.
- A replay compares neither type nor amount with the stored entry. The model keeps
  that; no property judges it, since no document says what should happen.
- Further behaviours are in the models and have no run of their own. A user who deposits
  or withdraws under a key that a service builds later for his wallet turns that mutation
  into a replay: an order that is placed then is open without collateral, a debit or a
  credit is not made (`KeyTaken`). A trade whose match was committed without an answer
  waits for the next startup or for an administrator's retry (`MatchCommitThrows`). A second
  retry of a trade reserves nothing, for the reason of `failure_releases`. If one of the
  two failures before it was that of the enqueue, which releases under other keys than
  the worker, the trade is pending without collateral, and its settlement debits what the
  users have reserved for other orders (`PendingIsCovered` excuses this case only). A
  payout of 100 cents a share may exceed the INTEGER column though both orders were accepted, and then the
  market cannot be resolved for that side (`CreditsAccepted`). Of two requests with one
  key at once, the second is answered with a conflict instead of the first one's
  result (`InsertConflicts`). Two orders that fit and are placed at once may skip each
  other's row and rest (`CrossedOnlyIfSkipped`). A crash between the two steps of a
  retry leaves a pending trade whose job has failed: startup counts it as enqueued and
  does not revive it, and an administrator has to retry again (`InHand`). Two devices
  that sign in within one second share a token, and a logout on one ends both
  (`Issued`, `RefusedForAReason`). A request that read a role before it changed may put
  it back into the cache afterwards (`WriteCache`). A tab that restores a session may show
  the old profile beside the token of a login that came in between (`crossed`), and after
  another tab has signed in or out a tab may rest on a guarded page that shows nothing
  (`apart`). The wallet page, which does not poll,
  may keep an old balance for the reasons in `missed`: an HTTP answer that comes after a
  newer message, two handlers that emit in another order than they read, a change
  emitted between the recovery's request and the return to the room, a message or an
  invalidation while the page is loading, and changes that broadcast no balance
  (`StaleForAReason`).
- Lengths of idempotency keys: `order-reserve:` plus a long key exceeds the column of
  100 characters and fails the placement, which the model treats as a refusal.
- `Auth`: a guarded request names its token's device only when it begins, and each is
  sent once; a register or login that is refused changes nothing; users are not deleted,
  since no code deletes them. Roles change outside the program (seeds, by hand).
- `BrowserSession`: the router asks the proxy at every navigation, without its cache of
  prefetched pages; a page that is already there stays mounted; the register form goes to
  the wallet page; tabs do not listen to `storage` events, as in the code; a token never
  comes back once it has expired or was revoked.
- In `Realtime` the order book is one value, though its two sides and its orders are
  read by several calls; a placement that is matched counts as two changes; the query
  client is modelled from how the pages use it: setting data does not stop a request
  under way, invalidating starts a new one once there is data, a failed request is tried
  once more. One page with one room: leaving the page starts another behaviour.
- Not modelled: the orders page and the order ticket, layout and formatting of the web
  client; migrations and seeds, which run before the program; HTTP wiring, validation,
  configuration and health checks, whose guarantees (positive amounts, prices from 1 to
  99) are assumptions of the models. A ticket that is submitted again makes a new key, so
  that nothing protects an order whose answer was lost from being placed twice; no
  property could hold of that.

## 7. Plan

Done: the ledger and its contract, concurrent wallet transactions, trading,
settlement, the order book, authentication, the session in the browser, the pages that
follow the server; for all of these, proofs of every safety property that is checked and
of every refinement.

Next, in this order:

1. The settlement queue as an abstract specification (a job is run until it succeeds or
   its attempts are used up) which `Settlement` implements, to separate what the code
   relies on of BullMQ from what it does itself.
2. Several rooms of one socket, and the orders page, in `Realtime`.
