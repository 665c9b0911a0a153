------------------------------- MODULE Trading -------------------------------
(***************************************************************************)
(* The life of orders, trades and markets in PostgreSQL, and what it does  *)
(* to the wallets: every handler's database transaction is one action,     *)
(* which its row locks justify, except market resolution.  resolveMarket   *)
(* locks only the market row and reads trades without a lock, so its check *)
(* for pending settlements, its read of the settled trades and its payout  *)
(* are three steps.                                                        *)
(*                                                                         *)
(* Redis, the settlement queue and crashes are left to other modules.      *)
(* Here a queue may run a settlement of a pending trade, fail it, or lose  *)
(* it, at any time, and a matching attempt may choose any counterparty     *)
(* that fits, since other transactions' locks decide which ones it skips.  *)
(***************************************************************************)
EXTENDS Ledger

CONSTANTS
    Markets,
    Orders,         \* (user, idempotency key) pairs under which orders are placed
    Info,           \* what is asked for under each of them
    ClientKeys,     \* the keys each user chooses for deposits and withdrawals, any at all
    Amounts,        \* amounts they choose
    MaxRetries,     \* bound: administrator retries of failed settlements
    NoSide

Sides == {"YES", "NO"}

OrderInfo == [user : Users, market : Markets, side : Sides,
              price : 1 .. 99, quantity : Nat \ {0}]

ASSUME TradingAssumption ==
    /\ IsFiniteSet(Users)
    /\ Info \in [Orders -> OrderInfo]
    /\ Amounts \subseteq Nat
    /\ MaxRetries \in Nat
    /\ NoSide \notin Sides

VARIABLES
    marketStatus,   \* "NONE" until the market is created
    due,            \* markets whose closesAt has passed
    resolvedOutcome,
    resolution,     \* the resolution under way, which locks the market's row
    orderStatus,    \* "NONE" until the order is placed
    tradeStatus,    \* by the trade's <<YES order, NO order>>; "NONE" if no trade
    enqueuing,      \* trades whose matching attempt is still enqueuing the job
    ledger,
    retries

tradeVars  == <<orderStatus, tradeStatus, enqueuing, retries>>
marketVars == <<marketStatus, due, resolvedOutcome, resolution>>
vars       == <<marketVars, tradeVars, ledger>>

Trades == Orders \X Orders

MarketStatuses == {"NONE", "OPEN", "CLOSED", "RESOLVED"}
OrderStatuses  == {"NONE", "OPEN", "MATCH_PENDING", "MATCHED", "CANCELLED",
                   "SETTLEMENT_FAILED"}
TradeStatuses  == {"NONE", "PENDING_SETTLEMENT", "SETTLED", "FAILED"}

\* reserved_cents of an order.
Reserved(o) == Info[o].price * Info[o].quantity

MarketOf(t) == Info[t[1]].market

NoResolution == [step |-> "none", side |-> NoSide, trades |-> {}, failed |-> {}]

\* How far a resolution got, the side it was asked for, the trades it will pay, and,
\* as history, those that had failed when it checked.
Resolutions == [step : {"checked", "read"}, side : Sides,
                trades : SUBSET Trades, failed : SUBSET Trades]

\* Every user has a wallet, none of its balances is negative or too large.
LedgerOK(L) ==
    /\ L.wallet \in [Users -> Wallets]
    /\ \A e \in L.entries : e.user \in Users /\ e.type \in EntryTypes

TypeOK ==
    /\ marketStatus \in [Markets -> MarketStatuses]
    /\ due \subseteq Markets
    /\ resolvedOutcome \in [Markets -> Sides \cup {NoSide}]
    /\ resolution \in [Markets -> Resolutions \cup {NoResolution}]
    /\ orderStatus \in [Orders -> OrderStatuses]
    /\ tradeStatus \in [Trades -> TradeStatuses]
    /\ enqueuing \subseteq Trades
    /\ retries \in 0 .. MaxRetries
    /\ LedgerOK(ledger)

\* Every user has registered, nothing else has happened.
Init ==
    /\ marketStatus = [m \in Markets |-> "NONE"]
    /\ due = {}
    /\ resolvedOutcome = [m \in Markets |-> NoSide]
    /\ resolution = [m \in Markets |-> NoResolution]
    /\ orderStatus = [o \in Orders |-> "NONE"]
    /\ tradeStatus = [t \in Trades |-> "NONE"]
    /\ enqueuing = {}
    /\ ledger = [wallet |-> [u \in Users |-> EmptyWallet], entries |-> {}]
    /\ retries = 0

-----------------------------------------------------------------------------
(* Wallet requests of a user.  The key is taken as it is given: the keys   *)
(* the services build for his wallet are in the same column, and so he may *)
(* have given one of them.                                                 *)

Manual == {"DEPOSIT", "WITHDRAW"}

Deposit(u, amount, k) ==
    LET e == Entry(u, "DEPOSIT", amount, k, k)
    IN  /\ Accepted(ledger, e)
        /\ ledger' = Posted(ledger, e)
        /\ UNCHANGED <<marketVars, tradeVars>>

Withdraw(u, amount, k) ==
    LET e == Entry(u, "WITHDRAW", amount, k, k)
    IN  /\ Accepted(ledger, e)
        /\ ledger' = Posted(ledger, e)
        /\ UNCHANGED <<marketVars, tradeVars>>

-----------------------------------------------------------------------------
(* Markets.                                                                *)

RowFree(m) == resolution[m] = NoResolution

\* closesAt is in the future when the market is created.
CreateMarket(m) ==
    /\ marketStatus[m] = "NONE"
    /\ marketStatus' = [marketStatus EXCEPT ![m] = "OPEN"]
    /\ UNCHANGED <<due, resolvedOutcome, resolution, tradeVars, ledger>>

\* The clock passes closesAt.
ClosingTimePasses(m) ==
    /\ marketStatus[m] # "NONE"
    /\ m \notin due
    /\ due' = due \cup {m}
    /\ UNCHANGED <<marketStatus, resolvedOutcome, resolution, tradeVars, ledger>>

\* A closed market is returned as it is; a resolved one is refused.
CloseMarket(m) ==
    /\ RowFree(m)
    /\ marketStatus[m] = "OPEN"
    /\ marketStatus' = [marketStatus EXCEPT ![m] = "CLOSED"]
    /\ due' = due \cup {m}
    /\ UNCHANGED <<resolvedOutcome, resolution, tradeVars, ledger>>

\* The scheduler's UPDATE closes every open market that is due; it waits for
\* the rows that are locked.
CloseExpiredMarkets ==
    LET expired == {m \in due : marketStatus[m] = "OPEN"}
    IN  /\ expired # {}
        /\ \A m \in expired : RowFree(m)
        /\ marketStatus' = [m \in Markets |->
                                IF m \in expired THEN "CLOSED" ELSE marketStatus[m]]
        /\ UNCHANGED <<due, resolvedOutcome, resolution, tradeVars, ledger>>

FailedTrades(m) ==
    {t \in Trades : tradeStatus[t] = "FAILED" /\ MarketOf(t) = m}

\* A resolution that has checked and read nothing yet.
Checked(m, side) ==
    [step |-> "checked", side |-> side, trades |-> {}, failed |-> FailedTrades(m)]

\* Wrong on purpose: a resolved market can be resolved again.
ResolveCheckAgain(m, side) ==
    /\ RowFree(m)
    /\ marketStatus[m] # "NONE"
    /\ \A t \in Trades : tradeStatus[t] = "PENDING_SETTLEMENT" => MarketOf(t) # m
    /\ resolution' = [resolution EXCEPT ![m] = Checked(m, side)]
    /\ UNCHANGED <<marketStatus, due, resolvedOutcome, tradeVars, ledger>>

\* resolveMarket up to its check that no settlement is pending.
ResolveCheck(m, side) ==
    /\ RowFree(m)
    /\ marketStatus[m] \in {"OPEN", "CLOSED"}
    /\ \A t \in Trades : tradeStatus[t] = "PENDING_SETTLEMENT" => MarketOf(t) # m
    /\ resolution' = [resolution EXCEPT ![m] = Checked(m, side)]
    /\ UNCHANGED <<marketStatus, due, resolvedOutcome, tradeVars, ledger>>

\* Wrong on purpose: only the first page of the settled trades is read.
SettledTradesFirstPage(m) ==
    LET settled == {t \in Trades : tradeStatus[t] = "SETTLED" /\ MarketOf(t) = m}
    IN  IF settled = {} THEN {} ELSE {CHOOSE t \in settled : TRUE}

SettledTrades(m) ==
    {t \in Trades : tradeStatus[t] = "SETTLED" /\ MarketOf(t) = m}

WinnerOrder(t, side) == IF side = "YES" THEN t[1] ELSE t[2]

\* Wrong on purpose: the winner gets back the collateral.
PayoutOfCollateral(t, side) ==
    Entry(Info[WinnerOrder(t, side)].user, "SETTLE_CREDIT",
          Reserved(WinnerOrder(t, side)), <<"credit", <<t, side>>>>, t)

\* The credit resolveMarket asks for a settled trade.
Payout(t, side) ==
    Entry(Info[WinnerOrder(t, side)].user, "SETTLE_CREDIT", Info[t[1]].quantity * 100,
          <<"credit", <<t, side>>>>, t)

\* The credits for a set of trades that are not in the ledger yet.
Payouts(T, side) ==
    {e \in {Payout(t, side) : t \in T} : ~Replayed(ledger, e)}

\* A wallet after the credits among E that are its user's.
Credited(u, E) ==
    [ledger.wallet[u] EXCEPT !.available = @ + Cents({e \in E : e.user = u})]

\* settleCredit throws when a balance leaves the range of its column.
CreditsAccepted(T, side) ==
    \A u \in Users : Fits(Credited(u, Payouts(T, side)))

\* resolveMarket reads the settled trades, the last time it looks at trades.
ResolveRead(m) ==
    /\ resolution[m].step = "checked"
    /\ resolution' = [resolution EXCEPT ![m].step = "read", ![m].trades = SettledTrades(m)]
    /\ UNCHANGED <<marketStatus, due, resolvedOutcome, tradeVars, ledger>>

\* It credits the winners of those trades and commits.
ResolveCommit(m) ==
    LET T    == resolution[m].trades
        side == resolution[m].side
    IN  /\ resolution[m].step = "read"
        /\ CreditsAccepted(T, side)
        /\ ledger' = [wallet  |-> [u \in Users |-> Credited(u, Payouts(T, side))],
                      entries |-> ledger.entries \cup Payouts(T, side)]
        /\ marketStatus' = [marketStatus EXCEPT ![m] = "RESOLVED"]
        /\ resolvedOutcome' = [resolvedOutcome EXCEPT ![m] = side]
        /\ resolution' = [resolution EXCEPT ![m] = NoResolution]
        /\ UNCHANGED <<due, tradeVars>>

\* A credit is refused or the transaction dies: nothing was paid.
ResolveRollBack(m) ==
    /\ ~RowFree(m)
    /\ resolution' = [resolution EXCEPT ![m] = NoResolution]
    /\ UNCHANGED <<marketStatus, due, resolvedOutcome, tradeVars, ledger>>

-----------------------------------------------------------------------------
(* Orders.                                                                 *)

ReserveFor(o) ==
    Entry(Info[o].user, "RESERVE", Reserved(o), <<"order-reserve", o>>, o)

\* placeOrder's transaction; a repeated key returns the order it finds.
PlaceOrder(o) ==
    LET m == Info[o].market
    IN  /\ orderStatus[o] = "NONE"
        /\ RowFree(m)
        /\ marketStatus[m] = "OPEN"
        /\ m \notin due
        /\ Accepted(ledger, ReserveFor(o))
        /\ ledger' = Posted(ledger, ReserveFor(o))
        /\ orderStatus' = [orderStatus EXCEPT ![o] = "OPEN"]
        /\ UNCHANGED <<tradeStatus, enqueuing, retries, marketVars>>

CancelRelease(o) ==
    Entry(Info[o].user, "RELEASE", Reserved(o), <<"order-cancel", o>>, o)

\* Wrong on purpose: any order that was placed can be cancelled.
CancelAnyOrder(o) ==
    /\ orderStatus[o] \notin {"NONE", "CANCELLED"}
    /\ Accepted(ledger, CancelRelease(o))
    /\ ledger' = Posted(ledger, CancelRelease(o))
    /\ orderStatus' = [orderStatus EXCEPT ![o] = "CANCELLED"]
    /\ UNCHANGED <<tradeStatus, enqueuing, retries, marketVars>>

CancelOrder(o) ==
    /\ orderStatus[o] = "OPEN"
    /\ Accepted(ledger, CancelRelease(o))
    /\ ledger' = Posted(ledger, CancelRelease(o))
    /\ orderStatus' = [orderStatus EXCEPT ![o] = "CANCELLED"]
    /\ UNCHANGED <<tradeStatus, enqueuing, retries, marketVars>>

\* The counterparty query of tryMatchOrder.  Neither the users of the two
\* orders nor the status of the market are looked at.
Complementary(o, c) ==
    /\ o # c
    /\ Info[c].market = Info[o].market
    /\ Info[c].side # Info[o].side
    /\ Info[c].price = 100 - Info[o].price
    /\ Info[c].quantity = Info[o].quantity

TradeOf(o, c) == IF Info[o].side = "YES" THEN <<o, c>> ELSE <<c, o>>

\* Wrong on purpose: the counterparty is used as it was read before its lock.
MatchStaleCounterparty(o, c) ==
    /\ orderStatus[o] = "OPEN"
    /\ orderStatus[c] \notin {"NONE", "MATCHED"}
    /\ Complementary(o, c)
    /\ RowFree(Info[o].market)
    /\ orderStatus' = [x \in Orders |-> IF x \in {o, c} THEN "MATCH_PENDING"
                                        ELSE orderStatus[x]]
    /\ tradeStatus' = [tradeStatus EXCEPT ![TradeOf(o, c)] = "PENDING_SETTLEMENT"]
    /\ enqueuing' = enqueuing \cup {TradeOf(o, c)}
    /\ UNCHANGED <<retries, marketVars, ledger>>

\* tryMatchOrder's transaction.  It runs after a placement, and again whenever
\* the user repeats placeOrder with the key.  Inserting the trade takes a key
\* share lock on the market row, which a resolution under way holds.
Match(o, c) ==
    /\ orderStatus[o] = "OPEN"
    /\ orderStatus[c] = "OPEN"
    /\ Complementary(o, c)
    /\ RowFree(Info[o].market)
    /\ orderStatus' = [x \in Orders |-> IF x \in {o, c} THEN "MATCH_PENDING"
                                        ELSE orderStatus[x]]
    /\ tradeStatus' = [tradeStatus EXCEPT ![TradeOf(o, c)] = "PENDING_SETTLEMENT"]
    /\ enqueuing' = enqueuing \cup {TradeOf(o, c)}
    /\ UNCHANGED <<retries, marketVars, ledger>>

-----------------------------------------------------------------------------
(* Settlement of a trade.                                                  *)

\* A mutation of the wallet behind the order o of a trade.
Leg(o, type, key, ref) == Entry(Info[o].user, type, Reserved(o), key, ref)

\* One transaction posts both legs and moves the trade and its two orders on.
Advance(t, yesLeg, noLeg, newTrade, newOrder) ==
    /\ BothAccepted(ledger, yesLeg, noLeg)
    /\ ledger' = BothPosted(ledger, yesLeg, noLeg)
    /\ tradeStatus' = [tradeStatus EXCEPT ![t] = newTrade]
    /\ orderStatus' = [x \in Orders |-> IF x \in {t[1], t[2]} THEN newOrder
                                        ELSE orderStatus[x]]

\* addSettlementJob returned, or the process died waiting for it.
EnqueueEnds(t) ==
    /\ t \in enqueuing
    /\ enqueuing' = enqueuing \ {t}
    /\ UNCHANGED <<orderStatus, tradeStatus, retries, marketVars, ledger>>

\* Wrong on purpose: both releases carry the key of the trade.
FailPendingTradeWithOneKey(t) ==
    /\ t \in enqueuing
    /\ tradeStatus[t] = "PENDING_SETTLEMENT"
    /\ Advance(t, Leg(t[1], "RELEASE", <<"release", t>>, t[1]),
                  Leg(t[2], "RELEASE", <<"release", t>>, t[2]),
               "FAILED", "SETTLEMENT_FAILED")
    /\ enqueuing' = enqueuing \ {t}
    /\ UNCHANGED <<retries, marketVars>>

\* addSettlementJob threw: failPendingTradeAndReleaseFunds.  The job may be in
\* the queue nevertheless, so the trade may have left PENDING_SETTLEMENT.
FailPendingTradeAndReleaseFunds(t) ==
    /\ t \in enqueuing
    /\ tradeStatus[t] = "PENDING_SETTLEMENT"
    /\ Advance(t, Leg(t[1], "RELEASE", <<"release", <<t, t[1]>>>>, t[1]),
                  Leg(t[2], "RELEASE", <<"release", <<t, t[2]>>>>, t[2]),
               "FAILED", "SETTLEMENT_FAILED")
    /\ enqueuing' = enqueuing \ {t}
    /\ UNCHANGED <<retries, marketVars>>

YesDebit(t) == Leg(t[1], "SETTLE_DEBIT", <<"yes-debit", t>>, t)
NoDebit(t)  == Leg(t[2], "SETTLE_DEBIT", <<"no-debit", t>>, t)

\* handleSettlement's transaction.
HandleSettlement(t) ==
    /\ tradeStatus[t] = "PENDING_SETTLEMENT"
    /\ Advance(t, YesDebit(t), NoDebit(t), "SETTLED", "MATCHED")
    /\ UNCHANGED <<enqueuing, retries, marketVars>>

\* The settlement threw, for whatever reason: markSettlementFailure.
MarkSettlementFailure(t) ==
    /\ tradeStatus[t] = "PENDING_SETTLEMENT"
    /\ Advance(t, Leg(t[1], "RELEASE", <<"yes-release", t>>, t[1]),
                  Leg(t[2], "RELEASE", <<"no-release", t>>, t[2]),
               "FAILED", "SETTLEMENT_FAILED")
    /\ UNCHANGED <<enqueuing, retries, marketVars>>

RetryReserve(t, o) == Leg(o, "RESERVE", <<"retry-reserve", <<t, o>>>>, o)

\* Wrong on purpose: every trade that is not pending can be retried.
PrepareAnyTradeForRetry(t) ==
    /\ retries < MaxRetries
    /\ tradeStatus[t] \in {"FAILED", "SETTLED"}
    /\ Advance(t, RetryReserve(t, t[1]), RetryReserve(t, t[2]),
               "PENDING_SETTLEMENT", "MATCH_PENDING")
    /\ retries' = retries + 1
    /\ UNCHANGED <<enqueuing, marketVars>>

\* The administrator's retry.  Its idempotency keys are the same every time.
PrepareTradeForRetry(t) ==
    /\ retries < MaxRetries
    /\ tradeStatus[t] = "FAILED"
    /\ \A o \in {t[1], t[2]} : orderStatus[o] = "SETTLEMENT_FAILED"
    /\ Advance(t, RetryReserve(t, t[1]), RetryReserve(t, t[2]),
               "PENDING_SETTLEMENT", "MATCH_PENDING")
    /\ retries' = retries + 1
    /\ UNCHANGED <<enqueuing, marketVars>>

-----------------------------------------------------------------------------
WalletNext ==
    \E u \in Users, amount \in Amounts : \E k \in ClientKeys[u] :
        Deposit(u, amount, k) \/ Withdraw(u, amount, k)

MarketNext ==
    \/ CloseExpiredMarkets
    \/ \E m \in Markets :
          \/ CreateMarket(m) \/ ClosingTimePasses(m) \/ CloseMarket(m)
          \/ ResolveRead(m) \/ ResolveCommit(m) \/ ResolveRollBack(m)
          \/ \E side \in Sides : ResolveCheck(m, side)

OrderNext ==
    \E o \in Orders :
        PlaceOrder(o) \/ CancelOrder(o) \/ \E c \in Orders : Match(o, c)

SettlementNext ==
    \E t \in Trades :
        \/ EnqueueEnds(t) \/ FailPendingTradeAndReleaseFunds(t)
        \/ HandleSettlement(t) \/ MarkSettlementFailure(t)
        \/ PrepareTradeForRetry(t)

Next == WalletNext \/ MarketNext \/ OrderNext \/ SettlementNext

Spec == Init /\ [][Next]_vars

-----------------------------------------------------------------------------
(* What must hold.                                                         *)

\* What the orders of a trade are when the trade has a status.
OrdersOf(status) ==
    CASE status = "PENDING_SETTLEMENT" -> "MATCH_PENDING"
      [] status = "SETTLED"            -> "MATCHED"
      [] status = "FAILED"             -> "SETTLEMENT_FAILED"

Traded(o) == {t \in Trades : tradeStatus[t] # "NONE" /\ o \in {t[1], t[2]}}

\* A trade pairs a YES with a complementary NO order, and the three rows move
\* together: whatever the order in which matching, settlement, failure, retry
\* and cancellation run, no order is in two trades, none is matched or pending
\* without a trade, and none that is open or cancelled has one (tryMatchOrder,
\* handleSettlement, markSettlementFailure, prepareTradeForRetry, cancelOrder).
Lockstep ==
    /\ \A t \in Trades : tradeStatus[t] # "NONE" =>
          /\ Info[t[1]].side = "YES"
          /\ Complementary(t[1], t[2])
          /\ orderStatus[t[1]] = OrdersOf(tradeStatus[t])
          /\ orderStatus[t[2]] = OrdersOf(tradeStatus[t])
    /\ \A o \in Orders :
          /\ \A s, t \in Traded(o) : s = t
          /\ orderStatus[o] \in {"NONE", "OPEN", "CANCELLED"} <=> Traded(o) = {}

\* A cancelled or matched order, a settled trade and a resolved market never
\* change again, and an outcome once announced stays (the status checks of
\* cancelOrder, the worker, prepareTradeForRetry, closeMarket, resolveMarket).
FinalIsFinal ==
    [][/\ \A o \in Orders : orderStatus[o] \in {"CANCELLED", "MATCHED"}
                               => orderStatus'[o] = orderStatus[o]
       /\ \A t \in Trades : tradeStatus[t] = "SETTLED" => tradeStatus'[t] = "SETTLED"
       /\ \A m \in Markets : marketStatus[m] = "RESOLVED"
                               => /\ marketStatus'[m] = "RESOLVED"
                                  /\ resolvedOutcome'[m] = resolvedOutcome[m]]_vars

\* The wallet takes the mutation for a replay of a deposit or withdrawal of its user,
\* who gave that one the key the service has built.
KeyTaken(e) ==
    \E x \in ledger.entries : x.type \in Manual /\ x.user = e.user /\ x.key = e.key

\* Neither side of a trade is debited unless it is settled, and both are when it is,
\* but for one whose user had used up the key of the debit: a settlement that runs
\* again, races its failure handler or follows a retry never charges one side alone,
\* or twice, or for nothing (handleSettlement).
SettledIsDebited ==
    \A t \in Trades : \A leg \in {YesDebit(t), NoDebit(t)} :
        /\ leg \in ledger.entries => tradeStatus[t] = "SETTLED"
        /\ tradeStatus[t] = "SETTLED" => leg \in ledger.entries \/ KeyTaken(leg)

\* A credit is a payout of 100 cents a share to the winning side of a settled
\* trade whose market is resolved, and a trade is paid at most once, even when
\* two resolutions are asked for with opposite outcomes (resolveMarket).
CreditsAreDue ==
    \A e \in ledger.entries : e.type = "SETTLE_CREDIT" =>
        \E t \in Trades :
            /\ tradeStatus[t] = "SETTLED"
            /\ marketStatus[MarketOf(t)] = "RESOLVED"
            /\ e = Payout(t, resolvedOutcome[MarketOf(t)])

Paid(t) == \E side \in Sides : Payout(t, side) \in ledger.entries

\* The step that resolves a market leaves none of its settled trades unpaid, unless
\* the trade had failed when the resolution checked for pending ones and was settled,
\* after a retry, only when it had read the settled ones; or the winner had used up the
\* key of the credit.  The lock on the market row keeps new trades out meanwhile, and
\* a trade settled before the check or between check and read is paid (resolveMarket).
ResolutionPays ==
    [][\A m \in Markets : marketStatus[m] # "RESOLVED" /\ marketStatus'[m] = "RESOLVED"
            => \A t \in Trades : tradeStatus[t] = "SETTLED" /\ MarketOf(t) = m
                  => \/ Paid(t)'
                     \/ t \in resolution[m].failed \ resolution[m].trades
                     \/ KeyTaken(Payout(t, resolvedOutcome'[m]))]_vars

AllEntries(types) == Cents({e \in ledger.entries : e.type \in types})

Settled == {t \in Trades : tradeStatus[t] = "SETTLED"}

Unpaid == {t \in Settled : ~Paid(t)}

\* The debits of settled trades that were taken for replays.
Uncharged ==
    (UNION {{YesDebit(t), NoDebit(t)} : t \in Settled}) \ ledger.entries

\* Cents are neither made nor lost: what users deposited and did not withdraw is
\* in their wallets or in the settled trades that are still to be paid, 100
\* cents a share (both sides' collateral together, price and 100 - price), less the
\* debits that users kept because they had used up the key.
MoneyConserved ==
    AllEntries({"DEPOSIT"}) - AllEntries({"WITHDRAW"}) =
      SumFunction([u \in Users |-> ledger.wallet[u].available + ledger.wallet[u].reserved])
      + SumFunction([t \in Unpaid |-> Info[t[1]].quantity * 100])
      - Cents(Uncharged)

EntriesOf(o, types) == {e \in ledger.entries : e.ref = o /\ e.type \in types}

\* The debit of an order carries the trade as its reference.
DebitsOf(o) ==
    {e \in ledger.entries : \E t \in Traded(o) :
        e = IF t[1] = o THEN YesDebit(t) ELSE NoDebit(t)}

\* The collateral the ledger holds for an order: reserved, not released, not
\* debited.
Held(o) ==
    Cents(EntriesOf(o, {"RESERVE"})) - Cents(EntriesOf(o, {"RELEASE"}) \cup DebitsOf(o))

\* The collateral an order should have behind it.
Needed(o) == IF orderStatus[o] \in {"OPEN", "MATCH_PENDING"} THEN Reserved(o) ELSE 0

\* What the services call the mutations of an order's collateral.
KeysFor(o) ==
    {<<"order-reserve", o>>, <<"order-cancel", o>>}
    \cup {<<tag, <<t, o>>>> : tag \in {"release", "retry-reserve"}, t \in Trades}
    \cup {<<tag, t>> : tag \in {"yes-debit", "yes-release"}, t \in {t \in Trades : t[1] = o}}
    \cup {<<tag, t>> : tag \in {"no-debit", "no-release"}, t \in {t \in Trades : t[2] = o}}

\* The user of an order gave none of them to a deposit or withdrawal.
KeysApart(o) ==
    \A e \in ledger.entries :
        e.type \in Manual /\ e.user = Info[o].user => e.key \notin KeysFor(o)

\* The order was armed again by a retry.
Rearmed(t, o) == RetryReserve(t, o) \in ledger.entries

\* An order whose settlement was never retried holds what it needs.
UnretriedIsExact ==
    \A o \in Orders :
        KeysApart(o) /\ (\A t \in Traded(o) : ~Rearmed(t, o)) => Held(o) = Needed(o)

\* The releases of an order by those who fail its trade: the handler of an order whose
\* enqueue threw, and the worker.
HandlerRelease(t, o) == Leg(o, "RELEASE", <<"release", <<t, o>>>>, o)
WorkerRelease(t, o) ==
    Leg(o, "RELEASE", <<IF t[1] = o THEN "yes-release" ELSE "no-release", t>>, o)

\* A trade that waits to be settled has the collateral of both orders behind it,
\* unless both handlers have failed it: each releases once only and every retry but
\* the first reserves nothing, so that one release is not made up for.
PendingIsCovered ==
    \A t \in Trades : tradeStatus[t] = "PENDING_SETTLEMENT" =>
        \A o \in {t[1], t[2]} : KeysApart(o) =>
            \/ {HandlerRelease(t, o), WorkerRelease(t, o)} \subseteq ledger.entries
            \/ Held(o) = Reserved(o)

\* Whenever its user kept the services' keys for the order out of his deposits and
\* withdrawals, an order whose settlement was never retried has exactly its collateral
\* held while it is open or pending, and nothing before, after it is cancelled, settled
\* or failed, also when a user trades with himself; and however often a trade
\* failed and was retried, while it is pending its collateral is there, but for one
\* case (placeOrder, cancelOrder, failPendingTradeAndReleaseFunds, the settlement
\* worker, prepareTradeForRetry).
CollateralIsExact == UnretriedIsExact /\ PendingIsCovered

Contract == INSTANCE LedgerContract

Lifecycle == INSTANCE TradeLifecycle WITH trade <- tradeStatus

OrderLife == INSTANCE OrderLifecycle WITH
    Suits   <- Complementary,
    order   <- [o \in Orders |->
                  IF orderStatus[o] \in {"MATCH_PENDING", "MATCHED", "SETTLEMENT_FAILED"}
                  THEN "MATCHED" ELSE orderStatus[o]],
    matches <- {{t[1], t[2]} : t \in {t \in Trades : tradeStatus[t] # "NONE"}}

\* Whatever the transactions that touch a trade, it follows its life cycle, one
\* trade a step; and an order that was matched stays matched with the same one,
\* through settlement, failure and retry, and is never cancelled as well
\* (tryMatchOrder, cancelOrder, failPendingTradeAndReleaseFunds, the worker,
\* prepareTradeForRetry).
ImplementsLifecycle == Lifecycle!Spec /\ OrderLife!Spec

\* Every step, those that post several entries at once included, keeps the
\* promise of the wallet to all who hold one.
ImplementsContract == Contract!Spec

-----------------------------------------------------------------------------
(* What the documentation says and the code does not do.                   *)

\* "releases reserved balances and marks settlement as failed when debit step
\* errors" (settlement-worker.service.spec.ts): a failed trade holds nothing.
FailureReleases ==
    \A o \in Orders : orderStatus[o] = "SETTLEMENT_FAILED" => Held(o) = 0

\* "Resolve market and credit winners" (README.md): the winner of every settled
\* trade of a resolved market has been credited.
ResolvedIsPaid ==
    \A t \in Trades :
        tradeStatus[t] = "SETTLED" /\ marketStatus[MarketOf(t)] = "RESOLVED" => Paid(t)
=============================================================================
