---------------------------- MODULE TradingProofs ----------------------------
(***************************************************************************)
(* Theorems about Trading, for any users, markets, orders, amounts and     *)
(* bounds: its types; orders and trades move together; what is final; the  *)
(* life cycle of a trade; which entry of the ledger was posted for what;   *)
(* what a resolution pays; the contract of the ledger; conservation of     *)
(* money; the collateral behind an order.                                  *)
(***************************************************************************)
EXTENDS Trading, LedgerTheorems

-----------------------------------------------------------------------------
(* The ledger under one mutation, and under two of them.                   *)

\* A mutation that is accepted leaves a sound ledger behind (mutateWallet).
LEMMA PostedOK ==
    ASSUME NEW L, NEW e, LedgerOK(L), Accepted(L, e),
           e.user \in Users, e.type \in EntryTypes
    PROVE  LedgerOK(Posted(L, e))
<1>1. CASE Replayed(L, e)
  BY <1>1 DEF Posted
<1>2. CASE ~Replayed(L, e)
  <2> DEFINE w == Applied(L.wallet[e.user], e.type, e.amount)
  <2>1. w \in Wallets
    <3>1. Fits(w)
      BY <1>2 DEF Accepted
    <3>2. w = [available |-> w.available, reserved |-> w.reserved]
      BY DEF Applied, EntryTypes
    <3>. QED BY <3>1, <3>2 DEF Fits, Wallets
  <2>2. Posted(L, e) = [wallet  |-> [L.wallet EXCEPT ![e.user] = w],
                        entries |-> L.entries \cup {e}]
    BY <1>2 DEF Posted
  <2> HIDE DEF w
  <2>. QED BY <2>1, <2>2 DEF LedgerOK
<1>. QED BY <1>1, <1>2

\* So do two in one transaction (settlement, its failure, its retry).
LEMMA BothPostedOK ==
    ASSUME NEW L, NEW e, NEW f, LedgerOK(L), BothAccepted(L, e, f),
           e.user \in Users, e.type \in EntryTypes,
           f.user \in Users, f.type \in EntryTypes
    PROVE  LedgerOK(BothPosted(L, e, f))
<1>1. LedgerOK(Posted(L, e))
  BY PostedOK DEF BothAccepted
<1>. QED BY <1>1, PostedOK DEF BothAccepted, BothPosted

\* The entry behind an order belongs to its user.
LEMMA LegOK ==
    ASSUME NEW o \in Orders, NEW type \in EntryTypes, NEW key, NEW ref
    PROVE  /\ Leg(o, type, key, ref).user \in Users
           /\ Leg(o, type, key, ref).type = type
  BY TradingAssumption DEF Leg, Entry, OrderInfo

-----------------------------------------------------------------------------
(* Type correctness.                                                       *)

\* The step all settlement actions are made of (Advance).
LEMMA AdvanceOK ==
    ASSUME TypeOK, NEW t \in Trades, NEW type \in EntryTypes,
           NEW k1, NEW r1, NEW k2, NEW r2,
           NEW newTrade \in TradeStatuses, NEW newOrder \in OrderStatuses,
           Advance(t, Leg(t[1], type, k1, r1), Leg(t[2], type, k2, r2),
                   newTrade, newOrder)
    PROVE  /\ tradeStatus' \in [Trades -> TradeStatuses]
           /\ orderStatus' \in [Orders -> OrderStatuses]
           /\ LedgerOK(ledger)'
<1>1. t[1] \in Orders /\ t[2] \in Orders
  BY DEF Trades
<1> DEFINE e == Leg(t[1], type, k1, r1)
           f == Leg(t[2], type, k2, r2)
<1>2. e.user \in Users /\ e.type = type /\ f.user \in Users /\ f.type = type
  BY <1>1, LegOK
<1>3. BothAccepted(ledger, e, f) /\ ledger' = BothPosted(ledger, e, f)
  BY DEF Advance
<1> HIDE DEF e, f
<1>4. LedgerOK(BothPosted(ledger, e, f))
  BY <1>2, <1>3, BothPostedOK DEF TypeOK
<1>5. LedgerOK(ledger)'
  BY <1>3, <1>4 DEF LedgerOK
<1>6. tradeStatus' \in [Trades -> TradeStatuses]
  BY DEF Advance, TypeOK
<1>7. orderStatus' \in [Orders -> OrderStatuses]
  BY DEF Advance, TypeOK
<1>. QED BY <1>5, <1>6, <1>7

\* Balances stay within their column and every row keeps a status of its enum,
\* for any number of users, markets and orders.
THEOREM TypeCorrect == Spec => []TypeOK
<1> USE TradingAssumption, IntMaxAssumption
<1>1. Init => TypeOK
  <2>1. EmptyWallet \in Wallets
    BY DEF EmptyWallet, Wallets
  <2>. QED
    BY <2>1 DEF Init, TypeOK, LedgerOK, MarketStatuses, OrderStatuses, TradeStatuses
<1>2. TypeOK /\ [Next]_vars => TypeOK'
  <2> SUFFICES ASSUME TypeOK, [Next]_vars PROVE TypeOK'
    OBVIOUS
  <2>1. ASSUME NEW u \in Users, NEW amount \in Amounts, NEW k \in ClientKeys[u],
               Deposit(u, amount, k) \/ Withdraw(u, amount, k)
        PROVE  TypeOK'
    <3>1. PICK type \in Manual :
            LET e == Entry(u, type, amount, k, k)
            IN  Accepted(ledger, e) /\ ledger' = Posted(ledger, e)
      BY <2>1 DEF Deposit, Withdraw, Manual
    <3> DEFINE e == Entry(u, type, amount, k, k)
    <3>2. e.user \in Users /\ e.type \in EntryTypes
      BY DEF Entry, EntryTypes, Manual
    <3> HIDE DEF e
    <3>3. LedgerOK(Posted(ledger, e))
      BY <3>1, <3>2, PostedOK DEF TypeOK, e
    <3>4. LedgerOK(ledger)'
      BY <3>1, <3>3 DEF LedgerOK, e
    <3>. QED BY <2>1, <3>4 DEF TypeOK, Deposit, Withdraw, marketVars, tradeVars
  <2>2. CASE CloseExpiredMarkets
    BY <2>2 DEF CloseExpiredMarkets, TypeOK, LedgerOK, tradeVars, MarketStatuses
  <2>3. ASSUME NEW m \in Markets,
               CreateMarket(m) \/ ClosingTimePasses(m) \/ CloseMarket(m)
               \/ ResolveRollBack(m)
        PROVE  TypeOK'
    BY <2>3 DEF CreateMarket, ClosingTimePasses, CloseMarket, ResolveRollBack,
                TypeOK, LedgerOK, tradeVars, MarketStatuses
  <2>4. ASSUME NEW m \in Markets, NEW side \in Sides, ResolveCheck(m, side)
        PROVE  TypeOK'
    BY <2>4 DEF ResolveCheck, Checked, FailedTrades, Resolutions, TypeOK, LedgerOK, tradeVars
  <2>5. ASSUME NEW m \in Markets, ResolveRead(m)
         PROVE  TypeOK'
    <3>1. resolution[m] \in Resolutions
      BY <2>5 DEF ResolveRead, NoResolution, TypeOK
    <3>2. [resolution[m] EXCEPT !.step = "read", !.trades = SettledTrades(m)] \in Resolutions
      BY <3>1 DEF SettledTrades, Resolutions
    <3>. QED BY <2>5, <3>2 DEF ResolveRead, TypeOK, LedgerOK, tradeVars
  <2>6. ASSUME NEW m \in Markets, ResolveCommit(m)
        PROVE  TypeOK'
    <3> DEFINE side == resolution[m].side
               T == resolution[m].trades
    <3>1. side \in Sides /\ T \subseteq Trades
      BY <2>6 DEF ResolveCommit, Resolutions, NoResolution, TypeOK
    <3>2. ASSUME NEW u \in Users
          PROVE  Credited(u, Payouts(T, side)) \in Wallets
      <4> DEFINE w == Credited(u, Payouts(T, side))
      <4>1. Fits(w)
        BY <2>6 DEF ResolveCommit, CreditsAccepted
      <4>2. ledger.wallet[u] \in Wallets
        BY DEF TypeOK, LedgerOK
      <4>3. w = [available |-> w.available, reserved |-> w.reserved]
        BY <4>2 DEF Credited, Wallets
      <4>. QED BY <4>1, <4>3 DEF Fits, Wallets
    <3>3. \A e \in Payouts(T, side) : e.user \in Users /\ e.type \in EntryTypes
      <4> SUFFICES ASSUME NEW t \in T
                   PROVE  LET e == Payout(t, side)
                          IN  e.user \in Users /\ e.type \in EntryTypes
        BY DEF Payouts
      <4>1. WinnerOrder(t, side) \in Orders
        BY <3>1 DEF WinnerOrder, Trades
      <4>. QED BY <4>1 DEF Payout, Entry, EntryTypes, OrderInfo
    <3>4. LedgerOK(ledger)'
      BY <2>6, <3>2, <3>3 DEF ResolveCommit, LedgerOK, TypeOK
    <3>. QED BY <2>6, <3>1, <3>4 DEF ResolveCommit, TypeOK, tradeVars, MarketStatuses
  <2>7. ASSUME NEW o \in Orders, PlaceOrder(o) \/ CancelOrder(o)
        PROVE  TypeOK'
    <3>1. PICK e \in {ReserveFor(o), CancelRelease(o)} :
            Accepted(ledger, e) /\ ledger' = Posted(ledger, e)
      BY <2>7 DEF PlaceOrder, CancelOrder
    <3>2. e.user \in Users /\ e.type \in EntryTypes
      BY DEF ReserveFor, CancelRelease, Entry, EntryTypes, OrderInfo
    <3>3. LedgerOK(Posted(ledger, e))
      BY <3>1, <3>2, PostedOK DEF TypeOK
    <3>4. LedgerOK(ledger)'
      BY <3>1, <3>3 DEF LedgerOK
    <3>. QED BY <2>7, <3>4 DEF PlaceOrder, CancelOrder, TypeOK, marketVars, OrderStatuses
  <2>8. ASSUME NEW o \in Orders, NEW c \in Orders, Match(o, c)
        PROVE  TypeOK'
    <3>1. TradeOf(o, c) \in Trades
      BY DEF TradeOf, Trades
    <3>. QED BY <2>8, <3>1 DEF Match, TypeOK, LedgerOK, marketVars,
                              OrderStatuses, TradeStatuses
  <2>9. ASSUME NEW t \in Trades, EnqueueEnds(t)
        PROVE  TypeOK'
    BY <2>9 DEF EnqueueEnds, TypeOK, LedgerOK, marketVars
  <2>10. ASSUME NEW t \in Trades, FailPendingTradeAndReleaseFunds(t)
        PROVE  TypeOK'
    <3>1. "RELEASE" \in EntryTypes /\ "FAILED" \in TradeStatuses
          /\ "SETTLEMENT_FAILED" \in OrderStatuses
      BY DEF EntryTypes, TradeStatuses, OrderStatuses
    <3>2. /\ tradeStatus' \in [Trades -> TradeStatuses]
          /\ orderStatus' \in [Orders -> OrderStatuses]
          /\ LedgerOK(ledger)'
      BY <2>10, <3>1, AdvanceOK DEF FailPendingTradeAndReleaseFunds
    <3>. QED BY <2>10, <3>2 DEF FailPendingTradeAndReleaseFunds, TypeOK, marketVars
  <2>11. ASSUME NEW t \in Trades, HandleSettlement(t)
         PROVE  TypeOK'
    <3>1. "SETTLE_DEBIT" \in EntryTypes /\ "SETTLED" \in TradeStatuses
          /\ "MATCHED" \in OrderStatuses
      BY DEF EntryTypes, TradeStatuses, OrderStatuses
    <3>2. /\ tradeStatus' \in [Trades -> TradeStatuses]
          /\ orderStatus' \in [Orders -> OrderStatuses]
          /\ LedgerOK(ledger)'
      BY <2>11, <3>1, AdvanceOK DEF HandleSettlement, YesDebit, NoDebit
    <3>. QED BY <2>11, <3>2 DEF HandleSettlement, TypeOK, marketVars
  <2>12. ASSUME NEW t \in Trades, MarkSettlementFailure(t)
         PROVE  TypeOK'
    <3>1. "RELEASE" \in EntryTypes /\ "FAILED" \in TradeStatuses
          /\ "SETTLEMENT_FAILED" \in OrderStatuses
      BY DEF EntryTypes, TradeStatuses, OrderStatuses
    <3>2. /\ tradeStatus' \in [Trades -> TradeStatuses]
          /\ orderStatus' \in [Orders -> OrderStatuses]
          /\ LedgerOK(ledger)'
      BY <2>12, <3>1, AdvanceOK DEF MarkSettlementFailure
    <3>. QED BY <2>12, <3>2 DEF MarkSettlementFailure, TypeOK, marketVars
  <2>13. ASSUME NEW t \in Trades, PrepareTradeForRetry(t)
         PROVE  TypeOK'
    <3>1. "RESERVE" \in EntryTypes /\ "PENDING_SETTLEMENT" \in TradeStatuses
          /\ "MATCH_PENDING" \in OrderStatuses
      BY DEF EntryTypes, TradeStatuses, OrderStatuses
    <3>2. /\ tradeStatus' \in [Trades -> TradeStatuses]
          /\ orderStatus' \in [Orders -> OrderStatuses]
          /\ LedgerOK(ledger)'
      BY <2>13, <3>1, AdvanceOK DEF PrepareTradeForRetry, RetryReserve
    <3>3. retries' \in 0 .. MaxRetries
      BY <2>13 DEF PrepareTradeForRetry, TypeOK
    <3>. QED BY <2>13, <3>2, <3>3 DEF PrepareTradeForRetry, TypeOK, marketVars
  <2>14. CASE UNCHANGED vars
    BY <2>14 DEF vars, marketVars, tradeVars, TypeOK, LedgerOK
  <2>. QED
    BY <2>1, <2>2, <2>3, <2>4, <2>5, <2>6, <2>7, <2>8, <2>9, <2>10, <2>11, <2>12,
       <2>13, <2>14
       DEF Next, WalletNext, MarketNext, OrderNext, SettlementNext
<1>. QED BY <1>1, <1>2, PTL DEF Spec

-----------------------------------------------------------------------------
(* Orders and trades move together.                                        *)

\* A transaction that moves an existing trade on, and both its orders with it,
\* keeps them in step with each other and apart from all other trades.
LEMMA AdvanceKeepsLockstep ==
    ASSUME TypeOK, Lockstep, NEW t \in Trades, NEW e, NEW f,
           tradeStatus[t] # "NONE",
           NEW newTrade \in TradeStatuses \ {"NONE"},
           Advance(t, e, f, newTrade, OrdersOf(newTrade))
    PROVE  Lockstep'
<1>1. t[1] \in Orders /\ t[2] \in Orders
  BY DEF Trades
<1>2. tradeStatus' = [tradeStatus EXCEPT ![t] = newTrade]
  BY DEF Advance
<1>3. \A x \in Orders : orderStatus'[x] = IF x \in {t[1], t[2]} THEN OrdersOf(newTrade)
                                         ELSE orderStatus[x]
  BY DEF Advance
<1>4. \A s \in Trades : tradeStatus'[s] = "NONE" <=> tradeStatus[s] = "NONE"
  BY <1>2 DEF TypeOK
<1>5. \A o \in Orders : Traded(o)' = Traded(o)
  BY <1>4 DEF Traded
<1>6. ASSUME NEW s \in Trades, tradeStatus'[s] # "NONE"
      PROVE  /\ Info[s[1]].side = "YES"
             /\ Complementary(s[1], s[2])
             /\ orderStatus'[s[1]] = OrdersOf(tradeStatus'[s])
             /\ orderStatus'[s[2]] = OrdersOf(tradeStatus'[s])
  <2>1. s[1] \in Orders /\ s[2] \in Orders
    BY DEF Trades
  <2>2. CASE s = t
    BY <1>2, <1>3, <1>6, <2>1, <2>2 DEF Lockstep, TypeOK
  <2>3. CASE s # t
    <3>1. tradeStatus'[s] = tradeStatus[s] /\ tradeStatus[s] # "NONE"
      BY <1>2, <1>4, <1>6, <2>3 DEF TypeOK
    <3>2. {s[1], s[2]} \cap {t[1], t[2]} = {}
      BY <1>1, <2>1, <2>3, <3>1 DEF Lockstep, Traded
    <3>. QED BY <1>3, <2>1, <3>1, <3>2 DEF Lockstep
  <2>. QED BY <2>2, <2>3
<1>7. ASSUME NEW o \in Orders
      PROVE  /\ \A s, u \in Traded(o)' : s = u
             /\ orderStatus'[o] \in {"NONE", "OPEN", "CANCELLED"} <=> Traded(o)' = {}
  <2>1. \A s, u \in Traded(o)' : s = u
    BY <1>5 DEF Lockstep
  <2>2. CASE o \in {t[1], t[2]}
    <3>1. t \in Traded(o)
      BY <2>2 DEF Traded
    <3>2. OrdersOf(newTrade) \notin {"NONE", "OPEN", "CANCELLED"}
      BY DEF OrdersOf, TradeStatuses
    <3>. QED BY <1>3, <1>5, <2>1, <2>2, <3>1, <3>2
  <2>3. CASE o \notin {t[1], t[2]}
    BY <1>3, <1>5, <2>1, <2>3 DEF Lockstep
  <2>. QED BY <2>2, <2>3
<1>. QED BY <1>6, <1>7 DEF Lockstep, Complementary, Traded

\* An order without a trade that changes its status to another one without.
LEMMA UntradedKeepsLockstep ==
    ASSUME TypeOK, Lockstep, NEW o \in Orders,
           NEW status \in {"OPEN", "CANCELLED"},
           orderStatus[o] \in {"NONE", "OPEN"},
           orderStatus' = [orderStatus EXCEPT ![o] = status],
           UNCHANGED tradeStatus
    PROVE  Lockstep'
<1>1. Traded(o) = {}
  BY DEF Lockstep
<1>2. \A x \in Orders : Traded(x)' = Traded(x)
  BY DEF Traded
<1>3. ASSUME NEW s \in Trades, tradeStatus'[s] # "NONE"
      PROVE  s[1] \in Orders /\ s[2] \in Orders /\ o # s[1] /\ o # s[2]
  BY <1>1, <1>3 DEF Traded, Trades
<1>4. \A x \in Orders \ {o} : orderStatus'[x] = orderStatus[x]
  BY DEF TypeOK
<1>5. orderStatus'[o] = status
  BY DEF TypeOK
<1>6. ASSUME NEW s \in Trades, tradeStatus'[s] # "NONE"
      PROVE  /\ Info[s[1]].side = "YES"
             /\ Complementary(s[1], s[2])
             /\ orderStatus'[s[1]] = OrdersOf(tradeStatus'[s])
             /\ orderStatus'[s[2]] = OrdersOf(tradeStatus'[s])
  BY <1>3, <1>4, <1>6 DEF Lockstep
<1>7. ASSUME NEW x \in Orders
      PROVE  /\ \A s, u \in Traded(x)' : s = u
             /\ orderStatus'[x] \in {"NONE", "OPEN", "CANCELLED"} <=> Traded(x)' = {}
  BY <1>1, <1>2, <1>4, <1>5 DEF Lockstep
<1>. QED BY <1>6, <1>7 DEF Lockstep, Complementary, Traded

\* A match takes two open orders, which by Lockstep are in no trade yet.
LEMMA MatchKeepsLockstep ==
    ASSUME TypeOK, Lockstep, NEW o \in Orders, NEW c \in Orders, Match(o, c)
    PROVE  Lockstep'
<1> DEFINE t == TradeOf(o, c)
<1>1. /\ t \in Trades /\ {t[1], t[2]} = {o, c}
      /\ Info[t[1]].side = "YES" /\ Complementary(t[1], t[2])
  BY TradingAssumption DEF Match, TradeOf, Trades, Complementary, OrderInfo, Sides
<1>2. Traded(o) = {} /\ Traded(c) = {}
  BY DEF Match, Lockstep
<1>3. tradeStatus' = [tradeStatus EXCEPT ![t] = "PENDING_SETTLEMENT"]
  BY DEF Match
<1>4. \A x \in Orders : orderStatus'[x] = IF x \in {o, c} THEN "MATCH_PENDING"
                                         ELSE orderStatus[x]
  BY DEF Match
<1> HIDE DEF t
<1>5. ASSUME NEW s \in Trades, s # t, tradeStatus'[s] # "NONE"
      PROVE  /\ s[1] \in Orders /\ s[2] \in Orders
             /\ tradeStatus'[s] = tradeStatus[s]
             /\ s[1] \notin {o, c} /\ s[2] \notin {o, c}
  BY <1>2, <1>3, <1>5 DEF TypeOK, Traded, Trades
<1>6. tradeStatus'[t] = "PENDING_SETTLEMENT"
  BY <1>1, <1>3 DEF TypeOK
<1>7. ASSUME NEW s \in Trades, tradeStatus'[s] # "NONE"
      PROVE  /\ Info[s[1]].side = "YES"
             /\ Complementary(s[1], s[2])
             /\ orderStatus'[s[1]] = OrdersOf(tradeStatus'[s])
             /\ orderStatus'[s[2]] = OrdersOf(tradeStatus'[s])
  <2>1. CASE s = t
    BY <1>1, <1>4, <1>6, <2>1 DEF OrdersOf, Trades
  <2>2. CASE s # t
    BY <1>4, <1>5, <1>7, <2>2 DEF Lockstep
  <2>. QED BY <2>1, <2>2
<1>8. ASSUME NEW x \in Orders
      PROVE  /\ \A s, u \in Traded(x)' : s = u
             /\ orderStatus'[x] \in {"NONE", "OPEN", "CANCELLED"} <=> Traded(x)' = {}
  <2>1. CASE x \in {o, c}
    <3>1. Traded(x)' = {t}
      BY <1>1, <1>5, <1>6, <2>1 DEF Traded
    <3>. QED BY <1>4, <2>1, <3>1
  <2>2. CASE x \notin {o, c}
    <3>1. Traded(x)' = Traded(x)
      BY <1>1, <1>3, <2>2 DEF Traded, TypeOK
    <3>. QED BY <1>4, <2>2, <3>1 DEF Lockstep
  <2>. QED BY <2>1, <2>2
<1>. QED BY <1>7, <1>8 DEF Lockstep, Complementary, Traded

\* The steps that touch neither orders nor trades.
LEMMA OtherStepsKeepLockstep ==
    ASSUME Lockstep, UNCHANGED <<orderStatus, tradeStatus>>
    PROVE  Lockstep'
  BY DEF Lockstep, Traded, Complementary

\* Every order is in at most one trade and the three rows of a match agree, for
\* any number of orders and whatever the interleaving of the transactions.
THEOREM OrdersFollowTrades == Spec => []Lockstep
<1>1. Init => Lockstep
  BY DEF Init, Lockstep, Traded
<1>2. TypeOK /\ Lockstep /\ [Next]_vars => Lockstep'
  <2> SUFFICES ASSUME TypeOK, Lockstep, [Next]_vars PROVE Lockstep'
    OBVIOUS
  <2>1. CASE WalletNext
    BY <2>1, OtherStepsKeepLockstep DEF WalletNext, Deposit, Withdraw, tradeVars
  <2>2. CASE MarketNext
    BY <2>2, OtherStepsKeepLockstep
       DEF MarketNext, CloseExpiredMarkets, CreateMarket, ClosingTimePasses, CloseMarket,
           ResolveCheck, ResolveRead, ResolveCommit, ResolveRollBack, tradeVars
  <2>3. ASSUME NEW o \in Orders, PlaceOrder(o) \/ CancelOrder(o)
        PROVE  Lockstep'
    BY <2>3, UntradedKeepsLockstep DEF PlaceOrder, CancelOrder
  <2>4. ASSUME NEW o \in Orders, NEW c \in Orders, Match(o, c)
        PROVE  Lockstep'
    BY <2>4, MatchKeepsLockstep
  <2>5. ASSUME NEW t \in Trades, EnqueueEnds(t)
        PROVE  Lockstep'
    BY <2>5, OtherStepsKeepLockstep DEF EnqueueEnds
  <2>6. ASSUME NEW t \in Trades, \/ FailPendingTradeAndReleaseFunds(t)
                                 \/ HandleSettlement(t) \/ MarkSettlementFailure(t)
                                 \/ PrepareTradeForRetry(t)
        PROVE  Lockstep'
    <3>1. PICK new \in TradeStatuses \ {"NONE"} : \E e, f : Advance(t, e, f, new, OrdersOf(new))
      BY <2>6 DEF FailPendingTradeAndReleaseFunds, HandleSettlement,
                  MarkSettlementFailure, PrepareTradeForRetry, OrdersOf, TradeStatuses
    <3>2. tradeStatus[t] # "NONE"
      BY <2>6 DEF FailPendingTradeAndReleaseFunds, HandleSettlement,
                  MarkSettlementFailure, PrepareTradeForRetry
    <3>. QED BY <3>1, <3>2, AdvanceKeepsLockstep
  <2>7. CASE UNCHANGED vars
    BY <2>7, OtherStepsKeepLockstep DEF vars, tradeVars
  <2>. QED
    BY <2>1, <2>2, <2>3, <2>4, <2>5, <2>6, <2>7 DEF Next, OrderNext, SettlementNext
<1>. QED BY <1>1, <1>2, TypeCorrect, PTL DEF Spec

-----------------------------------------------------------------------------
(* What is final.                                                          *)

\* The row lock of a resolution keeps its market as the status check found it.
ResolvingIsUnresolved ==
    \A m \in Markets : ~RowFree(m) => marketStatus[m] \in {"OPEN", "CLOSED"}

\* No market that a resolution has locked is resolved already (resolveMarket).
LEMMA ResolvingHolds == Spec => []ResolvingIsUnresolved
<1>1. Init => ResolvingIsUnresolved
  BY DEF Init, RowFree, ResolvingIsUnresolved
<1>2. TypeOK /\ ResolvingIsUnresolved /\ [Next]_vars => ResolvingIsUnresolved'
  <2> SUFFICES ASSUME TypeOK, ResolvingIsUnresolved, [Next]_vars
               PROVE  ResolvingIsUnresolved'
    OBVIOUS
  <2>1. CASE UNCHANGED marketVars
    BY <2>1 DEF marketVars, RowFree, ResolvingIsUnresolved
  <2>2. CASE CloseExpiredMarkets
    BY <2>2 DEF CloseExpiredMarkets, RowFree, ResolvingIsUnresolved, TypeOK
  <2>3. ASSUME NEW m \in Markets,
               \/ CreateMarket(m) \/ ClosingTimePasses(m) \/ CloseMarket(m)
               \/ \E side \in Sides : ResolveCheck(m, side)
        PROVE  ResolvingIsUnresolved'
    BY <2>3 DEF CreateMarket, ClosingTimePasses, CloseMarket, ResolveCheck, RowFree,
                ResolvingIsUnresolved, TypeOK
  <2>4. ASSUME NEW m \in Markets, ResolveRead(m) \/ ResolveCommit(m) \/ ResolveRollBack(m)
        PROVE  ResolvingIsUnresolved'
    <3>1. ~RowFree(m)
      BY <2>4 DEF ResolveRead, ResolveCommit, ResolveRollBack, RowFree, NoResolution
    <3>2. \A k \in Markets \ {m} : resolution'[k] = resolution[k]
                                  /\ marketStatus'[k] = marketStatus[k]
      BY <2>4 DEF ResolveRead, ResolveCommit, ResolveRollBack, TypeOK
    <3>3. marketStatus'[m] = marketStatus[m] \/ resolution'[m] = NoResolution
      BY <2>4 DEF ResolveRead, ResolveCommit, ResolveRollBack, TypeOK
    <3>. QED BY <3>1, <3>2, <3>3 DEF RowFree, ResolvingIsUnresolved
  <2>5. CASE WalletNext
    BY <2>1, <2>5 DEF WalletNext, Deposit, Withdraw
  <2>6. CASE OrderNext
    BY <2>1, <2>6 DEF OrderNext, PlaceOrder, CancelOrder, Match
  <2>7. CASE SettlementNext
    BY <2>1, <2>7 DEF SettlementNext, EnqueueEnds, FailPendingTradeAndReleaseFunds,
                      HandleSettlement, MarkSettlementFailure, PrepareTradeForRetry
  <2>8. CASE UNCHANGED vars
    BY <2>1, <2>8 DEF vars
  <2>. QED BY <2>2, <2>3, <2>4, <2>5, <2>6, <2>7, <2>8 DEF Next, MarketNext
<1>. QED BY <1>1, <1>2, TypeCorrect, PTL DEF Spec

\* A transaction that moves a trade on from a status that is not settled leaves
\* final orders and settled trades alone: both its orders are pending or failed.
LEMMA AdvanceKeepsFinal ==
    ASSUME TypeOK, Lockstep, NEW t \in Trades, NEW e, NEW f,
           NEW newTrade, NEW newOrder, Advance(t, e, f, newTrade, newOrder),
           tradeStatus[t] \in {"PENDING_SETTLEMENT", "FAILED"}
    PROVE  /\ \A o \in Orders : orderStatus[o] \in {"CANCELLED", "MATCHED"}
                                  => orderStatus'[o] = orderStatus[o]
           /\ \A s \in Trades : tradeStatus[s] = "SETTLED" => tradeStatus'[s] = "SETTLED"
<1>1. \A o \in {t[1], t[2]} : orderStatus[o] \in {"MATCH_PENDING", "SETTLEMENT_FAILED"}
  BY DEF Lockstep, OrdersOf
<1>2. \A o \in Orders \ {t[1], t[2]} : orderStatus'[o] = orderStatus[o]
  BY DEF Advance
<1>3. \A s \in Trades \ {t} : tradeStatus'[s] = tradeStatus[s]
  BY DEF Advance, TypeOK
<1>. QED BY <1>1, <1>2, <1>3

\* What FinalIsFinal says of a step.
KeepsFinal ==
    /\ \A o \in Orders : orderStatus[o] \in {"CANCELLED", "MATCHED"}
                            => orderStatus'[o] = orderStatus[o]
    /\ \A t \in Trades : tradeStatus[t] = "SETTLED" => tradeStatus'[t] = "SETTLED"
    /\ \A m \in Markets : marketStatus[m] = "RESOLVED"
                            => /\ marketStatus'[m] = "RESOLVED"
                               /\ resolvedOutcome'[m] = resolvedOutcome[m]

\* Every step of the specification keeps what is final.
LEMMA StepKeepsFinal ==
    ASSUME TypeOK, Lockstep, ResolvingIsUnresolved, [Next]_vars
    PROVE  KeepsFinal
<1>1. CASE WalletNext
  BY <1>1 DEF WalletNext, Deposit, Withdraw, tradeVars, marketVars, KeepsFinal
<1>2. CASE MarketNext
  <2>1. UNCHANGED <<orderStatus, tradeStatus>>
    BY <1>2 DEF MarketNext, CloseExpiredMarkets, CreateMarket, ClosingTimePasses,
                CloseMarket, ResolveCheck, ResolveRead, ResolveCommit, ResolveRollBack, tradeVars
  <2>2. ASSUME NEW m \in Markets, marketStatus[m] = "RESOLVED"
        PROVE  marketStatus'[m] = "RESOLVED" /\ resolvedOutcome'[m] = resolvedOutcome[m]
    <3>1. RowFree(m)
      BY <2>2 DEF ResolvingIsUnresolved
    <3>2. CASE CloseExpiredMarkets
      BY <2>2, <3>2 DEF CloseExpiredMarkets, TypeOK
    <3>3. ASSUME NEW k \in Markets, CreateMarket(k) \/ CloseMarket(k)
          PROVE  marketStatus'[m] = "RESOLVED" /\ resolvedOutcome'[m] = resolvedOutcome[m]
      BY <2>2, <3>3 DEF CreateMarket, CloseMarket, TypeOK
    <3>4. ASSUME NEW k \in Markets, ResolveCommit(k)
          PROVE  marketStatus'[m] = "RESOLVED" /\ resolvedOutcome'[m] = resolvedOutcome[m]
      <4>1. k # m
        BY <3>1, <3>4 DEF ResolveCommit, RowFree, NoResolution
      <4>. QED BY <2>2, <3>4, <4>1 DEF ResolveCommit, TypeOK
    <3>5. ASSUME NEW k \in Markets,
                 \/ ClosingTimePasses(k) \/ ResolveRead(k) \/ ResolveRollBack(k)
                 \/ \E side \in Sides : ResolveCheck(k, side)
          PROVE  marketStatus'[m] = "RESOLVED" /\ resolvedOutcome'[m] = resolvedOutcome[m]
      BY <2>2, <3>5 DEF ClosingTimePasses, ResolveRead, ResolveRollBack, ResolveCheck
    <3>. QED BY <1>2, <3>2, <3>3, <3>4, <3>5 DEF MarketNext
  <2>. QED BY <2>1, <2>2 DEF KeepsFinal
<1>3. ASSUME NEW o \in Orders, PlaceOrder(o) \/ CancelOrder(o)
      PROVE  KeepsFinal
  BY <1>3 DEF PlaceOrder, CancelOrder, TypeOK, marketVars, KeepsFinal
<1>4. ASSUME NEW o \in Orders, NEW c \in Orders, Match(o, c)
      PROVE  KeepsFinal
  <2>1. TradeOf(o, c) \in Traded(o) \/ tradeStatus[TradeOf(o, c)] = "NONE"
    BY DEF TradeOf, Trades, Traded
  <2>2. tradeStatus[TradeOf(o, c)] = "NONE"
    BY <1>4, <2>1 DEF Match, Lockstep
  <2>3. \A t \in Trades : tradeStatus[t] = "SETTLED" => tradeStatus'[t] = "SETTLED"
    BY <1>4, <2>2 DEF Match, TypeOK
  <2>. QED BY <1>4, <2>3 DEF Match, marketVars, KeepsFinal
<1>5. ASSUME NEW t \in Trades, EnqueueEnds(t)
      PROVE  KeepsFinal
  BY <1>5 DEF EnqueueEnds, marketVars, KeepsFinal
<1>6. ASSUME NEW t \in Trades, \/ FailPendingTradeAndReleaseFunds(t)
                               \/ HandleSettlement(t) \/ MarkSettlementFailure(t)
                               \/ PrepareTradeForRetry(t)
      PROVE  KeepsFinal
  <2>1. PICK newTrade, newOrder, e, f : Advance(t, e, f, newTrade, newOrder)
    BY <1>6 DEF FailPendingTradeAndReleaseFunds, HandleSettlement,
                MarkSettlementFailure, PrepareTradeForRetry
  <2>2. tradeStatus[t] \in {"PENDING_SETTLEMENT", "FAILED"} /\ UNCHANGED marketVars
    BY <1>6 DEF FailPendingTradeAndReleaseFunds, HandleSettlement,
                MarkSettlementFailure, PrepareTradeForRetry
  <2>. QED BY <2>1, <2>2, AdvanceKeepsFinal DEF marketVars, KeepsFinal
<1>7. CASE UNCHANGED vars
  BY <1>7 DEF vars, marketVars, tradeVars, KeepsFinal
<1>. QED BY <1>1, <1>2, <1>3, <1>4, <1>5, <1>6, <1>7 DEF Next, OrderNext, SettlementNext

\* A cancelled or matched order, a settled trade, a resolved market and its
\* outcome never change.
THEOREM FinalStays == Spec => FinalIsFinal
<1>1. TypeOK /\ Lockstep /\ ResolvingIsUnresolved /\ [Next]_vars => [KeepsFinal]_vars
  BY StepKeepsFinal
<1>2. Spec => [][KeepsFinal]_vars
  BY <1>1, TypeCorrect, OrdersFollowTrades, ResolvingHolds, PTL DEF Spec
<1>. QED BY <1>2, PTL DEF FinalIsFinal, KeepsFinal

-----------------------------------------------------------------------------
(* The life cycle of a trade.                                              *)

\* The transactions that touch a trade implement its life cycle.
LEMMA TradesFollowLifecycle == Spec => Lifecycle!Spec
<1>1. Init => Lifecycle!Init
  BY DEF Init, Lifecycle!Init
<1>2. TypeOK /\ Lockstep /\ [Next]_vars => [Lifecycle!Next]_tradeStatus
  <2> SUFFICES ASSUME TypeOK, Lockstep, [Next]_vars, tradeStatus' # tradeStatus
               PROVE  Lifecycle!Next
    OBVIOUS
  <2>1. ASSUME NEW t \in Trades, NEW move \in Lifecycle!Moves,
               tradeStatus[t] = move[1],
               tradeStatus' = [tradeStatus EXCEPT ![t] = move[2]]
        PROVE  Lifecycle!Next
    BY <2>1 DEF Lifecycle!Next
  <2>2. ASSUME NEW o \in Orders, NEW c \in Orders, Match(o, c)
        PROVE  Lifecycle!Next
    <3>1. TradeOf(o, c) \in Trades
      BY DEF TradeOf, Trades
    <3>2. tradeStatus[TradeOf(o, c)] = "NONE"
      BY <2>2, <3>1 DEF Match, Lockstep, Traded, TradeOf
    <3>3. <<"NONE", "PENDING_SETTLEMENT">> \in Lifecycle!Moves
      BY DEF Lifecycle!Moves
    <3>. QED BY <2>1, <2>2, <3>1, <3>2, <3>3 DEF Match
  <2>3. ASSUME NEW t \in Trades,
               FailPendingTradeAndReleaseFunds(t) \/ MarkSettlementFailure(t)
        PROVE  Lifecycle!Next
    <3>1. <<"PENDING_SETTLEMENT", "FAILED">> \in Lifecycle!Moves
      BY DEF Lifecycle!Moves
    <3>. QED BY <2>1, <2>3, <3>1
             DEF FailPendingTradeAndReleaseFunds, MarkSettlementFailure, Advance
  <2>4. ASSUME NEW t \in Trades, HandleSettlement(t)
        PROVE  Lifecycle!Next
    <3>1. <<"PENDING_SETTLEMENT", "SETTLED">> \in Lifecycle!Moves
      BY DEF Lifecycle!Moves
    <3>. QED BY <2>1, <2>4, <3>1 DEF HandleSettlement, Advance
  <2>5. ASSUME NEW t \in Trades, PrepareTradeForRetry(t)
        PROVE  Lifecycle!Next
    <3>1. <<"FAILED", "PENDING_SETTLEMENT">> \in Lifecycle!Moves
      BY DEF Lifecycle!Moves
    <3>. QED BY <2>1, <2>5, <3>1 DEF PrepareTradeForRetry, Advance
  <2>6. ~WalletNext /\ ~MarketNext
    BY DEF WalletNext, Deposit, Withdraw, MarketNext, CloseExpiredMarkets, CreateMarket,
           ClosingTimePasses, CloseMarket, ResolveCheck, ResolveRead, ResolveCommit, ResolveRollBack,
           tradeVars
  <2>7. \A o \in Orders : ~PlaceOrder(o) /\ ~CancelOrder(o)
    BY DEF PlaceOrder, CancelOrder
  <2>8. \A t \in Trades : ~EnqueueEnds(t)
    BY DEF EnqueueEnds
  <2>9. ~UNCHANGED vars
    BY DEF vars, tradeVars
  <2>. QED BY <2>2, <2>3, <2>4, <2>5, <2>6, <2>7, <2>8, <2>9
           DEF Next, OrderNext, SettlementNext
<1>. QED BY <1>1, <1>2, TypeCorrect, OrdersFollowTrades, PTL DEF Spec, Lifecycle!Spec

\* A match takes two open orders, and whatever becomes of their trade, they stay
\* matched with each other; no other transaction but placeOrder's and cancelOrder's
\* moves an order (tryMatchOrder, the worker, prepareTradeForRetry).
LEMMA OrdersFollowLifecycle == Spec => OrderLife!Spec
<1>. DEFINE Matched == {"MATCH_PENDING", "MATCHED", "SETTLEMENT_FAILED"}
            absOrder == [o \in Orders |-> IF orderStatus[o] \in Matched THEN "MATCHED"
                                          ELSE orderStatus[o]]
            absMatches == {{t[1], t[2]} : t \in {t \in Trades : tradeStatus[t] # "NONE"}}
<1>1. Init => OrderLife!Init
  BY DEF Init, OrderLife!Init
<1>2. TypeOK /\ Lockstep /\ [Next]_vars => [OrderLife!Next]_<<absOrder, absMatches>>
  <2> SUFFICES ASSUME TypeOK, Lockstep, [Next]_vars,
                      <<absOrder, absMatches>>' # <<absOrder, absMatches>>
               PROVE  OrderLife!Next
    OBVIOUS
  <2>1. ASSUME NEW o \in Orders, PlaceOrder(o)
        PROVE  OrderLife!Next
    <3>1. OrderLife!Place(o)
      BY <2>1 DEF PlaceOrder, TypeOK, OrderLife!Place
    <3>. QED BY <3>1 DEF OrderLife!Next
  <2>2. ASSUME NEW o \in Orders, CancelOrder(o)
        PROVE  OrderLife!Next
    <3>1. OrderLife!Cancel(o)
      BY <2>2 DEF CancelOrder, TypeOK, OrderLife!Cancel
    <3>. QED BY <3>1 DEF OrderLife!Next
  <2>3. ASSUME NEW o \in Orders, NEW c \in Orders, Match(o, c)
        PROVE  OrderLife!Next
    <3>1. TradeOf(o, c) \in Trades /\ {TradeOf(o, c)[1], TradeOf(o, c)[2]} = {o, c}
      BY DEF TradeOf, Trades
    <3>2. tradeStatus'[TradeOf(o, c)] = "PENDING_SETTLEMENT"
          /\ \A t \in Trades : t # TradeOf(o, c) => tradeStatus'[t] = tradeStatus[t]
      BY <2>3, <3>1 DEF Match, TypeOK
    <3>3. absMatches' = absMatches \cup {{o, c}}
      <4>1. \A t \in Trades :
               tradeStatus'[t] # "NONE" <=> tradeStatus[t] # "NONE" \/ t = TradeOf(o, c)
        BY <3>2
      <4>2. {t \in Trades : tradeStatus'[t] # "NONE"}
              = {t \in Trades : tradeStatus[t] # "NONE"} \cup {TradeOf(o, c)}
        BY <3>1, <4>1
      <4>. QED BY <3>1, <4>2
    <3>4. absOrder' = [x \in Orders |-> IF x \in {o, c} THEN "MATCHED" ELSE absOrder[x]]
      BY <2>3 DEF Match
    <3>5. OrderLife!Match(o, c)
      BY <2>3, <3>3, <3>4 DEF Match, OrderLife!Match
    <3>. QED BY <3>5 DEF OrderLife!Next
  <2>4. ASSUME NEW t \in Trades, tradeStatus[t] # "NONE",
               NEW e, NEW f, NEW new, NEW newOrder,
               new # "NONE", newOrder \in Matched, Advance(t, e, f, new, newOrder)
        PROVE  FALSE
    <3>1. \A o \in {t[1], t[2]} : orderStatus[o] \in Matched
      BY <2>4 DEF Lockstep, OrdersOf, TypeOK, TradeStatuses
    <3>2. absOrder' = absOrder
      BY <2>4, <3>1 DEF Advance
    <3>3. \A s \in Trades : tradeStatus'[s] = "NONE" <=> tradeStatus[s] = "NONE"
      BY <2>4 DEF Advance, TypeOK
    <3>. QED BY <3>2, <3>3
  <2>5. ~UNCHANGED <<orderStatus, tradeStatus>>
    OBVIOUS
  <2>6. ASSUME NEW t \in Trades, \/ FailPendingTradeAndReleaseFunds(t)
                                 \/ HandleSettlement(t) \/ MarkSettlementFailure(t)
                                 \/ PrepareTradeForRetry(t)
        PROVE  FALSE
    <3>1. PICK e, f, new, newOrder :
             new # "NONE" /\ newOrder \in Matched /\ Advance(t, e, f, new, newOrder)
      <4>1. CASE FailPendingTradeAndReleaseFunds(t)
        BY <4>1 DEF FailPendingTradeAndReleaseFunds
      <4>2. CASE HandleSettlement(t)
        BY <4>2 DEF HandleSettlement
      <4>3. CASE MarkSettlementFailure(t)
        BY <4>3 DEF MarkSettlementFailure
      <4>4. CASE PrepareTradeForRetry(t)
        BY <4>4 DEF PrepareTradeForRetry
      <4>. QED BY <2>6, <4>1, <4>2, <4>3, <4>4
    <3>2. tradeStatus[t] # "NONE"
      BY <2>6 DEF FailPendingTradeAndReleaseFunds, HandleSettlement, MarkSettlementFailure,
                  PrepareTradeForRetry
    <3>. QED BY <2>4, <3>1, <3>2
  <2>7. ~WalletNext /\ ~MarketNext
    BY <2>5 DEF WalletNext, Deposit, Withdraw, MarketNext, CloseExpiredMarkets, CreateMarket,
                ClosingTimePasses, CloseMarket, ResolveCheck, ResolveRead, ResolveCommit,
                ResolveRollBack, tradeVars
  <2>8. \A t \in Trades : ~EnqueueEnds(t)
    BY <2>5 DEF EnqueueEnds
  <2>9. ~UNCHANGED vars
    BY <2>5 DEF vars, tradeVars
  <2>. QED BY <2>1, <2>2, <2>3, <2>6, <2>7, <2>8, <2>9 DEF Next, OrderNext, SettlementNext
<1>. QED BY <1>1, <1>2, TypeCorrect, OrdersFollowTrades, PTL DEF Spec, OrderLife!Spec

\* Both life cycles: no transaction moves a trade or an order another way.
THEOREM TradingImplementsLifecycle == Spec => ImplementsLifecycle
  BY TradesFollowLifecycle, OrdersFollowLifecycle, PTL DEF ImplementsLifecycle

-----------------------------------------------------------------------------
(* Which entry was posted for what.  Among the entries of the services an  *)
(* idempotency key of a settlement or a payout determines the whole entry, *)
(* so that a mutation taken for a replay was applied before, or its user   *)
(* had used up the key in a deposit or withdrawal.                         *)

\* Entries that neither settle nor pay a trade nor arm it again.
IsClient(e) == e.type \in Manual

IsHold(e) == \E o \in Orders : e = ReserveFor(o) \/ e = CancelRelease(o)

IsRelease(e) ==
    \E t \in Trades : \E o \in {t[1], t[2]} : e = HandlerRelease(t, o) \/ e = WorkerRelease(t, o)

Plain(e) == IsClient(e) \/ IsHold(e) \/ IsRelease(e)

PlainTags == {"order-reserve", "order-cancel", "release", "yes-release", "no-release"}

IsPayout(e) == \E t \in Trades, side \in Sides : e = Payout(t, side)

IsDebit(e) == \E t \in Trades : e = YesDebit(t) \/ e = NoDebit(t)

IsRetry(e) ==
    \E t \in Trades : \E o \in {t[1], t[2]} : e = RetryReserve(t, o)

Known(e) == Plain(e) \/ IsPayout(e) \/ IsDebit(e) \/ IsRetry(e)

KeysTellEntries == \A e \in ledger.entries : Known(e)

-----------------------------------------------------------------------------
\* A posted entry is new, or one with its key is there already.
LEMMA PostedEntries ==
    ASSUME NEW L, NEW e
    PROVE  /\ L.entries \subseteq Posted(L, e).entries
           /\ Posted(L, e).entries \subseteq L.entries \cup {e}
           /\ ~Replayed(L, e) => Posted(L, e).entries = L.entries \cup {e}
  BY DEF Posted

\* Two mutations in one transaction add no entry but theirs, and each of them, unless
\* its key was there before.
LEMMA BothPostedEntries ==
    ASSUME NEW L, NEW e, NEW f
    PROVE  /\ L.entries \subseteq BothPosted(L, e, f).entries
           /\ BothPosted(L, e, f).entries \subseteq L.entries \cup {e, f}
           /\ e \in BothPosted(L, e, f).entries \/ Replayed(L, e)
           /\ e.key # f.key => f \in BothPosted(L, e, f).entries \/ Replayed(L, f)
<1> DEFINE M == Posted(L, e)
<1>1. /\ L.entries \subseteq M.entries /\ M.entries \subseteq L.entries \cup {e}
      /\ ~Replayed(L, e) => e \in M.entries
  BY PostedEntries
<1>2. /\ M.entries \subseteq Posted(M, f).entries /\ Posted(M, f).entries \subseteq M.entries \cup {f}
      /\ ~Replayed(M, f) => f \in Posted(M, f).entries
  BY PostedEntries
<1>3. BothPosted(L, e, f) = Posted(M, f)
  BY DEF BothPosted
<1> HIDE DEF M
<1>4. e.key # f.key /\ Replayed(M, f) => Replayed(L, f)
  BY <1>1 DEF Replayed
<1>. QED BY <1>1, <1>2, <1>3, <1>4

\* What a plain entry is not.
LEMMA PlainIs ==
    ASSUME NEW e, Plain(e)
    PROVE  /\ e.type \in {"DEPOSIT", "WITHDRAW", "RESERVE", "RELEASE"}
           /\ IsClient(e) \/ \E tag \in PlainTags : \E k : e.key = <<tag, k>>
<1>1. CASE IsClient(e)
  BY <1>1 DEF IsClient, Manual
<1>2. CASE IsHold(e)
  BY <1>2 DEF IsHold, ReserveFor, CancelRelease, Entry, PlainTags
<1>3. CASE IsRelease(e)
  BY <1>3 DEF IsRelease, HandlerRelease, WorkerRelease, Leg, Entry, PlainTags
<1>. QED BY <1>1, <1>2, <1>3 DEF Plain

\* The keys of the services' kinds of entries differ, and that of a debit, a payout or
\* a retry determines the entry.
LEMMA KeysDiffer ==
    ASSUME NEW t \in Trades, NEW e, Known(e), ~IsClient(e)
    PROVE  /\ e.key = <<"yes-debit", t>> => e = YesDebit(t)
           /\ e.key = <<"no-debit", t>> => e = NoDebit(t)
           /\ \A side \in Sides : e.key = <<"credit", <<t, side>>>> => e = Payout(t, side)
           /\ \A o \in Orders : e.key = <<"retry-reserve", <<t, o>>>> => e = RetryReserve(t, o)
<1>1. CASE Plain(e)
  <2>1. PICK tag \in PlainTags : \E k : e.key = <<tag, k>>
    BY <1>1, PlainIs
  <2>2. e.key[1] \notin {"yes-debit", "no-debit", "credit", "retry-reserve"}
    BY <2>1 DEF PlainTags
  <2>. QED BY <2>2
<1>2. CASE IsPayout(e)
  <2>1. PICK s \in Trades, side \in Sides : e = Payout(s, side)
    BY <1>2 DEF IsPayout
  <2>2. e.key = <<"credit", <<s, side>>>>
    BY <2>1 DEF Payout, Entry
  <2>. QED BY <2>1, <2>2
<1>3. CASE IsDebit(e)
  <2>1. PICK s \in Trades : e = YesDebit(s) \/ e = NoDebit(s)
    BY <1>3 DEF IsDebit
  <2>2. /\ e = YesDebit(s) => e.key = <<"yes-debit", s>>
        /\ e = NoDebit(s) => e.key = <<"no-debit", s>>
    BY DEF YesDebit, NoDebit, Leg, Entry
  <2>. QED BY <2>1, <2>2
<1>4. CASE IsRetry(e)
  <2>1. PICK s \in Trades, o \in Orders : o \in {s[1], s[2]} /\ e = RetryReserve(s, o)
    BY <1>4 DEF IsRetry, Trades
  <2>2. e.key = <<"retry-reserve", <<s, o>>>>
    BY <2>1 DEF RetryReserve, Leg, Entry
  <2>. QED BY <2>1, <2>2
<1>. QED BY <1>1, <1>2, <1>3, <1>4 DEF Known

\* A debit is of no other kind.
LEMMA DebitsApart ==
    ASSUME NEW t \in Trades, NEW e, e = YesDebit(t) \/ e = NoDebit(t)
    PROVE  ~Plain(e) /\ ~IsPayout(e) /\ ~IsRetry(e) /\ e.type = "SETTLE_DEBIT"
<1>1. e.type = "SETTLE_DEBIT" /\ e.key[1] \in {"yes-debit", "no-debit"}
  BY DEF YesDebit, NoDebit, Leg, Entry
<1>2. ~Plain(e)
  BY <1>1, PlainIs
<1>3. ~IsPayout(e)
  BY <1>1 DEF IsPayout, Payout, Entry
<1>4. ~IsRetry(e)
  BY <1>1 DEF IsRetry, RetryReserve, Leg, Entry
<1>. QED BY <1>1, <1>2, <1>3, <1>4

-----------------------------------------------------------------------------
(* What the steps post.                                                    *)

\* Steps other than a settlement and a resolution post neither debits nor payouts
\* and leave the set of settled trades as it is.  Only a retry posts an entry of a
\* retry, and counts it.
Unrelated(e) == Plain(e) \/ (IsRetry(e) /\ retries' > 0)

OtherStep ==
    /\ ledger.entries \subseteq ledger'.entries
    /\ \A e \in ledger'.entries : e \in ledger.entries \/ Unrelated(e)
    /\ \A t \in Trades : tradeStatus'[t] = "SETTLED" <=> tradeStatus[t] = "SETTLED"
    /\ \A m \in Markets : marketStatus'[m] = "RESOLVED" => marketStatus[m] = "RESOLVED"

\* A mutation adds nothing but its entry.
LEMMA PostIsOther ==
    ASSUME NEW e, Unrelated(e), ledger' = Posted(ledger, e)
    PROVE  /\ ledger.entries \subseteq ledger'.entries
           /\ \A x \in ledger'.entries : x \in ledger.entries \/ Unrelated(x)
  BY PostedEntries

\* Nor do two of them.
LEMMA BothPostIsOther ==
    ASSUME NEW e, NEW f, Unrelated(e), Unrelated(f), ledger' = BothPosted(ledger, e, f)
    PROVE  /\ ledger.entries \subseteq ledger'.entries
           /\ \A x \in ledger'.entries : x \in ledger.entries \/ Unrelated(x)
  BY BothPostedEntries

\* Every step is a settlement, a resolution or one of the others.
LEMMA StepKinds ==
    ASSUME TypeOK, Lockstep, [Next]_vars
    PROVE  \/ \E t \in Trades : HandleSettlement(t)
           \/ \E m \in Markets : ResolveCommit(m)
           \/ OtherStep
<1>1. ASSUME NEW u \in Users, NEW amount \in Amounts, NEW k \in ClientKeys[u],
             Deposit(u, amount, k) \/ Withdraw(u, amount, k)
      PROVE  OtherStep
  <2>1. PICK type \in Manual : ledger' = Posted(ledger, Entry(u, type, amount, k, k))
    BY <1>1 DEF Deposit, Withdraw, Manual
  <2>2. Unrelated(Entry(u, type, amount, k, k))
    BY DEF Unrelated, Plain, IsClient, Entry
  <2>. QED BY <1>1, <2>1, <2>2, PostIsOther
           DEF Deposit, Withdraw, tradeVars, marketVars, OtherStep
<1>2. ASSUME NEW m \in Markets,
             \/ CreateMarket(m) \/ ClosingTimePasses(m) \/ CloseMarket(m)
             \/ ResolveRead(m) \/ ResolveRollBack(m)
             \/ \E side \in Sides : ResolveCheck(m, side)
      PROVE  OtherStep
  BY <1>2 DEF CreateMarket, ClosingTimePasses, CloseMarket, ResolveRead, ResolveRollBack,
              ResolveCheck, tradeVars, TypeOK, OtherStep
<1>3. CASE CloseExpiredMarkets
  BY <1>3 DEF CloseExpiredMarkets, tradeVars, OtherStep
<1>4. ASSUME NEW o \in Orders, PlaceOrder(o) \/ CancelOrder(o)
      PROVE  OtherStep
  <2>1. PICK e \in {ReserveFor(o), CancelRelease(o)} : ledger' = Posted(ledger, e)
    BY <1>4 DEF PlaceOrder, CancelOrder
  <2>2. Unrelated(e)
    BY DEF Unrelated, Plain, IsHold
  <2>. QED BY <1>4, <2>1, <2>2, PostIsOther DEF PlaceOrder, CancelOrder, marketVars, OtherStep
<1>5. ASSUME NEW o \in Orders, NEW c \in Orders, Match(o, c)
      PROVE  OtherStep
  <2>1. TradeOf(o, c) \in Trades
    BY DEF TradeOf, Trades
  <2>2. tradeStatus[TradeOf(o, c)] = "NONE"
    BY <1>5, <2>1 DEF Match, Lockstep, Traded, TradeOf
  <2>. QED BY <1>5, <2>1, <2>2 DEF Match, marketVars, TypeOK, OtherStep
<1>6. ASSUME NEW t \in Trades, EnqueueEnds(t)
      PROVE  OtherStep
  BY <1>6 DEF EnqueueEnds, marketVars, OtherStep
<1>7. ASSUME NEW t \in Trades, \/ FailPendingTradeAndReleaseFunds(t)
                               \/ MarkSettlementFailure(t) \/ PrepareTradeForRetry(t)
      PROVE  OtherStep
  <2>1. PICK e, f, new, newOrder :
          new \in {"FAILED", "PENDING_SETTLEMENT"} /\ Unrelated(e) /\ Unrelated(f)
          /\ Advance(t, e, f, new, newOrder)
    <3>2. CASE FailPendingTradeAndReleaseFunds(t)
      <4> DEFINE x == HandlerRelease(t, t[1])
                 y == HandlerRelease(t, t[2])
      <4>1. Unrelated(x) /\ Unrelated(y)
        BY DEF Unrelated, Plain, IsRelease
      <4>2. \E new \in {"FAILED", "PENDING_SETTLEMENT"} : \E newOrder :
               Advance(t, x, y, new, newOrder)
        BY <3>2 DEF FailPendingTradeAndReleaseFunds, HandlerRelease
      <4>. QED BY <4>1, <4>2
    <3>3. CASE MarkSettlementFailure(t)
      <4> DEFINE x == WorkerRelease(t, t[1])
                 y == WorkerRelease(t, t[2])
      <4>1. Unrelated(x) /\ Unrelated(y)
        BY DEF Unrelated, Plain, IsRelease
      <4>2. t[1] # t[2]
        BY <3>3 DEF MarkSettlementFailure, Lockstep, Complementary
      <4>3. \E new \in {"FAILED", "PENDING_SETTLEMENT"} : \E newOrder :
               Advance(t, x, y, new, newOrder)
        BY <3>3, <4>2 DEF MarkSettlementFailure, WorkerRelease
      <4>. QED BY <4>1, <4>3
    <3>4. CASE PrepareTradeForRetry(t)
      <4> DEFINE x == RetryReserve(t, t[1])
                 y == RetryReserve(t, t[2])
      <4>1. retries' > 0
        BY <3>4 DEF PrepareTradeForRetry, TypeOK
      <4>2. Unrelated(x) /\ Unrelated(y)
        BY <4>1 DEF Unrelated, IsRetry
      <4>3. \E new \in {"FAILED", "PENDING_SETTLEMENT"} : \E newOrder :
               Advance(t, x, y, new, newOrder)
        BY <3>4 DEF PrepareTradeForRetry
      <4>. QED BY <4>2, <4>3
    <3>. QED BY <1>7, <3>2, <3>3, <3>4
  <2>2. tradeStatus[t] # "SETTLED" /\ UNCHANGED marketVars
    BY <1>7 DEF FailPendingTradeAndReleaseFunds, MarkSettlementFailure, PrepareTradeForRetry
  <2>3. tradeStatus' = [tradeStatus EXCEPT ![t] = new]
        /\ ledger' = BothPosted(ledger, e, f)
    BY <2>1 DEF Advance
  <2>. QED BY <2>1, <2>2, <2>3, BothPostIsOther DEF marketVars, TypeOK, OtherStep
<1>8. CASE UNCHANGED vars
  BY <1>8 DEF vars, tradeVars, marketVars, OtherStep
<1>. QED BY <1>1, <1>2, <1>3, <1>4, <1>5, <1>6, <1>7, <1>8
         DEF Next, WalletNext, MarketNext, OrderNext, SettlementNext

-----------------------------------------------------------------------------
\* The entries a resolution adds are payouts of the trades it has read.
LEMMA ResolutionEntries ==
    ASSUME NEW m \in Markets, TypeOK, ResolveCommit(m)
    PROVE  LET T    == resolution[m].trades
               side == resolution[m].side
           IN  /\ side \in Sides /\ T \subseteq Trades
               /\ resolution[m].step = "read"
               /\ ledger'.entries = ledger.entries \cup Payouts(T, side)
               /\ \A e \in Payouts(T, side) : \E t \in T : e = Payout(t, side)
               /\ UNCHANGED tradeStatus
               /\ marketStatus' = [marketStatus EXCEPT ![m] = "RESOLVED"]
               /\ resolvedOutcome' = [resolvedOutcome EXCEPT ![m] = side]
<1>1. resolution[m] \in Resolutions
  BY DEF ResolveCommit, NoResolution, TypeOK
<1>. QED BY <1>1 DEF ResolveCommit, Payouts, Resolutions, tradeVars

\* A settlement adds nothing but the two debits.
LEMMA SettlementEntries ==
    ASSUME NEW t \in Trades, HandleSettlement(t)
    PROVE  /\ ledger.entries \subseteq ledger'.entries
           /\ ledger'.entries \subseteq ledger.entries \cup {YesDebit(t), NoDebit(t)}
           /\ tradeStatus[t] = "PENDING_SETTLEMENT"
           /\ tradeStatus' = [tradeStatus EXCEPT ![t] = "SETTLED"]
           /\ UNCHANGED marketVars
           /\ ledger' = BothPosted(ledger, YesDebit(t), NoDebit(t))
<1>1. ledger' = BothPosted(ledger, YesDebit(t), NoDebit(t))
  BY DEF HandleSettlement, Advance, YesDebit, NoDebit
<1>. QED BY <1>1, BothPostedEntries DEF HandleSettlement, Advance

\* Every entry is a deposit, a withdrawal or one of the services, whose keys tell
\* what it is.
LEMMA KeysTell == Spec => []KeysTellEntries
<1>1. Init => KeysTellEntries
  BY DEF Init, KeysTellEntries
<1>2. TypeOK /\ Lockstep /\ KeysTellEntries /\ [Next]_vars => KeysTellEntries'
  <2> SUFFICES ASSUME TypeOK, Lockstep, KeysTellEntries, [Next]_vars,
                      NEW e \in ledger'.entries, e \notin ledger.entries
               PROVE  Known(e)
    BY DEF KeysTellEntries, Known, Plain, IsPayout, Payout, WinnerOrder, IsDebit, YesDebit,
           NoDebit, IsRetry, RetryReserve, Leg, Entry, Reserved
  <2>1. ASSUME NEW t \in Trades, HandleSettlement(t)
        PROVE  Known(e)
    BY <2>1, SettlementEntries DEF IsDebit, Known
  <2>2. ASSUME NEW m \in Markets, ResolveCommit(m)
        PROVE  Known(e)
    BY <2>2, ResolutionEntries DEF IsPayout, Known
  <2>3. OtherStep => Known(e)
    BY DEF OtherStep, Unrelated, Known
  <2>. QED BY <2>1, <2>2, <2>3, StepKinds
<1>. QED BY <1>1, <1>2, TypeCorrect, OrdersFollowTrades, PTL DEF Spec

-----------------------------------------------------------------------------
(* Debits.                                                                 *)

\* Entries are never removed.
LEMMA EntriesStay ==
    ASSUME TypeOK, Lockstep, [Next]_vars
    PROVE  ledger.entries \subseteq ledger'.entries
  BY StepKinds, ResolutionEntries, SettlementEntries DEF OtherStep

\* A key that was used up stays so.
LEMMA KeyStaysTaken ==
    ASSUME ledger.entries \subseteq ledger'.entries, NEW e, KeyTaken(e)
    PROVE  KeyTaken(e)'
  BY DEF KeyTaken

\* A debit or a credit that is taken for a replay was posted before, or its user had
\* used up its key.
LEMMA ReplayIsKnown ==
    ASSUME KeysTellEntries, NEW t \in Trades,
           NEW side \in Sides,
           NEW e \in {YesDebit(t), NoDebit(t), Payout(t, side)}, Replayed(ledger, e)
    PROVE  e \in ledger.entries \/ KeyTaken(e)
<1>1. PICK x \in ledger.entries : x.user = e.user /\ x.key = e.key
  BY DEF Replayed
<1>2. CASE IsClient(x)
  BY <1>1, <1>2 DEF KeyTaken, IsClient
<1>3. CASE ~IsClient(x)
  <2>1. /\ YesDebit(t).key = <<"yes-debit", t>> /\ NoDebit(t).key = <<"no-debit", t>>
        /\ Payout(t, side).key = <<"credit", <<t, side>>>>
    BY DEF YesDebit, NoDebit, Payout, Leg, Entry
  <2>2. Known(x)
    BY DEF KeysTellEntries
  <2>. QED BY <1>1, <1>3, <2>1, <2>2, KeysDiffer
<1>. QED BY <1>2, <1>3

\* A settlement leaves each debit in the ledger, unless its key was used up.
LEMMA SettlementDebits ==
    ASSUME KeysTellEntries, NEW t \in Trades, HandleSettlement(t),
           NEW leg \in {YesDebit(t), NoDebit(t)}
    PROVE  leg \in ledger'.entries \/ KeyTaken(leg)
<1>1. leg \in ledger'.entries \/ Replayed(ledger, leg)
  <2>1. YesDebit(t).key # NoDebit(t).key
    BY DEF YesDebit, NoDebit, Leg, Entry
  <2>. QED BY <2>1, SettlementEntries, BothPostedEntries
<1>2. Replayed(ledger, leg) => leg \in ledger.entries \/ KeyTaken(leg)
  <2>1. "YES" \in Sides
    BY DEF Sides
  <2>. QED BY <2>1, ReplayIsKnown
<1>. QED BY <1>1, <1>2, SettlementEntries

\* Neither debit of a trade is in the ledger before it is settled, and both are
\* afterwards, but for one whose key its user had used up, however settlement, its
\* failure, retries, deposits and withdrawals interleave.
THEOREM DebitsFollowSettlement == Spec => []SettledIsDebited
<1> DEFINE Agrees(t, leg) == /\ leg \in ledger.entries => tradeStatus[t] = "SETTLED"
                             /\ tradeStatus[t] = "SETTLED" => leg \in ledger.entries \/ KeyTaken(leg)
<1>1. SettledIsDebited <=> \A t \in Trades : \A leg \in {YesDebit(t), NoDebit(t)} : Agrees(t, leg)
  BY DEF SettledIsDebited
<1>2. (\A t \in Trades : \A leg \in {YesDebit(t), NoDebit(t)} : Agrees(t, leg)') => SettledIsDebited'
  BY DEF SettledIsDebited, KeyTaken, YesDebit, NoDebit, Leg, Entry, Reserved
<1>3. Init => SettledIsDebited
  BY DEF Init, SettledIsDebited
<1>4. TypeOK /\ Lockstep /\ KeysTellEntries /\ SettledIsDebited /\ [Next]_vars
        => SettledIsDebited'
  <2> SUFFICES ASSUME TypeOK, Lockstep, KeysTellEntries, SettledIsDebited, [Next]_vars,
                      NEW t \in Trades, NEW leg \in {YesDebit(t), NoDebit(t)}
               PROVE  Agrees(t, leg)'
    BY <1>2
  <2>1. Agrees(t, leg)
    BY <1>1
  <2>2. KeyTaken(leg) => KeyTaken(leg)'
    BY EntriesStay, KeyStaysTaken
  <2>3. ledger.entries \subseteq ledger'.entries
    BY EntriesStay
  <2>4. CASE OtherStep
    BY <2>1, <2>2, <2>3, <2>4, DebitsApart DEF OtherStep, Unrelated
  <2>5. ASSUME NEW m \in Markets, ResolveCommit(m)
        PROVE  Agrees(t, leg)'
    <3> DEFINE P == Payouts(resolution[m].trades, resolution[m].side)
    <3>1. leg \notin P
      BY <2>5, ResolutionEntries, DebitsApart DEF IsPayout
    <3>. QED BY <2>1, <2>2, <2>3, <2>5, <3>1, ResolutionEntries
  <2>6. ASSUME NEW s \in Trades, s # t, HandleSettlement(s)
        PROVE  Agrees(t, leg)'
    <3>1. leg \notin {YesDebit(s), NoDebit(s)}
      BY <2>6 DEF YesDebit, NoDebit, Leg, Entry
    <3>2. tradeStatus'[t] = tradeStatus[t]
      BY <2>6, SettlementEntries DEF TypeOK
    <3>. QED BY <2>1, <2>2, <2>3, <2>6, <3>1, <3>2, SettlementEntries
  <2>7. CASE HandleSettlement(t)
    <3>1. tradeStatus'[t] = "SETTLED"
      BY <2>7, SettlementEntries DEF TypeOK
    <3>. QED BY <2>2, <2>7, <3>1, SettlementDebits
  <2>. QED BY <2>4, <2>5, <2>6, <2>7, StepKinds
<1>. QED BY <1>3, <1>4, TypeCorrect, OrdersFollowTrades, KeysTell, PTL DEF Spec

-----------------------------------------------------------------------------
(* What a resolution pays.  It rests on what the lock on the market row    *)
(* and the check for pending settlements guarantee while it runs.          *)

\* While a resolution has its market locked, the trades it has read are settled
\* trades of the market; only a trade that had failed when it checked can be pending
\* or failed there; and only such a trade can be settled and not among those it has read.
Window(m) ==
    /\ resolution[m].trades \subseteq SettledTrades(m)
    /\ \A t \in Trades : MarketOf(t) = m =>
          /\ tradeStatus[t] \in {"PENDING_SETTLEMENT", "FAILED"} => t \in resolution[m].failed
          /\ resolution[m].step = "read" /\ tradeStatus[t] = "SETTLED"
                => t \in resolution[m].trades \/ t \in resolution[m].failed

ResolutionWindow == \A m \in Markets : ~RowFree(m) => Window(m)

\* A step that moves only pending and failed trades on under the resolutions it does
\* not end.
LEMMA WindowFrame ==
    ASSUME TypeOK, ResolutionWindow,
           \A m \in Markets : resolution'[m] \in {resolution[m], NoResolution},
           \A t \in Trades : tradeStatus[t] = "SETTLED" => tradeStatus'[t] = "SETTLED",
           \A t \in Trades : \/ tradeStatus'[t] = tradeStatus[t]
                             \/ RowFree(MarketOf(t))
                             \/ tradeStatus[t] \in {"PENDING_SETTLEMENT", "FAILED"}
    PROVE  ResolutionWindow'
<1> SUFFICES ASSUME NEW m \in Markets, resolution'[m] # NoResolution
             PROVE  Window(m)'
  BY DEF ResolutionWindow, RowFree
<1>1. resolution'[m] = resolution[m] /\ ~RowFree(m) /\ Window(m)
  BY DEF ResolutionWindow, RowFree
<1>2. (resolution[m].trades \subseteq SettledTrades(m))'
  BY <1>1 DEF Window, SettledTrades, MarketOf
<1>3. ASSUME NEW t \in Trades, MarketOf(t) = m
      PROVE  /\ tradeStatus'[t] \in {"PENDING_SETTLEMENT", "FAILED"}
                   => t \in resolution'[m].failed
             /\ resolution'[m].step = "read" /\ tradeStatus'[t] = "SETTLED"
                   => t \in resolution'[m].trades \/ t \in resolution'[m].failed
  BY <1>1, <1>3 DEF Window
<1>. QED BY <1>2, <1>3 DEF Window, MarketOf

\* The window of a resolution is kept by every step.
LEMMA WindowHolds == Spec => []ResolutionWindow
<1>1. Init => ResolutionWindow
  BY DEF Init, RowFree, ResolutionWindow
<1>2. TypeOK /\ Lockstep /\ ResolvingIsUnresolved /\ ResolutionWindow /\ [Next]_vars
        => ResolutionWindow'
  <2> SUFFICES ASSUME TypeOK, Lockstep, ResolvingIsUnresolved, ResolutionWindow, [Next]_vars
               PROVE  ResolutionWindow'
    OBVIOUS
  <2>1. \A t \in Trades : tradeStatus[t] = "SETTLED" => tradeStatus'[t] = "SETTLED"
    BY StepKeepsFinal DEF KeepsFinal
  <2>2. CASE UNCHANGED <<resolution, tradeStatus>>
    BY <2>1, <2>2, WindowFrame
  <2>3. ASSUME NEW m \in Markets, ResolveCommit(m) \/ ResolveRollBack(m)
        PROVE  ResolutionWindow'
    <3>1. UNCHANGED tradeStatus
      BY <2>3 DEF ResolveCommit, ResolveRollBack, tradeVars
    <3>2. \A k \in Markets : resolution'[k] \in {resolution[k], NoResolution}
      BY <2>3 DEF ResolveCommit, ResolveRollBack, TypeOK
    <3>. QED BY <2>1, <3>1, <3>2, WindowFrame
  <2>4. ASSUME NEW m \in Markets,
               ResolveRead(m) \/ \E side \in Sides : ResolveCheck(m, side)
        PROVE  ResolutionWindow'
    <3>1. UNCHANGED tradeStatus
      BY <2>4 DEF ResolveRead, ResolveCheck, tradeVars
    <3>2. \A k \in Markets : SettledTrades(k)' = SettledTrades(k)
      BY <3>1 DEF SettledTrades, MarketOf
    <3>3. ASSUME NEW k \in Markets \ {m}, ~RowFree(k)'
          PROVE  Window(k)'
      <4>1. resolution'[k] = resolution[k] /\ Window(k)
        BY <2>4, <3>3 DEF ResolveRead, ResolveCheck, TypeOK, RowFree, ResolutionWindow
      <4>. QED BY <3>1, <3>2, <4>1 DEF Window, MarketOf
    <3>4. CASE ResolveRead(m)
      <4>1. resolution[m] \in Resolutions /\ Window(m)
        BY <3>4 DEF ResolveRead, RowFree, NoResolution, TypeOK, ResolutionWindow
      <4>2. /\ resolution'[m].trades = SettledTrades(m)
            /\ resolution'[m].failed = resolution[m].failed
        BY <3>4, <4>1 DEF ResolveRead, TypeOK, Resolutions
      <4>3. Window(m)'
        BY <3>1, <3>2, <4>1, <4>2 DEF Window, SettledTrades, MarketOf
      <4>. QED BY <3>3, <4>3 DEF ResolutionWindow
    <3>5. ASSUME NEW side \in Sides, ResolveCheck(m, side)
          PROVE  ResolutionWindow'
      <4>1. /\ resolution'[m].step = "checked" /\ resolution'[m].trades = {}
            /\ resolution'[m].failed = FailedTrades(m)
        BY <3>5 DEF ResolveCheck, Checked, TypeOK
      <4>2. \A t \in Trades : MarketOf(t) = m =>
               /\ tradeStatus'[t] # "PENDING_SETTLEMENT"
               /\ tradeStatus'[t] = "FAILED" => t \in FailedTrades(m)
        BY <3>1, <3>5 DEF ResolveCheck, FailedTrades
      <4>3. Window(m)'
        BY <4>1, <4>2 DEF Window, MarketOf
      <4>. QED BY <3>3, <4>3 DEF ResolutionWindow
    <3>. QED BY <2>4, <3>4, <3>5
  <2>5. ASSUME NEW o \in Orders, NEW c \in Orders, Match(o, c)
        PROVE  ResolutionWindow'
    <3>1. /\ MarketOf(TradeOf(o, c)) = Info[o].market
          /\ UNCHANGED resolution
      BY <2>5 DEF Match, Complementary, TradeOf, MarketOf, marketVars
    <3>2. \A t \in Trades \ {TradeOf(o, c)} : tradeStatus'[t] = tradeStatus[t]
      BY <2>5 DEF Match, TypeOK
    <3>3. RowFree(MarketOf(TradeOf(o, c)))
      BY <2>5, <3>1 DEF Match
    <3>. QED BY <2>1, <3>1, <3>2, <3>3, WindowFrame
  <2>6. ASSUME NEW t \in Trades, \/ FailPendingTradeAndReleaseFunds(t)
                                 \/ HandleSettlement(t) \/ MarkSettlementFailure(t)
                                 \/ PrepareTradeForRetry(t)
        PROVE  ResolutionWindow'
    <3>1. UNCHANGED resolution
      BY <2>6 DEF FailPendingTradeAndReleaseFunds, HandleSettlement, MarkSettlementFailure,
                  PrepareTradeForRetry, marketVars
    <3>2. \A s \in Trades \ {t} : tradeStatus'[s] = tradeStatus[s]
      BY <2>6 DEF FailPendingTradeAndReleaseFunds, HandleSettlement, MarkSettlementFailure,
                  PrepareTradeForRetry, Advance, TypeOK
    <3>3. tradeStatus[t] \in {"PENDING_SETTLEMENT", "FAILED"}
      BY <2>6 DEF FailPendingTradeAndReleaseFunds, HandleSettlement, MarkSettlementFailure,
                  PrepareTradeForRetry
    <3>. QED BY <2>1, <3>1, <3>2, <3>3, WindowFrame
  <2>7. CASE WalletNext
    BY <2>2, <2>7 DEF WalletNext, Deposit, Withdraw, tradeVars, marketVars
  <2>8. ASSUME NEW m \in Markets, CreateMarket(m) \/ ClosingTimePasses(m) \/ CloseMarket(m)
        PROVE  ResolutionWindow'
    BY <2>2, <2>8 DEF CreateMarket, ClosingTimePasses, CloseMarket, tradeVars
  <2>9. CASE CloseExpiredMarkets
    BY <2>2, <2>9 DEF CloseExpiredMarkets, tradeVars
  <2>10. ASSUME NEW o \in Orders, PlaceOrder(o) \/ CancelOrder(o)
         PROVE  ResolutionWindow'
    BY <2>2, <2>10 DEF PlaceOrder, CancelOrder, marketVars
  <2>11. ASSUME NEW t \in Trades, EnqueueEnds(t)
         PROVE  ResolutionWindow'
    BY <2>2, <2>11 DEF EnqueueEnds, marketVars
  <2>12. CASE UNCHANGED vars
    BY <2>2, <2>12 DEF vars, tradeVars, marketVars
  <2>. QED BY <2>3, <2>4, <2>5, <2>6, <2>7, <2>8, <2>9, <2>10, <2>11, <2>12
           DEF Next, MarketNext, OrderNext, SettlementNext
<1>. QED BY <1>1, <1>2, TypeCorrect, OrdersFollowTrades, ResolvingHolds, PTL DEF Spec

-----------------------------------------------------------------------------
(* Credits.                                                                *)

\* Nobody is credited but the winner of a settled trade of a resolved market, by
\* the outcome that was announced, and for each trade only once.
THEOREM CreditsFollowResolution == Spec => []CreditsAreDue
<1>1. Init => CreditsAreDue
  BY DEF Init, CreditsAreDue
<1>2. TypeOK /\ Lockstep /\ ResolvingIsUnresolved /\ ResolutionWindow /\ CreditsAreDue
        /\ [Next]_vars => CreditsAreDue'
  <2> DEFINE Due(e, t) == /\ tradeStatus[t] = "SETTLED"
                          /\ marketStatus[MarketOf(t)] = "RESOLVED"
                          /\ e = Payout(t, resolvedOutcome[MarketOf(t)])
  <2> SUFFICES ASSUME TypeOK, Lockstep, ResolvingIsUnresolved, ResolutionWindow,
                      CreditsAreDue, [Next]_vars
               PROVE  CreditsAreDue'
    OBVIOUS
  <2> SUFFICES ASSUME NEW e \in ledger'.entries, e.type = "SETTLE_CREDIT"
               PROVE  \E t \in Trades : Due(e, t)'
    BY DEF CreditsAreDue, MarketOf, Payout, WinnerOrder, Entry
  <2>1. KeepsFinal
    BY StepKeepsFinal
  <2>2. \A t \in Trades : MarketOf(t) \in Markets
    BY TradingAssumption DEF MarketOf, Trades, OrderInfo
  <2>3. CASE e \in ledger.entries
    <3>1. PICK t \in Trades : Due(e, t)
      BY <2>3 DEF CreditsAreDue
    <3>2. Due(e, t)'
      BY <2>1, <2>2, <3>1 DEF KeepsFinal, MarketOf, Payout, WinnerOrder, Entry
    <3>. QED BY <3>2
  <2>4. ASSUME NEW m \in Markets, ResolveCommit(m), e \notin ledger.entries
        PROVE  \E t \in Trades : Due(e, t)'
    <3>1. PICK t \in resolution[m].trades : e = Payout(t, resolution[m].side)
      BY <2>4, ResolutionEntries
    <3>2. Window(m)
      BY <2>4, ResolutionEntries DEF ResolutionWindow, RowFree, NoResolution
    <3>3. t \in Trades /\ tradeStatus[t] = "SETTLED" /\ MarketOf(t) = m
      BY <3>1, <3>2 DEF Window, SettledTrades
    <3>4. /\ tradeStatus'[t] = "SETTLED"
          /\ marketStatus'[m] = "RESOLVED"
          /\ resolvedOutcome'[m] = resolution[m].side
      BY <2>4, <3>3, ResolutionEntries DEF TypeOK
    <3>5. Due(e, t)'
      BY <3>1, <3>3, <3>4 DEF MarketOf, Payout, WinnerOrder, Entry
    <3>. QED BY <3>3, <3>5
  <2>5. ASSUME NEW t \in Trades, HandleSettlement(t)
        PROVE  e \in ledger.entries
    BY <2>5, SettlementEntries, DebitsApart
  <2>6. OtherStep => e \in ledger.entries
    BY PlainIs DEF OtherStep, Unrelated, IsRetry, RetryReserve, Leg, Entry
  <2>. QED BY <2>3, <2>4, <2>5, <2>6, StepKinds
<1>. QED BY <1>1, <1>2, TypeCorrect, OrdersFollowTrades, ResolvingHolds, WindowHolds, PTL
         DEF Spec

\* What ResolutionPays says of a step.
PaysAll ==
    \A m \in Markets : marketStatus[m] # "RESOLVED" /\ marketStatus'[m] = "RESOLVED"
        => \A t \in Trades : tradeStatus[t] = "SETTLED" /\ MarketOf(t) = m
              => \/ Paid(t)'
                 \/ t \in resolution[m].failed \ resolution[m].trades
                 \/ KeyTaken(Payout(t, resolvedOutcome'[m]))

\* The step that resolves a market leaves no settled trade unpaid but one that had
\* failed when the resolution checked and was settled when it had read, or whose winner
\* had used up the key of the credit.
THEOREM ResolutionPaysAll == Spec => ResolutionPays
<1>1. TypeOK /\ Lockstep /\ KeysTellEntries /\ ResolutionWindow /\ [Next]_vars => [PaysAll]_vars
  <2> SUFFICES ASSUME TypeOK, Lockstep, KeysTellEntries, ResolutionWindow, [Next]_vars,
                      NEW m \in Markets, marketStatus[m] # "RESOLVED",
                      marketStatus'[m] = "RESOLVED",
                      NEW t \in Trades, tradeStatus[t] = "SETTLED", MarketOf(t) = m,
                      t \notin resolution[m].failed \ resolution[m].trades,
                      ~KeyTaken(Payout(t, resolvedOutcome'[m]))
               PROVE  Paid(t)'
    BY DEF PaysAll
  <2>1. ResolveCommit(m)
    <3>1. ASSUME NEW k \in Markets, ResolveCommit(k)
          PROVE  k = m
      BY <3>1, ResolutionEntries DEF TypeOK
    <3>2. ~OtherStep /\ \A s \in Trades : ~HandleSettlement(s)
      BY SettlementEntries DEF OtherStep, marketVars
    <3>. QED BY <3>1, <3>2, StepKinds
  <2> DEFINE side == resolution[m].side
             p    == Payout(t, side)
  <2>2. side \in Sides /\ ledger'.entries = ledger.entries \cup Payouts(resolution[m].trades, side)
    BY <2>1, ResolutionEntries
  <2>3. t \in resolution[m].trades
    BY <2>1, ResolutionEntries DEF ResolutionWindow, Window, RowFree, NoResolution
  <2>4. resolvedOutcome'[m] = side
    BY <2>1, ResolutionEntries DEF TypeOK
  <2>5. Replayed(ledger, p) => p \in ledger.entries
    BY <2>2, <2>4, ReplayIsKnown
  <2>6. p \in ledger'.entries
    BY <2>2, <2>3, <2>5 DEF Payouts
  <2>. QED BY <2>2, <2>6 DEF Paid, Payout, WinnerOrder, Entry
<1>2. Spec => [][PaysAll]_vars
  BY <1>1, TypeCorrect, OrdersFollowTrades, KeysTell, WindowHolds, PTL DEF Spec
<1>. QED BY <1>2, PTL DEF ResolutionPays, PaysAll

-----------------------------------------------------------------------------
(* The contract of the ledger.                                             *)

\* The contract speaks of the operators of Ledger.
LEMMA ContractIsSound == ASSUME NEW L PROVE Contract!Sound(L) <=> Sound(L)
<1>1. ASSUME NEW f
      PROVE  Contract!SumFunction(f) = SumFunction(f)
  BY DEF Contract!SumFunction, SumFunction, Contract!SumFunctionOnSet, SumFunctionOnSet,
         Contract!FoldFunctionOnSet, FoldFunctionOnSet, Contract!MapThenFoldSet, MapThenFoldSet
<1>2. ASSUME NEW E, NEW u
      PROVE  Contract!Balance(E, u) = Balance(E, u)
  BY <1>1 DEF Contract!Balance, Balance, Contract!Total, Total, Contract!Cents, Cents
<1>. QED BY <1>2 DEF Contract!Sound, Sound, Contract!OneEntryPerKey, OneEntryPerKey,
                     Contract!Fits, Fits

\* What a step does to the ledger: nothing, one mutation, two, or the credits of a
\* resolution.
LEMMA StepPosts ==
    ASSUME [Next]_vars
    PROVE  \/ UNCHANGED ledger
           \/ \E e : e.type \in EntryTypes /\ Accepted(ledger, e) /\ ledger' = Posted(ledger, e)
           \/ \E e, f : /\ e.type \in EntryTypes /\ f.type \in EntryTypes
                        /\ BothAccepted(ledger, e, f) /\ ledger' = BothPosted(ledger, e, f)
           \/ \E m \in Markets : ResolveCommit(m)
<1> DEFINE One == \E e : e.type \in EntryTypes /\ Accepted(ledger, e) /\ ledger' = Posted(ledger, e)
           Two == \E e, f : /\ e.type \in EntryTypes /\ f.type \in EntryTypes
                            /\ BothAccepted(ledger, e, f) /\ ledger' = BothPosted(ledger, e, f)
<1>1. ASSUME NEW u \in Users, NEW amount \in Amounts, NEW k \in ClientKeys[u],
             Deposit(u, amount, k) \/ Withdraw(u, amount, k)
      PROVE  One
  <2>1. PICK type \in Manual :
          LET e == Entry(u, type, amount, k, k)
          IN  Accepted(ledger, e) /\ ledger' = Posted(ledger, e)
    BY <1>1 DEF Deposit, Withdraw, Manual
  <2>2. Entry(u, type, amount, k, k).type \in EntryTypes
    BY DEF Entry, EntryTypes, Manual
  <2>. QED BY <2>1, <2>2
<1>2. ASSUME NEW o \in Orders, PlaceOrder(o) \/ CancelOrder(o)
      PROVE  One
  <2>1. PICK e \in {ReserveFor(o), CancelRelease(o)} :
           Accepted(ledger, e) /\ ledger' = Posted(ledger, e)
    BY <1>2 DEF PlaceOrder, CancelOrder
  <2>2. e.type \in EntryTypes
    BY DEF ReserveFor, CancelRelease, Entry, EntryTypes
  <2>. QED BY <2>1, <2>2
<1>3. ASSUME NEW t \in Trades, NEW o, NEW c, NEW type \in EntryTypes, NEW k, NEW j, NEW r, NEW q,
             NEW new, NEW newOrder,
             Advance(t, Leg(o, type, k, r), Leg(c, type, j, q), new, newOrder)
      PROVE  Two
  <2>1. Leg(o, type, k, r).type \in EntryTypes /\ Leg(c, type, j, q).type \in EntryTypes
    BY DEF Leg, Entry
  <2>. QED BY <1>3, <2>1 DEF Advance
<1>4. ASSUME NEW t \in Trades, \/ FailPendingTradeAndReleaseFunds(t) \/ HandleSettlement(t)
                               \/ MarkSettlementFailure(t) \/ PrepareTradeForRetry(t)
      PROVE  Two
  <2>1. CASE FailPendingTradeAndReleaseFunds(t)
    BY <1>3, <2>1 DEF FailPendingTradeAndReleaseFunds, EntryTypes
  <2>2. CASE HandleSettlement(t)
    BY <1>3, <2>2 DEF HandleSettlement, YesDebit, NoDebit, EntryTypes
  <2>3. CASE MarkSettlementFailure(t)
    BY <1>3, <2>3 DEF MarkSettlementFailure, EntryTypes
  <2>4. CASE PrepareTradeForRetry(t)
    BY <1>3, <2>4 DEF PrepareTradeForRetry, RetryReserve, EntryTypes
  <2>. QED BY <1>4, <2>1, <2>2, <2>3, <2>4
<1>5. ASSUME NEW m \in Markets, ~ResolveCommit(m),
             \/ CreateMarket(m) \/ ClosingTimePasses(m) \/ CloseMarket(m)
             \/ ResolveRead(m) \/ ResolveRollBack(m)
             \/ \E side \in Sides : ResolveCheck(m, side)
      PROVE  UNCHANGED ledger
  BY <1>5 DEF CreateMarket, ClosingTimePasses, CloseMarket, ResolveRead, ResolveRollBack,
              ResolveCheck
<1>6. CloseExpiredMarkets => UNCHANGED ledger
  BY DEF CloseExpiredMarkets
<1>7. ASSUME NEW o \in Orders, NEW c \in Orders, Match(o, c)
      PROVE  UNCHANGED ledger
  BY <1>7 DEF Match
<1>8. ASSUME NEW t \in Trades, EnqueueEnds(t)
      PROVE  UNCHANGED ledger
  BY <1>8 DEF EnqueueEnds
<1>9. UNCHANGED vars => UNCHANGED ledger
  BY DEF vars
<1> HIDE DEF One, Two
<1>10. UNCHANGED ledger \/ One \/ Two \/ \E m \in Markets : ResolveCommit(m)
  BY <1>1, <1>2, <1>4, <1>5, <1>6, <1>7, <1>8, <1>9
     DEF Next, WalletNext, MarketNext, OrderNext, SettlementNext
<1>. QED BY <1>10 DEF One, Two

\* At any time finitely many trades have been made.
FinitelyManyTrades == IsFiniteSet({t \in Trades : tradeStatus[t] # "NONE"})

\* A step makes one trade at most.
LEMMA TradesAreFinite == Spec => []FinitelyManyTrades
<1>1. Init => FinitelyManyTrades
  <2> SUFFICES ASSUME Init PROVE FinitelyManyTrades
    OBVIOUS
  <2>1. {t \in Trades : tradeStatus[t] # "NONE"} = {}
    BY DEF Init
  <2>. QED BY <2>1, FS_EmptySet DEF FinitelyManyTrades
<1>2. TypeOK /\ FinitelyManyTrades /\ [Next]_vars => FinitelyManyTrades'
  <2> DEFINE S == {t \in Trades : tradeStatus[t] # "NONE"}
  <2> SUFFICES ASSUME TypeOK, IsFiniteSet(S), [Next]_vars
               PROVE  IsFiniteSet(S')
    BY DEF FinitelyManyTrades
  <2>1. UNCHANGED tradeStatus => IsFiniteSet(S')
    <3>1. UNCHANGED tradeStatus => S' = S
      OBVIOUS
    <3>. QED BY <3>1
  <2>2. ASSUME NEW t \in Trades, NEW new, tradeStatus' = [tradeStatus EXCEPT ![t] = new]
        PROVE  IsFiniteSet(S')
    <3>1. S' \subseteq S \cup {t}
      BY <2>2 DEF TypeOK
    <3>. QED BY <3>1, FS_AddElement, FS_Subset
  <2>3. ASSUME NEW o \in Orders, NEW c \in Orders, Match(o, c)
        PROVE  IsFiniteSet(S')
    <3>1. TradeOf(o, c) \in Trades
      BY DEF TradeOf, Trades
    <3>. QED BY <2>2, <2>3, <3>1 DEF Match
  <2>4. ASSUME NEW t \in Trades, \/ FailPendingTradeAndReleaseFunds(t) \/ HandleSettlement(t)
                                 \/ MarkSettlementFailure(t) \/ PrepareTradeForRetry(t)
        PROVE  IsFiniteSet(S')
    BY <2>2, <2>4 DEF FailPendingTradeAndReleaseFunds, HandleSettlement, MarkSettlementFailure,
                      PrepareTradeForRetry, Advance
  <2>5. WalletNext => UNCHANGED tradeStatus
    BY DEF WalletNext, Deposit, Withdraw, tradeVars
  <2>6. MarketNext => UNCHANGED tradeStatus
    BY DEF MarketNext, CloseExpiredMarkets, CreateMarket, ClosingTimePasses, CloseMarket,
           ResolveRead, ResolveCommit, ResolveRollBack, ResolveCheck, tradeVars
  <2>7. ASSUME NEW o \in Orders, PlaceOrder(o) \/ CancelOrder(o)
        PROVE  UNCHANGED tradeStatus
    BY <2>7 DEF PlaceOrder, CancelOrder
  <2>8. ASSUME NEW t \in Trades, EnqueueEnds(t)
        PROVE  UNCHANGED tradeStatus
    BY <2>8 DEF EnqueueEnds
  <2>9. UNCHANGED vars => UNCHANGED tradeStatus
    BY DEF vars, tradeVars
  <2> HIDE DEF S
  <2>. QED BY <2>1, <2>3, <2>4, <2>5, <2>6, <2>7, <2>8, <2>9 DEF Next, OrderNext, SettlementNext
<1>. QED BY <1>1, <1>2, TypeCorrect, PTL DEF Spec

\* The balances are what the entries add up to, of which there are finitely many.
LedgerInv == Sound(ledger) /\ Countable(ledger.entries)

\* The trades a resolution pays are finitely many settled trades, and so are the credits.
LEMMA PayoutsAreFinite ==
    ASSUME TypeOK, ResolutionWindow, FinitelyManyTrades, NEW m \in Markets, ResolveCommit(m)
    PROVE  LET P == Payouts(resolution[m].trades, resolution[m].side)
           IN  /\ Countable(P) /\ P \cap ledger.entries = {}
               /\ \A e \in P : /\ e.user \in Users /\ e.amount \in Nat \ {0}
                               /\ e.type = "SETTLE_CREDIT" /\ ~Replayed(ledger, e)
               /\ \A e, f \in P : e.key = f.key => e = f
<1> DEFINE T == resolution[m].trades
           side == resolution[m].side
           P == Payouts(T, side)
           I == {Payout(t, side) : t \in T}
<1>1. side \in Sides /\ T \subseteq Trades /\ Window(m)
  BY ResolutionEntries DEF ResolutionWindow, RowFree, NoResolution
<1>2. IsFiniteSet(T)
  <2>1. T \subseteq {t \in Trades : tradeStatus[t] # "NONE"}
    BY <1>1 DEF Window, SettledTrades
  <2>. QED BY <2>1, FS_Subset DEF FinitelyManyTrades
<1>3. IsFiniteSet(I)
  <2> DEFINE h == [t \in T |-> Payout(t, side)]
  <2>1. h \in Surjection(T, I)
    BY DEF Surjection
  <2> HIDE DEF h, I, T
  <2>. QED BY <1>2, <2>1, FS_Surjection
<1>4. ASSUME NEW t \in Trades
      PROVE  LET e == Payout(t, side)
             IN  /\ e.user \in Users /\ e.amount \in Nat \ {0} /\ e.type = "SETTLE_CREDIT"
                 /\ e.key = <<"credit", <<t, side>>>>
  <2>1. /\ t[1] \in Orders /\ t[2] \in Orders
        /\ Info[t[1]] \in OrderInfo /\ Info[t[2]] \in OrderInfo
    BY TradingAssumption DEF Trades
  <2>. QED BY <2>1 DEF Payout, Entry, WinnerOrder, OrderInfo
<1>5. P \subseteq I /\ IsFiniteSet(P) /\ \A e \in P : ~Replayed(ledger, e)
  BY <1>3, FS_Subset DEF Payouts
<1>6. \A e \in P : \E t \in Trades : e = Payout(t, side)
  BY <1>1, <1>5
<1>7. \A e \in P : /\ e.user \in Users /\ e.amount \in Nat \ {0} /\ e.type = "SETTLE_CREDIT"
                   /\ e.type \in EntryTypes /\ e.amount \in Int
  BY <1>4, <1>6 DEF EntryTypes
<1>8. ASSUME NEW e \in P, NEW f \in P, e.key = f.key
      PROVE  e = f
  BY <1>4, <1>6, <1>8
<1>9. \A e \in P : e \notin ledger.entries
  BY <1>5 DEF Replayed
<1>. QED BY <1>5, <1>7, <1>8, <1>9 DEF Countable

\* The credits of a resolution keep the ledger sound.
LEMMA ResolutionSound ==
    ASSUME TypeOK, ResolutionWindow, FinitelyManyTrades, LedgerInv,
           NEW m \in Markets, ResolveCommit(m)
    PROVE  LedgerInv'
<1> DEFINE P == Payouts(resolution[m].trades, resolution[m].side)
<1>1. /\ Countable(P) /\ P \cap ledger.entries = {}
      /\ \A e \in P : /\ e.user \in Users /\ e.amount \in Nat \ {0}
                      /\ e.type = "SETTLE_CREDIT" /\ ~Replayed(ledger, e)
      /\ \A e, f \in P : e.key = f.key => e = f
  BY PayoutsAreFinite
<1>2. /\ ledger'.wallet = [u \in Users |-> Credited(u, P)]
      /\ ledger'.entries = ledger.entries \cup P
      /\ \A u \in Users : Fits(Credited(u, P))
  BY DEF ResolveCommit, CreditsAccepted
<1>3. DOMAIN ledger.wallet = Users
  BY DEF TypeOK, LedgerOK
<1> HIDE DEF P
<1>4. ASSUME NEW u \in Users
      PROVE  ledger'.wallet[u] = Balance(ledger'.entries, u)
  <2>1. ledger.wallet[u] = Balance(ledger.entries, u)
    BY <1>3 DEF LedgerInv, Sound
  <2>2. Credited(u, P) = [available |-> ledger.wallet[u].available + Cents({e \in P : e.user = u}),
                          reserved  |-> ledger.wallet[u].reserved]
    BY DEF Credited, TypeOK, LedgerOK, Wallets
  <2>3. Balance(ledger.entries \cup P, u) =
           [available |-> Balance(ledger.entries, u).available + Cents({e \in P : e.user = u}),
            reserved  |-> Balance(ledger.entries, u).reserved]
    BY <1>1, BalanceCredit DEF LedgerInv
  <2>. QED BY <1>2, <2>1, <2>2, <2>3
<1>5. OneEntryPerKey(ledger'.entries)
  BY <1>1, <1>2 DEF LedgerInv, Sound, OneEntryPerKey, Replayed
<1>6. Countable(ledger'.entries)
  BY <1>1, <1>2, CountableUnion DEF LedgerInv
<1>7. \A e \in ledger'.entries : e.user \in Users /\ e.amount \in Nat \ {0}
  BY <1>1, <1>2, <1>3 DEF LedgerInv, Sound
<1>8. DOMAIN ledger'.wallet = Users
  BY <1>2
<1>. QED BY <1>2, <1>4, <1>5, <1>6, <1>7, <1>8 DEF LedgerInv, Sound

\* Every step keeps the ledger sound.
LEMMA StepKeepsSound ==
    ASSUME TypeOK, ResolutionWindow, FinitelyManyTrades, LedgerInv, [Next]_vars
    PROVE  LedgerInv' /\ ledger.entries \subseteq ledger'.entries
<1>1. UNCHANGED ledger => LedgerInv' /\ ledger.entries \subseteq ledger'.entries
  BY DEF LedgerInv
<1>2. ASSUME NEW e, e.type \in EntryTypes, Accepted(ledger, e), ledger' = Posted(ledger, e)
      PROVE  LedgerInv' /\ ledger.entries \subseteq ledger'.entries
  BY <1>2, PostedSound DEF LedgerInv
<1>3. ASSUME NEW e, NEW f, e.type \in EntryTypes, f.type \in EntryTypes,
             BothAccepted(ledger, e, f), ledger' = BothPosted(ledger, e, f)
      PROVE  LedgerInv' /\ ledger.entries \subseteq ledger'.entries
  BY <1>3, BothPostedSound DEF LedgerInv
<1>4. ASSUME NEW m \in Markets, ResolveCommit(m)
      PROVE  LedgerInv' /\ ledger.entries \subseteq ledger'.entries
  BY <1>4, ResolutionSound DEF ResolveCommit
<1>. QED BY <1>1, <1>2, <1>3, <1>4, StepPosts

LEMMA LedgerInvariant == Spec => []LedgerInv
<1>1. Init => LedgerInv
  <2> SUFFICES ASSUME Init PROVE LedgerInv
    OBVIOUS
  <2>1. ledger.entries = {} /\ ledger.wallet = [u \in Users |-> EmptyWallet]
    BY DEF Init
  <2>2. Fits(EmptyWallet)
    BY IntMaxAssumption DEF Fits, EmptyWallet
  <2>. QED BY <2>1, <2>2, BalanceEmpty, FS_EmptySet DEF LedgerInv, Sound, OneEntryPerKey, Countable
<1>2. TypeOK /\ ResolutionWindow /\ FinitelyManyTrades /\ LedgerInv /\ [Next]_vars => LedgerInv'
  BY StepKeepsSound
<1>. QED BY <1>1, <1>2, TypeCorrect, WindowHolds, TradesAreFinite, PTL DEF Spec

\* Whatever the handlers post, one entry at a time, two in a transaction or the credits
\* of a resolution, the ledger keeps what its contract promises.
THEOREM TradingImplementsContract == Spec => ImplementsContract
<1>1. Init => Contract!Init
  <2> SUFFICES ASSUME Init PROVE Contract!Init
    OBVIOUS
  <2>1. ledger.entries = {} /\ ledger.wallet = [u \in Users |-> EmptyWallet]
    BY DEF Init
  <2>2. Fits(EmptyWallet)
    BY IntMaxAssumption DEF Fits, EmptyWallet
  <2>3. Sound(ledger)
    BY <2>1, <2>2, BalanceEmpty DEF Sound, OneEntryPerKey
  <2>. QED BY <2>1, <2>3, ContractIsSound DEF Contract!Init
<1>2. TypeOK /\ TypeOK' /\ ResolutionWindow /\ FinitelyManyTrades /\ LedgerInv /\ [Next]_vars
        => [Contract!Grow]_ledger
  <2> SUFFICES ASSUME TypeOK, TypeOK', ResolutionWindow, FinitelyManyTrades, LedgerInv,
                      [Next]_vars
               PROVE  Contract!Grow
    OBVIOUS
  <2>1. DOMAIN ledger.wallet = Users /\ DOMAIN ledger'.wallet = Users
    BY DEF TypeOK, LedgerOK
  <2>. QED BY <2>1, StepKeepsSound, ContractIsSound DEF LedgerInv, Contract!Grow
<1>. QED BY <1>1, <1>2, TypeCorrect, WindowHolds, TradesAreFinite, LedgerInvariant, PTL
         DEF Spec, ImplementsContract, Contract!Spec

-----------------------------------------------------------------------------
(* Conservation.                                                           *)

Shares(t) == Info[t[1]].quantity * 100

\* What the two debits of every settled trade add up to, those included that were
\* taken for replays.
LEMMA DebitsAddUp ==
    ASSUME TypeOK, Lockstep, SettledIsDebited, KeysTellEntries, FinitelyManyTrades
    PROVE  /\ IsFiniteSet(Settled)
           /\ Cents(Uncharged) \in Int /\ OfType(ledger.entries, "SETTLE_DEBIT") \in Int
           /\ OfType(ledger.entries, "SETTLE_DEBIT") + Cents(Uncharged)
                 = Sum([t \in Settled |-> Shares(t)], Settled)
<1> DEFINE S == Settled
           Y == {YesDebit(t) : t \in S}
           N == {NoDebit(t) : t \in S}
           y == [t \in S |-> YesDebit(t)]
           n == [t \in S |-> NoDebit(t)]
<1>1. IsFiniteSet(S)
  <2>1. S \subseteq {t \in Trades : tradeStatus[t] # "NONE"}
    BY DEF Settled
  <2>. QED BY <2>1, FS_Subset DEF FinitelyManyTrades
<1>2. S \subseteq Trades /\ \A t \in S : tradeStatus[t] = "SETTLED"
  BY DEF Settled
<1>3. ASSUME NEW t \in S
      PROVE  /\ YesDebit(t).key = <<"yes-debit", t>> /\ NoDebit(t).key = <<"no-debit", t>>
             /\ YesDebit(t).amount = Reserved(t[1]) /\ NoDebit(t).amount = Reserved(t[2])
             /\ Reserved(t[1]) \in Int /\ Reserved(t[2]) \in Int /\ Shares(t) \in Int
             /\ Shares(t) = Reserved(t[1]) + Reserved(t[2])
  <2>1. t[1] \in Orders /\ t[2] \in Orders /\ Complementary(t[1], t[2])
    BY <1>2 DEF Lockstep, Trades
  <2> DEFINE p == Info[t[1]].price
             c == Info[t[2]].price
             q == Info[t[1]].quantity
  <2>2. p \in Int /\ q \in Int /\ c = 100 - p /\ Info[t[2]].quantity = q
    BY <2>1, TradingAssumption DEF Complementary, OrderInfo
  <2>3. Reserved(t[1]) = p * q /\ Reserved(t[2]) = c * q /\ Shares(t) = q * 100
    BY <2>2 DEF Reserved, Shares
  <2> HIDE DEF p, c, q
  <2>4. q * 100 = p * q + c * q /\ p * q \in Int /\ c * q \in Int
    <3>1. p * q + (100 - p) * q = q * 100
      BY <2>2
    <3>. QED BY <2>2, <3>1
  <2>. QED BY <2>3, <2>4, <2>2 DEF YesDebit, NoDebit, Leg, Entry
<1> DEFINE D == {e \in ledger.entries : e.type = "SETTLE_DEBIT"}
<1>4. D \cup Uncharged = Y \cup N /\ D \cap Uncharged = {}
  <2>1. ASSUME NEW e \in ledger.entries, e.type = "SETTLE_DEBIT"
        PROVE  e \in Y \cup N
    <3>1. Known(e) /\ ~Plain(e)
      BY <2>1, PlainIs DEF KeysTellEntries, Manual
    <3>2. ~IsPayout(e) /\ ~IsRetry(e)
      BY <2>1 DEF IsPayout, Payout, IsRetry, RetryReserve, Leg, Entry
    <3>3. PICK t \in Trades : e = YesDebit(t) \/ e = NoDebit(t)
      BY <3>1, <3>2 DEF Known, IsDebit
    <3>4. t \in S
      BY <2>1, <3>3 DEF SettledIsDebited, Settled
    <3>. QED BY <3>3, <3>4
  <2>2. ASSUME NEW e \in Y \cup N
        PROVE  e \in D \/ e \in Uncharged
    <3>1. PICK t \in S : e \in {YesDebit(t), NoDebit(t)}
      OBVIOUS
    <3>2. e.type = "SETTLE_DEBIT"
      BY <3>1 DEF YesDebit, NoDebit, Leg, Entry
    <3>. QED BY <3>1, <3>2 DEF Uncharged
  <2>3. Uncharged \subseteq Y \cup N /\ Uncharged \cap ledger.entries = {}
    BY DEF Uncharged
  <2>. QED BY <2>1, <2>2, <2>3
<1>5. Y \cap N = {} /\ (\A t, s \in S : y[t] = y[s] => t = s) /\ (\A t, s \in S : n[t] = n[s] => t = s)
  BY <1>3
<1>6. /\ IsFiniteSet(Y) /\ IsFiniteSet(N)
      /\ Y = {y[t] : t \in S} /\ N = {n[t] : t \in S}
  <2>1. y \in Surjection(S, Y) /\ n \in Surjection(S, N)
    BY DEF Surjection
  <2>2. Y = {y[t] : t \in S} /\ N = {n[t] : t \in S}
    OBVIOUS
  <2> HIDE DEF y, n, Y, N
  <2>. QED BY <1>1, <2>1, <2>2, FS_Surjection
<1> DEFINE w == [e \in Y \cup N |-> e.amount]
           wy == [t \in S |-> w[y[t]]]
           wn == [t \in S |-> w[n[t]]]
           z  == [t \in S |-> Shares(t)]
<1>7. ASSUME NEW t \in S
      PROVE  /\ w[y[t]] \in Int /\ w[n[t]] \in Int
             /\ wy[t] = w[y[t]] /\ wn[t] = w[n[t]]
             /\ z[t] = wy[t] + wn[t]
  BY <1>3
<1>8. \A e \in Y \cup N : e.amount \in Int
  BY <1>3
<1>9. Cents(Y \cup N) = Sum(w, Y) + Sum(w, N)
  <2>1. Cents(Y \cup N) = Cents(Y) + Cents(N)
    <3> HIDE DEF Y, N
    <3>. QED BY <1>5, <1>6, <1>8, CentsUnion
  <2>2. Cents(Y) = Sum(w, Y) /\ Cents(N) = Sum(w, N)
    <3> HIDE DEF Y, N
    <3>. QED BY <1>6, <1>8, CentsIsSum
  <2>. QED BY <2>1, <2>2
<1> HIDE DEF Y, N, w, y, n
<1>10. Sum(w, Y) = Sum(wy, S) /\ Sum(w, N) = Sum(wn, S)
  BY <1>1, <1>5, <1>6, <1>7, SumImage
<1>11. \A t \in S : wy[t] \in Int /\ wn[t] \in Int /\ z[t] = wy[t] + wn[t]
  BY <1>7
<1> HIDE DEF wy, wn, z
<1>12. Sum(z, S) = Sum(wy, S) + Sum(wn, S)
  BY <1>1, <1>11, SumPlus
<1> HIDE DEF D
<1>13. /\ Cents(Y \cup N) = Cents(D) + Cents(Uncharged)
       /\ Cents(D) \in Int /\ Cents(Uncharged) \in Int
  <2>1. IsFiniteSet(D) /\ IsFiniteSet(Uncharged)
    BY <1>4, <1>6, FS_Union, FS_Subset
  <2>2. \A e \in D \cup Uncharged : e.amount \in Int
    BY <1>4, <1>8
  <2>. QED BY <1>4, <2>1, <2>2, CentsUnion, CentsType
<1>14. OfType(ledger.entries, "SETTLE_DEBIT") = Cents(D)
  BY DEF OfType, D
<1>. QED BY <1>1, <1>9, <1>10, <1>12, <1>13, <1>14 DEF z

\* What the credits add up to: the shares of the settled trades that were paid.
LEMMA CreditsAddUp ==
    ASSUME TypeOK, KeysTellEntries, CreditsAreDue, IsFiniteSet(Settled)
    PROVE  OfType(ledger.entries, "SETTLE_CREDIT")
               = Sum([t \in Settled |-> Shares(t)], Settled \ Unpaid)
<1> DEFINE S == Settled \ Unpaid
           C == {e \in ledger.entries : e.type = "SETTLE_CREDIT"}
           p == [t \in S |-> Payout(t, resolvedOutcome[MarketOf(t)])]
           w == [e \in C |-> e.amount]
           z == [t \in Settled |-> Shares(t)]
<1>1. IsFiniteSet(S)
  BY FS_Subset
<1>2. ASSUME NEW t \in Trades, NEW side
      PROVE  /\ Payout(t, side).key = <<"credit", <<t, side>>>>
             /\ Payout(t, side).type = "SETTLE_CREDIT"
             /\ Payout(t, side).amount = Shares(t) /\ Shares(t) \in Int
  BY TradingAssumption DEF Payout, Entry, Shares, Trades, OrderInfo
<1>3. C = {p[t] : t \in S}
  <2>1. ASSUME NEW e \in C
        PROVE  \E t \in S : e = p[t]
    <3>1. PICK t \in Trades : /\ tradeStatus[t] = "SETTLED"
                              /\ e = Payout(t, resolvedOutcome[MarketOf(t)])
      BY DEF CreditsAreDue
    <3>2. resolvedOutcome[MarketOf(t)] \in Sides
      <4>1. Known(e) /\ ~Plain(e) /\ ~IsRetry(e) /\ ~IsDebit(e)
        BY PlainIs DEF KeysTellEntries, IsRetry, RetryReserve, IsDebit, YesDebit, NoDebit,
                       Leg, Entry
      <4>2. PICK s \in Trades, side \in Sides : e = Payout(s, side)
        BY <4>1 DEF Known, IsPayout
      <4>3. /\ e.key = <<"credit", <<s, side>>>>
            /\ e.key = <<"credit", <<t, resolvedOutcome[MarketOf(t)]>>>>
        BY <3>1, <4>2 DEF Payout, Entry
      <4>. QED BY <4>3
    <3>3. t \in S
      BY <3>1, <3>2 DEF Settled, Unpaid, Paid
    <3>. QED BY <3>1, <3>3
  <2>2. ASSUME NEW t \in S
        PROVE  p[t] \in C
    <3>1. t \in Trades /\ Paid(t)
      BY DEF Settled, Unpaid
    <3>2. PICK side \in Sides : Payout(t, side) \in ledger.entries
      BY <3>1 DEF Paid
    <3>3. PICK s \in Trades : Payout(t, side) = Payout(s, resolvedOutcome[MarketOf(s)])
      BY <1>2, <3>1, <3>2 DEF CreditsAreDue
    <3>4. s = t /\ side = resolvedOutcome[MarketOf(t)]
      BY <1>2, <3>1, <3>3
    <3>. QED BY <1>2, <3>1, <3>2, <3>4
  <2>. QED BY <2>1, <2>2
<1>4. ASSUME NEW t \in S
      PROVE  /\ p[t] \in C /\ w[p[t]] = Shares(t) /\ w[p[t]] \in Int /\ z[t] = Shares(t)
             /\ p[t].key = <<"credit", <<t, resolvedOutcome[MarketOf(t)]>>>>
  <2>1. t \in Trades /\ t \in Settled /\ p[t] \in C
    BY <1>3 DEF Settled
  <2> DEFINE pay == Payout(t, resolvedOutcome[MarketOf(t)])
  <2>2. p[t] = pay /\ z[t] = Shares(t)
    BY <2>1
  <2>3. w[p[t]] = p[t].amount
    BY <2>1
  <2>4. /\ pay.key = <<"credit", <<t, resolvedOutcome[MarketOf(t)]>>>>
        /\ pay.amount = Shares(t) /\ Shares(t) \in Int
    BY <1>2, <2>1
  <2> HIDE DEF p, w, z, C, S, pay
  <2>5. w[p[t]] = Shares(t)
    BY <2>2, <2>3, <2>4
  <2>6. p[t].key = <<"credit", <<t, resolvedOutcome[MarketOf(t)]>>>>
    BY <2>2, <2>4
  <2>. QED BY <2>1, <2>2, <2>4, <2>5, <2>6
<1>5. \A t, s \in S : p[t] = p[s] => t = s
  <2> HIDE DEF p, w, z, C, S
  <2> SUFFICES ASSUME NEW t \in S, NEW s \in S, p[t] = p[s]
               PROVE  t = s
    OBVIOUS
  <2>1. /\ p[t].key = <<"credit", <<t, resolvedOutcome[MarketOf(t)]>>>>
        /\ p[s].key = <<"credit", <<s, resolvedOutcome[MarketOf(s)]>>>>
    BY <1>4
  <2>. QED BY <2>1
<1>6. IsFiniteSet(C)
  <2>1. p \in Surjection(S, C)
    BY <1>3, <1>4 DEF Surjection
  <2> HIDE DEF p, C
  <2>. QED BY <1>1, <2>1, FS_Surjection
<1>7. \A e \in C : e.amount \in Int
  BY <1>3, <1>4
<1>8. Cents(C) = Sum(w, C)
  <2> HIDE DEF C
  <2>. QED BY <1>6, <1>7, CentsIsSum
<1> DEFINE v == [t \in S |-> w[p[t]]]
<1>9. \A t \in S : v[t] = z[t] /\ v[t] \in Int
  BY <1>4
<1> HIDE DEF p, w, C, z
<1>10. Sum(w, C) = Sum(v, S)
  BY <1>1, <1>3, <1>4, <1>5, SumImage
<1> HIDE DEF v
<1>11. Sum(v, S) = Sum(z, S)
  BY <1>1, <1>9, SumSame
<1>. QED BY <1>8, <1>10, <1>11 DEF OfType, C, z

\* Conservation follows from what the other invariants say of the entries: nothing is
\* debited but the collateral of settled trades, nothing credited but their shares;
\* and what was not debited of it is on record as uncharged.
LEMMA Conserved ==
    ASSUME TypeOK, Lockstep, SettledIsDebited, KeysTellEntries, CreditsAreDue,
           FinitelyManyTrades, LedgerInv
    PROVE  MoneyConserved
<1> DEFINE E == ledger.entries
           S == Settled
           z == [t \in S |-> Shares(t)]
           b == [u \in Users |-> Balance(E, u).available + Balance(E, u).reserved]
           v == [u \in Users |-> ledger.wallet[u].available + ledger.wallet[u].reserved]
           uz == [t \in Unpaid |-> Info[t[1]].quantity * 100]
<1>1. /\ IsFiniteSet(S) /\ Cents(Uncharged) \in Int
      /\ OfType(E, "SETTLE_DEBIT") \in Int
      /\ OfType(E, "SETTLE_DEBIT") + Cents(Uncharged) = Sum(z, S)
  BY DebitsAddUp
<1>2. OfType(E, "SETTLE_CREDIT") = Sum(z, S \ Unpaid)
  BY <1>1, CreditsAddUp
<1>3. Unpaid \subseteq S /\ IsFiniteSet(Unpaid) /\ IsFiniteSet(S \ Unpaid)
  BY <1>1, FS_Subset DEF Unpaid, Settled
<1>4. \A t \in S : z[t] \in Int
  BY TradingAssumption DEF Settled, Shares, Trades, OrderInfo
<1>5. Sum(z, S) = Sum(z, S \ Unpaid) + Sum(z, Unpaid) /\ Sum(z, S \ Unpaid) \in Int /\ Sum(z, Unpaid) \in Int
  <2>1. S = (S \ Unpaid) \cup Unpaid /\ (S \ Unpaid) \cap Unpaid = {}
    BY <1>3
  <2> HIDE DEF z, S
  <2>2. Sum(z, (S \ Unpaid) \cup Unpaid) = Sum(z, S \ Unpaid) + Sum(z, Unpaid)
    BY <1>3, <1>4, <2>1, SumUnion
  <2>. QED BY <1>3, <1>4, <2>1, <2>2, SumType
<1>6. SumFunction(uz) = Sum(z, Unpaid)
  <2>1. SumFunction(uz) = Sum(uz, Unpaid)
    BY DEF SumFunction, Sum
  <2>2. \A t \in Unpaid : uz[t] = z[t] /\ uz[t] \in Int
    BY <1>3, <1>4 DEF Shares
  <2> HIDE DEF uz, z
  <2>. QED BY <1>3, <2>1, <2>2, SumSame
<1>7. IsFiniteSet(Users) /\ Countable(E) /\ \A e \in E : e.user \in Users
  BY TradingAssumption DEF LedgerInv, TypeOK, LedgerOK
<1>8. Sum(b, Users) = OfType(E, "DEPOSIT") + OfType(E, "SETTLE_CREDIT")
                      - OfType(E, "WITHDRAW") - OfType(E, "SETTLE_DEBIT")
  BY <1>7, BalancesAddUp
<1>9. SumFunction(v) = Sum(b, Users)
  <2>1. b = v
    BY DEF LedgerInv, Sound, TypeOK, LedgerOK
  <2>. QED BY <2>1 DEF SumFunction, Sum
<1>10. AllEntries({"DEPOSIT"}) = OfType(E, "DEPOSIT") /\ AllEntries({"WITHDRAW"}) = OfType(E, "WITHDRAW")
  <2>1. \A type : {e \in E : e.type \in {type}} = {e \in E : e.type = type}
    OBVIOUS
  <2>. QED BY <2>1 DEF AllEntries, OfType
<1>11. OfType(E, "DEPOSIT") \in Int /\ OfType(E, "WITHDRAW") \in Int
  BY <1>7, FS_Subset, CentsType DEF OfType, Countable
<1> DEFINE D == OfType(E, "DEPOSIT")
           W == OfType(E, "WITHDRAW")
           P == Sum(z, S \ Unpaid)
           U == Sum(z, Unpaid)
           X == OfType(E, "SETTLE_DEBIT")
           C == Cents(Uncharged)
<1>12. D - W = SumFunction(v) + SumFunction(uz) - C
  <2>1. /\ SumFunction(v) = D + P - W - X /\ SumFunction(uz) = U /\ X + C = P + U
        /\ D \in Int /\ W \in Int /\ P \in Int /\ U \in Int /\ X \in Int /\ C \in Int
    BY <1>1, <1>2, <1>5, <1>6, <1>8, <1>9, <1>11
  <2> HIDE DEF D, W, P, U, X, C, v, uz
  <2>. QED BY <2>1
<1>. QED BY <1>10, <1>12 DEF MoneyConserved

\* Cents are neither made nor lost, but for debits whose keys were used up, for any users,
\* prices, quantities, keys of deposits and interleaving of matching, settlement, failure,
\* retry and resolution.
THEOREM MoneyIsConserved == Spec => []MoneyConserved
  BY Conserved, TypeCorrect, OrdersFollowTrades, DebitsFollowSettlement, KeysTell,
     CreditsFollowResolution, TradesAreFinite, LedgerInvariant, PTL

-----------------------------------------------------------------------------
(* The collateral behind an order whose user kept the services' keys for   *)
(* it out of his deposits and withdrawals.                                 *)

\* An order's debit for a trade.
OwnDebit(t, o) == IF t[1] = o THEN YesDebit(t) ELSE NoDebit(t)

\* The services ask for the mutations of an order's collateral under its keys.
LEMMA OwnKeys ==
    ASSUME NEW o \in Orders, NEW t \in Trades
    PROVE  /\ \A e \in {ReserveFor(o), CancelRelease(o), HandlerRelease(t, o), RetryReserve(t, o)} :
                 e.user = Info[o].user /\ e.key \in KeysFor(o)
           /\ o \in {t[1], t[2]} => \A e \in {WorkerRelease(t, o), OwnDebit(t, o)} :
                 e.user = Info[o].user /\ e.key \in KeysFor(o)
<1>1. \A e \in {ReserveFor(o), CancelRelease(o)} : e.user = Info[o].user /\ e.key \in KeysFor(o)
  BY DEF ReserveFor, CancelRelease, Entry, KeysFor
<1>2. \A e \in {HandlerRelease(t, o), RetryReserve(t, o)} :
         e.user = Info[o].user /\ e.key \in KeysFor(o)
  BY DEF HandlerRelease, RetryReserve, Leg, Entry, KeysFor
<1>3. ASSUME o \in {t[1], t[2]}
      PROVE  \A e \in {WorkerRelease(t, o), OwnDebit(t, o)} :
                e.user = Info[o].user /\ e.key \in KeysFor(o)
  <2>1. CASE t[1] = o
    BY <2>1 DEF WorkerRelease, OwnDebit, YesDebit, Leg, Entry, KeysFor
  <2>2. CASE t[1] # o
    BY <1>3, <2>2 DEF WorkerRelease, OwnDebit, NoDebit, Leg, Entry, KeysFor
  <2>. QED BY <2>1, <2>2
<1>. QED BY <1>1, <1>2, <1>3

\* The key of a reservation or a release determines the entry of the services.
LEMMA OrderKeyTells ==
    ASSUME NEW e, Known(e), ~IsClient(e), NEW o \in Orders, NEW t \in Trades
    PROVE  /\ e.key = ReserveFor(o).key => e = ReserveFor(o)
           /\ e.key = CancelRelease(o).key => e = CancelRelease(o)
           /\ e.key = HandlerRelease(t, o).key => e = HandlerRelease(t, o)
           /\ o \in {t[1], t[2]} /\ e.key = WorkerRelease(t, o).key => e = WorkerRelease(t, o)
           /\ e.key = RetryReserve(t, o).key => e = RetryReserve(t, o)
<1>1. /\ ReserveFor(o).key = <<"order-reserve", o>> /\ CancelRelease(o).key = <<"order-cancel", o>>
      /\ HandlerRelease(t, o).key = <<"release", <<t, o>>>>
      /\ WorkerRelease(t, o).key = <<IF t[1] = o THEN "yes-release" ELSE "no-release", t>>
      /\ RetryReserve(t, o).key = <<"retry-reserve", <<t, o>>>>
  BY DEF ReserveFor, CancelRelease, HandlerRelease, WorkerRelease, RetryReserve, Leg, Entry
<1>2. CASE IsHold(e)
  <2>1. PICK x \in Orders : \/ e = ReserveFor(x) /\ e.key = <<"order-reserve", x>>
                            \/ e = CancelRelease(x) /\ e.key = <<"order-cancel", x>>
    BY <1>2 DEF IsHold, ReserveFor, CancelRelease, Entry
  <2>. QED BY <1>1, <2>1
<1>3. CASE IsRelease(e)
  <2>1. PICK s \in Trades, x \in Orders :
          x \in {s[1], s[2]} /\ (e = HandlerRelease(s, x) \/ e = WorkerRelease(s, x))
    BY <1>3 DEF IsRelease, Trades
  <2>2. CASE e = HandlerRelease(s, x)
    <3>1. e.key = <<"release", <<s, x>>>>
      BY <2>2 DEF HandlerRelease, Leg, Entry
    <3>. QED BY <1>1, <2>2, <3>1
  <2>3. CASE e = WorkerRelease(s, x)
    <3>1. e.key = <<IF s[1] = x THEN "yes-release" ELSE "no-release", s>>
      BY <2>3 DEF WorkerRelease, Leg, Entry
    <3>2. o \in {t[1], t[2]} /\ e.key = WorkerRelease(t, o).key => s = t /\ x = o
      BY <1>1, <2>1, <3>1
    <3>. QED BY <1>1, <2>3, <3>1, <3>2
  <2>. QED BY <2>1, <2>2, <2>3
<1>4. CASE IsPayout(e) \/ IsDebit(e)
  <2>1. e.key[1] \in {"credit", "yes-debit", "no-debit"}
    BY <1>4 DEF IsPayout, Payout, IsDebit, YesDebit, NoDebit, Leg, Entry
  <2>. QED BY <1>1, <2>1
<1>5. CASE IsRetry(e)
  <2>1. PICK s \in Trades, x \in Orders : x \in {s[1], s[2]} /\ e = RetryReserve(s, x)
    BY <1>5 DEF IsRetry, Trades
  <2>2. e.key = <<"retry-reserve", <<s, x>>>>
    BY <2>1 DEF RetryReserve, Leg, Entry
  <2>. QED BY <1>1, <2>1, <2>2
<1>. QED BY <1>2, <1>3, <1>4, <1>5 DEF Known, Plain

\* No other entry has taken such a key of an order whose keys were kept apart.
LEMMA ApartIsThere ==
    ASSUME KeysTellEntries, NEW o \in Orders, KeysApart(o), NEW t \in Trades,
           NEW e, \/ e \in {ReserveFor(o), CancelRelease(o), HandlerRelease(t, o), RetryReserve(t, o)}
                  \/ e = WorkerRelease(t, o) /\ o \in {t[1], t[2]},
           Replayed(ledger, e)
    PROVE  e \in ledger.entries
<1>1. PICK x \in ledger.entries : x.user = e.user /\ x.key = e.key
  BY DEF Replayed
<1>2. e.user = Info[o].user /\ e.key \in KeysFor(o)
  BY OwnKeys
<1>3. ~IsClient(x) /\ Known(x)
  BY <1>1, <1>2 DEF KeysApart, IsClient, KeysTellEntries
<1>4. x = e
  BY <1>1, <1>3, OrderKeyTells
<1>. QED BY <1>1, <1>4

\* Nor that of its debit.
LEMMA ApartIsDebited ==
    ASSUME NEW o \in Orders, KeysApart(o), NEW t \in Trades, o \in {t[1], t[2]}
    PROVE  ~KeyTaken(OwnDebit(t, o))
  BY OwnKeys DEF KeysApart, KeyTaken

\* The entries in the ledger tell how far an order got, and a trade whose order was not
\* armed again; one that was had been released.
OrderEntries(o) ==
    /\ ReserveFor(o) \in ledger.entries <=> orderStatus[o] # "NONE"
    /\ CancelRelease(o) \in ledger.entries <=> orderStatus[o] = "CANCELLED"

LegEntries(t, o) ==
    LET handler == HandlerRelease(t, o) \in ledger.entries
        worker  == WorkerRelease(t, o) \in ledger.entries
    IN  /\ Rearmed(t, o) => tradeStatus[t] # "NONE" /\ (handler \/ worker)
        /\ \/ Rearmed(t, o)
           \/ tradeStatus[t] = "FAILED" /\ (handler <=> ~worker)
           \/ tradeStatus[t] # "FAILED" /\ ~handler /\ ~worker

Told(o) ==
    KeysApart(o) => /\ OrderEntries(o)
                    /\ \A t \in Trades : o \in {t[1], t[2]} => LegEntries(t, o)

EntriesTellStatus == \A o \in Orders : Told(o)

\* A key that is used up later was not before.
LEMMA StayedApart ==
    ASSUME ledger.entries \subseteq ledger'.entries, NEW o \in Orders, KeysApart(o)'
    PROVE  KeysApart(o)
  BY DEF KeysApart, KeysFor

\* Entries do not change with the state.
LEMMA Constant ==
    ASSUME NEW o, NEW t
    PROVE  /\ ReserveFor(o)' = ReserveFor(o) /\ CancelRelease(o)' = CancelRelease(o)
           /\ HandlerRelease(t, o)' = HandlerRelease(t, o)
           /\ WorkerRelease(t, o)' = WorkerRelease(t, o)
           /\ RetryReserve(t, o)' = RetryReserve(t, o)
  BY DEF ReserveFor, CancelRelease, HandlerRelease, WorkerRelease, RetryReserve, Leg, Entry,
         Reserved

\* A step that posts no entry of an order and neither places nor cancels it.
LEMMA OrderFrame ==
    ASSUME NEW o \in Orders, OrderEntries(o), ledger.entries \subseteq ledger'.entries,
           ReserveFor(o) \in ledger'.entries => ReserveFor(o) \in ledger.entries,
           CancelRelease(o) \in ledger'.entries => CancelRelease(o) \in ledger.entries,
           orderStatus'[o] = "NONE" <=> orderStatus[o] = "NONE",
           orderStatus'[o] = "CANCELLED" <=> orderStatus[o] = "CANCELLED"
    PROVE  OrderEntries(o)'
  BY Constant DEF OrderEntries

\* A step that posts no entry of an order's trade, and neither fails nor retries it.
LEMMA LegFrame ==
    ASSUME NEW t \in Trades, NEW o \in Orders, LegEntries(t, o),
           ledger.entries \subseteq ledger'.entries,
           \A e \in {HandlerRelease(t, o), WorkerRelease(t, o), RetryReserve(t, o)} :
              e \in ledger'.entries => e \in ledger.entries,
           tradeStatus'[t] = "FAILED" <=> tradeStatus[t] = "FAILED",
           tradeStatus[t] # "NONE" => tradeStatus'[t] # "NONE"
    PROVE  LegEntries(t, o)'
  BY Constant DEF LegEntries, Rearmed

\* A step that reserves and releases nothing, and neither places, cancels nor fails.
LEMMA ToldFrame ==
    ASSUME EntriesTellStatus, ledger.entries \subseteq ledger'.entries,
           \A e \in ledger'.entries \ ledger.entries : e.type \notin {"RESERVE", "RELEASE"},
           \A o \in Orders : /\ orderStatus'[o] = "NONE" <=> orderStatus[o] = "NONE"
                             /\ orderStatus'[o] = "CANCELLED" <=> orderStatus[o] = "CANCELLED",
           \A t \in Trades : /\ tradeStatus'[t] = "FAILED" <=> tradeStatus[t] = "FAILED"
                             /\ tradeStatus[t] # "NONE" => tradeStatus'[t] # "NONE"
    PROVE  EntriesTellStatus'
<1> SUFFICES ASSUME NEW o \in Orders, KeysApart(o)'
             PROVE  OrderEntries(o)' /\ \A t \in Trades : o \in {t[1], t[2]} => LegEntries(t, o)'
  BY DEF EntriesTellStatus, Told
<1>1. OrderEntries(o) /\ \A t \in Trades : o \in {t[1], t[2]} => LegEntries(t, o)
  BY StayedApart DEF EntriesTellStatus, Told
<1>2. OrderEntries(o)'
  <2>1. ReserveFor(o).type = "RESERVE" /\ CancelRelease(o).type = "RELEASE"
    BY DEF ReserveFor, CancelRelease, Entry
  <2>. QED BY <1>1, <2>1, OrderFrame
<1>3. ASSUME NEW t \in Trades, o \in {t[1], t[2]}
      PROVE  LegEntries(t, o)'
  <2>1. /\ HandlerRelease(t, o).type = "RELEASE" /\ WorkerRelease(t, o).type = "RELEASE"
        /\ RetryReserve(t, o).type = "RESERVE"
    BY DEF HandlerRelease, WorkerRelease, RetryReserve, Leg, Entry
  <2>. QED BY <1>1, <1>3, <2>1, LegFrame
<1>. QED BY <1>2, <1>3

\* A settlement step of a trade that posts for its two orders, one entry for each.
LEMMA AdvanceFrame ==
    ASSUME TypeOK, Lockstep, EntriesTellStatus, NEW t \in Trades, tradeStatus[t] # "NONE",
           ledger.entries \subseteq ledger'.entries,
           \A e \in ledger'.entries \ ledger.entries :
              \E o \in {t[1], t[2]} :
                 e \in {HandlerRelease(t, o), WorkerRelease(t, o), RetryReserve(t, o)},
           NEW new, NEW newOrder, newOrder \notin {"NONE", "CANCELLED"}, NEW e1, NEW e2,
           Advance(t, e1, e2, new, newOrder),
           \A o \in {t[1], t[2]} : KeysApart(o) /\ LegEntries(t, o) => LegEntries(t, o)'
    PROVE  EntriesTellStatus'
<1> SUFFICES ASSUME NEW o \in Orders, KeysApart(o)'
             PROVE  OrderEntries(o)' /\ \A s \in Trades : o \in {s[1], s[2]} => LegEntries(s, o)'
  BY DEF EntriesTellStatus, Told
<1>1. KeysApart(o) /\ OrderEntries(o) /\ \A s \in Trades : o \in {s[1], s[2]} => LegEntries(s, o)
  BY StayedApart DEF EntriesTellStatus, Told
<1>2. \A e \in ledger'.entries \ ledger.entries :
         /\ e.key[1] \in {"release", "yes-release", "no-release", "retry-reserve"}
         /\ e.key[1] \in {"release", "retry-reserve"} => e.key[2][1] = t
         /\ e.key[1] \in {"yes-release", "no-release"} => e.key[2] = t
  BY DEF HandlerRelease, WorkerRelease, RetryReserve, Leg, Entry
<1>3. OrderEntries(o)'
  <2>1. ReserveFor(o).key[1] = "order-reserve" /\ CancelRelease(o).key[1] = "order-cancel"
    BY DEF ReserveFor, CancelRelease, Entry
  <2>2. \/ orderStatus'[o] = orderStatus[o]
        \/ o \in {t[1], t[2]} /\ orderStatus'[o] = newOrder
    BY DEF Advance
  <2>3. o \in {t[1], t[2]} => orderStatus[o] \notin {"NONE", "CANCELLED"}
    <3>1. o \in {t[1], t[2]} => orderStatus[o] = OrdersOf(tradeStatus[t])
      BY DEF Lockstep
    <3>2. tradeStatus[t] \in {"PENDING_SETTLEMENT", "SETTLED", "FAILED"}
      BY DEF TypeOK, TradeStatuses
    <3>. QED BY <3>1, <3>2 DEF OrdersOf
  <2>. QED BY <1>1, <1>2, <2>1, <2>2, <2>3, OrderFrame
<1>4. ASSUME NEW s \in Trades, o \in {s[1], s[2]}, s # t
      PROVE  LegEntries(s, o)'
  <2>1. /\ HandlerRelease(s, o).key = <<"release", <<s, o>>>>
        /\ WorkerRelease(s, o).key = <<IF s[1] = o THEN "yes-release" ELSE "no-release", s>>
        /\ RetryReserve(s, o).key = <<"retry-reserve", <<s, o>>>>
    BY DEF HandlerRelease, WorkerRelease, RetryReserve, Leg, Entry
  <2>2. \A e \in {HandlerRelease(s, o), WorkerRelease(s, o), RetryReserve(s, o)} :
           e \in ledger'.entries => e \in ledger.entries
    BY <1>2, <1>4, <2>1
  <2>3. tradeStatus'[s] = tradeStatus[s]
    BY <1>4 DEF Advance, TypeOK
  <2>. QED BY <1>1, <1>4, <2>2, <2>3, LegFrame
<1>. QED BY <1>1, <1>3, <1>4

\* The entries a settlement step asks for are there afterwards, each for an order whose
\* keys were kept apart.
LEMMA AdvancePosts ==
    ASSUME KeysTellEntries, NEW t \in Trades, t[1] # t[2], NEW e, NEW f, NEW new, NEW newOrder,
           Advance(t, e, f, new, newOrder),
           \/ e = HandlerRelease(t, t[1]) /\ f = HandlerRelease(t, t[2])
           \/ e = WorkerRelease(t, t[1]) /\ f = WorkerRelease(t, t[2])
           \/ e = RetryReserve(t, t[1]) /\ f = RetryReserve(t, t[2])
    PROVE  /\ ledger.entries \subseteq ledger'.entries
           /\ ledger'.entries \subseteq ledger.entries \cup {e, f}
           /\ KeysApart(t[1]) => e \in ledger'.entries
           /\ KeysApart(t[2]) => f \in ledger'.entries
<1>1. ledger' = BothPosted(ledger, e, f)
  BY DEF Advance
<1>2. e.key # f.key
  BY DEF HandlerRelease, WorkerRelease, RetryReserve, Leg, Entry
<1>3. t[1] \in Orders /\ t[2] \in Orders
  BY DEF Trades
<1>4. KeysApart(t[1]) /\ Replayed(ledger, e) => e \in ledger.entries
  BY <1>3, ApartIsThere
<1>5. KeysApart(t[2]) /\ Replayed(ledger, f) => f \in ledger.entries
  BY <1>3, ApartIsThere
<1>. QED BY <1>1, <1>2, <1>4, <1>5, BothPostedEntries

\* Every step keeps the entries in step with the statuses.
LEMMA EntriesTell == Spec => []EntriesTellStatus
<1>1. Init => EntriesTellStatus
  BY DEF Init, EntriesTellStatus, Told, OrderEntries, LegEntries, Rearmed
<1>2. TypeOK /\ Lockstep /\ KeysTellEntries /\ EntriesTellStatus /\ [Next]_vars
        => EntriesTellStatus'
  <2> SUFFICES ASSUME TypeOK, Lockstep, KeysTellEntries, EntriesTellStatus, [Next]_vars
               PROVE  EntriesTellStatus'
    OBVIOUS
  <2>1. ASSUME NEW u \in Users, NEW amount \in Amounts, NEW k \in ClientKeys[u],
               Deposit(u, amount, k) \/ Withdraw(u, amount, k)
        PROVE  EntriesTellStatus'
    <3>1. PICK type \in Manual : ledger' = Posted(ledger, Entry(u, type, amount, k, k))
      BY <2>1 DEF Deposit, Withdraw, Manual
    <3>2. \A e \in ledger'.entries \ ledger.entries : e.type \in Manual
      BY <3>1, PostedEntries DEF Entry
    <3>3. UNCHANGED <<orderStatus, tradeStatus>>
      BY <2>1 DEF Deposit, Withdraw, tradeVars
    <3>. QED BY <3>2, <3>3, EntriesStay, ToldFrame DEF Manual
  <2>2. ASSUME UNCHANGED <<orderStatus, tradeStatus, ledger>>
        PROVE  EntriesTellStatus'
    BY <2>2, ToldFrame
  <2>3. ASSUME NEW m \in Markets, ResolveCommit(m)
        PROVE  EntriesTellStatus'
    <3>1. \A e \in ledger'.entries \ ledger.entries : e.type = "SETTLE_CREDIT"
      BY <2>3, ResolutionEntries DEF Payout, Entry
    <3>2. UNCHANGED <<orderStatus, tradeStatus>>
      BY <2>3 DEF ResolveCommit, tradeVars
    <3>. QED BY <3>1, <3>2, EntriesStay, ToldFrame
  <2>4. ASSUME NEW o \in Orders, NEW c \in Orders, Match(o, c)
        PROVE  EntriesTellStatus'
    <3>1. TradeOf(o, c) \in Trades
      BY DEF TradeOf, Trades
    <3>2. tradeStatus[TradeOf(o, c)] = "NONE"
      BY <2>4, <3>1 DEF Match, Lockstep, Traded, TradeOf
    <3>3. ledger' = ledger
      BY <2>4 DEF Match
    <3>4. \A x \in Orders : /\ orderStatus'[x] = "NONE" <=> orderStatus[x] = "NONE"
                            /\ orderStatus'[x] = "CANCELLED" <=> orderStatus[x] = "CANCELLED"
      BY <2>4 DEF Match
    <3>5. \A t \in Trades : /\ tradeStatus'[t] = "FAILED" <=> tradeStatus[t] = "FAILED"
                            /\ tradeStatus[t] # "NONE" => tradeStatus'[t] # "NONE"
      BY <2>4, <3>1, <3>2 DEF Match, TypeOK
    <3>. QED BY <3>3, <3>4, <3>5, ToldFrame
  <2>5. ASSUME NEW x \in Orders, PlaceOrder(x) \/ CancelOrder(x)
        PROVE  EntriesTellStatus'
    <3>1. PICK e \in {ReserveFor(x), CancelRelease(x)} :
             /\ ledger' = Posted(ledger, e)
             /\ UNCHANGED tradeStatus
             /\ \/ /\ e = ReserveFor(x) /\ orderStatus[x] = "NONE"
                   /\ orderStatus' = [orderStatus EXCEPT ![x] = "OPEN"]
                \/ /\ e = CancelRelease(x) /\ orderStatus[x] = "OPEN"
                   /\ orderStatus' = [orderStatus EXCEPT ![x] = "CANCELLED"]
      BY <2>5 DEF PlaceOrder, CancelOrder
    <3> SUFFICES ASSUME NEW o \in Orders, KeysApart(o)'
                 PROVE  OrderEntries(o)' /\ \A t \in Trades : o \in {t[1], t[2]} => LegEntries(t, o)'
      BY DEF EntriesTellStatus, Told
    <3>2. /\ ledger.entries \subseteq ledger'.entries
          /\ ledger'.entries \subseteq ledger.entries \cup {e}
          /\ ~Replayed(ledger, e) => e \in ledger'.entries
      BY <3>1, PostedEntries
    <3>3. /\ KeysApart(o) /\ OrderEntries(o)
          /\ \A t \in Trades : o \in {t[1], t[2]} => LegEntries(t, o)
      BY <3>2, StayedApart DEF EntriesTellStatus, Told
    <3>4. \A y \in Orders : /\ ReserveFor(y).key = <<"order-reserve", y>>
                            /\ CancelRelease(y).key = <<"order-cancel", y>>
      BY DEF ReserveFor, CancelRelease, Entry
    <3>5. OrderEntries(o)'
      <4>1. CASE o # x
        <5>1. e \notin {ReserveFor(o), CancelRelease(o)}
          BY <3>1, <3>4, <4>1
        <5>2. orderStatus'[o] = orderStatus[o]
          BY <3>1, <4>1 DEF TypeOK
        <5>. QED BY <3>2, <3>3, <5>1, <5>2, OrderFrame
      <4>2. CASE o = x
        <5>1. Replayed(ledger, e) => e \in ledger.entries
          <6>1. <<o, o>> \in Trades
            BY DEF Trades
          <6>. QED BY <3>1, <3>3, <4>2, <6>1, ApartIsThere
        <5>2. ReserveFor(o) # CancelRelease(o)
          BY <3>4
        <5>3. \/ e = ReserveFor(o) /\ orderStatus[o] = "NONE" /\ orderStatus'[o] = "OPEN"
              \/ e = CancelRelease(o) /\ orderStatus[o] = "OPEN" /\ orderStatus'[o] = "CANCELLED"
          BY <3>1, <4>2 DEF TypeOK
        <5>4. e \in ledger'.entries
          BY <3>2, <5>1
        <5>. QED BY <3>2, <3>3, <5>2, <5>3, <5>4, Constant DEF OrderEntries
      <4>. QED BY <4>1, <4>2
    <3>6. ASSUME NEW t \in Trades, o \in {t[1], t[2]}
          PROVE  LegEntries(t, o)'
      <4>1. e \notin {HandlerRelease(t, o), WorkerRelease(t, o), RetryReserve(t, o)}
        <5>1. /\ HandlerRelease(t, o).key[1] = "release"
              /\ WorkerRelease(t, o).key[1] \in {"yes-release", "no-release"}
              /\ RetryReserve(t, o).key[1] = "retry-reserve"
          BY DEF HandlerRelease, WorkerRelease, RetryReserve, Leg, Entry
        <5>2. e.key[1] \in {"order-reserve", "order-cancel"}
          BY <3>4
        <5>. QED BY <5>1, <5>2
      <4>. QED BY <3>1, <3>2, <3>3, <3>6, <4>1, LegFrame
    <3>. QED BY <3>5, <3>6
  <2>6. ASSUME NEW t \in Trades, HandleSettlement(t)
        PROVE  EntriesTellStatus'
    <3>1. \A e \in ledger'.entries \ ledger.entries : e.type = "SETTLE_DEBIT"
      BY <2>6, SettlementEntries, DebitsApart
    <3>2. /\ tradeStatus[t] = "PENDING_SETTLEMENT" /\ tradeStatus'[t] = "SETTLED"
          /\ \A s \in Trades : s # t => tradeStatus'[s] = tradeStatus[s]
      BY <2>6, SettlementEntries DEF TypeOK
    <3>3. \A o \in Orders : \/ orderStatus'[o] = orderStatus[o]
                            \/ o \in {t[1], t[2]} /\ orderStatus'[o] = "MATCHED"
      BY <2>6 DEF HandleSettlement, Advance
    <3>4. \A o \in {t[1], t[2]} : orderStatus[o] = "MATCH_PENDING"
      BY <3>2 DEF Lockstep, OrdersOf
    <3>. QED BY <3>1, <3>2, <3>3, <3>4, EntriesStay, ToldFrame
  <2>7. ASSUME NEW t \in Trades, FailPendingTradeAndReleaseFunds(t) \/ MarkSettlementFailure(t)
        PROVE  EntriesTellStatus'
    <3>1. tradeStatus[t] = "PENDING_SETTLEMENT" /\ t[1] # t[2]
      BY <2>7 DEF FailPendingTradeAndReleaseFunds, MarkSettlementFailure, Lockstep, Complementary
    <3>2. PICK e, f :
             /\ Advance(t, e, f, "FAILED", "SETTLEMENT_FAILED")
             /\ \/ e = HandlerRelease(t, t[1]) /\ f = HandlerRelease(t, t[2])
                \/ e = WorkerRelease(t, t[1]) /\ f = WorkerRelease(t, t[2])
      <4>1. FailPendingTradeAndReleaseFunds(t) =>
               Advance(t, HandlerRelease(t, t[1]), HandlerRelease(t, t[2]), "FAILED", "SETTLEMENT_FAILED")
        BY DEF FailPendingTradeAndReleaseFunds, HandlerRelease
      <4>2. MarkSettlementFailure(t) =>
               Advance(t, WorkerRelease(t, t[1]), WorkerRelease(t, t[2]), "FAILED", "SETTLEMENT_FAILED")
        BY <3>1 DEF MarkSettlementFailure, WorkerRelease
      <4>. QED BY <2>7, <4>1, <4>2
    <3>3. /\ ledger.entries \subseteq ledger'.entries
          /\ ledger'.entries \subseteq ledger.entries \cup {e, f}
          /\ KeysApart(t[1]) => e \in ledger'.entries
          /\ KeysApart(t[2]) => f \in ledger'.entries
      BY <3>1, <3>2, AdvancePosts
    <3>4. tradeStatus'[t] = "FAILED"
      BY <3>2 DEF Advance, TypeOK
    <3>5. ASSUME NEW o \in {t[1], t[2]}, KeysApart(o), LegEntries(t, o)
          PROVE  LegEntries(t, o)'
      <4> DEFINE h == HandlerRelease(t, o)
                 w == WorkerRelease(t, o)
                 r == RetryReserve(t, o)
                 own == IF o = t[1] THEN e ELSE f
      <4>1. own \in {h, w} /\ own \in ledger'.entries
        <5>1. CASE o = t[1]
          BY <3>2, <3>3, <3>5, <5>1
        <5>2. CASE o # t[1]
          BY <3>2, <3>3, <3>5, <5>2
        <5>. QED BY <5>1, <5>2
      <4>2. h # w /\ r \notin {h, w}
        BY DEF HandlerRelease, WorkerRelease, RetryReserve, Leg, Entry
      <4>3. \A x \in {h, w, r} : x \in ledger'.entries => x \in ledger.entries \/ x = own
        <5>1. ASSUME NEW q \in {t[1], t[2]}, q # o, NEW x \in {h, w, r}
              PROVE  x \notin {HandlerRelease(t, q), WorkerRelease(t, q)}
          BY <3>1, <5>1 DEF HandlerRelease, WorkerRelease, RetryReserve, Leg, Entry
        <5>2. \A x \in {h, w, r} : x = e \/ x = f => x = own
          BY <3>1, <3>2, <5>1
        <5>. QED BY <3>3, <5>2
      <4> HIDE DEF own, h, w, r
      <4>4. r \in ledger'.entries <=> r \in ledger.entries
        BY <3>3, <4>1, <4>2, <4>3
      <4>5. /\ r \in ledger.entries => h \in ledger'.entries \/ w \in ledger'.entries
            /\ r \notin ledger.entries => (h \in ledger'.entries <=> w \notin ledger'.entries)
        <5>1. r \notin ledger.entries => h \notin ledger.entries /\ w \notin ledger.entries
          BY <3>1, <3>5 DEF LegEntries, Rearmed, h, w, r
        <5>. QED BY <4>1, <4>2, <4>3, <5>1
      <4>. QED BY <3>4, <4>4, <4>5, Constant DEF LegEntries, Rearmed, h, w, r
    <3>. QED BY <3>1, <3>2, <3>3, <3>5, AdvanceFrame
  <2>8. ASSUME NEW t \in Trades, PrepareTradeForRetry(t)
        PROVE  EntriesTellStatus'
    <3>1. tradeStatus[t] = "FAILED" /\ t[1] # t[2]
      BY <2>8 DEF PrepareTradeForRetry, Lockstep, Complementary
    <3> DEFINE e == RetryReserve(t, t[1])
               f == RetryReserve(t, t[2])
    <3>2. Advance(t, e, f, "PENDING_SETTLEMENT", "MATCH_PENDING")
      BY <2>8 DEF PrepareTradeForRetry
    <3>3. /\ ledger.entries \subseteq ledger'.entries
          /\ ledger'.entries \subseteq ledger.entries \cup {e, f}
          /\ KeysApart(t[1]) => e \in ledger'.entries
          /\ KeysApart(t[2]) => f \in ledger'.entries
      BY <3>1, <3>2, AdvancePosts
    <3>4. tradeStatus'[t] = "PENDING_SETTLEMENT"
      BY <3>2 DEF Advance, TypeOK
    <3>5. ASSUME NEW o \in {t[1], t[2]}, KeysApart(o), LegEntries(t, o)
          PROVE  LegEntries(t, o)'
      <4>1. RetryReserve(t, o) \in ledger'.entries
        BY <3>3, <3>5
      <4>2. HandlerRelease(t, o) \in ledger.entries \/ WorkerRelease(t, o) \in ledger.entries
        BY <3>1, <3>5 DEF LegEntries
      <4>. QED BY <3>3, <3>4, <4>1, <4>2, Constant DEF LegEntries, Rearmed
    <3>6. \A x \in ledger'.entries \ ledger.entries :
             \E o \in {t[1], t[2]} : x = RetryReserve(t, o)
      BY <3>3
    <3> HIDE DEF e, f
    <3>. QED BY <3>1, <3>2, <3>3, <3>5, <3>6, AdvanceFrame
  <2>9. ASSUME NEW m \in Markets,
               \/ CreateMarket(m) \/ ClosingTimePasses(m) \/ CloseMarket(m)
               \/ ResolveRead(m) \/ ResolveRollBack(m)
               \/ \E side \in Sides : ResolveCheck(m, side)
        PROVE  EntriesTellStatus'
    BY <2>2, <2>9 DEF CreateMarket, ClosingTimePasses, CloseMarket, ResolveRead, ResolveRollBack,
                      ResolveCheck, tradeVars
  <2>10. CASE CloseExpiredMarkets
    BY <2>2, <2>10 DEF CloseExpiredMarkets, tradeVars
  <2>11. ASSUME NEW t \in Trades, EnqueueEnds(t)
         PROVE  EntriesTellStatus'
    BY <2>2, <2>11 DEF EnqueueEnds
  <2>12. CASE UNCHANGED vars
    BY <2>2, <2>12 DEF vars, tradeVars
  <2>. QED BY <2>1, <2>3, <2>4, <2>5, <2>6, <2>7, <2>8, <2>9, <2>10, <2>11, <2>12
           DEF Next, WalletNext, MarketNext, OrderNext, SettlementNext
<1>. QED BY <1>1, <1>2, TypeCorrect, OrdersFollowTrades, KeysTell, PTL DEF Spec

-----------------------------------------------------------------------------
\* The reservations of an order are its own and those that armed it again.
LEMMA ReservationIs ==
    ASSUME KeysTellEntries, NEW o \in Orders, Told(o), KeysApart(o),
           NEW e \in EntriesOf(o, {"RESERVE"})
    PROVE  \/ e = ReserveFor(o)
           \/ \E t \in Traded(o) : e = RetryReserve(t, o) /\ Rearmed(t, o)
<1>1. Known(e) /\ e \in ledger.entries /\ e.type = "RESERVE" /\ e.ref = o
  BY DEF KeysTellEntries, EntriesOf
<1>2. ~IsClient(e) /\ ~IsRelease(e) /\ ~IsPayout(e) /\ ~IsDebit(e)
  BY <1>1 DEF IsClient, Manual, IsRelease, HandlerRelease, WorkerRelease, IsPayout, Payout,
              IsDebit, YesDebit, NoDebit, Leg, Entry
<1>3. CASE IsHold(e)
  BY <1>1, <1>3 DEF IsHold, ReserveFor, CancelRelease, Entry
<1>4. CASE IsRetry(e)
  <2>1. PICK t \in Trades, x \in Orders : x \in {t[1], t[2]} /\ e = RetryReserve(t, x)
    BY <1>4 DEF IsRetry, Trades
  <2>2. x = o /\ Rearmed(t, o)
    BY <1>1, <2>1 DEF RetryReserve, Leg, Entry, Rearmed
  <2>3. tradeStatus[t] # "NONE"
    BY <2>1, <2>2 DEF Told, LegEntries
  <2>. QED BY <2>1, <2>2, <2>3 DEF Traded
<1>. QED BY <1>1, <1>2, <1>3, <1>4 DEF Known, Plain

\* The releases of an order are those of its cancellation and of its trade's failures.
LEMMA ReleaseIs ==
    ASSUME KeysTellEntries, NEW o \in Orders, Told(o), KeysApart(o),
           NEW e \in EntriesOf(o, {"RELEASE"})
    PROVE  \/ e = CancelRelease(o) /\ orderStatus[o] = "CANCELLED"
           \/ \E t \in Traded(o) : /\ e \in {HandlerRelease(t, o), WorkerRelease(t, o)}
                                   /\ Rearmed(t, o) \/ tradeStatus[t] = "FAILED"
<1>1. Known(e) /\ e \in ledger.entries /\ e.type = "RELEASE" /\ e.ref = o
  BY DEF KeysTellEntries, EntriesOf
<1>2. ~IsClient(e) /\ ~IsRetry(e) /\ ~IsPayout(e) /\ ~IsDebit(e)
  BY <1>1 DEF IsClient, Manual, IsRetry, RetryReserve, IsPayout, Payout, IsDebit,
              YesDebit, NoDebit, Leg, Entry
<1>3. CASE IsHold(e)
  <2>1. e = CancelRelease(o)
    BY <1>1, <1>3 DEF IsHold, ReserveFor, CancelRelease, Entry
  <2>. QED BY <1>1, <2>1 DEF Told, OrderEntries
<1>4. CASE IsRelease(e)
  <2>1. PICK t \in Trades, x \in Orders :
          x \in {t[1], t[2]} /\ e \in {HandlerRelease(t, x), WorkerRelease(t, x)}
    BY <1>4 DEF IsRelease, Trades
  <2>2. x = o
    BY <1>1, <2>1 DEF HandlerRelease, WorkerRelease, Leg, Entry
  <2>3. LegEntries(t, o)
    BY <2>1, <2>2 DEF Told
  <2>4. Rearmed(t, o) \/ tradeStatus[t] = "FAILED"
    BY <1>1, <2>1, <2>2, <2>3 DEF LegEntries
  <2>5. tradeStatus[t] # "NONE"
    BY <2>3, <2>4 DEF LegEntries
  <2>. QED BY <2>1, <2>2, <2>4, <2>5 DEF Traded
<1>. QED BY <1>1, <1>2, <1>3, <1>4 DEF Known, Plain

\* A debit of an order is that of its settled trade.
LEMMA DebitIs ==
    ASSUME SettledIsDebited, NEW o \in Orders, NEW e \in DebitsOf(o)
    PROVE  \E t \in Traded(o) : tradeStatus[t] = "SETTLED" /\ e = OwnDebit(t, o)
<1>1. PICK t \in Traded(o) : e \in ledger.entries /\ e = OwnDebit(t, o)
  BY DEF DebitsOf, OwnDebit
<1>. QED BY <1>1 DEF SettledIsDebited, OwnDebit, Traded

\* What is gone of the collateral of an order.
Gone(o) == EntriesOf(o, {"RELEASE"}) \cup DebitsOf(o)

\* Entries that are alone in taking an order's collateral away.
LEMMA OnlyGone ==
    ASSUME NEW o, NEW x, x \in ledger.entries, x.ref = o, x.type = "RELEASE",
           \A e \in EntriesOf(o, {"RELEASE"}) : e = x, DebitsOf(o) = {}
    PROVE  Gone(o) = {x}
  BY DEF Gone, EntriesOf

\* An order that was not armed again has exactly one entry that takes its collateral
\* away once it needs none, and none as long as it does.
LEMMA GoneOnce ==
    ASSUME TypeOK, Lockstep, SettledIsDebited, KeysTellEntries, NEW o \in Orders, Told(o),
           KeysApart(o), \A t \in Traded(o) : ~Rearmed(t, o)
    PROVE  IF orderStatus[o] \in {"NONE", "OPEN", "MATCH_PENDING"} THEN Gone(o) = {}
           ELSE \E e : Gone(o) = {e} /\ e.amount = Reserved(o)
<1>1. ASSUME NEW e \in EntriesOf(o, {"RELEASE"})
      PROVE  \/ e = CancelRelease(o) /\ orderStatus[o] = "CANCELLED"
             \/ \E t \in Traded(o) : /\ e \in {HandlerRelease(t, o), WorkerRelease(t, o)}
                                     /\ tradeStatus[t] = "FAILED"
  BY ReleaseIs
<1>2. ASSUME NEW e \in DebitsOf(o)
      PROVE  \E t \in Traded(o) : tradeStatus[t] = "SETTLED" /\ e = OwnDebit(t, o)
  BY DebitIs
<1>3. orderStatus[o] \in OrderStatuses
  BY DEF TypeOK
<1>4. CASE orderStatus[o] \in {"NONE", "OPEN"}
  <2>1. Traded(o) = {}
    BY <1>4 DEF Lockstep
  <2>. QED BY <1>1, <1>2, <1>4, <2>1 DEF Gone
<1>5. CASE orderStatus[o] = "CANCELLED"
  <2>1. Traded(o) = {}
    BY <1>5 DEF Lockstep
  <2>2. CancelRelease(o) \in ledger.entries
    BY <1>5 DEF Told, OrderEntries
  <2>3. /\ CancelRelease(o).ref = o /\ CancelRelease(o).type = "RELEASE"
        /\ CancelRelease(o).amount = Reserved(o)
    BY DEF CancelRelease, Entry
  <2>4. Gone(o) = {CancelRelease(o)}
    BY <1>1, <1>2, <2>1, <2>2, <2>3, OnlyGone
  <2>. QED BY <1>5, <2>3, <2>4
<1>6. CASE orderStatus[o] \in {"MATCH_PENDING", "MATCHED", "SETTLEMENT_FAILED"}
  <2>1. PICK t \in Trades : Traded(o) = {t}
    <3>1. Traded(o) # {} /\ \A s, t \in Traded(o) : s = t
      BY <1>6 DEF Lockstep
    <3>. QED BY <3>1 DEF Traded
  <2>2. o \in {t[1], t[2]} /\ orderStatus[o] = OrdersOf(tradeStatus[t])
    <3>1. tradeStatus[t] # "NONE" /\ o \in {t[1], t[2]}
      BY <2>1 DEF Traded
    <3>. QED BY <3>1 DEF Lockstep
  <2>3. tradeStatus[t] \in {"PENDING_SETTLEMENT", "SETTLED", "FAILED"}
    BY <2>1 DEF TypeOK, TradeStatuses, Traded
  <2>4. CASE tradeStatus[t] = "PENDING_SETTLEMENT"
    <3>1. orderStatus[o] = "MATCH_PENDING"
      BY <2>2, <2>4 DEF OrdersOf
    <3>. QED BY <1>1, <1>2, <2>1, <2>4, <3>1 DEF Gone
  <2>5. CASE tradeStatus[t] = "SETTLED"
    <3> DEFINE x == OwnDebit(t, o)
    <3>1. orderStatus[o] = "MATCHED"
      BY <2>2, <2>5 DEF OrdersOf
    <3>2. x \in ledger.entries
      <4>1. x \in {YesDebit(t), NoDebit(t)}
        BY DEF OwnDebit
      <4>2. x \in ledger.entries \/ KeyTaken(x)
        BY <2>5, <4>1 DEF SettledIsDebited
      <4>. QED BY <2>2, <4>2, ApartIsDebited
    <3>3. x \in DebitsOf(o)
      BY <2>1, <3>2 DEF DebitsOf, OwnDebit
    <3>4. x.amount = Reserved(o)
      BY <2>2 DEF OwnDebit, YesDebit, NoDebit, Leg, Entry
    <3>5. Gone(o) = {x}
      <4>1. \A e \in DebitsOf(o) : e = x
        BY <1>2, <2>1
      <4>2. EntriesOf(o, {"RELEASE"}) = {}
        BY <1>1, <2>1, <2>5, <3>1
      <4> HIDE DEF x
      <4>. QED BY <3>3, <4>1, <4>2 DEF Gone
    <3>. QED BY <3>1, <3>4, <3>5
  <2>6. CASE tradeStatus[t] = "FAILED"
    <3>1. orderStatus[o] = "SETTLEMENT_FAILED"
      BY <2>2, <2>6 DEF OrdersOf
    <3> DEFINE h == HandlerRelease(t, o)
               w == WorkerRelease(t, o)
    <3>2. h \in ledger.entries <=> w \notin ledger.entries
      BY <2>1, <2>2, <2>6 DEF Told, LegEntries
    <3>3. PICK x \in {h, w} : x \in ledger.entries
      BY <3>2
    <3>4. x.ref = o /\ x.type = "RELEASE" /\ x.amount = Reserved(o)
      BY DEF HandlerRelease, WorkerRelease, Leg, Entry
    <3>5. \A e \in EntriesOf(o, {"RELEASE"}) : e = x
      <4>1. \A e \in EntriesOf(o, {"RELEASE"}) : e \in ledger.entries /\ e \in {h, w}
        BY <1>1, <2>1, <3>1 DEF EntriesOf
      <4>. QED BY <3>2, <3>3, <4>1
    <3>6. DebitsOf(o) = {}
      BY <1>2, <2>1, <2>6
    <3>. QED BY <3>1, <3>3, <3>4, <3>5, <3>6, OnlyGone
  <2>. QED BY <2>3, <2>4, <2>5, <2>6
<1>. QED BY <1>3, <1>4, <1>5, <1>6 DEF OrderStatuses

\* The collateral of every order that was not retried, and whose keys were kept apart, is
\* held exactly as long as the order is open or its trade pending.
LEMMA UnretriedStaysExact == Spec => []UnretriedIsExact
<1>1. TypeOK /\ Lockstep /\ SettledIsDebited /\ KeysTellEntries /\ EntriesTellStatus
        => UnretriedIsExact
  <2> SUFFICES ASSUME TypeOK, Lockstep, SettledIsDebited, KeysTellEntries, EntriesTellStatus,
                      NEW o \in Orders, KeysApart(o), \A t \in Traded(o) : ~Rearmed(t, o)
               PROVE  Held(o) = Needed(o)
    BY DEF UnretriedIsExact
  <2>1. Told(o)
    BY DEF EntriesTellStatus
  <2>2. Reserved(o) \in Int
    BY TradingAssumption DEF Reserved, OrderInfo
  <2>3. Cents({}) = 0
    BY CentsEmpty
  <2>4. ReserveFor(o).ref = o /\ ReserveFor(o).type = "RESERVE" /\ ReserveFor(o).amount = Reserved(o)
    BY DEF ReserveFor, Entry
  <2>5. EntriesOf(o, {"RESERVE"}) = IF orderStatus[o] = "NONE" THEN {} ELSE {ReserveFor(o)}
    <3>1. \A e \in EntriesOf(o, {"RESERVE"}) : e = ReserveFor(o)
      BY <2>1, ReservationIs
    <3>2. ReserveFor(o) \in EntriesOf(o, {"RESERVE"}) <=> orderStatus[o] # "NONE"
      BY <2>1, <2>4 DEF Told, OrderEntries, EntriesOf
    <3>. QED BY <3>1, <3>2
  <2>6. Cents(EntriesOf(o, {"RESERVE"})) = IF orderStatus[o] = "NONE" THEN 0 ELSE Reserved(o)
    BY <2>2, <2>3, <2>4, <2>5, CentsOfOne
  <2>7. Cents(Gone(o)) = IF orderStatus[o] \in {"NONE", "OPEN", "MATCH_PENDING"} THEN 0
                         ELSE Reserved(o)
    BY <2>1, <2>2, <2>3, GoneOnce, CentsOfOne
  <2>8. Held(o) = Cents(EntriesOf(o, {"RESERVE"})) - Cents(Gone(o))
    BY DEF Held, Gone
  <2>. QED BY <2>2, <2>6, <2>7, <2>8 DEF Needed
<1>. QED BY <1>1, TypeCorrect, OrdersFollowTrades, DebitsFollowSettlement, KeysTell, EntriesTell, PTL

\* An order whose trade was armed again and waits to be settled: its collateral was
\* reserved twice and, unless both handlers have failed the trade, released once.
LEMMA CoveredAgain ==
    ASSUME TypeOK, Lockstep, SettledIsDebited, KeysTellEntries, NEW t \in Trades,
           tradeStatus[t] = "PENDING_SETTLEMENT", NEW o \in {t[1], t[2]}, Told(o),
           KeysApart(o), Rearmed(t, o),
           ~({HandlerRelease(t, o), WorkerRelease(t, o)} \subseteq ledger.entries)
    PROVE  /\ EntriesOf(o, {"RESERVE"}) = {ReserveFor(o), RetryReserve(t, o)}
           /\ ReserveFor(o) # RetryReserve(t, o)
           /\ \E x : Gone(o) = {x} /\ x.amount = Reserved(o)
<1>1. o \in Orders /\ orderStatus[o] = "MATCH_PENDING" /\ Traded(o) = {t}
  BY DEF Trades, Lockstep, OrdersOf, Traded
<1>2. ReserveFor(o) # RetryReserve(t, o)
  <2>1. ReserveFor(o).key # RetryReserve(t, o).key
    BY DEF ReserveFor, RetryReserve, Leg, Entry
  <2>. QED BY <2>1
<1>3. EntriesOf(o, {"RESERVE"}) = {ReserveFor(o), RetryReserve(t, o)}
  <2>1. ReserveFor(o) \in EntriesOf(o, {"RESERVE"})
    <3>1. ReserveFor(o) \in ledger.entries
      BY <1>1 DEF Told, OrderEntries
    <3>2. ReserveFor(o).ref = o /\ ReserveFor(o).type = "RESERVE"
      BY DEF ReserveFor, Entry
    <3>. QED BY <3>1, <3>2 DEF EntriesOf
  <2>2. RetryReserve(t, o) \in EntriesOf(o, {"RESERVE"})
    <3>1. RetryReserve(t, o).ref = o /\ RetryReserve(t, o).type = "RESERVE"
      BY DEF RetryReserve, Leg, Entry
    <3>. QED BY <3>1 DEF EntriesOf, Rearmed
  <2>3. \A e \in EntriesOf(o, {"RESERVE"}) : e = ReserveFor(o) \/ e = RetryReserve(t, o)
    BY <1>1, ReservationIs
  <2>. QED BY <2>1, <2>2, <2>3
<1> DEFINE h == HandlerRelease(t, o)
           w == WorkerRelease(t, o)
<1>4. PICK x \in {h, w} : x \in ledger.entries /\ \A y \in {h, w} : y \in ledger.entries => y = x
  BY DEF Told, LegEntries
<1>5. x.ref = o /\ x.type = "RELEASE" /\ x.amount = Reserved(o)
  BY DEF HandlerRelease, WorkerRelease, Leg, Entry
<1>6. \A e \in EntriesOf(o, {"RELEASE"}) : e = x
  <2>1. \A e \in EntriesOf(o, {"RELEASE"}) : e \in ledger.entries /\ e \in {h, w}
    BY <1>1, ReleaseIs DEF EntriesOf
  <2>. QED BY <1>4, <2>1
<1>7. DebitsOf(o) = {}
  BY <1>1, DebitIs
<1>8. Gone(o) = {x}
  BY <1>4, <1>5, <1>6, <1>7, OnlyGone
<1>. QED BY <1>2, <1>3, <1>5, <1>8

\* However often a trade failed and was retried, while it waits to be settled both of
\* its orders have their collateral behind them, unless the rollback of its enqueue and
\* the worker have both failed it (prepareTradeForRetry, markSettlementFailure,
\* failPendingTradeAndReleaseFunds).
LEMMA PendingStaysCovered == Spec => []PendingIsCovered
<1>1. TypeOK /\ Lockstep /\ SettledIsDebited /\ KeysTellEntries /\ EntriesTellStatus
        /\ UnretriedIsExact => PendingIsCovered
  <2> SUFFICES ASSUME TypeOK, Lockstep, SettledIsDebited, KeysTellEntries, EntriesTellStatus,
                      UnretriedIsExact, NEW t \in Trades,
                      tradeStatus[t] = "PENDING_SETTLEMENT", NEW o \in {t[1], t[2]},
                      KeysApart(o),
                      ~({HandlerRelease(t, o), WorkerRelease(t, o)} \subseteq ledger.entries)
               PROVE  Held(o) = Reserved(o)
    BY DEF PendingIsCovered
  <2>1. o \in Orders /\ orderStatus[o] = "MATCH_PENDING" /\ Traded(o) = {t}
    BY DEF Trades, Lockstep, OrdersOf, Traded
  <2>2. CASE ~Rearmed(t, o)
    BY <2>1, <2>2 DEF UnretriedIsExact, Needed
  <2>3. CASE Rearmed(t, o)
    <3>1. Told(o)
      BY <2>1 DEF EntriesTellStatus
    <3>2. PICK x : Gone(o) = {x} /\ x.amount = Reserved(o)
      BY <2>3, <3>1, CoveredAgain
    <3>3. Reserved(o) \in Int
      BY <2>1, TradingAssumption DEF Reserved, OrderInfo
    <3>4. Cents(Gone(o)) = Reserved(o)
      BY <3>2, <3>3, CentsOfOne
    <3>5. Cents(EntriesOf(o, {"RESERVE"})) = Reserved(o) + Reserved(o)
      <4> DEFINE e == ReserveFor(o)
                 f == RetryReserve(t, o)
      <4>1. e.amount = Reserved(o) /\ f.amount = Reserved(o)
        BY DEF ReserveFor, RetryReserve, Leg, Entry
      <4>2. EntriesOf(o, {"RESERVE"}) = {e} \cup {f} /\ f \notin {e}
        BY <2>3, <3>1, CoveredAgain
      <4> HIDE DEF e, f
      <4>3. Cents({e}) = Reserved(o)
        BY <3>3, <4>1, CentsOfOne
      <4>4. IsFiniteSet({e}) /\ \A z \in {e} \cup {f} : z.amount \in Int
        BY <3>3, <4>1, FS_Singleton
      <4>5. Cents({e} \cup {f}) = Cents({e}) + f.amount
        BY <4>2, <4>4, CentsAdd
      <4>. QED BY <4>1, <4>2, <4>3, <4>5
    <3>6. Held(o) = Cents(EntriesOf(o, {"RESERVE"})) - Cents(Gone(o))
      BY DEF Held, Gone
    <3>. QED BY <3>3, <3>4, <3>5, <3>6
  <2>. QED BY <2>2, <2>3
<1>. QED BY <1>1, TypeCorrect, OrdersFollowTrades, DebitsFollowSettlement, KeysTell, EntriesTell,
            UnretriedStaysExact, PTL

\* Both together: what stands behind an order is what its status calls for, as long as
\* its user kept its keys out of his deposits and withdrawals, but for a failure after a
\* retry and a trade that both handlers have failed.
THEOREM CollateralStaysExact == Spec => []CollateralIsExact
  BY UnretriedStaysExact, PendingStaysCovered, PTL DEF CollateralIsExact

\* Retries are counted and never uncounted.
LEMMA RetriesOnlyGrow ==
    ASSUME TypeOK, [Next]_vars
    PROVE  retries' = 0 => retries = 0
<1>1. CASE WalletNext
  BY <1>1 DEF WalletNext, Deposit, Withdraw, tradeVars
<1>2. CASE MarketNext
  BY <1>2 DEF MarketNext, CloseExpiredMarkets, CreateMarket, ClosingTimePasses,
              CloseMarket, ResolveCheck, ResolveRead, ResolveCommit, ResolveRollBack, tradeVars
<1>3. CASE OrderNext
  BY <1>3 DEF OrderNext, PlaceOrder, CancelOrder, Match
<1>4. ASSUME NEW t \in Trades, \/ FailPendingTradeAndReleaseFunds(t)
                               \/ HandleSettlement(t) \/ MarkSettlementFailure(t)
                               \/ EnqueueEnds(t)
      PROVE  retries' = retries
  BY <1>4 DEF FailPendingTradeAndReleaseFunds, HandleSettlement, MarkSettlementFailure,
              EnqueueEnds
<1>5. ASSUME NEW t \in Trades, PrepareTradeForRetry(t)
      PROVE  retries' # 0
  BY <1>5 DEF PrepareTradeForRetry, TypeOK
<1>6. CASE UNCHANGED vars
  BY <1>6 DEF vars, tradeVars
<1>. QED BY <1>1, <1>2, <1>3, <1>4, <1>5, <1>6 DEF Next, SettlementNext

\* There is no entry of a retry before the first retry.
RetriesAreCounted == retries = 0 => \A e \in ledger.entries : ~IsRetry(e)

\* Only prepareTradeForRetry posts such an entry.
LEMMA CountedRetries == Spec => []RetriesAreCounted
<1>1. Init => RetriesAreCounted
  BY DEF Init, RetriesAreCounted
<1>2. TypeOK /\ Lockstep /\ RetriesAreCounted /\ [Next]_vars => RetriesAreCounted'
  <2> SUFFICES ASSUME TypeOK, Lockstep, RetriesAreCounted, [Next]_vars, retries' = 0,
                      NEW e \in ledger'.entries, IsRetry(e)
               PROVE  FALSE
    BY DEF RetriesAreCounted, IsRetry, RetryReserve, Leg, Entry, Reserved
  <2>1. e \notin ledger.entries
    BY RetriesOnlyGrow DEF RetriesAreCounted
  <2>2. e.type = "RESERVE" /\ e.key[1] = "retry-reserve"
    BY DEF IsRetry, RetryReserve, Leg, Entry
  <2>3. ASSUME NEW t \in Trades, HandleSettlement(t)
        PROVE  FALSE
    BY <2>1, <2>3, SettlementEntries, DebitsApart
  <2>4. ASSUME NEW m \in Markets, ResolveCommit(m)
        PROVE  FALSE
    BY <2>1, <2>2, <2>4, ResolutionEntries DEF Payout, Entry
  <2>5. ~Plain(e)
    BY <2>2, PlainIs DEF PlainTags, IsClient, Manual
  <2>6. ~OtherStep
    BY <2>1, <2>5 DEF OtherStep, Unrelated
  <2>. QED BY <2>3, <2>4, <2>6, StepKinds
<1>. QED BY <1>1, <1>2, TypeCorrect, OrdersFollowTrades, PTL DEF Spec

\* What the tests and the decisions say of a failed settlement, that it releases what
\* it had reserved, holds for every order until the first retry, as long as the users
\* keep the services' keys for their orders out of their deposits and withdrawals: it is
\* the keys of a second failure, or one that was used up, that break it
\* (markSettlementFailure, prepareTradeForRetry, WalletService.deposit).
THEOREM FailuresReleaseUntilRetried ==
    Spec => []((retries = 0 /\ \A o \in Orders : KeysApart(o)) => FailureReleases)
<1>1. RetriesAreCounted /\ CollateralIsExact
        => ((retries = 0 /\ \A o \in Orders : KeysApart(o)) => FailureReleases)
  <2> SUFFICES ASSUME RetriesAreCounted, CollateralIsExact, retries = 0,
                      NEW o \in Orders, KeysApart(o), orderStatus[o] = "SETTLEMENT_FAILED"
               PROVE  Held(o) = 0
    BY DEF FailureReleases
  <2>1. \A t \in Traded(o) : ~Rearmed(t, o)
    BY DEF RetriesAreCounted, Rearmed, IsRetry, Traded
  <2>. QED BY <2>1 DEF CollateralIsExact, UnretriedIsExact, Needed
<1>. QED BY <1>1, CountedRetries, CollateralStaysExact, PTL
=============================================================================
