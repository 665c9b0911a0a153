------------------------------- MODULE Ledger -------------------------------
(***************************************************************************)
(* What one wallet mutation does to the ledger, as pure operators: the     *)
(* two balances of a wallet row, the append-only wallet_entries table and  *)
(* the rules WalletService applies under the lock of the wallet row.       *)
(* Source: src/src/modules/wallet.                                         *)
(*                                                                         *)
(* A ledger is a record: wallet maps each user who has a wallet to its     *)
(* balances, entries is the set of rows of wallet_entries.  A row keeps    *)
(* the fields the rules read: whose wallet, type, amount, idempotency key  *)
(* and the order or trade it refers to.                                    *)
(***************************************************************************)
EXTENDS Integers, FiniteSetsExt

CONSTANTS
    Users,      \* every user account
    IntMax      \* largest value of an INTEGER column (2^31 - 1 in PostgreSQL)

ASSUME IntMaxAssumption == IntMax \in Nat

EntryTypes == {"DEPOSIT", "WITHDRAW", "RESERVE", "RELEASE",
               "SETTLE_DEBIT", "SETTLE_CREDIT"}

Wallets == [available : 0 .. IntMax, reserved : 0 .. IntMax]

EmptyWallet == [available |-> 0, reserved |-> 0]

EmptyLedger == [wallet |-> <<>>, entries |-> {}]

Entry(user, type, amount, key, ref) ==
    [user |-> user, type |-> type, amount |-> amount, key |-> key, ref |-> ref]

\* Wrong on purpose: nothing checks the available balance.
FitsReservedOnly(w) == w.reserved \in 0 .. IntMax

\* The balances a row accepts: not negative (the check of each operation,
\* assertNonNegative and the CHECK constraints) and within INTEGER.
Fits(w) == w.available \in 0 .. IntMax /\ w.reserved \in 0 .. IntMax

\* The six apply callbacks.
Applied(w, type, amount) ==
    CASE type = "DEPOSIT" ->
            [available |-> w.available + amount, reserved |-> w.reserved]
      [] type = "WITHDRAW" ->
            [available |-> w.available - amount, reserved |-> w.reserved]
      [] type = "RESERVE" ->
            [available |-> w.available - amount, reserved |-> w.reserved + amount]
      [] type = "RELEASE" ->
            [available |-> w.available + amount, reserved |-> w.reserved - amount]
      [] type = "SETTLE_DEBIT" ->
            [available |-> w.available, reserved |-> w.reserved - amount]
      [] type = "SETTLE_CREDIT" ->
            [available |-> w.available + amount, reserved |-> w.reserved]

\* An entry of this wallet already carries the key.  Neither the type nor the
\* amount of the stored entry is compared.
Replayed(L, e) == \E x \in L.entries : x.user = e.user /\ x.key = e.key

\* The mutation returns normally; otherwise it throws and the surrounding
\* transaction rolls back.
Accepted(L, e) ==
    /\ e.amount \in Nat \ {0}
    /\ e.user \in DOMAIN L.wallet
    /\ Replayed(L, e) \/ Fits(Applied(L.wallet[e.user], e.type, e.amount))

\* Wrong on purpose: the key is looked up after the balances are changed.
PostedTwice(L, e) ==
    [wallet  |-> [L.wallet EXCEPT ![e.user] = Applied(@, e.type, e.amount)],
     entries |-> IF Replayed(L, e) THEN L.entries ELSE L.entries \cup {e}]

\* The ledger after an accepted mutation.
Posted(L, e) ==
    IF Replayed(L, e) THEN L
    ELSE [wallet  |-> [L.wallet EXCEPT ![e.user] = Applied(@, e.type, e.amount)],
          entries |-> L.entries \cup {e}]

\* Two mutations in the same transaction, the second on top of the first.
BothAccepted(L, e, f) == Accepted(L, e) /\ Accepted(Posted(L, e), f)

BothPosted(L, e, f) == Posted(Posted(L, e), f)

-----------------------------------------------------------------------------
(* What the balances of a ledger must be.                                  *)

\* The cents of a set of entries.
Cents(entries) == SumFunction([e \in entries |-> e.amount])

\* Those of a user's entries of some types.
Total(entries, user, types) == Cents({e \in entries : e.user = user /\ e.type \in types})

\* The balances the entries of a user's wallet add up to.
Balance(entries, user) ==
    [available |-> Total(entries, user, {"DEPOSIT", "RELEASE", "SETTLE_CREDIT"})
                   - Total(entries, user, {"WITHDRAW", "RESERVE"}),
     reserved  |-> Total(entries, user, {"RESERVE"})
                   - Total(entries, user, {"RELEASE", "SETTLE_DEBIT"})]

OneEntryPerKey(entries) ==
    \A e, f \in entries : e.user = f.user /\ e.key = f.key => e = f

Sound(L) ==
    /\ OneEntryPerKey(L.entries)
    /\ \A e \in L.entries : e.user \in DOMAIN L.wallet /\ e.amount \in Nat \ {0}
    /\ \A u \in DOMAIN L.wallet :
          L.wallet[u] = Balance(L.entries, u) /\ Fits(L.wallet[u])
=============================================================================
