--------------------------- MODULE LedgerContract ---------------------------
(***************************************************************************)
(* What the wallet promises its callers, whatever runs above it: balances  *)
(* are exactly what the entries add up to, entries are only ever added,    *)
(* never two with the same key in one wallet, and no balance is negative   *)
(* or beyond its column.  WalletService and Trading implement it.          *)
(***************************************************************************)
EXTENDS Ledger

VARIABLE ledger

Init == ledger.entries = {} /\ Sound(ledger)

Grow ==
    /\ DOMAIN ledger.wallet \subseteq DOMAIN ledger'.wallet
    /\ DOMAIN ledger'.wallet \subseteq Users
    /\ ledger.entries \subseteq ledger'.entries
    /\ Sound(ledger')

Spec == Init /\ [][Grow]_ledger
=============================================================================
