----------------------------- MODULE MC_Trading -----------------------------
(* One market and one price: both YES orders of alice fit bob's NO order and  *)
(* her own, so that orders compete for counterparties, she may trade with     *)
(* herself, and a resolution may pay her wallet twice.                        *)
EXTENDS Trading, TLC

CONSTANTS alice, bob, market, y1, n1, y2, n2, k1

Ask(user, side, price, quantity) ==
    [user |-> user, market |-> market, side |-> side,
     price |-> price, quantity |-> quantity]

MCInfo ==
    [o \in Orders |->
        CASE o \in {y1, y2} -> Ask(alice, "YES", 40, 2)
          [] o = n1 -> Ask(bob, "NO", 60, 2)
          [] o = n2 -> Ask(alice, "NO", 60, 2)]

\* alice's deposit carries the key of one debit of hers, bob's the key of a credit he
\* may get or that of the reservation for his order; y2 and n2 are not concerned.
MCClientKeys ==
    (alice :> {<<"yes-debit", <<y1, n1>>>>})
    @@ (bob :> {<<"credit", <<<<y1, n1>>, "NO">>>>, <<"order-reserve", n1>>})

\* A key that is nobody else's.
OwnKeys == [u \in Users |-> {k1}]
=============================================================================
