-------------------------- MODULE MC_WalletService --------------------------
(* Two wallets: one deposit each, alice's sent twice with one key, a       *)
(* withdrawal that competes for it, a request whose key is too short, and    *)
(* two transactions of several mutations: a resolution that pays alice, bob and  *)
(* alice again, and the retry of a settlement between bob and alice.         *)
EXTENDS WalletService

CONSTANTS alice, bob, deposit, again, withdraw, resolve, retry, short, fund,
          k1, k2, k3, k4, k5, k6, k7, k8, k9

MCAsks ==
    [r \in {deposit, again, withdraw, resolve, retry, short, fund} |->
        CASE r \in {deposit, again} -> <<Entry(alice, "DEPOSIT", 4, k1, k1)>>
          [] r = withdraw -> <<Entry(alice, "WITHDRAW", 3, k2, k2)>>
          [] r = resolve  -> <<Entry(alice, "SETTLE_CREDIT", 1, k3, k3),
                               Entry(bob, "SETTLE_CREDIT", 2, k4, k4),
                               Entry(alice, "SETTLE_CREDIT", 3, k5, k5)>>
          [] r = retry    -> <<Entry(bob, "RESERVE", 2, k6, k6),
                               Entry(alice, "RESERVE", 2, k7, k7)>>
          [] r = short    -> <<Entry(bob, "DEPOSIT", 1, k8, k8)>>
          [] r = fund     -> <<Entry(bob, "DEPOSIT", 2, k9, k9)>>]
=============================================================================
