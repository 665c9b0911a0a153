--------------------------- MODULE TradeLifecycle ---------------------------
(***************************************************************************)
(* What the rest of the system may rely on about a trade: it is created    *)
(* pending, ends settled or failed, only a failed trade comes back (by a   *)
(* retry), a settled one never does, and no step moves two trades.         *)
(* Trading and Settlement both implement it.                               *)
(***************************************************************************)
CONSTANT Trades

VARIABLE trade

Moves == {<<"NONE", "PENDING_SETTLEMENT">>,
          <<"PENDING_SETTLEMENT", "SETTLED">>,
          <<"PENDING_SETTLEMENT", "FAILED">>,
          <<"FAILED", "PENDING_SETTLEMENT">>}

Init == trade = [t \in Trades |-> "NONE"]

Next == \E t \in Trades, move \in Moves :
            /\ trade[t] = move[1]
            /\ trade' = [trade EXCEPT ![t] = move[2]]

Spec == Init /\ [][Next]_trade
=============================================================================
