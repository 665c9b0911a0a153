---------------------------- MODULE MC_OrderBook ----------------------------
(* One market, one price and one quantity: the YES order y1 fits both NO      *)
(* orders.  y1 may be placed by two requests with the same key.               *)
EXTENDS OrderBook

CONSTANTS y1, n1, n2, place_y1, again_y1, place_n1, place_n2

Complementary(o, c) == (o = y1) # (c = y1)

MCOrderOf ==
    [r \in Requests |->
        CASE r \in {place_y1, again_y1} -> y1
          [] r = place_n1 -> n1
          [] r = place_n2 -> n2]
=============================================================================
