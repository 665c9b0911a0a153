---------------------------- MODULE OrderLifecycle ----------------------------
(***************************************************************************)
(* What users may rely on about their orders: an order is open once it is  *)
(* placed, and is then cancelled or matched, for good, and together with   *)
(* one that fits it; a step places, cancels or matches, never two of them. *)
(* OrderBook, where the handlers race, and Trading both implement it.      *)
(***************************************************************************)
CONSTANTS
    Orders,
    Suits(_, _)     \* two orders may be matched

VARIABLES
    order,          \* "NONE", "OPEN", "CANCELLED" or "MATCHED"
    matches         \* the pairs of orders that were matched

Init == order = [o \in Orders |-> "NONE"] /\ matches = {}

Place(o) ==
    /\ order[o] = "NONE"
    /\ order' = [order EXCEPT ![o] = "OPEN"]
    /\ UNCHANGED matches

Cancel(o) ==
    /\ order[o] = "OPEN"
    /\ order' = [order EXCEPT ![o] = "CANCELLED"]
    /\ UNCHANGED matches

Match(o, c) ==
    /\ Suits(o, c)
    /\ order[o] = "OPEN" /\ order[c] = "OPEN"
    /\ order' = [x \in Orders |-> IF x \in {o, c} THEN "MATCHED" ELSE order[x]]
    /\ matches' = matches \cup {{o, c}}

Next == \E o \in Orders : Place(o) \/ Cancel(o) \/ \E c \in Orders : Match(o, c)

Spec == Init /\ [][Next]_<<order, matches>>
=============================================================================
