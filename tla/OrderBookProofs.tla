--------------------------- MODULE OrderBookProofs ---------------------------
(***************************************************************************)
(* Theorems about OrderBook, for any orders, requests and troubles: the    *)
(* row locks let no order be matched twice, nothing hides an open order    *)
(* but a trouble, and SKIP LOCKED is the only way that orders which fit    *)
(* can come to rest beside each other.                                     *)
(***************************************************************************)
EXTENDS OrderBook, TLAPS

USE OrderBookAssumption

Matching == {"find", "none", "commit"}

\* Who arrived was placed.
ArrivedIsPlaced == \A i \in 1 .. Len(arrival) : status[arrival[i]] # "NONE"

\* A matching transaction holds its own row and, once found, its partner's, and
\* both are still as it read them.
LocksHeld ==
    \A r \in Requests :
        /\ pc[r] \in Matching =>
              rowLock[OrderOf[r]] = r /\ status[OrderOf[r]] = "OPEN"
        /\ pc[r] = "commit" =>
              /\ partner[r] \in Orders /\ Fits(OrderOf[r], partner[r])
              /\ rowLock[partner[r]] = r /\ status[partner[r]] = "OPEN"

\* What a handler goes by when it projects or removes is still so, or final.
HandlersSound ==
    /\ \A r \in Requests :
          /\ pc[r] \notin {"new", "insert", "refused", "over"} => status[OrderOf[r]] # "NONE"
          /\ pc[r] = "over" => status[OrderOf[r]] # "NONE" \/ troubles > 0
          /\ pc[r] = "project" => seen[r] = status[OrderOf[r]] \/ status[OrderOf[r]] # "OPEN"
          /\ pc[r] = "remove" => status[OrderOf[r]] = "MATCH_PENDING"
          /\ removing[r] # {} => pc[r] = "remove"
          /\ \A o \in removing[r] : status[o] = "MATCH_PENDING"
    /\ \A o \in cancelling : status[o] = "CANCELLED"

\* An order's attempt to match has found nobody.
Tried(o) == \E r \in Requests : OrderOf[r] = o /\ pc[r] \in {"none", "over"}

\* Of two open orders that fit and were both tried, one passed over the other.
TriedIsSkipped ==
    troubles = 0 =>
        \A o, c \in Orders :
            /\ Fits(o, c) /\ status[o] = "OPEN" /\ status[c] = "OPEN"
            /\ Tried(o) /\ Tried(c)
            => c \in skipped[o] \/ o \in skipped[c]

\* Whoever placed an order goes on to match it.
PlacedByRequest ==
    \A o \in Orders : status[o] # "NONE" =>
        \E r \in Requests : OrderOf[r] = o /\ pc[r] \notin {"new", "insert", "refused"}

\* The inductive invariant.  MatchedOnce is not inductive by itself: without
\* LocksHeld a match could commit an order that is cancelled or matched since.
OrderBookInv ==
    /\ TypeOK /\ ArrivedIsPlaced /\ LocksHeld /\ HandlersSound
    /\ MatchedOnce /\ OpenIsVisible /\ TriedIsSkipped /\ PlacedByRequest

\* What holds before the first request.
LEMMA InitEstablishes == Init => OrderBookInv
  BY DEF Init, OrderBookInv, TypeOK, ArrivedIsPlaced, LocksHeld, Matching, HandlersSound,
         MatchedOnce, OpenIsVisible, TriedIsSkipped, Tried, PlacedByRequest

\* Every step keeps the types.
LEMMA TypesKept ==
    ASSUME TypeOK, ArrivedIsPlaced, LocksHeld, [Next]_vars
    PROVE  TypeOK' /\ ArrivedIsPlaced'
<1>1. ASSUME NEW r \in Requests, LookUp(r)
      PROVE  TypeOK' /\ ArrivedIsPlaced'
  BY <1>1 DEF LookUp, Goto, dbVars, TypeOK, ArrivedIsPlaced, LocksHeld, Matching
<1>2. ASSUME NEW r \in Requests, Insert(r)
      PROVE  TypeOK' /\ ArrivedIsPlaced'
  BY <1>2 DEF Insert, Goto, TypeOK, ArrivedIsPlaced, LocksHeld, Matching
<1>3. ASSUME NEW r \in Requests, InsertConflicts(r)
      PROVE  TypeOK' /\ ArrivedIsPlaced'
  BY <1>3 DEF InsertConflicts, Goto, dbVars, TypeOK, ArrivedIsPlaced, LocksHeld, Matching
<1>4. ASSUME NEW r \in Requests, Project(r)
      PROVE  TypeOK' /\ ArrivedIsPlaced'
  BY <1>4 DEF Project, Goto, dbVars, TypeOK, ArrivedIsPlaced, LocksHeld, Matching
<1>5. ASSUME NEW r \in Requests, LockOwnOrder(r)
      PROVE  TypeOK' /\ ArrivedIsPlaced'
  BY <1>5 DEF LockOwnOrder, Goto, TypeOK, ArrivedIsPlaced, LocksHeld, Matching
<1>6. ASSUME NEW r \in Requests, OwnOrderNotOpen(r)
      PROVE  TypeOK' /\ ArrivedIsPlaced'
  BY <1>6 DEF OwnOrderNotOpen, Goto, dbVars, TypeOK, ArrivedIsPlaced, LocksHeld, Matching
<1>7. ASSUME NEW r \in Requests, FindCounterparty(r)
      PROVE  TypeOK' /\ ArrivedIsPlaced'
  <2>1. /\ UNCHANGED <<status, arrival, pairs, seen, removing, cancelling, book, hidden, troubles>>
        /\ pc' \in [Requests -> {"new", "insert", "project", "match", "find", "none",
                                 "commit", "remove", "over", "refused"}]
    BY <1>7 DEF FindCounterparty, Goto, TypeOK
  <2>2. skipped' \in [Orders -> SUBSET Orders]
    BY <1>7 DEF FindCounterparty, Counterparties, TypeOK
  <2>3. rowLock' \in [Orders -> Requests \cup {NoRequest}]
    BY <1>7 DEF FindCounterparty, TypeOK
  <2>4. partner' \in [Requests -> Orders \cup {NoOrder}]
    <3>1. CASE partner' = partner
      BY <3>1 DEF TypeOK
    <3>2. CASE \E c \in Orders : partner' = [partner EXCEPT ![r] = c]
      BY <3>2 DEF TypeOK
    <3>. QED BY <3>1, <3>2, <1>7 DEF FindCounterparty
  <2>. QED BY <2>1, <2>2, <2>3, <2>4 DEF TypeOK, ArrivedIsPlaced
<1>8. ASSUME NEW r \in Requests, EndWithoutMatch(r)
      PROVE  TypeOK' /\ ArrivedIsPlaced'
  BY <1>8 DEF EndWithoutMatch, Goto, Unlock, TypeOK, ArrivedIsPlaced, LocksHeld, Matching
<1>9. ASSUME NEW r \in Requests, CommitMatch(r) \/ CommitMatchThrows(r)
      PROVE  TypeOK' /\ ArrivedIsPlaced'
  <2> DEFINE pair == {OrderOf[r], partner[r]}
  <2>1. pair \in SUBSET Orders
    BY <1>9 DEF CommitMatch, CommitMatchThrows, Fault, Match, Pair, LocksHeld, TypeOK
  <2>2. /\ status' = [o \in Orders |-> IF o \in pair THEN "MATCH_PENDING" ELSE status[o]]
        /\ pairs' = pairs \cup {pair}
        /\ removing' = removing \/ removing' = [removing EXCEPT ![r] = pair]
        /\ skipped' = [o \in Orders |-> IF o \in pair THEN {} ELSE skipped[o] \ pair]
        /\ hidden' = hidden \ pair /\ troubles' \in 0 .. MaxTroubles
        /\ UNCHANGED <<arrival, seen, cancelling, book>>
    BY <1>9 DEF CommitMatch, CommitMatchThrows, Fault, Match, Pair, Forget, TypeOK
  <2>3. /\ pc' \in [Requests -> {"new", "insert", "project", "match", "find", "none",
                                 "commit", "remove", "over", "refused"}]
        /\ partner' \in [Requests -> Orders \cup {NoOrder}]
        /\ rowLock' \in [Orders -> Requests \cup {NoRequest}]
    BY <1>9 DEF CommitMatch, CommitMatchThrows, Fault, Match, Pair, Goto, Unlock, TypeOK
  <2> HIDE DEF pair
  <2>4. removing' \in [Requests -> SUBSET Orders] /\ pairs' \in SUBSET (SUBSET Orders)
    BY <2>1, <2>2 DEF TypeOK
  <2>5. skipped' \in [Orders -> SUBSET Orders]
    BY <2>2 DEF TypeOK
  <2>6. status' \in [Orders -> {"NONE", "OPEN", "MATCH_PENDING", "CANCELLED"}]
    BY <2>2 DEF TypeOK
  <2>7. \A i \in 1 .. Len(arrival) : status'[arrival[i]] # "NONE"
    BY <2>2 DEF TypeOK, ArrivedIsPlaced
  <2>. QED BY <2>2, <2>3, <2>4, <2>5, <2>6, <2>7 DEF TypeOK, ArrivedIsPlaced
<1>10. ASSUME NEW r \in Requests, NEW o \in Orders, RemoveMatched(r, o)
      PROVE  TypeOK' /\ ArrivedIsPlaced'
  BY <1>10 DEF RemoveMatched, Goto, dbVars, TypeOK, ArrivedIsPlaced, LocksHeld, Matching
<1>11. ASSUME NEW r \in Requests, ProjectThrows(r)
      PROVE  TypeOK' /\ ArrivedIsPlaced'
  BY <1>11 DEF ProjectThrows, Goto, dbVars, Fault, OpenOnes, TypeOK, ArrivedIsPlaced,
               LocksHeld, Matching
<1>12. ASSUME NEW r \in Requests, MatchThrows(r)
      PROVE  TypeOK' /\ ArrivedIsPlaced'
  BY <1>12 DEF MatchThrows, Goto, Unlock, Fault, TypeOK, ArrivedIsPlaced, LocksHeld,
               Matching
<1>13. ASSUME NEW r \in Requests, NEW o \in Orders, RemoveMatchedThrows(r, o)
      PROVE  TypeOK' /\ ArrivedIsPlaced'
  BY <1>13 DEF RemoveMatchedThrows, Goto, dbVars, Fault, TypeOK, ArrivedIsPlaced,
               LocksHeld, Matching
<1>14. ASSUME NEW o \in Orders, CancelOrder(o)
      PROVE  TypeOK' /\ ArrivedIsPlaced'
  BY <1>14 DEF CancelOrder, Forget, TypeOK, ArrivedIsPlaced, LocksHeld, Matching
<1>15. ASSUME NEW o \in Orders, RemoveCancelled(o)
      PROVE  TypeOK' /\ ArrivedIsPlaced'
  BY <1>15 DEF RemoveCancelled, dbVars, TypeOK, ArrivedIsPlaced, LocksHeld, Matching
<1>16. ASSUME NEW o \in Orders, RemoveCancelledThrows(o)
      PROVE  TypeOK' /\ ArrivedIsPlaced'
  BY <1>16 DEF RemoveCancelledThrows, dbVars, Fault, TypeOK, ArrivedIsPlaced, LocksHeld,
               Matching
<1>17. ASSUME CrashAndRebuild
      PROVE  TypeOK' /\ ArrivedIsPlaced'
  BY <1>17 DEF CrashAndRebuild, Fault, Unlocked, TypeOK, ArrivedIsPlaced, LocksHeld,
               Matching
<1>18. ASSUME RedisRestarts
      PROVE  TypeOK' /\ ArrivedIsPlaced'
  BY <1>18 DEF RedisRestarts, dbVars, Fault, OpenOnes, handlerVars, TypeOK,
               ArrivedIsPlaced, LocksHeld, Matching
<1>19. CASE UNCHANGED vars
  BY <1>19 DEF vars, dbVars, handlerVars, TypeOK, ArrivedIsPlaced, LocksHeld, Matching
<1>20. ASSUME NEW r \in Requests, InsertRefused(r)
      PROVE  TypeOK' /\ ArrivedIsPlaced'
  BY <1>20 DEF InsertRefused, Goto, dbVars, TypeOK, ArrivedIsPlaced, LocksHeld, Matching
<1>21. ASSUME NEW r \in Requests, InsertThrows(r)
      PROVE  TypeOK' /\ ArrivedIsPlaced'
  <2>1. CASE UNCHANGED <<status, arrival, hidden>>
    BY <1>21, <2>1 DEF InsertThrows, Fault, Goto, TypeOK, ArrivedIsPlaced
  <2>2. CASE arrival' = Append(arrival, OrderOf[r])
    <3>1. /\ status[OrderOf[r]] = "NONE"
          /\ \/ status' = status \/ status' = [status EXCEPT ![OrderOf[r]] = "OPEN"]
          /\ UNCHANGED <<pairs, rowLock, seen, partner, removing, cancelling, book, skipped>>
          /\ hidden' \subseteq Orders /\ troubles' \in 0 .. MaxTroubles
          /\ pc' = [pc EXCEPT ![r] = "over"]
      BY <1>21 DEF InsertThrows, Fault, Goto, TypeOK
    <3>2. status' = [status EXCEPT ![OrderOf[r]] = "OPEN"]
      BY <1>21, <2>2 DEF InsertThrows, TypeOK
    <3>. QED BY <2>2, <3>1, <3>2 DEF TypeOK, ArrivedIsPlaced
  <2>. QED BY <1>21, <2>1, <2>2 DEF InsertThrows
<1>. QED
  BY <1>1, <1>2, <1>3, <1>4, <1>5, <1>6, <1>7, <1>8, <1>9, <1>10, <1>11,
     <1>12, <1>13, <1>14, <1>15, <1>16, <1>17, <1>18, <1>19, <1>20, <1>21
     DEF Next, Step, Trouble

\* Every step keeps the locks of the others.
LEMMA LocksKept ==
    ASSUME TypeOK, LocksHeld, [Next]_vars
    PROVE  LocksHeld'
<1>1. ASSUME NEW r \in Requests, LookUp(r)
      PROVE  LocksHeld'
  BY <1>1 DEF LookUp, Goto, dbVars, TypeOK, LocksHeld, Matching
<1>2. ASSUME NEW r \in Requests, Insert(r)
      PROVE  LocksHeld'
  BY <1>2 DEF Insert, Goto, TypeOK, LocksHeld, Matching
<1>3. ASSUME NEW r \in Requests, InsertConflicts(r)
      PROVE  LocksHeld'
  BY <1>3 DEF InsertConflicts, Goto, dbVars, TypeOK, LocksHeld, Matching
<1>4. ASSUME NEW r \in Requests, Project(r)
      PROVE  LocksHeld'
  BY <1>4 DEF Project, Goto, dbVars, TypeOK, LocksHeld, Matching
<1>5. ASSUME NEW r \in Requests, LockOwnOrder(r)
      PROVE  LocksHeld'
  BY <1>5 DEF LockOwnOrder, Goto, TypeOK, LocksHeld, Matching
<1>6. ASSUME NEW r \in Requests, OwnOrderNotOpen(r)
      PROVE  LocksHeld'
  BY <1>6 DEF OwnOrderNotOpen, Goto, dbVars, TypeOK, LocksHeld, Matching
<1>7. ASSUME NEW r \in Requests, FindCounterparty(r)
      PROVE  LocksHeld'
  BY <1>7 DEF FindCounterparty, Goto, Counterparties, IsOldest, TypeOK, LocksHeld,
              Matching
<1>8. ASSUME NEW r \in Requests, EndWithoutMatch(r)
      PROVE  LocksHeld'
  BY <1>8 DEF EndWithoutMatch, Goto, Unlock, TypeOK, LocksHeld, Matching
<1>9. ASSUME NEW r \in Requests, CommitMatch(r) \/ CommitMatchThrows(r)
      PROVE  LocksHeld'
  BY <1>9 DEF CommitMatch, CommitMatchThrows, Fault, Match, Pair, Goto, Unlock, Forget,
              TypeOK, LocksHeld, Matching
<1>10. ASSUME NEW r \in Requests, NEW o \in Orders, RemoveMatched(r, o)
      PROVE  LocksHeld'
  BY <1>10 DEF RemoveMatched, Goto, dbVars, TypeOK, LocksHeld, Matching
<1>11. ASSUME NEW r \in Requests, ProjectThrows(r)
      PROVE  LocksHeld'
  BY <1>11 DEF ProjectThrows, Goto, dbVars, Fault, OpenOnes, TypeOK, LocksHeld, Matching
<1>12. ASSUME NEW r \in Requests, MatchThrows(r)
      PROVE  LocksHeld'
  BY <1>12 DEF MatchThrows, Goto, Unlock, Fault, TypeOK, LocksHeld, Matching
<1>13. ASSUME NEW r \in Requests, NEW o \in Orders, RemoveMatchedThrows(r, o)
      PROVE  LocksHeld'
  BY <1>13 DEF RemoveMatchedThrows, Goto, dbVars, Fault, TypeOK, LocksHeld, Matching
<1>14. ASSUME NEW o \in Orders, CancelOrder(o)
      PROVE  LocksHeld'
  BY <1>14 DEF CancelOrder, Forget, TypeOK, LocksHeld, Matching
<1>15. ASSUME NEW o \in Orders, RemoveCancelled(o)
      PROVE  LocksHeld'
  BY <1>15 DEF RemoveCancelled, dbVars, TypeOK, LocksHeld, Matching
<1>16. ASSUME NEW o \in Orders, RemoveCancelledThrows(o)
      PROVE  LocksHeld'
  BY <1>16 DEF RemoveCancelledThrows, dbVars, Fault, TypeOK, LocksHeld, Matching
<1>17. ASSUME CrashAndRebuild
      PROVE  LocksHeld'
  BY <1>17 DEF CrashAndRebuild, Fault, Unlocked, TypeOK, LocksHeld, Matching
<1>18. ASSUME RedisRestarts
      PROVE  LocksHeld'
  BY <1>18 DEF RedisRestarts, dbVars, Fault, OpenOnes, handlerVars, TypeOK, LocksHeld,
               Matching
<1>19. CASE UNCHANGED vars
  BY <1>19 DEF vars, dbVars, handlerVars, TypeOK, LocksHeld, Matching
<1>20. ASSUME NEW r \in Requests, InsertRefused(r)
      PROVE  LocksHeld'
  BY <1>20 DEF InsertRefused, Goto, dbVars, TypeOK, LocksHeld, Matching
<1>21. ASSUME NEW r \in Requests, InsertThrows(r)
      PROVE  LocksHeld'
  BY <1>21 DEF InsertThrows, Fault, Goto, TypeOK, LocksHeld, Matching
<1>. QED
  BY <1>1, <1>2, <1>3, <1>4, <1>5, <1>6, <1>7, <1>8, <1>9, <1>10, <1>11,
     <1>12, <1>13, <1>14, <1>15, <1>16, <1>17, <1>18, <1>19, <1>20, <1>21
     DEF Next, Step, Trouble

\* Every step leaves the handlers sound.
LEMMA HandlersKept ==
    ASSUME TypeOK, LocksHeld, HandlersSound, [Next]_vars
    PROVE  HandlersSound'
<1>1. ASSUME NEW r \in Requests, LookUp(r)
      PROVE  HandlersSound'
  BY <1>1 DEF LookUp, Goto, dbVars, TypeOK, LocksHeld, Matching, HandlersSound
<1>2. ASSUME NEW r \in Requests, Insert(r)
      PROVE  HandlersSound'
  BY <1>2 DEF Insert, Goto, TypeOK, LocksHeld, Matching, HandlersSound
<1>3. ASSUME NEW r \in Requests, InsertConflicts(r)
      PROVE  HandlersSound'
  BY <1>3 DEF InsertConflicts, Goto, dbVars, TypeOK, LocksHeld, Matching, HandlersSound
<1>4. ASSUME NEW r \in Requests, Project(r)
      PROVE  HandlersSound'
  BY <1>4 DEF Project, Goto, dbVars, TypeOK, LocksHeld, Matching, HandlersSound
<1>5. ASSUME NEW r \in Requests, LockOwnOrder(r)
      PROVE  HandlersSound'
  BY <1>5 DEF LockOwnOrder, Goto, TypeOK, LocksHeld, Matching, HandlersSound
<1>6. ASSUME NEW r \in Requests, OwnOrderNotOpen(r)
      PROVE  HandlersSound'
  BY <1>6 DEF OwnOrderNotOpen, Goto, dbVars, TypeOK, LocksHeld, Matching, HandlersSound
<1>7. ASSUME NEW r \in Requests, FindCounterparty(r)
      PROVE  HandlersSound'
  BY <1>7 DEF FindCounterparty, Goto, Counterparties, IsOldest, TypeOK, LocksHeld,
              Matching, HandlersSound
<1>8. ASSUME NEW r \in Requests, EndWithoutMatch(r)
      PROVE  HandlersSound'
  BY <1>8 DEF EndWithoutMatch, Goto, Unlock, TypeOK, LocksHeld, Matching, HandlersSound
<1>9. ASSUME NEW r \in Requests, CommitMatch(r) \/ CommitMatchThrows(r)
      PROVE  HandlersSound'
  <2>1. /\ pc[r] = "commit" /\ UNCHANGED <<seen, cancelling>>
        /\ status' = [o \in Orders |-> IF o \in Pair(r) THEN "MATCH_PENDING" ELSE status[o]]
        /\ troubles' \in Nat /\ troubles' >= troubles
    BY <1>9 DEF CommitMatch, CommitMatchThrows, Match, Fault, TypeOK
  <2>2. OrderOf[r] \in Pair(r) /\ \A o \in Pair(r) : status[o] = "OPEN"
    BY <2>1 DEF Pair, LocksHeld, Matching
  <2>3. \A o \in Orders :
           /\ status[o] # "NONE" => status'[o] # "NONE"
           /\ status'[o] # status[o] => status'[o] = "MATCH_PENDING" /\ status[o] = "OPEN"
    BY <2>1, <2>2 DEF TypeOK
  <2>4. /\ \A q \in Requests \ {r} : pc'[q] = pc[q] /\ removing'[q] = removing[q]
        /\ \/ pc'[r] = "remove" /\ removing'[r] = Pair(r)
           \/ pc'[r] = "over" /\ removing'[r] = removing[r]
    <3>1. /\ pc \in [Requests -> {"new", "insert", "project", "match", "find", "none",
                                  "commit", "remove", "over", "refused"}]
          /\ removing \in [Requests -> SUBSET Orders]
      BY DEF TypeOK
    <3>2. \/ /\ pc' = [pc EXCEPT ![r] = "remove"]
             /\ removing' = [removing EXCEPT ![r] = Pair(r)]
          \/ pc' = [pc EXCEPT ![r] = "over"] /\ removing' = removing
      BY <1>9 DEF CommitMatch, CommitMatchThrows, Goto
    <3>. QED BY <3>1, <3>2
  <2>5. \A o \in Pair(r) : o \in Orders => status'[o] = "MATCH_PENDING"
    BY <2>1
  <2>6. \A q \in Requests : removing[q] \subseteq Orders /\ removing'[q] \subseteq Orders
    <3>1. Pair(r) \subseteq Orders
      BY <2>1 DEF Pair, LocksHeld
    <3>. QED BY <2>4, <3>1 DEF TypeOK
  <2>. QED BY <2>1, <2>2, <2>3, <2>4, <2>5, <2>6 DEF HandlersSound, TypeOK
<1>10. ASSUME NEW r \in Requests, NEW o \in Orders, RemoveMatched(r, o)
      PROVE  HandlersSound'
  BY <1>10 DEF RemoveMatched, Goto, dbVars, TypeOK, LocksHeld, Matching, HandlersSound
<1>11. ASSUME NEW r \in Requests, ProjectThrows(r)
      PROVE  HandlersSound'
  BY <1>11 DEF ProjectThrows, Goto, dbVars, Fault, OpenOnes, TypeOK, LocksHeld,
               Matching, HandlersSound
<1>12. ASSUME NEW r \in Requests, MatchThrows(r)
      PROVE  HandlersSound'
  BY <1>12 DEF MatchThrows, Goto, Unlock, Fault, TypeOK, LocksHeld, Matching,
               HandlersSound
<1>13. ASSUME NEW r \in Requests, NEW o \in Orders, RemoveMatchedThrows(r, o)
      PROVE  HandlersSound'
  BY <1>13 DEF RemoveMatchedThrows, Goto, dbVars, Fault, TypeOK, LocksHeld, Matching,
               HandlersSound
<1>14. ASSUME NEW o \in Orders, CancelOrder(o)
      PROVE  HandlersSound'
  BY <1>14 DEF CancelOrder, Forget, TypeOK, LocksHeld, Matching, HandlersSound
<1>15. ASSUME NEW o \in Orders, RemoveCancelled(o)
      PROVE  HandlersSound'
  BY <1>15 DEF RemoveCancelled, dbVars, TypeOK, LocksHeld, Matching, HandlersSound
<1>16. ASSUME NEW o \in Orders, RemoveCancelledThrows(o)
      PROVE  HandlersSound'
  BY <1>16 DEF RemoveCancelledThrows, dbVars, Fault, TypeOK, LocksHeld, Matching,
               HandlersSound
<1>17. ASSUME CrashAndRebuild
      PROVE  HandlersSound'
  BY <1>17 DEF CrashAndRebuild, Fault, Unlocked, TypeOK, LocksHeld, Matching,
               HandlersSound
<1>18. ASSUME RedisRestarts
      PROVE  HandlersSound'
  BY <1>18 DEF RedisRestarts, dbVars, Fault, OpenOnes, handlerVars, TypeOK, LocksHeld,
               Matching, HandlersSound
<1>19. CASE UNCHANGED vars
  BY <1>19 DEF vars, dbVars, handlerVars, TypeOK, LocksHeld, Matching, HandlersSound
<1>20. ASSUME NEW r \in Requests, InsertRefused(r)
      PROVE  HandlersSound'
  BY <1>20 DEF InsertRefused, Goto, dbVars, TypeOK, LocksHeld, Matching, HandlersSound
<1>21. ASSUME NEW r \in Requests, InsertThrows(r)
      PROVE  HandlersSound'
  BY <1>21 DEF InsertThrows, Fault, Goto, TypeOK, LocksHeld, Matching, HandlersSound
<1>. QED
  BY <1>1, <1>2, <1>3, <1>4, <1>5, <1>6, <1>7, <1>8, <1>9, <1>10, <1>11,
     <1>12, <1>13, <1>14, <1>15, <1>16, <1>17, <1>18, <1>19, <1>20, <1>21
     DEF Next, Step, Trouble

\* Every step leaves every order in one pair at most.
LEMMA MatchedOnceKept ==
    ASSUME TypeOK, LocksHeld, MatchedOnce, [Next]_vars
    PROVE  MatchedOnce'
<1>1. ASSUME NEW r \in Requests, LookUp(r)
      PROVE  MatchedOnce'
  BY <1>1 DEF LookUp, Goto, dbVars, TypeOK, LocksHeld, Matching, MatchedOnce
<1>2. ASSUME NEW r \in Requests, Insert(r)
      PROVE  MatchedOnce'
  BY <1>2 DEF Insert, Goto, TypeOK, LocksHeld, Matching, MatchedOnce
<1>3. ASSUME NEW r \in Requests, InsertConflicts(r)
      PROVE  MatchedOnce'
  BY <1>3 DEF InsertConflicts, Goto, dbVars, TypeOK, LocksHeld, Matching, MatchedOnce
<1>4. ASSUME NEW r \in Requests, Project(r)
      PROVE  MatchedOnce'
  BY <1>4 DEF Project, Goto, dbVars, TypeOK, LocksHeld, Matching, MatchedOnce
<1>5. ASSUME NEW r \in Requests, LockOwnOrder(r)
      PROVE  MatchedOnce'
  BY <1>5 DEF LockOwnOrder, Goto, TypeOK, LocksHeld, Matching, MatchedOnce
<1>6. ASSUME NEW r \in Requests, OwnOrderNotOpen(r)
      PROVE  MatchedOnce'
  BY <1>6 DEF OwnOrderNotOpen, Goto, dbVars, TypeOK, LocksHeld, Matching, MatchedOnce
<1>7. ASSUME NEW r \in Requests, FindCounterparty(r)
      PROVE  MatchedOnce'
  BY <1>7 DEF FindCounterparty, Goto, Counterparties, IsOldest, TypeOK, LocksHeld,
              Matching, MatchedOnce
<1>8. ASSUME NEW r \in Requests, EndWithoutMatch(r)
      PROVE  MatchedOnce'
  BY <1>8 DEF EndWithoutMatch, Goto, Unlock, TypeOK, LocksHeld, Matching, MatchedOnce
<1>9. ASSUME NEW r \in Requests, CommitMatch(r) \/ CommitMatchThrows(r)
      PROVE  MatchedOnce'
  <2> DEFINE pair == {OrderOf[r], partner[r]}
  <2>1. /\ pair \subseteq Orders /\ Fits(OrderOf[r], partner[r])
        /\ \A o \in pair : status[o] = "OPEN"
    BY <1>9 DEF CommitMatch, CommitMatchThrows, Fault, Match, Pair, LocksHeld, Matching, TypeOK
  <2>2. /\ status' = [o \in Orders |-> IF o \in pair THEN "MATCH_PENDING" ELSE status[o]]
        /\ pairs' = pairs \cup {pair}
    BY <1>9 DEF CommitMatch, CommitMatchThrows, Fault, Match, Pair
  <2>3. \E o, c \in pair : pair = {o, c} /\ Fits(o, c)
    BY <2>1
  <2> HIDE DEF pair
  <2>4. \A p \in pairs : p \cap pair = {}
    BY <2>1 DEF MatchedOnce, TypeOK
  <2>5. \A o \in Orders : status'[o] = "MATCH_PENDING" <=> o \in UNION pairs'
    <3>1. UNION pairs' = (UNION pairs) \cup pair
      BY <2>2
    <3>. QED BY <3>1, <2>2 DEF MatchedOnce, TypeOK
  <2>6. \A p \in pairs' : \E o, c \in p : p = {o, c} /\ Fits(o, c)
    BY <2>2, <2>3 DEF MatchedOnce
  <2>7. \A p, q \in pairs' : p # q => p \cap q = {}
    BY <2>2, <2>4 DEF MatchedOnce
  <2>. QED BY <2>5, <2>6, <2>7 DEF MatchedOnce
<1>10. ASSUME NEW r \in Requests, NEW o \in Orders, RemoveMatched(r, o)
      PROVE  MatchedOnce'
  BY <1>10 DEF RemoveMatched, Goto, dbVars, TypeOK, LocksHeld, Matching, MatchedOnce
<1>11. ASSUME NEW r \in Requests, ProjectThrows(r)
      PROVE  MatchedOnce'
  BY <1>11 DEF ProjectThrows, Goto, dbVars, Fault, OpenOnes, TypeOK, LocksHeld,
               Matching, MatchedOnce
<1>12. ASSUME NEW r \in Requests, MatchThrows(r)
      PROVE  MatchedOnce'
  BY <1>12 DEF MatchThrows, Goto, Unlock, Fault, TypeOK, LocksHeld, Matching, MatchedOnce
<1>13. ASSUME NEW r \in Requests, NEW o \in Orders, RemoveMatchedThrows(r, o)
      PROVE  MatchedOnce'
  BY <1>13 DEF RemoveMatchedThrows, Goto, dbVars, Fault, TypeOK, LocksHeld, Matching,
               MatchedOnce
<1>14. ASSUME NEW o \in Orders, CancelOrder(o)
      PROVE  MatchedOnce'
  BY <1>14 DEF CancelOrder, Forget, TypeOK, LocksHeld, Matching, MatchedOnce
<1>15. ASSUME NEW o \in Orders, RemoveCancelled(o)
      PROVE  MatchedOnce'
  BY <1>15 DEF RemoveCancelled, dbVars, TypeOK, LocksHeld, Matching, MatchedOnce
<1>16. ASSUME NEW o \in Orders, RemoveCancelledThrows(o)
      PROVE  MatchedOnce'
  BY <1>16 DEF RemoveCancelledThrows, dbVars, Fault, TypeOK, LocksHeld, Matching,
               MatchedOnce
<1>17. ASSUME CrashAndRebuild
      PROVE  MatchedOnce'
  BY <1>17 DEF CrashAndRebuild, Fault, Unlocked, TypeOK, LocksHeld, Matching, MatchedOnce
<1>18. ASSUME RedisRestarts
      PROVE  MatchedOnce'
  BY <1>18 DEF RedisRestarts, dbVars, Fault, OpenOnes, handlerVars, TypeOK, LocksHeld,
               Matching, MatchedOnce
<1>19. CASE UNCHANGED vars
  BY <1>19 DEF vars, dbVars, handlerVars, TypeOK, LocksHeld, Matching, MatchedOnce
<1>20. ASSUME NEW r \in Requests, InsertRefused(r)
      PROVE  MatchedOnce'
  BY <1>20 DEF InsertRefused, Goto, dbVars, TypeOK, LocksHeld, Matching, MatchedOnce
<1>21. ASSUME NEW r \in Requests, InsertThrows(r)
      PROVE  MatchedOnce'
  BY <1>21 DEF InsertThrows, Fault, Goto, TypeOK, LocksHeld, Matching, MatchedOnce
<1>. QED
  BY <1>1, <1>2, <1>3, <1>4, <1>5, <1>6, <1>7, <1>8, <1>9, <1>10, <1>11,
     <1>12, <1>13, <1>14, <1>15, <1>16, <1>17, <1>18, <1>19, <1>20, <1>21
     DEF Next, Step, Trouble

\* Every step leaves every open order visible.
LEMMA VisibleKept ==
    ASSUME TypeOK, LocksHeld, HandlersSound, OpenIsVisible, [Next]_vars
    PROVE  OpenIsVisible'
<1>1. ASSUME NEW r \in Requests, LookUp(r)
      PROVE  OpenIsVisible'
  BY <1>1 DEF LookUp, Goto, dbVars, TypeOK, LocksHeld, Matching, HandlersSound,
              OpenIsVisible
<1>2. ASSUME NEW r \in Requests, Insert(r)
      PROVE  OpenIsVisible'
  BY <1>2 DEF Insert, Goto, TypeOK, LocksHeld, Matching, HandlersSound, OpenIsVisible
<1>3. ASSUME NEW r \in Requests, InsertConflicts(r)
      PROVE  OpenIsVisible'
  BY <1>3 DEF InsertConflicts, Goto, dbVars, TypeOK, LocksHeld, Matching, HandlersSound,
              OpenIsVisible
<1>4. ASSUME NEW r \in Requests, Project(r)
      PROVE  OpenIsVisible'
  BY <1>4 DEF Project, Goto, dbVars, TypeOK, LocksHeld, Matching, HandlersSound,
              OpenIsVisible
<1>5. ASSUME NEW r \in Requests, LockOwnOrder(r)
      PROVE  OpenIsVisible'
  BY <1>5 DEF LockOwnOrder, Goto, TypeOK, LocksHeld, Matching, HandlersSound,
              OpenIsVisible
<1>6. ASSUME NEW r \in Requests, OwnOrderNotOpen(r)
      PROVE  OpenIsVisible'
  BY <1>6 DEF OwnOrderNotOpen, Goto, dbVars, TypeOK, LocksHeld, Matching, HandlersSound,
              OpenIsVisible
<1>7. ASSUME NEW r \in Requests, FindCounterparty(r)
      PROVE  OpenIsVisible'
  BY <1>7 DEF FindCounterparty, Goto, Counterparties, IsOldest, TypeOK, LocksHeld,
              Matching, HandlersSound, OpenIsVisible
<1>8. ASSUME NEW r \in Requests, EndWithoutMatch(r)
      PROVE  OpenIsVisible'
  BY <1>8 DEF EndWithoutMatch, Goto, Unlock, TypeOK, LocksHeld, Matching, HandlersSound,
              OpenIsVisible
<1>9. ASSUME NEW r \in Requests, CommitMatch(r) \/ CommitMatchThrows(r)
      PROVE  OpenIsVisible'
  BY <1>9 DEF CommitMatch, CommitMatchThrows, Fault, Match, Pair, Goto, Unlock, Forget,
              TypeOK, LocksHeld, Matching, HandlersSound, OpenIsVisible
<1>10. ASSUME NEW r \in Requests, NEW o \in Orders, RemoveMatched(r, o)
      PROVE  OpenIsVisible'
  BY <1>10 DEF RemoveMatched, Goto, dbVars, TypeOK, LocksHeld, Matching, HandlersSound,
               OpenIsVisible
<1>11. ASSUME NEW r \in Requests, ProjectThrows(r)
      PROVE  OpenIsVisible'
  BY <1>11 DEF ProjectThrows, Goto, dbVars, Fault, OpenOnes, TypeOK, LocksHeld,
               Matching, HandlersSound, OpenIsVisible
<1>12. ASSUME NEW r \in Requests, MatchThrows(r)
      PROVE  OpenIsVisible'
  BY <1>12 DEF MatchThrows, Goto, Unlock, Fault, TypeOK, LocksHeld, Matching,
               HandlersSound, OpenIsVisible
<1>13. ASSUME NEW r \in Requests, NEW o \in Orders, RemoveMatchedThrows(r, o)
      PROVE  OpenIsVisible'
  BY <1>13 DEF RemoveMatchedThrows, Goto, dbVars, Fault, TypeOK, LocksHeld, Matching,
               HandlersSound, OpenIsVisible
<1>14. ASSUME NEW o \in Orders, CancelOrder(o)
      PROVE  OpenIsVisible'
  BY <1>14 DEF CancelOrder, Forget, TypeOK, LocksHeld, Matching, HandlersSound,
               OpenIsVisible
<1>15. ASSUME NEW o \in Orders, RemoveCancelled(o)
      PROVE  OpenIsVisible'
  BY <1>15 DEF RemoveCancelled, dbVars, TypeOK, LocksHeld, Matching, HandlersSound,
               OpenIsVisible
<1>16. ASSUME NEW o \in Orders, RemoveCancelledThrows(o)
      PROVE  OpenIsVisible'
  BY <1>16 DEF RemoveCancelledThrows, dbVars, Fault, TypeOK, LocksHeld, Matching,
               HandlersSound, OpenIsVisible
<1>17. ASSUME CrashAndRebuild
      PROVE  OpenIsVisible'
  BY <1>17 DEF CrashAndRebuild, Fault, Unlocked, TypeOK, LocksHeld, Matching,
               HandlersSound, OpenIsVisible
<1>18. ASSUME RedisRestarts
      PROVE  OpenIsVisible'
  BY <1>18 DEF RedisRestarts, dbVars, Fault, OpenOnes, handlerVars, TypeOK, LocksHeld,
               Matching, HandlersSound, OpenIsVisible
<1>19. CASE UNCHANGED vars
  BY <1>19 DEF vars, dbVars, handlerVars, TypeOK, LocksHeld, Matching, HandlersSound,
               OpenIsVisible
<1>20. ASSUME NEW r \in Requests, InsertRefused(r)
      PROVE  OpenIsVisible'
  BY <1>20 DEF InsertRefused, Goto, dbVars, TypeOK, LocksHeld, Matching, HandlersSound,
              OpenIsVisible
<1>21. ASSUME NEW r \in Requests, InsertThrows(r)
      PROVE  OpenIsVisible'
  BY <1>21
     DEF InsertThrows, Fault, Goto, TypeOK, LocksHeld, Matching, HandlersSound, OpenIsVisible
<1>. QED
  BY <1>1, <1>2, <1>3, <1>4, <1>5, <1>6, <1>7, <1>8, <1>9, <1>10, <1>11,
     <1>12, <1>13, <1>14, <1>15, <1>16, <1>17, <1>18, <1>19, <1>20, <1>21
     DEF Next, Step, Trouble

\* Every step leaves those that rest skipped.
LEMMA SkippedKept ==
    ASSUME TypeOK, LocksHeld, HandlersSound, TriedIsSkipped, [Next]_vars
    PROVE  TriedIsSkipped'
<1>1. ASSUME NEW r \in Requests, LookUp(r)
      PROVE  TriedIsSkipped'
  <2>1. /\ \A q \in Requests : pc'[q] \in {"none", "over"} => pc[q] \in {"none", "over"}
        /\ UNCHANGED <<status, skipped, troubles>>
    BY <1>1 DEF LookUp, Goto, dbVars, TypeOK
  <2>2. \A o \in Orders : Tried(o)' => Tried(o)
    BY <2>1 DEF Tried
  <2>. QED BY <2>1, <2>2 DEF TriedIsSkipped
<1>2. ASSUME NEW r \in Requests, Insert(r)
      PROVE  TriedIsSkipped'
  <2>1. /\ \A q \in Requests : pc'[q] \in {"none", "over"} => pc[q] \in {"none", "over"}
        /\ status[OrderOf[r]] = "NONE" /\ status' = [status EXCEPT ![OrderOf[r]] = "OPEN"]
        /\ UNCHANGED <<skipped, troubles>>
    BY <1>2 DEF Insert, Goto, TypeOK
  <2>2. \A o \in Orders : Tried(o)' => Tried(o)
    BY <2>1 DEF Tried
  <2>3. troubles = 0 => ~Tried(OrderOf[r])
    BY <2>1 DEF Tried, HandlersSound
  <2>. QED BY <2>1, <2>2, <2>3 DEF TriedIsSkipped, TypeOK
<1>3. ASSUME NEW r \in Requests, InsertConflicts(r)
      PROVE  TriedIsSkipped'
  BY <1>3 DEF InsertConflicts, Goto, dbVars, TypeOK, LocksHeld, Matching, HandlersSound,
              TriedIsSkipped, Tried
<1>4. ASSUME NEW r \in Requests, Project(r)
      PROVE  TriedIsSkipped'
  BY <1>4 DEF Project, Goto, dbVars, TypeOK, LocksHeld, Matching, HandlersSound,
              TriedIsSkipped, Tried
<1>5. ASSUME NEW r \in Requests, LockOwnOrder(r)
      PROVE  TriedIsSkipped'
  BY <1>5 DEF LockOwnOrder, Goto, TypeOK, LocksHeld, Matching, HandlersSound,
              TriedIsSkipped, Tried
<1>6. ASSUME NEW r \in Requests, OwnOrderNotOpen(r)
      PROVE  TriedIsSkipped'
  BY <1>6 DEF OwnOrderNotOpen, Goto, dbVars, TypeOK, LocksHeld, Matching, HandlersSound,
              TriedIsSkipped, Tried
<1>7. ASSUME NEW r \in Requests, FindCounterparty(r)
      PROVE  TriedIsSkipped'
  <2> DEFINE own == OrderOf[r]
             free == {c \in Counterparties(own) : rowLock[c] = NoRequest}
  <2>1. /\ UNCHANGED <<status, troubles>>
        /\ skipped' = [skipped EXCEPT ![own] = @ \cup (Counterparties(own) \ free)]
        /\ \/ pc' = [pc EXCEPT ![r] = "none"] /\ free = {}
           \/ pc' = [pc EXCEPT ![r] = "commit"]
    BY <1>7 DEF FindCounterparty, Goto
  <2>2. /\ \A q \in Requests \ {r} : pc'[q] = pc[q]
        /\ (pc'[r] = "none" /\ free = {}) \/ pc'[r] = "commit"
    BY <2>1 DEF TypeOK
  <2>3. /\ \A o \in Orders : skipped[o] \subseteq skipped'[o]
        /\ pc'[r] = "none" => Counterparties(own) \subseteq skipped'[own]
    BY <2>1, <2>2 DEF TypeOK
  <2>4. \A o \in Orders : Tried(o)' => Tried(o) \/ (o = own /\ pc'[r] = "none")
    BY <2>2 DEF Tried
  <2> HIDE DEF own
  <2>5. \A o, c \in Orders : Fits(o, c) => Fits(c, o)
    OBVIOUS
  <2>. QED BY <2>1, <2>3, <2>4, <2>5 DEF TriedIsSkipped, Counterparties
<1>8. ASSUME NEW r \in Requests, EndWithoutMatch(r)
      PROVE  TriedIsSkipped'
  BY <1>8 DEF EndWithoutMatch, Goto, Unlock, TypeOK, LocksHeld, Matching, HandlersSound,
              TriedIsSkipped, Tried
<1>9. ASSUME NEW r \in Requests, CommitMatch(r) \/ CommitMatchThrows(r)
      PROVE  TriedIsSkipped'
  BY <1>9 DEF CommitMatch, CommitMatchThrows, Fault, Match, Pair, Goto, Unlock, Forget,
              TypeOK, LocksHeld, Matching, HandlersSound, TriedIsSkipped, Tried
<1>10. ASSUME NEW r \in Requests, NEW o \in Orders, RemoveMatched(r, o)
      PROVE  TriedIsSkipped'
  BY <1>10 DEF RemoveMatched, Goto, dbVars, TypeOK, LocksHeld, Matching, HandlersSound,
               TriedIsSkipped, Tried
<1>11. ASSUME NEW r \in Requests, ProjectThrows(r)
      PROVE  TriedIsSkipped'
  BY <1>11 DEF ProjectThrows, Goto, dbVars, Fault, OpenOnes, TypeOK, LocksHeld,
               Matching, HandlersSound, TriedIsSkipped, Tried
<1>12. ASSUME NEW r \in Requests, MatchThrows(r)
      PROVE  TriedIsSkipped'
  BY <1>12 DEF MatchThrows, Goto, Unlock, Fault, TypeOK, LocksHeld, Matching,
               HandlersSound, TriedIsSkipped, Tried
<1>13. ASSUME NEW r \in Requests, NEW o \in Orders, RemoveMatchedThrows(r, o)
      PROVE  TriedIsSkipped'
  BY <1>13 DEF RemoveMatchedThrows, Goto, dbVars, Fault, TypeOK, LocksHeld, Matching,
               HandlersSound, TriedIsSkipped, Tried
<1>14. ASSUME NEW o \in Orders, CancelOrder(o)
      PROVE  TriedIsSkipped'
  BY <1>14 DEF CancelOrder, Forget, TypeOK, LocksHeld, Matching, HandlersSound,
               TriedIsSkipped, Tried
<1>15. ASSUME NEW o \in Orders, RemoveCancelled(o)
      PROVE  TriedIsSkipped'
  BY <1>15 DEF RemoveCancelled, dbVars, TypeOK, LocksHeld, Matching, HandlersSound,
               TriedIsSkipped, Tried
<1>16. ASSUME NEW o \in Orders, RemoveCancelledThrows(o)
      PROVE  TriedIsSkipped'
  BY <1>16 DEF RemoveCancelledThrows, dbVars, Fault, TypeOK, LocksHeld, Matching,
               HandlersSound, TriedIsSkipped, Tried
<1>17. ASSUME CrashAndRebuild
      PROVE  TriedIsSkipped'
  BY <1>17 DEF CrashAndRebuild, Fault, Unlocked, TypeOK, LocksHeld, Matching,
               HandlersSound, TriedIsSkipped, Tried
<1>18. ASSUME RedisRestarts
      PROVE  TriedIsSkipped'
  BY <1>18 DEF RedisRestarts, dbVars, Fault, OpenOnes, handlerVars, TypeOK, LocksHeld,
               Matching, HandlersSound, TriedIsSkipped, Tried
<1>19. CASE UNCHANGED vars
  BY <1>19 DEF vars, dbVars, handlerVars, TypeOK, LocksHeld, Matching, HandlersSound,
               TriedIsSkipped, Tried
<1>20. ASSUME NEW r \in Requests, InsertRefused(r)
      PROVE  TriedIsSkipped'
  BY <1>20 DEF InsertRefused, Goto, dbVars, TypeOK, LocksHeld, Matching, HandlersSound,
              TriedIsSkipped, Tried
<1>21. ASSUME NEW r \in Requests, InsertThrows(r)
      PROVE  TriedIsSkipped'
  BY <1>21 DEF InsertThrows, Fault, TypeOK, TriedIsSkipped
<1>. QED
  BY <1>1, <1>2, <1>3, <1>4, <1>5, <1>6, <1>7, <1>8, <1>9, <1>10, <1>11,
     <1>12, <1>13, <1>14, <1>15, <1>16, <1>17, <1>18, <1>19, <1>20, <1>21
     DEF Next, Step, Trouble

\* Every step leaves who placed an order.
LEMMA PlacedKept ==
    ASSUME TypeOK, LocksHeld, PlacedByRequest, [Next]_vars
    PROVE  PlacedByRequest'
<1>1. ASSUME NEW r \in Requests, LookUp(r)
      PROVE  PlacedByRequest'
  BY <1>1 DEF LookUp, Goto, dbVars, TypeOK, PlacedByRequest
<1>2. ASSUME NEW r \in Requests, Insert(r)
      PROVE  PlacedByRequest'
  BY <1>2 DEF Insert, Goto, TypeOK, PlacedByRequest
<1>3. ASSUME NEW r \in Requests, InsertConflicts(r)
      PROVE  PlacedByRequest'
  BY <1>3 DEF InsertConflicts, Goto, dbVars, TypeOK, PlacedByRequest
<1>4. ASSUME NEW r \in Requests, Project(r)
      PROVE  PlacedByRequest'
  BY <1>4 DEF Project, Goto, dbVars, TypeOK, PlacedByRequest
<1>5. ASSUME NEW r \in Requests, LockOwnOrder(r)
      PROVE  PlacedByRequest'
  BY <1>5 DEF LockOwnOrder, Goto, TypeOK, PlacedByRequest
<1>6. ASSUME NEW r \in Requests, OwnOrderNotOpen(r)
      PROVE  PlacedByRequest'
  BY <1>6 DEF OwnOrderNotOpen, Goto, dbVars, TypeOK, PlacedByRequest
<1>7. ASSUME NEW r \in Requests, FindCounterparty(r)
      PROVE  PlacedByRequest'
  <2>1. /\ status' = status /\ pc[r] = "find" /\ pc'[r] \in {"none", "commit"}
        /\ \A q \in Requests \ {r} : pc'[q] = pc[q]
    BY <1>7 DEF FindCounterparty, Goto, TypeOK
  <2>. QED BY <2>1 DEF PlacedByRequest
<1>8. ASSUME NEW r \in Requests, EndWithoutMatch(r)
      PROVE  PlacedByRequest'
  BY <1>8 DEF EndWithoutMatch, Goto, Unlock, TypeOK, PlacedByRequest
<1>9. ASSUME NEW r \in Requests, CommitMatch(r) \/ CommitMatchThrows(r)
      PROVE  PlacedByRequest'
  <2>1. /\ \A o \in Orders : status'[o] # "NONE" => status[o] # "NONE" \/ o \in {OrderOf[r], partner[r]}
        /\ pc[r] = "commit" /\ pc'[r] \in {"remove", "over"}
        /\ \A q \in Requests \ {r} : pc'[q] = pc[q]
    BY <1>9 DEF CommitMatch, CommitMatchThrows, Fault, Match, Pair, Goto, TypeOK
  <2>2. status[OrderOf[r]] # "NONE" /\ status[partner[r]] # "NONE"
    BY <2>1 DEF LocksHeld, Matching
  <2>. QED BY <2>1, <2>2 DEF PlacedByRequest
<1>10. ASSUME NEW r \in Requests, NEW o \in Orders, RemoveMatched(r, o)
      PROVE  PlacedByRequest'
  BY <1>10 DEF RemoveMatched, Goto, dbVars, TypeOK, PlacedByRequest
<1>11. ASSUME NEW r \in Requests, ProjectThrows(r)
      PROVE  PlacedByRequest'
  BY <1>11 DEF ProjectThrows, Goto, dbVars, Fault, OpenOnes, TypeOK, PlacedByRequest
<1>12. ASSUME NEW r \in Requests, MatchThrows(r)
      PROVE  PlacedByRequest'
  BY <1>12 DEF MatchThrows, Goto, Unlock, Fault, TypeOK, PlacedByRequest
<1>13. ASSUME NEW r \in Requests, NEW o \in Orders, RemoveMatchedThrows(r, o)
      PROVE  PlacedByRequest'
  BY <1>13 DEF RemoveMatchedThrows, Goto, dbVars, Fault, TypeOK, PlacedByRequest
<1>14. ASSUME NEW o \in Orders, CancelOrder(o)
      PROVE  PlacedByRequest'
  BY <1>14 DEF CancelOrder, Forget, TypeOK, PlacedByRequest
<1>15. ASSUME NEW o \in Orders, RemoveCancelled(o)
      PROVE  PlacedByRequest'
  BY <1>15 DEF RemoveCancelled, dbVars, TypeOK, PlacedByRequest
<1>16. ASSUME NEW o \in Orders, RemoveCancelledThrows(o)
      PROVE  PlacedByRequest'
  BY <1>16 DEF RemoveCancelledThrows, dbVars, Fault, TypeOK, PlacedByRequest
<1>17. ASSUME CrashAndRebuild
      PROVE  PlacedByRequest'
  BY <1>17 DEF CrashAndRebuild, Fault, Unlocked, TypeOK, PlacedByRequest
<1>18. ASSUME RedisRestarts
      PROVE  PlacedByRequest'
  BY <1>18 DEF RedisRestarts, dbVars, Fault, OpenOnes, handlerVars, TypeOK,
               PlacedByRequest
<1>19. CASE UNCHANGED vars
  BY <1>19 DEF vars, dbVars, handlerVars, TypeOK, PlacedByRequest
<1>20. ASSUME NEW r \in Requests, InsertRefused(r)
      PROVE  PlacedByRequest'
  BY <1>20 DEF InsertRefused, Goto, dbVars, TypeOK, PlacedByRequest
<1>21. ASSUME NEW r \in Requests, InsertThrows(r)
      PROVE  PlacedByRequest'
  BY <1>21 DEF InsertThrows, Fault, Goto, TypeOK, PlacedByRequest
<1>. QED
  BY <1>1, <1>2, <1>3, <1>4, <1>5, <1>6, <1>7, <1>8, <1>9, <1>10, <1>11,
     <1>12, <1>13, <1>14, <1>15, <1>16, <1>17, <1>18, <1>19, <1>20, <1>21
     DEF Next, Step, Trouble

\* The invariant holds throughout.
THEOREM OrderBookInvariant == Spec => []OrderBookInv
<1>1. OrderBookInv /\ [Next]_vars => OrderBookInv'
  BY TypesKept, LocksKept, HandlersKept, MatchedOnceKept, VisibleKept, SkippedKept,
     PlacedKept
     DEF OrderBookInv
<1>. QED BY <1>1, InitEstablishes, PTL DEF Spec

\* The state is well typed, and no order arrives twice (placeOrder).
THEOREM BookTypeCorrect == Spec => []TypeOK
  BY OrderBookInvariant, PTL DEF OrderBookInv

\* However attempts to match and cancellations of any orders interleave, nobody
\* is matched twice, with an order that does not fit, or cancelled as well
\* (tryMatchOrder, cancelOrder).
THEOREM NobodyMatchedTwice == Spec => []MatchedOnce
  BY OrderBookInvariant, PTL DEF OrderBookInv

\* Every step of the interleaved handlers places, cancels or matches orders, or
\* changes nothing an order's user may rely on: the row locks make a match of two
\* read orders one step on two open orders (tryMatchOrder, cancelOrder).
THEOREM BookImplementsOrderLifecycle == Spec => ImplementsOrderLifecycle
<1>. DEFINE abs(s) == IF s = "MATCH_PENDING" THEN "MATCHED" ELSE s
            absOrder == [o \in Orders |-> abs(status[o])]
<1>1. Init => OrderLife!Init
  BY DEF Init, OrderLife!Init
<1>2. OrderBookInv /\ [Next]_vars => [OrderLife!Next]_<<absOrder, pairs>>
  <2> SUFFICES ASSUME OrderBookInv, [Next]_vars, <<absOrder, pairs>>' # <<absOrder, pairs>>
               PROVE  OrderLife!Next
    OBVIOUS
  <2>. TypeOK /\ LocksHeld
    BY DEF OrderBookInv
  <2>1. ASSUME NEW r \in Requests, Insert(r) \/ InsertThrows(r)
        PROVE  OrderLife!Next
    <3>1. OrderLife!Place(OrderOf[r])
      BY <2>1 DEF Insert, InsertThrows, TypeOK, OrderLife!Place
    <3>. QED BY <3>1 DEF OrderLife!Next
  <2>2. ASSUME NEW o \in Orders, CancelOrder(o)
        PROVE  OrderLife!Next
    <3>1. OrderLife!Cancel(o)
      BY <2>2 DEF CancelOrder, TypeOK, OrderLife!Cancel
    <3>. QED BY <3>1 DEF OrderLife!Next
  <2>3. ASSUME NEW r \in Requests, CommitMatch(r) \/ CommitMatchThrows(r)
        PROVE  OrderLife!Next
    <3>1. PICK o \in Orders, c \in Orders : o = OrderOf[r] /\ c = partner[r]
      BY <2>3 DEF CommitMatch, CommitMatchThrows, Match, Pair, LocksHeld
    <3>2. Fits(o, c) /\ status[o] = "OPEN" /\ status[c] = "OPEN"
      BY <2>3, <3>1 DEF CommitMatch, CommitMatchThrows, Match, Pair, LocksHeld, Matching
    <3>3. OrderLife!Match(o, c)
      BY <2>3, <3>1, <3>2
         DEF CommitMatch, CommitMatchThrows, Match, Pair, TypeOK, OrderLife!Match
    <3>. QED BY <3>3 DEF OrderLife!Next
  <2>4. ~UNCHANGED <<status, pairs>>
    OBVIOUS
  <2>5. \A r \in Requests :
           ~LookUp(r) /\ ~InsertRefused(r) /\ ~InsertConflicts(r)
           /\ ~Project(r) /\ ~LockOwnOrder(r)
           /\ ~OwnOrderNotOpen(r) /\ ~FindCounterparty(r) /\ ~EndWithoutMatch(r)
           /\ (\A o \in Orders : ~RemoveMatched(r, o))
    BY <2>4 DEF LookUp, InsertRefused, InsertConflicts, Project, LockOwnOrder, OwnOrderNotOpen,
                FindCounterparty, EndWithoutMatch, RemoveMatched, dbVars
  <2>6. CASE Trouble
    <3>1. PICK r \in Requests : InsertThrows(r) \/ CommitMatchThrows(r)
      BY <2>4, <2>6 DEF Trouble, CrashAndRebuild, RedisRestarts, ProjectThrows, MatchThrows,
                        RemoveMatchedThrows, RemoveCancelledThrows, dbVars
    <3>. QED BY <2>1, <2>3, <3>1
  <2>7. \A o \in Orders : ~RemoveCancelled(o)
    BY <2>4 DEF RemoveCancelled, dbVars
  <2>8. ~UNCHANGED vars
    BY <2>4 DEF vars, dbVars
  <2>. QED BY <2>1, <2>2, <2>3, <2>5, <2>6, <2>7, <2>8 DEF Next, Step
<1>3. Spec => OrderLife!Spec
  BY <1>1, <1>2, OrderBookInvariant, PTL DEF Spec, OrderLife!Spec
<1>. QED BY <1>3 DEF ImplementsOrderLifecycle

\* Only a placeOrder that throws, its COMMIT included, or a restart of Redis hides an
\* open order (placeOrder, removeOpenOrder, rebuildFromOpenOrders).
THEOREM OpenStaysVisible == Spec => []OpenIsVisible
  BY OrderBookInvariant, PTL DEF OrderBookInv

\* Unless something goes wrong, orders that fit rest beside each other only
\* after one was passed over while its row was locked (tryMatchOrder).
THEOREM RestOnlyIfSkipped == Spec => []CrossedOnlyIfSkipped
<1>1. OrderBookInv => CrossedOnlyIfSkipped
  <2> SUFFICES ASSUME OrderBookInv, NEW o \in Orders, NEW c \in Orders, Crossed(o, c),
                      troubles = 0
               PROVE  c \in skipped[o] \/ o \in skipped[c]
    BY DEF CrossedOnlyIfSkipped, OrderBookInv, TypeOK
  <2>1. \A x \in {o, c} : Tried(x)
    BY DEF Crossed, Busy, OrderBookInv, PlacedByRequest, Tried
  <2>. QED BY <2>1 DEF Crossed, OrderBookInv, TriedIsSkipped
<1>. QED BY <1>1, OrderBookInvariant, PTL
=============================================================================
