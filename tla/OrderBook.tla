------------------------------ MODULE OrderBook ------------------------------
(***************************************************************************)
(* Placing, matching and cancelling orders, and the order book in Redis    *)
(* that follows them, as the handlers of concurrent requests run them: a   *)
(* handler gives way at every await, so between its transactions and its   *)
(* calls to Redis any other handler may run.  The matching transaction is  *)
(* split at its two locking reads, since SKIP LOCKED makes its outcome     *)
(* depend on which rows other transactions hold.                           *)
(*                                                                         *)
(* Wallets, markets and the settlement that follows a match are left to    *)
(* Trading and Settlement: an order that is matched stays out of the book. *)
(***************************************************************************)
EXTENDS Integers, Sequences

CONSTANTS
    Orders,
    Fits(_, _),     \* two orders are complementary (same market and quantity)
    Requests,       \* placeOrder requests, repeated ones included
    OrderOf,        \* the order each asks for, by user and idempotency key
    Cancellable,    \* bound: the orders their users may cancel
    NoRequest,
    NoOrder,
    MaxTroubles     \* bound: calls to PostgreSQL or Redis that throw, crashes of
                    \* the API process, restarts of Redis

ASSUME OrderBookAssumption ==
    /\ OrderOf \in [Requests -> Orders]
    /\ Cancellable \subseteq Orders
    /\ NoRequest \notin Requests /\ NoOrder \notin Orders
    /\ MaxTroubles \in Nat
    /\ \A o, c \in Orders : Fits(o, c) => o # c /\ Fits(c, o)

VARIABLES
    status,         \* of each order in PostgreSQL; "NONE" before it is placed
    arrival,        \* the orders by created_at
    pairs,          \* the trades, as pairs of orders
    book,           \* orders in Redis: side set and hash, written together
    pc,             \* where each placeOrder request is
    seen,           \* the status it read of its order, until it has projected it
    rowLock,        \* the request whose transaction locks an order's row
    partner,        \* the counterparty a matching transaction has found
    removing,       \* matched orders a request has still to take off the book
    cancelling,     \* cancelled orders that are still to be taken off
    skipped,        \* history: locked counterparties the order's attempts passed over
    hidden,         \* history: orders a throwing call or Redis itself kept from the
                    \* book since the API last started or they were last projected
    troubles

dbVars      == <<status, arrival, pairs, rowLock>>
handlerVars == <<pc, seen, partner, removing, cancelling>>
vars        == <<dbVars, handlerVars, book, skipped, hidden, troubles>>

TypeOK ==
    /\ status \in [Orders -> {"NONE", "OPEN", "MATCH_PENDING", "CANCELLED"}]
    /\ arrival \in Seq(Orders)
    /\ \A i, j \in 1 .. Len(arrival) : arrival[i] = arrival[j] => i = j
    /\ pairs \subseteq SUBSET Orders
    /\ book \subseteq Orders
    /\ pc \in [Requests -> {"new", "insert", "project", "match", "find", "none",
                            "commit", "remove", "over", "refused"}]
    /\ seen \in [Requests -> {"NONE", "OPEN", "MATCH_PENDING", "CANCELLED"}]
    /\ rowLock \in [Orders -> Requests \cup {NoRequest}]
    /\ partner \in [Requests -> Orders \cup {NoOrder}]
    /\ removing \in [Requests -> SUBSET Orders]
    /\ cancelling \subseteq Orders
    /\ skipped \in [Orders -> SUBSET Orders]
    /\ hidden \subseteq Orders
    /\ troubles \in 0 .. MaxTroubles

Init ==
    /\ status = [o \in Orders |-> "NONE"]
    /\ arrival = <<>>
    /\ pairs = {}
    /\ book = {}
    /\ pc = [r \in Requests |-> "new"]
    /\ seen = [r \in Requests |-> "NONE"]
    /\ rowLock = [o \in Orders |-> NoRequest]
    /\ partner = [r \in Requests |-> NoOrder]
    /\ removing = [r \in Requests |-> {}]
    /\ cancelling = {}
    /\ skipped = [o \in Orders |-> {}]
    /\ hidden = {}
    /\ troubles = 0

Goto(r, step) == pc' = [pc EXCEPT ![r] = step]

\* Something goes wrong.
Fault == troubles < MaxTroubles /\ troubles' = troubles + 1

Unlocked == [o \in Orders |-> NoRequest]

OpenOnes(S) == {o \in S : status[o] = "OPEN"}

\* The histories are kept for open orders only: those of S are open no more.
Forget(S) ==
    /\ skipped' = [o \in Orders |-> IF o \in S THEN {} ELSE skipped[o] \ S]
    /\ hidden' = hidden \ S

\* Wrong on purpose: the transaction of a request is never ended.
UnlockNothing(r) == UNCHANGED rowLock

\* The transaction of a request ends and frees its rows.
Unlock(r) == rowLock' = [o \in Orders |-> IF rowLock[o] = r THEN NoRequest
                                          ELSE rowLock[o]]

-----------------------------------------------------------------------------
(* placeOrder.                                                             *)

\* The transaction looks for an order with the user's key, without a lock.
LookUp(r) ==
    LET o == OrderOf[r]
    IN  /\ pc[r] = "new"
        /\ seen' = [seen EXCEPT ![r] = status[o]]
        /\ Goto(r, IF status[o] = "NONE" THEN "insert" ELSE "project")
        /\ UNCHANGED <<dbVars, partner, removing, cancelling, book, skipped,
                       hidden, troubles>>

\* It inserts the order, reserves its collateral and commits.
Insert(r) ==
    LET o == OrderOf[r]
    IN  /\ pc[r] = "insert"
        /\ status[o] = "NONE"
        /\ status' = [status EXCEPT ![o] = "OPEN"]
        /\ arrival' = Append(arrival, o)
        /\ seen' = [seen EXCEPT ![r] = "OPEN"]
        /\ Goto(r, "project")
        /\ UNCHANGED <<pairs, rowLock, partner, removing, cancelling, book, skipped,
                       hidden, troubles>>

\* The market is not open or the balance too small: the transaction rolls back.
InsertRefused(r) ==
    /\ pc[r] = "insert"
    /\ status[OrderOf[r]] = "NONE"
    /\ Goto(r, "refused")
    /\ UNCHANGED <<dbVars, seen, partner, removing, cancelling, book, skipped,
                   hidden, troubles>>

\* The transaction throws, and the request with it: it is rolled back, or committed
\* and the answer lost.  Nobody projects the order then, nor tries to match it.
InsertThrows(r) ==
    LET o == OrderOf[r]
    IN  /\ pc[r] = "insert"
        /\ status[o] = "NONE"
        /\ Fault
        /\ \/ UNCHANGED <<status, arrival, hidden>>
           \/ /\ status' = [status EXCEPT ![o] = "OPEN"]
              /\ arrival' = Append(arrival, o)
              /\ hidden' = hidden \cup {o}
        /\ Goto(r, "over")
        /\ UNCHANGED <<pairs, rowLock, seen, partner, removing, cancelling, book, skipped>>

\* Wrong on purpose: nothing keeps a second request from inserting the order.
InsertAgain(r) ==
    /\ pc[r] = "insert"
    /\ status[OrderOf[r]] # "NONE"
    /\ arrival' = Append(arrival, OrderOf[r])
    /\ seen' = [seen EXCEPT ![r] = "OPEN"]
    /\ Goto(r, "project")
    /\ UNCHANGED <<status, pairs, rowLock, partner, removing, cancelling, book, skipped,
                   hidden, troubles>>

\* Another request with the key committed meanwhile: the insert violates UNIQUE
\* (user_id, idempotency_key), which the exception filter answers as a conflict.
InsertConflicts(r) ==
    /\ pc[r] = "insert"
    /\ status[OrderOf[r]] # "NONE"
    /\ Goto(r, "refused")
    /\ UNCHANGED <<dbVars, seen, partner, removing, cancelling, book, skipped,
                   hidden, troubles>>

\* projectOpenOrder goes by the status in memory.
Project(r) ==
    /\ pc[r] = "project"
    /\ IF seen[r] = "OPEN"
       THEN book' = book \cup {OrderOf[r]} /\ hidden' = hidden \ {OrderOf[r]}
       ELSE UNCHANGED <<book, hidden>>
    /\ seen' = [seen EXCEPT ![r] = "NONE"]
    /\ Goto(r, "match")
    /\ UNCHANGED <<dbVars, partner, removing, cancelling, skipped, troubles>>

\* It throws, before or after Redis has done it, and the request with it: no
\* match is tried.
ProjectThrows(r) ==
    /\ pc[r] = "project"
    /\ seen[r] = "OPEN"
    /\ Fault
    /\ book' \in {book, book \cup {OrderOf[r]}}
    /\ hidden' = OpenOnes(hidden \cup {OrderOf[r]})
    /\ seen' = [seen EXCEPT ![r] = "NONE"]
    /\ Goto(r, "over")
    /\ UNCHANGED <<dbVars, partner, removing, cancelling, skipped>>

-----------------------------------------------------------------------------
(* tryMatchOrder.                                                          *)

\* SELECT ... FOR UPDATE of the order itself.
LockOwnOrder(r) ==
    LET o == OrderOf[r]
    IN  /\ pc[r] = "match"
        /\ rowLock[o] = NoRequest
        /\ status[o] = "OPEN"
        /\ rowLock' = [rowLock EXCEPT ![o] = r]
        /\ Goto(r, "find")
        /\ UNCHANGED <<status, arrival, pairs, seen, partner, removing, cancelling, book,
                       skipped, hidden, troubles>>

\* Wrong on purpose: an order whose row is locked is not waited for.
OwnOrderBusy(r) ==
    /\ pc[r] = "match"
    /\ rowLock[OrderOf[r]] # NoRequest \/ status[OrderOf[r]] # "OPEN"
    /\ Goto(r, "over")
    /\ UNCHANGED <<dbVars, seen, partner, removing, cancelling, book, skipped,
                   hidden, troubles>>

OwnOrderNotOpen(r) ==
    /\ pc[r] = "match"
    /\ rowLock[OrderOf[r]] = NoRequest
    /\ status[OrderOf[r]] # "OPEN"
    /\ Goto(r, "over")
    /\ UNCHANGED <<dbVars, seen, partner, removing, cancelling, book, skipped,
                   hidden, troubles>>

Counterparties(o) == {c \in Orders : Fits(o, c) /\ status[c] = "OPEN"}

\* c is the first of S by created_at.
IsOldest(c, S) ==
    /\ c \in S
    /\ \E i \in 1 .. Len(arrival) :
          arrival[i] = c /\ \A j \in 1 .. i - 1 : arrival[j] \notin S

\* Wrong on purpose: the counterparties are read and not locked.
FindCounterpartyUnlocked(r) ==
    LET o == OrderOf[r]
    IN  /\ pc[r] = "find"
        /\ \/ /\ Counterparties(o) = {}
              /\ Goto(r, "none")
              /\ UNCHANGED <<rowLock, partner>>
           \/ /\ \E c \in Orders :
                    IsOldest(c, Counterparties(o)) /\ partner' = [partner EXCEPT ![r] = c]
              /\ Goto(r, "commit")
              /\ UNCHANGED rowLock
        /\ UNCHANGED <<status, arrival, pairs, seen, removing, cancelling, book,
                       skipped, hidden, troubles>>

\* SELECT ... FOR UPDATE SKIP LOCKED of the counterparties, oldest first.  The
\* query has no LIMIT: it locks every row it returns and the first is used.
FindCounterparty(r) ==
    LET o == OrderOf[r]
        free == {c \in Counterparties(o) : rowLock[c] = NoRequest}
    IN  /\ pc[r] = "find"
        /\ skipped' = [skipped EXCEPT ![o] = @ \cup (Counterparties(o) \ free)]
        /\ \/ /\ free = {}
              /\ Goto(r, "none")
              /\ UNCHANGED <<rowLock, partner>>
           \/ /\ \E c \in Orders :
                    IsOldest(c, free) /\ partner' = [partner EXCEPT ![r] = c]
              /\ rowLock' = [c \in Orders |-> IF c \in free THEN r ELSE rowLock[c]]
              /\ Goto(r, "commit")
        /\ UNCHANGED <<status, arrival, pairs, seen, removing, cancelling, book,
                       hidden, troubles>>

\* No counterparty: the transaction commits, and only then frees its order.
EndWithoutMatch(r) ==
    /\ pc[r] = "none"
    /\ Unlock(r)
    /\ Goto(r, "over")
    /\ UNCHANGED <<status, arrival, pairs, seen, partner, removing, cancelling, book,
                   skipped, hidden, troubles>>

Pair(r) == {OrderOf[r], partner[r]}

\* Both orders and their trade are saved and committed.
Match(r) ==
    /\ pc[r] = "commit"
    /\ status' = [o \in Orders |-> IF o \in Pair(r) THEN "MATCH_PENDING" ELSE status[o]]
    /\ pairs' = pairs \cup {Pair(r)}
    /\ Unlock(r)
    /\ partner' = [partner EXCEPT ![r] = NoOrder]
    /\ Forget(Pair(r))
    /\ UNCHANGED <<arrival, seen, cancelling, book>>

CommitMatch(r) ==
    /\ Match(r)
    /\ removing' = [removing EXCEPT ![r] = Pair(r)]
    /\ Goto(r, "remove")
    /\ UNCHANGED troubles

\* The answer to the COMMIT is lost: the call throws, which is logged, and nobody
\* takes the matched orders off the book.
CommitMatchThrows(r) ==
    /\ Match(r)
    /\ Fault
    /\ Goto(r, "over")
    /\ UNCHANGED removing

\* The transaction throws and rolls back; placeOrder only logs it.
MatchThrows(r) ==
    /\ pc[r] \in {"match", "find", "none", "commit"}
    /\ Fault
    /\ Unlock(r)
    /\ partner' = [partner EXCEPT ![r] = NoOrder]
    /\ Goto(r, "over")
    /\ UNCHANGED <<status, arrival, pairs, seen, removing, cancelling, book, skipped, hidden>>

\* removeOpenOrder of both orders, in either order.
RemoveMatched(r, o) ==
    /\ o \in removing[r]
    /\ book' = book \ {o}
    /\ removing' = [removing EXCEPT ![r] = @ \ {o}]
    /\ Goto(r, IF removing[r] = {o} THEN "over" ELSE "remove")
    /\ UNCHANGED <<dbVars, seen, partner, cancelling, skipped, hidden, troubles>>

\* It throws, before or after Redis has done it, which is logged.
RemoveMatchedThrows(r, o) ==
    /\ o \in removing[r]
    /\ Fault
    /\ book' \in {book, book \ {o}}
    /\ removing' = [removing EXCEPT ![r] = @ \ {o}]
    /\ Goto(r, IF removing[r] = {o} THEN "over" ELSE "remove")
    /\ UNCHANGED <<dbVars, seen, partner, cancelling, skipped, hidden>>

-----------------------------------------------------------------------------
(* cancelOrder.                                                            *)

\* Wrong on purpose: the status is read without waiting for the row.
CancelOrderUnlocked(o) ==
    /\ o \in Cancellable
    /\ status[o] = "OPEN"
    /\ status' = [status EXCEPT ![o] = "CANCELLED"]
    /\ cancelling' = cancelling \cup {o}
    /\ Forget({o})
    /\ UNCHANGED <<arrival, pairs, rowLock, pc, seen, partner, removing, book, troubles>>

\* Its transaction waits for the row and reads the status under the lock.
CancelOrder(o) ==
    /\ o \in Cancellable
    /\ rowLock[o] = NoRequest
    /\ status[o] = "OPEN"
    /\ status' = [status EXCEPT ![o] = "CANCELLED"]
    /\ cancelling' = cancelling \cup {o}
    /\ Forget({o})
    /\ UNCHANGED <<arrival, pairs, rowLock, pc, seen, partner, removing, book, troubles>>

RemoveCancelled(o) ==
    /\ o \in cancelling
    /\ book' = book \ {o}
    /\ cancelling' = cancelling \ {o}
    /\ UNCHANGED <<dbVars, pc, seen, partner, removing, skipped, hidden, troubles>>

\* It throws, before or after Redis has done it, or the COMMIT before it did: the order
\* is cancelled and may stay in the book.
RemoveCancelledThrows(o) ==
    /\ o \in cancelling
    /\ Fault
    /\ book' \in {book, book \ {o}}
    /\ cancelling' = cancelling \ {o}
    /\ UNCHANGED <<dbVars, pc, seen, partner, removing, skipped, hidden>>

-----------------------------------------------------------------------------
\* Wrong on purpose: startup clears the projection and does not build it.
CrashAndClear ==
    /\ Fault
    /\ hidden' = {}
    /\ book' = {}
    /\ rowLock' = Unlocked
    /\ pc' = [r \in Requests |-> IF pc[r] \in {"new", "refused"} THEN pc[r] ELSE "over"]
    /\ partner' = [r \in Requests |-> NoOrder]
    /\ seen' = [r \in Requests |-> "NONE"]
    /\ removing' = [r \in Requests |-> {}]
    /\ cancelling' = {}
    /\ UNCHANGED <<status, arrival, pairs, skipped>>

\* The process dies with its handlers; the one that takes its place deletes the
\* projection and builds it from the open orders before it listens.
CrashAndRebuild ==
    /\ Fault
    /\ hidden' = {}
    /\ book' = {o \in Orders : status[o] = "OPEN"}
    /\ rowLock' = Unlocked
    /\ pc' = [r \in Requests |-> IF pc[r] \in {"new", "refused"} THEN pc[r] ELSE "over"]
    /\ partner' = [r \in Requests |-> NoOrder]
    /\ seen' = [r \in Requests |-> "NONE"]
    /\ removing' = [r \in Requests |-> {}]
    /\ cancelling' = {}
    /\ UNCHANGED <<status, arrival, pairs, skipped>>

\* Redis restarts, without its data (docker-compose.yml keeps none on disk), and
\* the API goes on: nothing puts the open orders back before it starts again.
RedisRestarts ==
    /\ Fault
    /\ hidden' = OpenOnes(hidden \cup book)
    /\ book' = {}
    /\ UNCHANGED <<dbVars, handlerVars, skipped>>

Step(r) ==
    \/ Insert(r) \/ InsertRefused(r) \/ InsertConflicts(r) \/ Project(r)
    \/ LockOwnOrder(r) \/ OwnOrderNotOpen(r) \/ FindCounterparty(r)
    \/ EndWithoutMatch(r) \/ CommitMatch(r)
    \/ \E o \in Orders : RemoveMatched(r, o)

Trouble ==
    \/ CrashAndRebuild
    \/ RedisRestarts
    \/ \E r \in Requests :
          \/ InsertThrows(r) \/ ProjectThrows(r) \/ MatchThrows(r) \/ CommitMatchThrows(r)
          \/ \E o \in Orders : RemoveMatchedThrows(r, o)
    \/ \E o \in Orders : RemoveCancelledThrows(o)

Next ==
    \/ Trouble
    \/ \E r \in Requests : LookUp(r) \/ Step(r)
    \/ \E o \in Orders : CancelOrder(o) \/ RemoveCancelled(o)

\* A handler that has started goes on; nobody has to place or cancel an order.
Fairness ==
    /\ \A r \in Requests : WF_vars(Step(r))
    /\ \A o \in Orders : WF_vars(RemoveCancelled(o))

Spec == Init /\ [][Next]_vars /\ Fairness

-----------------------------------------------------------------------------
(* What must hold.                                                         *)

\* However matching attempts and cancellations interleave, an order is matched
\* at most once, with one that fits it, and neither is cancelled as well: the
\* rows a matching transaction has read stay as they were until it commits
\* (tryMatchOrder's locks, cancelOrder's lock).
MatchedOnce ==
    /\ \A p \in pairs : \E o, c \in p : p = {o, c} /\ Fits(o, c)
    /\ \A p, q \in pairs : p # q => p \cap q = {}
    /\ \A o \in Orders : status[o] = "MATCH_PENDING" <=> o \in UNION pairs

\* An order that can be matched is in the book, or the handler that places it
\* there is on its way: only a placeOrder that throws, in the COMMIT of its
\* transaction or in the call to Redis that follows, or a restart of Redis hides an
\* open order, and no longer than to the next startup of the API or until its user
\* sends the request again (projectOpenOrder, removeOpenOrder,
\* rebuildFromOpenOrders).
OpenIsVisible ==
    \A o \in Orders : status[o] = "OPEN" /\ o \notin book =>
        \/ o \in hidden
        \/ \E r \in Requests : OrderOf[r] = o /\ pc[r] = "project"

Busy(o) == \/ \E r \in Requests : OrderOf[r] = o /\ pc[r] \notin {"new", "over", "refused"}
           \/ \E r \in Requests : o \in removing[r]
           \/ o \in cancelling

\* Two orders that fit and whose handlers are through.
Crossed(o, c) ==
    Fits(o, c) /\ \A x \in {o, c} : status[x] = "OPEN" /\ ~Busy(x)

\* If no call throws and no process dies, the one reason why two orders that fit
\* rest beside each other is that one attempt to match passed over the other
\* order while its row was locked (the SKIP LOCKED of tryMatchOrder).
CrossedOnlyIfSkipped ==
    \A o, c \in Orders : Crossed(o, c) =>
        \/ c \in skipped[o] \/ o \in skipped[c]
        \/ troubles > 0

\* Every placeOrder request that has started is answered, and what it took on
\* is done: no transaction keeps a row another handler waits for
\* (tryMatchOrder).  Requests do not come back, so they end for good.
EveryRequestEnds ==
    <>[](\A r \in Requests : pc[r] \in {"new", "over", "refused"})

OrderLife == INSTANCE OrderLifecycle WITH
    Suits   <- Fits,
    order   <- [o \in Orders |-> IF status[o] = "MATCH_PENDING" THEN "MATCHED" ELSE status[o]],
    matches <- pairs

\* Whichever requests place, repeat, match and cancel at once, and whatever throws
\* or dies, an order goes its way from open to cancelled or matched, and a match
\* takes both orders from open in one step (the transactions of placeOrder,
\* tryMatchOrder and cancelOrder).
ImplementsOrderLifecycle == OrderLife!Spec

-----------------------------------------------------------------------------
(* What the documentation says and the code does not do.                   *)

\* "matched orders are removed from the open order book" (full-flow.e2e-spec.ts):
\* once all handlers are through, the book shows open orders only.
BookShowsOpenOrders ==
    (\A o \in Orders : ~Busy(o)) => \A o \in book : status[o] = "OPEN"
=============================================================================
