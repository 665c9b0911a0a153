------------------------------ MODULE Realtime ------------------------------
(***************************************************************************)
(* How a page of the web client follows what the server commits: the       *)
(* market page its order book, the wallet page its balances.  A handler of *)
(* the server changes the value, reads it again and emits it to a room;    *)
(* the page fetches it over HTTP, overwrites it with whatever the socket   *)
(* brings, and fetches again after a reconnect, when a trade is announced, *)
(* when a mutation of its own succeeds and, on the market page, every five *)
(* seconds.  Values are versions: the number of changes so far.            *)
(***************************************************************************)
EXTENDS Integers, Sequences, FiniteSets

CONSTANTS
    Handlers,       \* handlers that change the value, one change each
    Mine,           \* those that answer a request of this page
    MaxFaults,      \* bound: reads, fetches and authentications that fail
    MaxDrops        \* bound: lost connections

ASSUME RealtimeAssumption ==
    /\ IsFiniteSet(Handlers) /\ Mine \subseteq Handlers
    /\ MaxFaults \in Nat /\ MaxDrops \in Nat

VARIABLES
    page,           \* which page is open
    current,        \* the version in Redis or PostgreSQL
    handler,        \* where each handler is
    copy,           \* the version a handler has read
    link,           \* the page's socket, up to its membership of the room
    shouldRecover,  \* the connection was lost and not restored yet
    inbox,          \* messages on the connection, oldest first
    fetch,          \* the query's request
    answer,         \* the version in the answer that is under way
    retried,        \* the request is the retry of one that failed
    shown,          \* what the page shows
    missed,         \* history: ways in which changes have passed by the page
    faults, drops

serverVars == <<current, handler, copy>>
socketVars == <<link, shouldRecover, inbox, drops>>
queryVars  == <<fetch, answer, retried, shown>>
vars       == <<page, serverVars, socketVars, queryVars, missed, faults>>

Versions == 0 .. Cardinality(Handlers)

Nothing == -1

TradeCreated == [event |-> "trade-created", version |-> Nothing]

Update(v) == [event |-> "update", version |-> v]

TypeOK ==
    /\ page \in {"market", "wallet"}
    /\ current \in Versions
    /\ handler \in [Handlers -> {"idle", "changed", "announced", "read",
                                 "answered", "over"}]
    /\ copy \in [Handlers -> Versions]
    /\ link \in {"down", "up", "joined", "refused"}
    /\ shouldRecover \in BOOLEAN
    /\ inbox \in Seq({TradeCreated} \cup {Update(v) : v \in Versions})
    /\ Len(inbox) <= 2 * Cardinality(Handlers)
    /\ fetch \in {"none", "sent", "answered"}
    /\ answer \in Versions
    /\ retried \in BOOLEAN
    /\ shown \in Versions \cup {Nothing}
    /\ missed \subseteq {"unannounced", "gap", "ignored", "overtaken"}
    /\ faults \in 0 .. MaxFaults
    /\ drops \in 0 .. MaxDrops

\* The page is mounted: its query is sent, its socket connects.
Init ==
    /\ page \in {"market", "wallet"}
    /\ current = 0
    /\ handler = [h \in Handlers |-> "idle"]
    /\ copy = [h \in Handlers |-> 0]
    /\ link = "down" /\ shouldRecover = FALSE /\ inbox = <<>> /\ drops = 0
    /\ fetch = "sent" /\ answer = 0 /\ retried = FALSE /\ shown = Nothing
    /\ missed = {} /\ faults = 0

Fault == faults < MaxFaults /\ faults' = faults + 1

-----------------------------------------------------------------------------
(* The server.                                                             *)

\* An order is projected or removed, a wallet transaction commits.
Change(h) ==
    /\ handler[h] = "idle"
    /\ current' = current + 1
    /\ handler' = [handler EXCEPT ![h] = "changed"]
    /\ UNCHANGED <<page, copy, socketVars, queryVars, missed, faults>>

\* Wrong on purpose: a request that was answered is made again.
FinishAndRepeat(h) == handler' = [handler EXCEPT ![h] = "idle"]

\* The handler has nothing more to send; the page waits for it if it asked.
Finish(h) == handler' = [handler EXCEPT ![h] = IF h \in Mine THEN "answered" ELSE "over"]

\* Emitting to a room reaches who is in it, and nobody else later.  After a
\* lost connection the page fetches again; otherwise what it misses is gone.
Emit(message) ==
    /\ inbox' = IF link = "joined" THEN Append(inbox, message) ELSE inbox
    /\ missed' = IF link = "joined" \/ shouldRecover THEN missed
                 ELSE missed \cup {"gap"}

\* Deposits, reservations, cancellations and payouts broadcast no balance, and
\* a match whose settlement could not be enqueued broadcasts no order book.
ChangeUnannounced(h) ==
    /\ handler[h] = "changed"
    /\ Finish(h)
    /\ missed' = IF h \in Mine THEN missed ELSE missed \cup {"unannounced"}
    /\ UNCHANGED <<page, current, copy, socketVars, queryVars, faults>>

\* A match is announced before the order book is read.
BroadcastTradeCreated(h) ==
    /\ page = "market"
    /\ handler[h] = "changed"
    /\ handler' = [handler EXCEPT ![h] = "announced"]
    /\ Emit(TradeCreated)
    /\ UNCHANGED <<page, current, copy, link, shouldRecover, drops, queryVars, faults>>

\* Order book or wallet is read, after the change and outside its transaction.
\* What the wallet page asks for, deposits and withdrawals, is not broadcast.
Read(h) ==
    /\ handler[h] \in {"changed", "announced"}
    /\ page = "market" \/ h \notin Mine
    /\ copy' = [copy EXCEPT ![h] = current]
    /\ handler' = [handler EXCEPT ![h] = "read"]
    /\ UNCHANGED <<page, current, socketVars, queryVars, missed, faults>>

\* It throws, which is logged; nothing is emitted.
ReadThrows(h) ==
    /\ handler[h] \in {"changed", "announced"}
    /\ Fault
    /\ Finish(h)
    /\ UNCHANGED <<page, current, copy, socketVars, queryVars, missed>>

\* What was read is emitted when its answer is processed, which is not the
\* order in which handlers read.
Broadcast(h) ==
    /\ handler[h] = "read"
    /\ Emit(Update(copy[h]))
    /\ copy' = [copy EXCEPT ![h] = 0]
    /\ Finish(h)
    /\ UNCHANGED <<page, current, link, shouldRecover, drops, queryVars, faults>>

-----------------------------------------------------------------------------
(* The page's query.                                                       *)

Loading == shown = Nothing /\ fetch # "none"

\* Invalidating it sends a new request and drops the one under way, unless the
\* page is still loading: then it goes on to wait for the first.
Invalidate ==
    /\ \/ /\ ~Loading
          /\ fetch' = "sent" /\ retried' = FALSE /\ answer' = 0
          /\ UNCHANGED missed
       \/ /\ Loading
          /\ missed' = IF fetch = "answered" THEN missed \cup {"ignored"} ELSE missed
          /\ UNCHANGED <<fetch, retried, answer>>
    /\ UNCHANGED shown

\* Whatever arrives last is shown, older or not.
Show(v) ==
    /\ shown' = v
    /\ missed' = IF v = current THEN {}
                 ELSE IF v < shown THEN missed \cup {"overtaken"} ELSE missed

AnswerFetch ==
    /\ fetch = "sent"
    /\ fetch' = "answered"
    /\ answer' = current
    /\ UNCHANGED <<page, serverVars, socketVars, retried, shown, missed, faults>>

FetchArrives ==
    /\ fetch = "answered"
    /\ fetch' = "none"
    /\ retried' = FALSE
    /\ Show(answer)
    /\ answer' = 0
    /\ UNCHANGED <<page, serverVars, socketVars, faults>>

\* The request fails or takes more than ten seconds; it is tried once more.
FetchFails ==
    /\ fetch # "none"
    /\ Fault
    /\ fetch' = IF retried THEN "none" ELSE "sent"
    /\ retried' = ~retried
    /\ answer' = 0
    /\ UNCHANGED <<page, serverVars, socketVars, shown, missed>>

\* Wrong on purpose: polling is only the fallback of a socket that is down.
PollWhenDown ==
    /\ page = "market" /\ link = "down"
    /\ fetch = "none"
    /\ fetch' = "sent"
    /\ UNCHANGED <<page, serverVars, socketVars, answer, retried, shown, missed, faults>>

\* The market page refetches its order book every five seconds.
Poll ==
    /\ page = "market"
    /\ fetch = "none"
    /\ fetch' = "sent"
    /\ UNCHANGED <<page, serverVars, socketVars, answer, retried, shown, missed, faults>>

\* A mutation made on this page is answered: its queries are invalidated.
MutationSucceeds(h) ==
    /\ handler[h] = "answered"
    /\ handler' = [handler EXCEPT ![h] = "over"]
    /\ Invalidate
    /\ UNCHANGED <<page, current, copy, socketVars, faults>>

\* Its answer is lost or late, and the page does not fetch again.
MutationFails(h) ==
    /\ handler[h] = "answered"
    /\ Fault
    /\ handler' = [handler EXCEPT ![h] = "over"]
    /\ UNCHANGED <<page, current, copy, socketVars, queryVars, missed>>

-----------------------------------------------------------------------------
(* The page's socket.                                                      *)

\* Wrong on purpose: a restored connection is taken for a first one.
ConnectWithoutRecovery ==
    /\ link = "down"
    /\ link' = "up"
    /\ shouldRecover' = FALSE
    /\ UNCHANGED <<page, serverVars, inbox, drops, queryVars, missed, faults>>

\* The connection opens; after a loss the recovery starts at once, before the
\* page is in the room again.
Connect ==
    /\ link = "down"
    /\ link' = "up"
    /\ shouldRecover' = FALSE
    /\ IF shouldRecover THEN Invalidate ELSE UNCHANGED <<queryVars, missed>>
    /\ UNCHANGED <<page, serverVars, inbox, drops, faults>>

\* "subscribe" or "authenticate" is handled: the socket joins the room.
Join ==
    /\ link = "up"
    /\ link' = "joined"
    /\ UNCHANGED <<page, serverVars, shouldRecover, inbox, drops, queryVars, missed,
                   faults>>

\* The token of the wallet page has expired.
AuthenticationFails ==
    /\ page = "wallet"
    /\ link = "up"
    /\ Fault
    /\ link' = "refused"
    /\ UNCHANGED <<page, serverVars, shouldRecover, inbox, drops, queryVars, missed>>

\* The connection is lost with the messages on it.
Disconnect ==
    /\ link # "down"
    /\ drops < MaxDrops
    /\ drops' = drops + 1
    /\ link' = "down"
    /\ shouldRecover' = TRUE
    /\ inbox' = <<>>
    /\ UNCHANGED <<page, serverVars, queryVars, missed, faults>>

\* An update replaces what is shown; the wallet page ignores it as long as it
\* has no wallet.
ReceiveUpdate ==
    /\ inbox # <<>> /\ Head(inbox).event = "update"
    /\ inbox' = Tail(inbox)
    /\ \/ /\ page = "wallet" /\ shown = Nothing
          /\ missed' = missed \cup {"ignored"}
          /\ UNCHANGED shown
       \/ /\ page = "market" \/ shown # Nothing
          /\ Show(Head(inbox).version)
    /\ UNCHANGED <<page, serverVars, link, shouldRecover, drops, fetch, answer, retried,
                   faults>>

\* A trade invalidates the order book.
ReceiveTradeCreated ==
    /\ inbox # <<>> /\ Head(inbox).event = "trade-created"
    /\ inbox' = Tail(inbox)
    /\ Invalidate
    /\ UNCHANGED <<page, serverVars, link, shouldRecover, drops, faults>>

-----------------------------------------------------------------------------
ServerStep(h) == Read(h) \/ Broadcast(h)

PageStep ==
    \/ AnswerFetch \/ FetchArrives \/ ReceiveUpdate \/ ReceiveTradeCreated
    \/ \E h \in Handlers : MutationSucceeds(h)

Trouble ==
    \/ FetchFails \/ AuthenticationFails \/ Disconnect
    \/ \E h \in Handlers : ReadThrows(h) \/ MutationFails(h)

Next ==
    \/ \E h \in Handlers : \/ Change(h) \/ ChangeUnannounced(h)
                           \/ BroadcastTradeCreated(h) \/ ServerStep(h)
    \/ PageStep \/ Poll \/ Connect \/ Join
    \/ Trouble

\* A handler that reads goes on, requests are answered or fail, and a page in
\* front of its user polls.  That a socket connects is not assumed: it gives up
\* after eight attempts.
Fairness ==
    /\ \A h \in Handlers : WF_vars(ServerStep(h)) /\ WF_vars(MutationSucceeds(h))
    /\ WF_vars(AnswerFetch) /\ WF_vars(FetchArrives)
    /\ WF_vars(ReceiveUpdate) /\ WF_vars(ReceiveTradeCreated)
    /\ WF_vars(Poll)

Spec == Init /\ [][Next]_vars /\ Fairness

-----------------------------------------------------------------------------
(* What must hold.                                                         *)

\* Once changes stop, the market page shows the order book as it is and goes on
\* to do so, whatever was lost, late or out of order on the socket, and also if
\* the socket never connects (refetchInterval of the market page).
BookConverges == page = "market" => <>[](shown = current)

\* A page whose socket is in its room, with nothing under way in either
\* direction.
AtRest ==
    /\ link = "joined" /\ inbox = <<>> /\ fetch = "none"
    /\ \A h \in Handlers : handler[h] \in {"idle", "over"}

\* A page at rest shows the last change unless that change was not broadcast,
\* was broadcast before the page was in the room for the first time or again, met
\* a page that was still loading, or was overwritten by an older copy that came
\* later.  A lost connection by itself is no reason, nor a change that the
\* page made itself (attachReconnectRecovery, setQueryData, invalidateQueries).
StaleForAReason == AtRest /\ shown # current => missed # {} \/ faults > 0
=============================================================================
