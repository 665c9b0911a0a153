--------------------------- MODULE RealtimeProofs ---------------------------
(***************************************************************************)
(* Theorems about Realtime, for any handlers, failures and lost            *)
(* connections: the types, and that a page at rest that does not show the  *)
(* current version has been passed by in one of the ways the model names.  *)
(***************************************************************************)
EXTENDS Realtime, FiniteSetTheorems, TLAPS

USE RealtimeAssumption

\* The handlers that changed the value, got past announcing it, or are through.
Changed   == {h \in Handlers : handler[h] # "idle"}
Announced == Changed \ {h \in Handlers : handler[h] = "changed"}
Through   == {h \in Handlers : handler[h] \in {"answered", "over"}}

\* Every handler changes the value once and sends at most two messages.
Counted ==
    /\ current = Cardinality(Changed)
    /\ Len(inbox) <= Cardinality(Announced) + Cardinality(Through)

\* Nothing that is under way, or shown, is newer than the value.
NoneNewer ==
    /\ \A h \in Handlers : copy[h] <= current
    /\ \A i \in 1 .. Len(inbox) : inbox[i].version <= current
    /\ answer <= current /\ shown <= current

\* The current version will be shown: a handler has still to read it, has read it
\* or has to answer the page; it is on the connection, or in the answer to the
\* query; or the page will fetch it, its query having been sent or its connection
\* having been lost.
UnderWay ==
    \/ \E h \in Handlers : \/ handler[h] \in {"changed", "announced", "answered"}
                           \/ handler[h] = "read" /\ copy[h] = current
    \/ \E i \in 1 .. Len(inbox) : inbox[i] = Update(current)
    \/ fetch = "sent"
    \/ fetch = "answered" /\ answer = current
    \/ link = "down" /\ shouldRecover

\* As long as nothing passed by the page and nothing failed, it shows the current
\* version or will.
FreshOrComing == missed = {} /\ faults = 0 => shown = current \/ UnderWay

\* A page recovers from a loss as soon as it is connected again.
LostIsDown == shouldRecover => link = "down"

\* The inductive invariant.
RealtimeInv == TypeOK /\ Counted /\ NoneNewer /\ LostIsDown /\ FreshOrComing

Messages == {TradeCreated} \cup {Update(v) : v \in Versions}

-----------------------------------------------------------------------------
(* How many messages there are.                                            *)

LEMMA CountedSets ==
    /\ IsFiniteSet(Changed) /\ Cardinality(Changed) \in Nat
    /\ IsFiniteSet(Announced) /\ Cardinality(Announced) \in Nat
    /\ IsFiniteSet(Through) /\ Cardinality(Through) \in Nat
    /\ Cardinality(Changed) <= Cardinality(Handlers)
    /\ Cardinality(Announced) <= Cardinality(Handlers)
    /\ Cardinality(Through) <= Cardinality(Handlers)
    /\ Cardinality(Handlers) \in Nat
<1>1. Changed \in SUBSET Handlers /\ Announced \in SUBSET Handlers /\ Through \in SUBSET Handlers
  BY DEF Changed, Announced, Through
<1> HIDE DEF Changed, Announced, Through
<1>. QED BY <1>1, FS_Subset, FS_CardinalityType

\* The same of the next state.
LEMMA CountedSetsNext ==
    /\ IsFiniteSet(Changed') /\ Cardinality(Changed') \in Nat
    /\ IsFiniteSet(Announced') /\ Cardinality(Announced') \in Nat
    /\ IsFiniteSet(Through') /\ Cardinality(Through') \in Nat
    /\ Cardinality(Changed') <= Cardinality(Handlers)
    /\ Cardinality(Announced') <= Cardinality(Handlers)
    /\ Cardinality(Through') <= Cardinality(Handlers)
<1>1. Changed' \in SUBSET Handlers /\ Announced' \in SUBSET Handlers /\ Through' \in SUBSET Handlers
  BY DEF Changed, Announced, Through
<1>. QED BY <1>1, FS_Subset, FS_CardinalityType

\* What a step does to the connection.
InboxShrinks == inbox' = inbox \/ inbox' = <<>> \/ (inbox # <<>> /\ inbox' = Tail(inbox))

LEMMA InboxLength ==
    ASSUME TypeOK
    PROVE  /\ Len(inbox) \in Nat
           /\ InboxShrinks => Len(inbox') \in Nat /\ Len(inbox') <= Len(inbox)
           /\ \A m : Emit(m) => Len(inbox') \in Nat /\ Len(inbox') <= Len(inbox) + 1
  BY DEF TypeOK, InboxShrinks, Emit

\* The sets of handlers only grow.
LEMMA CountGrows ==
    ASSUME TypeOK, Counted, UNCHANGED current, Changed' = Changed, Announced \subseteq Announced',
           Through \subseteq Through', InboxShrinks
    PROVE  Counted'
<1>1. Cardinality(Announced) <= Cardinality(Announced')
  BY CountedSetsNext, FS_Subset
<1>2. Cardinality(Through) <= Cardinality(Through')
  BY CountedSetsNext, FS_Subset
<1> DEFINE n == Len(inbox)
           k == Len(inbox')
           a == Cardinality(Announced)
           b == Cardinality(Announced')
           c == Cardinality(Through)
           d == Cardinality(Through')
<1>3. n \in Nat /\ k \in Nat /\ k <= n /\ n <= a + c
  BY InboxLength DEF Counted
<1>4. a \in Nat /\ b \in Nat /\ c \in Nat /\ d \in Nat /\ a <= b /\ c <= d
  BY <1>1, <1>2, CountedSets, CountedSetsNext
<1>5. k <= b + d
  <2> HIDE DEF n, k, a, b, c, d
  <2>. QED BY <1>3, <1>4
<1>. QED BY <1>5 DEF Counted

LEMMA CountKept ==
    ASSUME TypeOK, Counted, [Next]_vars
    PROVE  Counted'
<1> USE DEF TypeOK
<1>1. ASSUME NEW h \in Handlers, Change(h)
      PROVE  Counted'
  <2>1. /\ Changed' = Changed \cup {h} /\ h \notin Changed
        /\ Announced' = Announced /\ Through' = Through
    BY <1>1 DEF Change, Changed, Announced, Through
  <2>2. Cardinality(Changed \cup {h}) = Cardinality(Changed) + 1
    BY <2>1, CountedSets, FS_AddElement
  <2>. QED BY <1>1, <2>1, <2>2 DEF Change, socketVars, Counted
<1>2. ASSUME NEW h \in Handlers,
             \/ ChangeUnannounced(h) \/ Read(h) \/ ReadThrows(h)
             \/ MutationSucceeds(h) \/ MutationFails(h)
      PROVE  Counted'
  <2>1. /\ Changed' = Changed /\ Announced \subseteq Announced' /\ Through \subseteq Through'
        /\ inbox' = inbox /\ current' = current
    BY <1>2 DEF ChangeUnannounced, Read, ReadThrows, MutationSucceeds, MutationFails, Finish,
                Changed, Announced, Through, socketVars
  <2>. QED BY <2>1, CountGrows DEF InboxShrinks
<1>3. ASSUME NEW h \in Handlers, BroadcastTradeCreated(h) \/ Broadcast(h)
      PROVE  Counted'
  <2> DEFINE n == Len(inbox)
             k == Len(inbox')
             a == Cardinality(Announced)
             b == Cardinality(Announced')
             c == Cardinality(Through)
             d == Cardinality(Through')
  <2>1. Changed' = Changed /\ current' = current
    BY <1>3 DEF BroadcastTradeCreated, Broadcast, Finish, Changed
  <2>2. k \in Nat /\ n \in Nat /\ k <= n + 1 /\ n <= a + c
    BY <1>3, InboxLength DEF BroadcastTradeCreated, Broadcast, Counted
  <2>3. a \in Nat /\ c \in Nat
    BY CountedSets
  <2>4. b + d = a + c + 1
    <3>1. CASE BroadcastTradeCreated(h)
      <4>1. Announced' = Announced \cup {h} /\ h \notin Announced /\ Through' = Through
        BY <3>1 DEF BroadcastTradeCreated, Changed, Announced, Through
      <4>2. b = a + 1 /\ d = c
        BY <4>1, CountedSets, FS_AddElement
      <4>. QED BY <2>3, <4>2
    <3>2. CASE Broadcast(h)
      <4>1. Through' = Through \cup {h} /\ h \notin Through /\ Announced' = Announced
        BY <3>2 DEF Broadcast, Finish, Changed, Announced, Through
      <4>2. b = a /\ d = c + 1
        BY <4>1, CountedSets, FS_AddElement
      <4>. QED BY <2>3, <4>2
    <3>. QED BY <1>3, <3>1, <3>2
  <2>5. k <= b + d
    <3> HIDE DEF n, k, a, b, c, d
    <3>. QED BY <2>2, <2>3, <2>4
  <2>. QED BY <2>1, <2>5 DEF Counted
<1>4. CASE \/ AnswerFetch \/ FetchArrives \/ ReceiveUpdate \/ ReceiveTradeCreated \/ FetchFails
           \/ AuthenticationFails \/ Disconnect \/ Poll \/ Connect \/ Join \/ UNCHANGED vars
  <2>1. UNCHANGED <<handler, current>> /\ InboxShrinks
    BY <1>4 DEF AnswerFetch, FetchArrives, ReceiveUpdate, ReceiveTradeCreated, FetchFails,
                AuthenticationFails, Disconnect, Poll, Connect, Join, vars, serverVars, socketVars,
                InboxShrinks
  <2>2. Changed' = Changed /\ Announced' = Announced /\ Through' = Through
    BY <2>1 DEF Changed, Announced, Through
  <2>. QED BY <2>1, <2>2, CountGrows
<1>. QED BY <1>1, <1>2, <1>3, <1>4 DEF Next, ServerStep, PageStep, Trouble

\* What the counts bound.
LEMMA CountBounds ==
    ASSUME Counted', Len(inbox') \in Nat
    PROVE  current' \in Versions /\ Len(inbox') <= 2 * Cardinality(Handlers)
<1> DEFINE k == Len(inbox')
           b == Cardinality(Announced')
           d == Cardinality(Through')
           m == Cardinality(Handlers)
<1>1. k <= b + d /\ b <= m /\ d <= m /\ b \in Nat /\ d \in Nat /\ m \in Nat /\ k \in Nat
  BY CountedSets, CountedSetsNext DEF Counted
<1>2. k <= 2 * m
  <2> HIDE DEF k, b, d, m
  <2>. QED BY <1>1
<1>3. current' \in Versions
  BY CountedSets, CountedSetsNext DEF Counted, Versions
<1>. QED BY <1>2, <1>3

-----------------------------------------------------------------------------
(* The types.                                                              *)

\* A message is on the connection as often as it was emitted, until it is received
\* or lost.
LEMMA InboxMoves ==
    ASSUME TypeOK
    PROVE  /\ InboxShrinks => /\ inbox' \in Seq(Messages)
                              /\ \A i \in 1 .. Len(inbox') : \E k \in 1 .. Len(inbox) : inbox'[i] = inbox[k]
           /\ \A m \in Messages : Emit(m) =>
                 /\ inbox' \in Seq(Messages)
                 /\ \A i \in 1 .. Len(inbox') :
                       inbox'[i] = m \/ \E k \in 1 .. Len(inbox) : inbox'[i] = inbox[k]
                 /\ \A k \in 1 .. Len(inbox) : k \in 1 .. Len(inbox') /\ inbox'[k] = inbox[k]
                 /\ link = "joined" => \E i \in 1 .. Len(inbox') : inbox'[i] = m
<1>1. inbox \in Seq(Messages)
  BY DEF TypeOK, Messages
<1>2. ASSUME InboxShrinks
      PROVE  /\ inbox' \in Seq(Messages)
             /\ \A i \in 1 .. Len(inbox') : \E k \in 1 .. Len(inbox) : inbox'[i] = inbox[k]
  <2>1. CASE inbox # <<>> /\ inbox' = Tail(inbox)
    <3>1. /\ inbox' \in Seq(Messages) /\ Len(inbox') = Len(inbox) - 1
          /\ \A i \in 1 .. Len(inbox') : inbox'[i] = inbox[i + 1]
      BY <1>1, <2>1
    <3>2. \A i \in 1 .. Len(inbox') : i + 1 \in 1 .. Len(inbox)
      BY <1>1, <3>1
    <3>. QED BY <3>1, <3>2
  <2>2. CASE inbox' = <<>>
    <3>1. inbox' \in Seq(Messages) /\ Len(inbox') = 0
      BY <2>2
    <3>. QED BY <3>1
  <2>3. CASE inbox' = inbox
    <3>1. inbox' \in Seq(Messages)
      BY <1>1, <2>3
    <3>. QED BY <2>3, <3>1
  <2>. QED BY <1>2, <2>1, <2>2, <2>3 DEF InboxShrinks
<1>3. ASSUME NEW m \in Messages, Emit(m)
      PROVE  /\ inbox' \in Seq(Messages)
             /\ \A i \in 1 .. Len(inbox') :
                   inbox'[i] = m \/ \E k \in 1 .. Len(inbox) : inbox'[i] = inbox[k]
             /\ \A k \in 1 .. Len(inbox) : k \in 1 .. Len(inbox') /\ inbox'[k] = inbox[k]
             /\ link = "joined" => \E i \in 1 .. Len(inbox') : inbox'[i] = m
  <2>1. CASE link = "joined"
    <3>1. /\ inbox' \in Seq(Messages) /\ Len(inbox') = Len(inbox) + 1
          /\ inbox'[Len(inbox) + 1] = m
          /\ \A i \in 1 .. Len(inbox) : inbox'[i] = inbox[i]
      BY <1>1, <1>3, <2>1 DEF Emit
    <3>2. Len(inbox) + 1 \in 1 .. Len(inbox')
      BY <1>1, <3>1
    <3>. QED BY <1>1, <3>1, <3>2
  <2>2. CASE link # "joined"
    BY <1>1, <1>3, <2>2 DEF Emit
  <2>. QED BY <2>1, <2>2
<1>. QED BY <1>2, <1>3

LEMMA MessageTypes ==
    ASSUME TypeOK
    PROVE  /\ TradeCreated \in Messages /\ \A v \in Versions : Update(v) \in Messages
           /\ \A i \in 1 .. Len(inbox) : /\ inbox[i] \in Messages /\ inbox[i].version \in Int
                                         /\ inbox[i].event = "update" =>
                                               /\ inbox[i].version \in Versions
                                               /\ inbox[i] = Update(inbox[i].version)
           /\ inbox # <<>> => 1 \in 1 .. Len(inbox) /\ Head(inbox) = inbox[1]
           /\ Versions \subseteq Nat
<1>1. inbox \in Seq(Messages)
  BY DEF TypeOK, Messages
<1>2. Versions \subseteq Nat
  BY CountedSets DEF Versions
<1>3. \A i \in 1 .. Len(inbox) : inbox[i] \in Messages
  BY <1>1
<1>4. \A m \in Messages : m.version \in Int /\ (m.event = "update" => m.version \in Versions /\ m = Update(m.version))
  BY <1>2 DEF Messages, TradeCreated, Update, Nothing
<1>. QED BY <1>1, <1>2, <1>3, <1>4 DEF Messages

\* The query's part of the types.
QueryTypes ==
    /\ fetch \in {"none", "sent", "answered"} /\ answer \in Versions /\ retried \in BOOLEAN
    /\ shown \in Versions \cup {Nothing}
    /\ missed \subseteq {"unannounced", "gap", "ignored", "overtaken"}

LEMMA QueryMoves ==
    ASSUME TypeOK
    PROVE  /\ Invalidate => QueryTypes'
           /\ \A v \in Versions : Show(v) =>
                 /\ shown' \in Versions
                 /\ missed' \subseteq {"unannounced", "gap", "ignored", "overtaken"}
           /\ \A m : Emit(m) => missed' \subseteq {"unannounced", "gap", "ignored", "overtaken"}
<1>1. 0 \in Versions
  BY CountedSets DEF Versions
<1>. QED BY <1>1 DEF TypeOK, QueryTypes, Invalidate, Show, Emit

LEMMA TypesKept ==
    ASSUME TypeOK, Counted, [Next]_vars
    PROVE  TypeOK'
<1>1. Len(inbox') \in Nat => current' \in Versions /\ Len(inbox') <= 2 * Cardinality(Handlers)
  BY CountKept, CountBounds
<1>2. 0 \in Versions
  BY CountedSets DEF Versions
<1>3. ASSUME inbox' \in Seq(Messages)
      PROVE  /\ current' \in Versions /\ Len(inbox') <= 2 * Cardinality(Handlers)
             /\ inbox' \in Seq({TradeCreated} \cup {Update(v) : v \in Versions})
  BY <1>1, <1>3 DEF Messages
<1>4. ASSUME NEW h \in Handlers, \/ Change(h) \/ ChangeUnannounced(h) \/ Read(h) \/ ReadThrows(h)
                                  \/ MutationFails(h)
      PROVE  TypeOK'
  <2>1. inbox' \in Seq(Messages)
    BY <1>4, InboxMoves DEF Change, ChangeUnannounced, Read, ReadThrows, MutationFails, socketVars,
                            InboxShrinks
  <2>2. CASE Change(h) \/ ChangeUnannounced(h)
    BY <1>3, <2>1, <2>2 DEF Change, ChangeUnannounced, Finish, socketVars, queryVars, TypeOK
  <2>3. CASE Read(h)
    BY <1>3, <2>1, <2>3 DEF Read, socketVars, queryVars, TypeOK
  <2>4. CASE ReadThrows(h) \/ MutationFails(h)
    <3>1. faults' \in 0 .. MaxFaults
      BY <2>4 DEF ReadThrows, MutationFails, Fault, TypeOK
    <3>. QED BY <1>3, <2>1, <2>4, <3>1
             DEF ReadThrows, MutationFails, Finish, socketVars, queryVars, TypeOK
  <2>. QED BY <1>4, <2>2, <2>3, <2>4
<1>5. ASSUME NEW h \in Handlers, BroadcastTradeCreated(h) \/ Broadcast(h)
      PROVE  TypeOK'
  <2>1. PICK m \in Messages : Emit(m)
    BY <1>5, MessageTypes DEF BroadcastTradeCreated, Broadcast, TypeOK
  <2>2. /\ inbox' \in Seq(Messages)
        /\ missed' \subseteq {"unannounced", "gap", "ignored", "overtaken"}
    BY <2>1, InboxMoves, QueryMoves
  <2>3. /\ UNCHANGED <<page, link, shouldRecover, drops, fetch, answer, retried, shown, faults>>
        /\ copy' = copy \/ copy' = [copy EXCEPT ![h] = 0]
        /\ \E step \in {"announced", "answered", "over"} : handler' = [handler EXCEPT ![h] = step]
    BY <1>5 DEF BroadcastTradeCreated, Broadcast, Finish, queryVars
  <2>. QED BY <1>2, <1>3, <2>2, <2>3 DEF TypeOK
<1>6. ASSUME NEW h \in Handlers, MutationSucceeds(h)
      PROVE  TypeOK'
  <2>1. inbox' \in Seq(Messages) /\ QueryTypes'
    BY <1>6, InboxMoves, QueryMoves DEF MutationSucceeds, socketVars, InboxShrinks
  <2>. QED BY <1>3, <1>6, <2>1 DEF MutationSucceeds, socketVars, QueryTypes, TypeOK
<1>7. CASE AnswerFetch \/ FetchFails \/ Poll \/ AuthenticationFails \/ Join \/ UNCHANGED vars
  <2>1. inbox' \in Seq(Messages)
    BY <1>7, InboxMoves DEF AnswerFetch, FetchFails, Poll, AuthenticationFails, Join, vars, socketVars,
                            InboxShrinks
  <2>2. CASE FetchFails \/ AuthenticationFails
    <3>1. faults' \in 0 .. MaxFaults
      BY <2>2 DEF FetchFails, AuthenticationFails, Fault, TypeOK
    <3>. QED BY <1>2, <1>3, <2>1, <2>2, <3>1
             DEF FetchFails, AuthenticationFails, serverVars, socketVars, queryVars, TypeOK
  <2>3. CASE AnswerFetch \/ Poll \/ Join \/ UNCHANGED vars
    BY <1>2, <1>3, <2>1, <2>3
       DEF AnswerFetch, Poll, Join, vars, serverVars, socketVars, queryVars, TypeOK
  <2>. QED BY <1>7, <2>2, <2>3
<1>8. CASE FetchArrives
  <2>1. Show(answer) /\ answer \in Versions
    BY <1>8 DEF FetchArrives, TypeOK
  <2>2. inbox' \in Seq(Messages)
    BY <1>8, InboxMoves DEF FetchArrives, socketVars, InboxShrinks
  <2>. QED BY <1>2, <1>3, <1>8, <2>1, <2>2, QueryMoves DEF FetchArrives, serverVars, socketVars, TypeOK
<1>9. CASE Connect \/ ReceiveTradeCreated
  <2>1. QueryTypes'
    BY <1>9, QueryMoves DEF Connect, ReceiveTradeCreated, queryVars, QueryTypes, TypeOK
  <2>2. inbox' \in Seq(Messages)
    BY <1>9, InboxMoves DEF Connect, ReceiveTradeCreated, InboxShrinks
  <2>. QED BY <1>3, <1>9, <2>1, <2>2 DEF Connect, ReceiveTradeCreated, serverVars, QueryTypes, TypeOK
<1>10. CASE Disconnect
  <2>1. inbox' \in Seq(Messages)
    BY <1>10, InboxMoves DEF Disconnect, InboxShrinks
  <2>. QED BY <1>3, <1>10, <2>1 DEF Disconnect, serverVars, queryVars, TypeOK
<1>11. CASE ReceiveUpdate
  <2>1. Head(inbox).version \in Versions /\ inbox' \in Seq(Messages)
    BY <1>11, MessageTypes, InboxMoves DEF ReceiveUpdate, InboxShrinks
  <2>2. /\ shown' \in Versions \cup {Nothing}
        /\ missed' \subseteq {"unannounced", "gap", "ignored", "overtaken"}
    BY <1>11, <2>1, QueryMoves DEF ReceiveUpdate, TypeOK
  <2>. QED BY <1>3, <1>11, <2>1, <2>2 DEF ReceiveUpdate, serverVars, TypeOK
<1>. QED BY <1>4, <1>5, <1>6, <1>7, <1>8, <1>9, <1>10, <1>11 DEF Next, ServerStep, PageStep, Trouble

-----------------------------------------------------------------------------
(* Why a page at rest is up to date.                                       *)

\* Nothing is newer than the value: what is read is read from it.
LEMMA NoneNewerKept ==
    ASSUME TypeOK, Counted, NoneNewer, [Next]_vars
    PROVE  NoneNewer'
<1>1. current \in Nat /\ answer \in Nat /\ shown \in Int /\ \A h \in Handlers : copy[h] \in Nat
  BY MessageTypes DEF TypeOK, Nothing
<1>2. \A i \in 1 .. Len(inbox) : inbox[i].version \in Int
  BY MessageTypes
<1>3. ASSUME NEW h \in Handlers, Change(h)
      PROVE  NoneNewer'
  <2>1. /\ current' = current + 1
        /\ UNCHANGED <<copy, inbox, answer, shown>>
    BY <1>3 DEF Change, socketVars, queryVars
  <2>. QED BY <1>1, <1>2, <2>1 DEF NoneNewer
<1>4. ASSUME NEW h \in Handlers, Read(h)
      PROVE  NoneNewer'
  BY <1>1, <1>2, <1>4 DEF Read, socketVars, queryVars, NoneNewer, TypeOK
<1>5. ASSUME NEW h \in Handlers, BroadcastTradeCreated(h) \/ Broadcast(h)
      PROVE  NoneNewer'
  <2>1. PICK m \in Messages : Emit(m) /\ m.version <= current
    <3>1. CASE BroadcastTradeCreated(h)
      <4>1. Emit(TradeCreated)
        BY <3>1 DEF BroadcastTradeCreated
      <4>2. TradeCreated.version <= current
        BY <1>1 DEF TradeCreated, Nothing
      <4>. QED BY <4>1, <4>2, MessageTypes
    <3>2. CASE Broadcast(h)
      <4>1. Emit(Update(copy[h])) /\ copy[h] \in Versions /\ copy[h] <= current
        BY <3>2 DEF Broadcast, NoneNewer, TypeOK
      <4>. QED BY <4>1, MessageTypes DEF Update
    <3>. QED BY <1>5, <3>1, <3>2
  <2>2. \A i \in 1 .. Len(inbox') : inbox'[i].version <= current
    BY <2>1, InboxMoves DEF NoneNewer
  <2>3. UNCHANGED <<current, answer, shown>>
    BY <1>5 DEF BroadcastTradeCreated, Broadcast, queryVars
  <2>4. \A g \in Handlers : copy'[g] <= current
    <3>1. copy' = copy \/ copy' = [copy EXCEPT ![h] = 0]
      BY <1>5 DEF BroadcastTradeCreated, Broadcast
    <3>2. \A g \in Handlers : copy'[g] = copy[g] \/ copy'[g] = 0
      BY <3>1 DEF TypeOK
    <3>. QED BY <1>1, <3>2 DEF NoneNewer
  <2>. QED BY <2>2, <2>3, <2>4 DEF NoneNewer
<1>6. ASSUME InboxShrinks
      PROVE  \A i \in 1 .. Len(inbox') : inbox'[i].version <= current
  BY <1>6, InboxMoves DEF NoneNewer
<1>7. ASSUME NEW h \in Handlers, \/ ChangeUnannounced(h) \/ ReadThrows(h) \/ MutationFails(h)
                                  \/ MutationSucceeds(h)
      PROVE  NoneNewer'
  BY <1>1, <1>7 DEF ChangeUnannounced, ReadThrows, MutationFails, MutationSucceeds, Invalidate,
                    socketVars, queryVars, NoneNewer
<1>8. CASE \/ AnswerFetch \/ FetchArrives \/ FetchFails \/ AuthenticationFails \/ Disconnect
           \/ Poll \/ Connect \/ Join \/ ReceiveTradeCreated \/ UNCHANGED vars
  <2>1. InboxShrinks /\ UNCHANGED <<current, copy>>
    BY <1>8 DEF AnswerFetch, FetchArrives, FetchFails, AuthenticationFails, Disconnect, Poll,
                Connect, Join, ReceiveTradeCreated, InboxShrinks, vars, serverVars, socketVars
  <2>2. answer' \in {0, answer, current} /\ shown' \in {shown, answer}
    BY <1>8 DEF AnswerFetch, FetchArrives, FetchFails, AuthenticationFails, Disconnect, Poll,
                Connect, Join, ReceiveTradeCreated, Invalidate, Show, vars, queryVars
  <2>. QED BY <1>1, <1>6, <2>1, <2>2 DEF NoneNewer
<1>9. CASE ReceiveUpdate
  <2>1. InboxShrinks /\ UNCHANGED <<current, copy, answer>>
    BY <1>9 DEF ReceiveUpdate, InboxShrinks, serverVars
  <2>2. shown' <= current
    BY <1>1, <1>9, MessageTypes DEF ReceiveUpdate, Show, NoneNewer
  <2>. QED BY <1>6, <2>1, <2>2 DEF NoneNewer
<1>. QED BY <1>3, <1>4, <1>5, <1>7, <1>8, <1>9 DEF Next, ServerStep, PageStep, Trouble

LEMMA LostIsDownKept ==
    ASSUME LostIsDown, [Next]_vars
    PROVE  LostIsDown'
<1>1. UNCHANGED <<link, shouldRecover>> \/ shouldRecover' = FALSE \/ link' = "down"
      \/ (shouldRecover' = shouldRecover /\ link # "down")
  BY DEF Next, ServerStep, PageStep, Trouble, Change, ChangeUnannounced, BroadcastTradeCreated,
         Read, ReadThrows, Broadcast, AnswerFetch, FetchArrives, FetchFails, Poll,
         MutationSucceeds, MutationFails, Connect, Join, AuthenticationFails, Disconnect,
         ReceiveUpdate, ReceiveTradeCreated, vars, socketVars
<1>. QED BY <1>1 DEF LostIsDown

\* Invalidating the query sends it, or it has been sent.
LEMMA InvalidateFetches ==
    ASSUME TypeOK, Invalidate, missed' = {}
    PROVE  fetch' = "sent"
  BY DEF Invalidate, Loading, TypeOK

\* Showing another version than the current one leaves the page waiting for that.
LEMMA ShowsAnother ==
    ASSUME TypeOK, NoneNewer, NEW v \in Versions, v <= current, v # current, Show(v), missed' = {}
    PROVE  missed = {} /\ shown # current
<1>1. v \in Nat /\ current \in Nat
  BY MessageTypes DEF TypeOK
<1>. QED BY <1>1 DEF Show

LEMMA FreshOrComingKept ==
    ASSUME TypeOK, NoneNewer, LostIsDown, FreshOrComing, [Next]_vars
    PROVE  FreshOrComing'
<1> SUFFICES ASSUME missed' = {}, faults' = 0
             PROVE  shown' = current' \/ UnderWay'
  BY DEF FreshOrComing
<1>1. ~Fault
  BY DEF Fault, TypeOK
<1>2. ASSUME NEW h \in Handlers, Change(h) \/ BroadcastTradeCreated(h)
      PROVE  UnderWay'
  <2>1. handler'[h] \in {"changed", "announced"}
    BY <1>2 DEF Change, BroadcastTradeCreated, TypeOK
  <2>. QED BY <2>1 DEF UnderWay
<1>3. ASSUME NEW h \in Handlers, ChangeUnannounced(h)
      PROVE  UnderWay'
  <2>1. handler'[h] = "answered"
    BY <1>3 DEF ChangeUnannounced, Finish, TypeOK
  <2>. QED BY <2>1 DEF UnderWay
<1>4. ASSUME NEW h \in Handlers, Read(h)
      PROVE  UnderWay'
  <2>1. handler'[h] = "read" /\ copy'[h] = current'
    BY <1>4 DEF Read, TypeOK
  <2>. QED BY <2>1 DEF UnderWay
<1>5. ASSUME NEW h \in Handlers, Broadcast(h)
      PROVE  shown' = current' \/ UnderWay'
  <2>1. /\ Emit(Update(copy[h])) /\ Update(copy[h]) \in Messages
        /\ UNCHANGED <<current, link, shouldRecover, fetch, answer, shown, faults>>
        /\ missed = {}
        /\ \A g \in Handlers \ {h} : handler'[g] = handler[g] /\ copy'[g] = copy[g]
        /\ handler[h] = "read"
    BY <1>5, MessageTypes DEF Broadcast, Emit, Finish, queryVars, TypeOK
  <2>2. CASE copy[h] = current
    <3>1. CASE link = "joined"
      BY <2>1, <2>2, <3>1, InboxMoves DEF UnderWay
    <3>2. CASE link # "joined"
      BY <2>1, <3>2 DEF Emit, LostIsDown, UnderWay
    <3>. QED BY <3>1, <3>2
  <2>3. CASE copy[h] # current
    <3>1. shown = current \/ UnderWay
      BY <2>1 DEF FreshOrComing
    <3>2. \A k \in 1 .. Len(inbox) : k \in 1 .. Len(inbox') /\ inbox'[k] = inbox[k]
      BY <2>1, InboxMoves
    <3>. QED BY <2>1, <2>3, <3>1, <3>2 DEF UnderWay
  <2>. QED BY <2>2, <2>3
<1>6. CASE AnswerFetch
  BY <1>6 DEF AnswerFetch, serverVars, UnderWay
<1>7. CASE FetchArrives
  <2>1. /\ Show(answer) /\ answer \in Versions /\ answer <= current /\ fetch = "answered"
        /\ UNCHANGED <<current, handler, copy, inbox, link, shouldRecover, faults>>
    BY <1>7 DEF FetchArrives, serverVars, socketVars, NoneNewer, TypeOK
  <2>2. CASE answer = current
    BY <2>1, <2>2 DEF Show
  <2>3. CASE answer # current
    <3>1. missed = {} /\ shown # current
      BY <2>1, <2>3, ShowsAnother
    <3>2. UnderWay
      BY <2>1, <3>1 DEF FreshOrComing
    <3>. QED BY <2>1, <2>3, <3>2 DEF UnderWay
  <2>. QED BY <2>2, <2>3
<1>8. CASE Poll
  BY <1>8 DEF Poll, UnderWay
<1>9. CASE \E h \in Handlers : MutationSucceeds(h)
  BY <1>9, InvalidateFetches DEF MutationSucceeds, UnderWay
<1>10. CASE ReceiveTradeCreated
  BY <1>10, InvalidateFetches DEF ReceiveTradeCreated, UnderWay
<1>11. CASE Connect
  <2>1. CASE shouldRecover
    BY <1>11, <2>1, InvalidateFetches DEF Connect, UnderWay
  <2>2. CASE ~shouldRecover
    BY <1>11, <2>2 DEF Connect, serverVars, queryVars, UnderWay, FreshOrComing
  <2>. QED BY <2>1, <2>2
<1>12. CASE Disconnect
  BY <1>12 DEF Disconnect, UnderWay
<1>13. CASE ReceiveUpdate
  <2> DEFINE v == Head(inbox).version
  <2>1. /\ inbox # <<>> /\ inbox' = Tail(inbox)
        /\ UNCHANGED <<current, handler, copy, link, shouldRecover, fetch, answer, faults>>
    BY <1>13 DEF ReceiveUpdate, serverVars
  <2>2. Show(v)
    BY <1>13 DEF ReceiveUpdate
  <2>3. v \in Versions /\ v <= current
    BY <1>13, <2>1, MessageTypes DEF ReceiveUpdate, NoneNewer
  <2>4. CASE v = current
    BY <2>1, <2>2, <2>4 DEF Show
  <2>5. CASE v # current
    <3>1. missed = {} /\ shown # current
      BY <2>2, <2>3, <2>5, ShowsAnother
    <3>2. UnderWay
      BY <2>1, <3>1 DEF FreshOrComing
    <3>3. ASSUME NEW i \in 1 .. Len(inbox), inbox[i] = Update(current)
          PROVE  \E k \in 1 .. Len(inbox') : inbox'[k] = Update(current)
      <4>1. i # 1
        BY <2>1, <2>5, <3>3, MessageTypes DEF Update
      <4>2. i - 1 \in 1 .. Len(inbox') /\ inbox'[i - 1] = inbox[i]
        BY <2>1, <4>1 DEF TypeOK
      <4>. QED BY <3>3, <4>2
    <3>. QED BY <2>1, <3>2, <3>3 DEF UnderWay
  <2>. QED BY <2>4, <2>5
<1>14. CASE Join \/ UNCHANGED vars
  BY <1>14 DEF Join, vars, serverVars, socketVars, queryVars, UnderWay, FreshOrComing
<1>. QED
  BY <1>1, <1>2, <1>3, <1>4, <1>5, <1>6, <1>7, <1>8, <1>9, <1>10, <1>11, <1>12, <1>13, <1>14
     DEF Next, ServerStep, PageStep, Trouble, ReadThrows, MutationFails, FetchFails,
         AuthenticationFails

-----------------------------------------------------------------------------
(* The theorems.                                                           *)

THEOREM RealtimeInvariant == Spec => []RealtimeInv
<1>1. Init => RealtimeInv
  <2> SUFFICES ASSUME Init PROVE RealtimeInv
    OBVIOUS
  <2>1. Changed = {}
    BY DEF Init, Changed
  <2>2. 0 \in Versions /\ current = Cardinality(Changed)
    BY <2>1, CountedSets, FS_EmptySet DEF Init, Versions
  <2>3. Len(inbox) = 0 /\ inbox \in Seq(Messages)
    BY DEF Init
  <2>4. Counted
    BY <2>2, <2>3, CountedSets DEF Counted
  <2>5. TypeOK
    <3>1. Len(inbox) <= 2 * Cardinality(Handlers)
      BY <2>3, CountedSets
    <3>2. handler \in [Handlers -> {"idle", "changed", "announced", "read", "answered", "over"}]
      BY DEF Init
    <3>3. copy \in [Handlers -> Versions]
      BY <2>2 DEF Init
    <3>4. inbox \in Seq({TradeCreated} \cup {Update(v) : v \in Versions})
      BY <2>3 DEF Messages
    <3>5. /\ page \in {"market", "wallet"} /\ link \in {"down", "up", "joined", "refused"}
          /\ fetch \in {"none", "sent", "answered"}
          /\ missed \subseteq {"unannounced", "gap", "ignored", "overtaken"}
      BY DEF Init
    <3>7. faults \in 0 .. MaxFaults /\ drops \in 0 .. MaxDrops
      BY DEF Init
    <3>8. shouldRecover \in BOOLEAN /\ retried \in BOOLEAN
      BY DEF Init
    <3>6. current \in Versions /\ answer \in Versions /\ shown \in Versions \cup {Nothing}
      BY <2>2 DEF Init
    <3>. QED BY <3>1, <3>2, <3>3, <3>4, <3>5, <3>6, <3>7, <3>8 DEF TypeOK
  <2>6. NoneNewer
    BY <2>3 DEF Init, NoneNewer, Nothing
  <2>. QED BY <2>4, <2>5, <2>6 DEF Init, RealtimeInv, LostIsDown, FreshOrComing, UnderWay
<1>2. RealtimeInv /\ [Next]_vars => RealtimeInv'
  BY CountKept, TypesKept, NoneNewerKept, LostIsDownKept, FreshOrComingKept DEF RealtimeInv
<1>. QED BY <1>1, <1>2, PTL DEF Spec

\* What the page shows is a version there has been; the connection never holds more
\* than two messages of a handler (the handlers that broadcast).
THEOREM RealtimeTypes == Spec => []TypeOK
  BY RealtimeInvariant, PTL DEF RealtimeInv

\* A page at rest shows the last change, or that has passed by it in one of the named
\* ways, or a call failed; a lost connection alone is no reason, because the page
\* fetches again (attachReconnectRecovery, setQueryData, invalidateQueries).
THEOREM StaleOnlyForAReason == Spec => []StaleForAReason
<1>1. RealtimeInv => StaleForAReason
  <2> SUFFICES ASSUME RealtimeInv, AtRest, shown # current, missed = {}, ~(faults > 0)
               PROVE  FALSE
    BY DEF StaleForAReason
  <2>1. faults = 0
    BY DEF RealtimeInv, TypeOK
  <2>2. UnderWay
    BY <2>1 DEF RealtimeInv, FreshOrComing
  <2>3. Len(inbox) = 0
    BY DEF AtRest
  <2>. QED BY <2>2, <2>3 DEF AtRest, UnderWay, RealtimeInv, LostIsDown
<1>. QED BY <1>1, RealtimeInvariant, PTL
=============================================================================
