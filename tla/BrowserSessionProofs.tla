------------------------- MODULE BrowserSessionProofs -------------------------
(***************************************************************************)
(* Theorems about BrowserSession, for any tabs, accounts, logins, moves    *)
(* and faults: whom a tab shows, where it comes to rest, and why a stored  *)
(* session appears and disappears.                                         *)
(***************************************************************************)
EXTENDS BrowserSession, TLAPS

USE SessionAssumption, NoTokenAssumption

\* A tab that restores a session has its token, until its user signs in anew.
RestoresItsToken(t, x) ==
    /\ x.phase = "mounting" => x.token = NoToken /\ x.user = NoUser /\ x.login = NoToken
    /\ x.phase = "restoring" => x.restoring # NoToken /\ x.token # NoToken
    /\ x.restoring # NoToken => x.phase = "restoring"
    /\ x.phase = "restoring" /\ t \notin x.crossed => x.token = x.restoring

\* The profile is that of the token.
ShowsItsUser(t, x) ==
    /\ x.token = NoToken => x.user = NoUser
    /\ x.token # NoToken /\ x.user # NoUser /\ t \notin x.crossed => x.user = x.token.user

\* What a page's effect has decided leads away from where the tab does not belong.
GoesWhereItBelongs(x) ==
    x.phase = "hydrated" /\ ~x.effect /\ ~x.apart =>
        /\ x.page \in Guarded /\ x.token = NoToken => x.goal # "none"
        /\ x.page \in Forms /\ x.token # NoToken => x.goal \notin Forms \cup {"none"}

\* The tab and the storage know of each other, but for what other tabs did since.
KnowsTheStorage(x, stored) ==
    /\ x.phase = "restoring" /\ stored # NoToken /\ x.crossed = {} => x.restoring = stored
    /\ ~x.apart /\ x.phase # "mounting" => (x.token = NoToken <=> stored = NoToken)

Well(t, x, stored) ==
    /\ RestoresItsToken(t, x) /\ ShowsItsUser(t, x)
    /\ GoesWhereItBelongs(x) /\ KnowsTheStorage(x, stored)

\* The inductive invariant.  RestsWhereItBelongs is not inductive by itself: a tab
\* rests where it belongs because its effect has run since anything it depends on
\* changed, and because the proxy, which goes by the cookie, agrees with it.
SessionInv ==
    /\ TypeOK
    /\ cookie <=> storage # NoToken
    /\ \A t \in Tabs : Well(t, tab[t], storage)

\* A tab that has just been opened.
LEMMA ClosedIs ==
    /\ Closed \in TabStates
    /\ Closed.phase = "mounting" /\ Closed.restoring = NoToken /\ Closed.token = NoToken
    /\ Closed.user = NoUser /\ Closed.login = NoToken
  BY DEF Closed, TabStates, Guarded

LEMMA InitEstablishes == Init => SessionInv
<1> SUFFICES ASSUME Init PROVE SessionInv
  OBVIOUS
<1>1. TypeOK
  <2>1. cookie \in BOOLEAN
    BY Zenon DEF Init
  <2>2. tab \in [Tabs -> TabStates]
    BY ClosedIs DEF Init
  <2>3. 0 \in 0 .. MaxLogins /\ 0 \in 0 .. MaxMoves /\ 0 \in 0 .. MaxFaults
    OBVIOUS
  <2>. QED BY <2>1, <2>2, <2>3, Zenon DEF Init, TypeOK
<1>2. cookie <=> storage # NoToken
  BY Zenon DEF Init
<1>3. \A t \in Tabs : Well(t, tab[t], storage)
  BY ClosedIs DEF Init, Well, RestoresItsToken, ShowsItsUser, GoesWhereItBelongs,
         KnowsTheStorage
<1>. QED BY <1>1, <1>2, <1>3 DEF SessionInv

-----------------------------------------------------------------------------
(* What a tab is after a step.                                             *)

\* A tab that is rendered anew.
LEMMA RenderedIs ==
    ASSUME NEW old \in TabStates, NEW new \in TabStates
    PROVE  LET x == Rendered(old, new)
           IN  /\ x \in TabStates
               /\ x.page = new.page /\ x.redirect = new.redirect /\ x.goal = new.goal
               /\ x.phase = new.phase /\ x.restoring = new.restoring /\ x.token = new.token
               /\ x.user = new.user /\ x.login = new.login /\ x.after = new.after
               /\ x.crossed = new.crossed /\ x.apart = new.apart
               /\ x.effect = (new.effect \/ Depends(old) # Depends(new))
<1> DEFINE due == new.effect \/ Depends(old) # Depends(new)
<1>1. Rendered(old, new) = [new EXCEPT !.effect = due] /\ due \in BOOLEAN
  BY DEF Rendered, TabStates
<1> HIDE DEF due
<1>2. LET x == Rendered(old, new)
      IN  /\ x \in TabStates
          /\ x.page = new.page /\ x.redirect = new.redirect /\ x.goal = new.goal
          /\ x.phase = new.phase /\ x.restoring = new.restoring /\ x.token = new.token
          /\ x.user = new.user /\ x.login = new.login /\ x.after = new.after
          /\ x.crossed = new.crossed /\ x.apart = new.apart /\ x.effect = due
  BY <1>1 DEF TabStates
<1>. QED BY <1>2 DEF due

\* A step that changes one tab and not the storage.
LEMMA TabKeeps ==
    ASSUME SessionInv, NEW t \in Tabs, NEW x \in TabStates, tab' = [tab EXCEPT ![t] = x],
           Well(t, x, storage), UNCHANGED <<storage, cookie>>,
           expired' \subseteq Tokens, logins' \in 0 .. MaxLogins,
           moves' \in 0 .. MaxMoves, faults' \in 0 .. MaxFaults
    PROVE  SessionInv'
<1>1. tab' \in [Tabs -> TabStates] /\ \A s \in Tabs : tab'[s] = IF s = t THEN x ELSE tab[s]
  BY DEF SessionInv, TypeOK
<1>2. TypeOK' /\ (cookie' <=> storage' # NoToken)
  BY <1>1 DEF SessionInv, TypeOK
<1>3. ASSUME NEW s \in Tabs PROVE Well(s, tab'[s], storage)
  BY <1>1 DEF SessionInv
<1>4. \A s \in Tabs : Well(s, tab[s], storage)'
  BY <1>3 DEF Well, RestoresItsToken, ShowsItsUser, GoesWhereItBelongs, KnowsTheStorage
<1>. QED BY <1>2, <1>4 DEF SessionInv

\* A step that stores a token or removes it.
LEMMA PersistKeeps ==
    ASSUME SessionInv, NEW t \in Tabs, NEW token \in Tokens \cup {NoToken},
           NEW new \in TabStates, Persist(t, token, new),
           token \in {storage, NoToken, tab[t].login},
           NEW x, x = Rendered(tab[t], [new EXCEPT !.token = token]), Well(t, x, token),
           expired' \subseteq Tokens, logins' \in 0 .. MaxLogins,
           moves' \in 0 .. MaxMoves, faults' \in 0 .. MaxFaults
    PROVE  SessionInv'
<1>1. storage' = token /\ cookie' = (token # NoToken)
  BY DEF Persist
<1>2. tab[t] \in TabStates /\ [new EXCEPT !.token = token] \in TabStates
  BY DEF SessionInv, TypeOK, TabStates
<1>3. x \in TabStates /\ tab'[t] = x
  BY <1>2, RenderedIs DEF Persist
<1>4. ASSUME NEW s \in Tabs, s # t
      PROVE  tab'[s] \in TabStates /\ Well(s, tab'[s], token)
  <2> DEFINE apart == tab[s].apart \/ (tab[s].token = NoToken) # (token = NoToken)
             crossed == IF tab[s].phase = "restoring" /\ token = tab[t].login
                        THEN tab[s].crossed \cup {t} ELSE tab[s].crossed
  <2>1. tab[s] \in TabStates /\ Well(s, tab[s], storage)
    BY DEF SessionInv, TypeOK
  <2>2. tab'[s] = [tab[s] EXCEPT !.apart = apart, !.crossed = crossed]
    BY <1>4 DEF Persist
  <2>3. apart \in BOOLEAN /\ crossed \in SUBSET Tabs
    BY <2>1 DEF TabStates
  <2>4. /\ s \in crossed <=> s \in tab[s].crossed
        /\ ~apart => ~tab[s].apart /\ (tab[s].token = NoToken <=> token = NoToken)
        /\ tab[s].phase = "restoring" /\ crossed = {} => tab[s].crossed = {} /\ token # tab[t].login
    BY <1>4, <2>1 DEF TabStates
  <2> HIDE DEF apart, crossed
  <2>5. /\ tab'[s] \in TabStates /\ tab'[s].apart = apart /\ tab'[s].crossed = crossed
        /\ tab'[s].page = tab[s].page /\ tab'[s].goal = tab[s].goal
        /\ tab'[s].effect = tab[s].effect /\ tab'[s].phase = tab[s].phase
        /\ tab'[s].restoring = tab[s].restoring /\ tab'[s].token = tab[s].token
        /\ tab'[s].user = tab[s].user /\ tab'[s].login = tab[s].login
    <3>1. tab'[s] \in TabStates
      BY <2>1, <2>2, <2>3, Zenon DEF TabStates
    <3>. QED BY <3>1, <2>1, <2>2, Zenon DEF TabStates
  <2>6. RestoresItsToken(s, tab'[s]) /\ ShowsItsUser(s, tab'[s])
    BY <2>1, <2>4, <2>5 DEF Well, RestoresItsToken, ShowsItsUser
  <2>7. GoesWhereItBelongs(tab'[s])
    BY <2>1, <2>4, <2>5 DEF Well, GoesWhereItBelongs
  <2>8. KnowsTheStorage(tab'[s], token)
    BY <2>1, <2>4, <2>5 DEF Well, KnowsTheStorage
  <2>. QED BY <2>5, <2>6, <2>7, <2>8 DEF Well
<1>5. tab' \in [Tabs -> TabStates]
  <2>1. DOMAIN tab' = Tabs /\ tab' = [s \in Tabs |-> tab'[s]]
    BY DEF Persist
  <2>. QED BY <2>1, <1>3, <1>4
<1>6. TypeOK' /\ (cookie' <=> storage' # NoToken)
  BY <1>1, <1>5 DEF TypeOK
<1>7. ASSUME NEW s \in Tabs PROVE Well(s, tab'[s], token)
  BY <1>3, <1>4
<1>8. \A s \in Tabs : Well(s, tab[s], storage)'
  BY <1>1, <1>7 DEF Well, RestoresItsToken, ShowsItsUser, GoesWhereItBelongs, KnowsTheStorage
<1>. QED BY <1>6, <1>8 DEF SessionInv

-----------------------------------------------------------------------------
(* The steps.                                                              *)

\* Where the router or the browser lands.
LEMMA LandingIs ==
    ASSUME NEW x \in TabStates, NEW page \in Pages
    PROVE  LET y == Landing(x, page)
           IN  /\ y \in TabStates
               /\ y.goal = x.goal /\ y.effect = x.effect
               /\ y.phase = x.phase /\ y.restoring = x.restoring /\ y.token = x.token
               /\ y.user = x.user /\ y.login = x.login /\ y.after = x.after
               /\ y.crossed = x.crossed /\ y.apart = x.apart
               /\ y.page = IF page \in Guarded /\ ~cookie THEN "login" ELSE page
<1>1. "login" \in Pages /\ "wallet" \in Guarded
  BY DEF Pages, Forms, Guarded
<1>2. CASE page \in Guarded /\ ~cookie
  <2> DEFINE y == [x EXCEPT !.page = "login", !.redirect = page]
  <2>1. y \in TabStates
    BY <1>1, <1>2, Zenon DEF TabStates
  <2>2. /\ y.page = "login" /\ y.goal = x.goal /\ y.effect = x.effect
        /\ y.phase = x.phase /\ y.restoring = x.restoring /\ y.token = x.token
        /\ y.user = x.user /\ y.login = x.login /\ y.after = x.after
        /\ y.crossed = x.crossed /\ y.apart = x.apart
    BY Zenon DEF TabStates
  <2>3. Landing(x, page) = y
    BY <1>2 DEF Landing
  <2> HIDE DEF y
  <2>. QED BY <1>2, <2>1, <2>2, <2>3
<1>3. CASE ~(page \in Guarded /\ ~cookie)
  <2> DEFINE y == [x EXCEPT !.page = page, !.redirect = "wallet"]
  <2>1. y \in TabStates
    BY <1>1, Zenon DEF TabStates
  <2>2. /\ y.page = page /\ y.goal = x.goal /\ y.effect = x.effect
        /\ y.phase = x.phase /\ y.restoring = x.restoring /\ y.token = x.token
        /\ y.user = x.user /\ y.login = x.login /\ y.after = x.after
        /\ y.crossed = x.crossed /\ y.apart = x.apart
    BY Zenon DEF TabStates
  <2>3. Landing(x, page) = y
    BY <1>3 DEF Landing
  <2> HIDE DEF y
  <2>. QED BY <1>3, <2>1, <2>2, <2>3
<1>. QED BY <1>2, <1>3

LEMMA PagesKeep ==
    ASSUME SessionInv, NEW t \in Tabs, NEW page \in Pages,
           Open(t, page) \/ Follow(t, page) \/ Route(t) \/ Effect(t)
    PROVE  SessionInv'
<1>1. /\ tab[t] \in TabStates /\ Well(t, tab[t], storage) /\ tab \in [Tabs -> TabStates]
      /\ cookie <=> storage # NoToken
  BY DEF SessionInv, TypeOK
<1>2. /\ UNCHANGED <<storage, cookie, expired, logins, faults>>
      /\ expired' \subseteq Tokens /\ logins' \in 0 .. MaxLogins
      /\ moves' \in 0 .. MaxMoves /\ faults' \in 0 .. MaxFaults
  BY DEF Open, Follow, Route, Effect, Move, SessionInv, TypeOK
<1>3. CASE Open(t, page)
  <2> DEFINE y == Landing(Closed, page)
             x == [y EXCEPT !.effect = TRUE]
  <2>1. /\ y \in TabStates /\ y.phase = "mounting" /\ y.token = NoToken
        /\ y.restoring = NoToken /\ y.user = NoUser /\ y.login = NoToken
    BY ClosedIs, LandingIs
  <2>2. tab' = [tab EXCEPT ![t] = x]
    BY <1>3 DEF Open
  <2> HIDE DEF y
  <2>3. /\ x \in TabStates /\ x.phase = "mounting" /\ x.token = NoToken
        /\ x.restoring = NoToken /\ x.user = NoUser /\ x.login = NoToken
    BY <2>1 DEF TabStates
  <2> HIDE DEF x
  <2>4. Well(t, x, storage)
    BY <2>3 DEF Well, RestoresItsToken, ShowsItsUser, GoesWhereItBelongs, KnowsTheStorage
  <2>. QED BY <1>2, <2>2, <2>3, <2>4, TabKeeps
<1>4. CASE Follow(t, page)
  <2> DEFINE x == [tab[t] EXCEPT !.goal = page]
  <2>1. /\ tab' = [tab EXCEPT ![t] = x]
        /\ page \in Forms => tab[t].phase = "restoring" \/ tab[t].token = NoToken
    BY <1>1, <1>4 DEF Follow
  <2>2. /\ x \in TabStates /\ x.goal = page /\ x.page = tab[t].page
        /\ x.phase = tab[t].phase /\ x.restoring = tab[t].restoring
        /\ x.token = tab[t].token /\ x.user = tab[t].user /\ x.login = tab[t].login
        /\ x.crossed = tab[t].crossed /\ x.apart = tab[t].apart /\ x.effect = tab[t].effect
    BY <1>1 DEF TabStates
  <2>3. page # "none"
    BY DEF Pages, Guarded, Forms
  <2> HIDE DEF x
  <2>4. GoesWhereItBelongs(x)
    BY <1>1, <2>1, <2>2, <2>3 DEF Well, GoesWhereItBelongs
  <2>5. Well(t, x, storage)
    BY <1>1, <2>2, <2>4 DEF Well, RestoresItsToken, ShowsItsUser, KnowsTheStorage
  <2>. QED BY <1>2, <2>1, <2>2, <2>5, TabKeeps
<1>5. CASE Route(t)
  <2> DEFINE goal == tab[t].goal
             y == Landing(tab[t], goal)
             new == [y EXCEPT !.goal = "none"]
             x == Rendered(tab[t], new)
  <2>1. goal \in Pages /\ tab' = [tab EXCEPT ![t] = x]
    BY <1>1, <1>5 DEF Route, TabStates
  <2>2. /\ y \in TabStates /\ y.effect = tab[t].effect
        /\ y.phase = tab[t].phase /\ y.restoring = tab[t].restoring
        /\ y.token = tab[t].token /\ y.user = tab[t].user /\ y.login = tab[t].login
        /\ y.crossed = tab[t].crossed /\ y.apart = tab[t].apart
        /\ y.page = IF goal \in Guarded /\ ~cookie THEN "login" ELSE goal
    BY <1>1, <2>1, LandingIs
  <2> HIDE DEF goal, y
  <2>3. /\ new \in TabStates /\ new.effect = tab[t].effect /\ new.goal = "none"
        /\ new.phase = tab[t].phase /\ new.restoring = tab[t].restoring
        /\ new.token = tab[t].token /\ new.user = tab[t].user /\ new.login = tab[t].login
        /\ new.crossed = tab[t].crossed /\ new.apart = tab[t].apart
        /\ new.page = IF goal \in Guarded /\ ~cookie THEN "login" ELSE goal
    BY <2>2 DEF TabStates
  <2> HIDE DEF new
  <2>4. /\ x \in TabStates /\ x.goal = "none"
        /\ x.phase = tab[t].phase /\ x.restoring = tab[t].restoring
        /\ x.token = tab[t].token /\ x.user = tab[t].user /\ x.login = tab[t].login
        /\ x.crossed = tab[t].crossed /\ x.apart = tab[t].apart
        /\ x.page = IF goal \in Guarded /\ ~cookie THEN "login" ELSE goal
    BY <1>1, <2>3, RenderedIs
  <2>8. ~x.effect => ~tab[t].effect /\ x.page = tab[t].page
    <3>1. x.effect = (new.effect \/ Depends(tab[t]) # Depends(new))
      BY <1>1, <2>3, RenderedIs
    <3>2. Depends(tab[t]) = Depends(new) => tab[t].page = new.page
      BY DEF Depends
    <3>3. new.page = x.page
      BY <2>3, <2>4
    <3>. QED BY <2>3, <3>1, <3>2, <3>3
  <2> HIDE DEF x
  <2>5. GoesWhereItBelongs(x)
    <3> SUFFICES ASSUME x.phase = "hydrated", ~x.effect, ~x.apart
                 PROVE  /\ x.page \in Guarded => x.token # NoToken
                        /\ x.page \in Forms => x.token = NoToken
      BY DEF GoesWhereItBelongs
    <3>1. cookie <=> x.token # NoToken
      BY <1>1, <2>4 DEF Well, KnowsTheStorage
    <3>2. x.page \in Guarded => cookie
      BY <2>4 DEF Guarded
    <3>3. ASSUME x.page \in Forms, cookie PROVE FALSE
      <4>1. x.page = goal /\ tab[t].page \in Forms /\ tab[t].token # NoToken
        BY <3>1, <3>3, <2>4, <2>8
      <4>. QED BY <4>1, <3>3, <2>4, <2>8, <1>1 DEF Well, GoesWhereItBelongs, goal
    <3>. QED BY <3>1, <3>2, <3>3
  <2>6. Well(t, x, storage)
    BY <1>1, <2>4, <2>5 DEF Well, RestoresItsToken, ShowsItsUser, KnowsTheStorage
  <2>7. moves' = moves
    BY <1>5 DEF Route
  <2>. QED BY <1>2, <2>1, <2>4, <2>6, TabKeeps
<1>6. CASE Effect(t)
  <2> DEFINE goal == IF tab[t].phase = "hydrated" /\ tab[t].page \in Guarded
                        /\ tab[t].token = NoToken THEN "login"
                     ELSE IF tab[t].phase = "hydrated" /\ tab[t].page \in Forms
                        /\ tab[t].token # NoToken
                     THEN (IF tab[t].page = "login" THEN tab[t].redirect ELSE "wallet")
                     ELSE tab[t].goal
             x == [tab[t] EXCEPT !.effect = FALSE, !.goal = goal]
  <2>1. tab' = [tab EXCEPT ![t] = x]
    BY <1>1, <1>6 DEF Effect
  <2>2. /\ goal \in Pages \cup {"none"}
        /\ tab[t].phase = "hydrated" =>
              /\ tab[t].page \in Guarded /\ tab[t].token = NoToken => goal # "none"
              /\ tab[t].page \in Forms /\ tab[t].token # NoToken => goal \notin Forms \cup {"none"}
    BY <1>1 DEF TabStates, Pages, Guarded, Forms
  <2> HIDE DEF goal
  <2>3. /\ x \in TabStates /\ x.goal = goal /\ x.page = tab[t].page
        /\ x.phase = tab[t].phase /\ x.restoring = tab[t].restoring
        /\ x.token = tab[t].token /\ x.user = tab[t].user /\ x.login = tab[t].login
        /\ x.crossed = tab[t].crossed /\ x.apart = tab[t].apart
    <3>1. x \in TabStates
      BY <1>1, <2>2, Zenon DEF TabStates
    <3>. QED BY <3>1, <1>1, Zenon DEF TabStates
  <2> HIDE DEF x
  <2>4. Well(t, x, storage)
    BY <1>1, <2>2, <2>3 DEF Well, RestoresItsToken, ShowsItsUser, GoesWhereItBelongs,
           KnowsTheStorage
  <2>. QED BY <1>2, <2>1, <2>3, <2>4, TabKeeps
<1>. QED BY <1>3, <1>4, <1>5, <1>6

\* What a tab is that stores a token or removes it.
LEMMA PersistedIs ==
    ASSUME SessionInv, NEW t \in Tabs, NEW token \in Tokens \cup {NoToken}, NEW new \in TabStates
    PROVE  LET x == Rendered(tab[t], [new EXCEPT !.token = token])
           IN  /\ x \in TabStates /\ x.token = token
               /\ x.page = new.page /\ x.goal = new.goal /\ x.phase = new.phase
               /\ x.restoring = new.restoring /\ x.user = new.user /\ x.login = new.login
               /\ x.crossed = new.crossed /\ x.apart = new.apart
               /\ ~x.effect => tab[t].page = new.page
                               /\ (tab[t].phase = "hydrated" <=> new.phase = "hydrated")
                               /\ (tab[t].token = NoToken <=> token = NoToken)
<1> DEFINE y == [new EXCEPT !.token = token]
           x == Rendered(tab[t], y)
<1>1. tab[t] \in TabStates
  BY DEF SessionInv, TypeOK
<1>2. /\ y \in TabStates /\ y.token = token
      /\ y.page = new.page /\ y.goal = new.goal /\ y.phase = new.phase
      /\ y.restoring = new.restoring /\ y.user = new.user /\ y.login = new.login
      /\ y.crossed = new.crossed /\ y.apart = new.apart
  BY DEF TabStates
<1> HIDE DEF y
<1>3. /\ x \in TabStates /\ x.token = token
      /\ x.page = new.page /\ x.goal = new.goal /\ x.phase = new.phase
      /\ x.restoring = new.restoring /\ x.user = new.user /\ x.login = new.login
      /\ x.crossed = new.crossed /\ x.apart = new.apart
  BY <1>1, <1>2, RenderedIs
<1>4. x.effect = (y.effect \/ Depends(tab[t]) # Depends(y))
  BY <1>1, <1>2, RenderedIs
<1>5. Depends(tab[t]) = Depends(y) =>
         /\ tab[t].page = y.page
         /\ (tab[t].phase = "hydrated") = (y.phase = "hydrated")
         /\ (tab[t].token # NoToken) = (y.token # NoToken)
  BY DEF Depends
<1>6. ~x.effect => tab[t].page = new.page
                   /\ (tab[t].phase = "hydrated" <=> new.phase = "hydrated")
                   /\ (tab[t].token = NoToken <=> token = NoToken)
  BY <1>2, <1>4, <1>5
<1>. QED BY <1>3, <1>6 DEF y

\* A tab takes the stored session, and learns whose it is or drops it.
LEMMA RestoringKeeps ==
    ASSUME SessionInv, NEW t \in Tabs, Hydrate(t) \/ Restored(t) \/ RestoreFails(t)
    PROVE  SessionInv'
<1>1. /\ tab[t] \in TabStates /\ Well(t, tab[t], storage) /\ tab \in [Tabs -> TabStates]
      /\ storage \in Tokens \cup {NoToken}
  BY DEF SessionInv, TypeOK
<1>2. /\ expired' \subseteq Tokens /\ logins' \in 0 .. MaxLogins
      /\ moves' \in 0 .. MaxMoves /\ faults' \in 0 .. MaxFaults
  <2>1. UNCHANGED <<expired, logins, moves>> /\ (faults' = faults \/ Fault)
    BY DEF Hydrate, Restored, RestoreFails
  <2>. QED BY <2>1 DEF Fault, SessionInv, TypeOK
<1>3. CASE Hydrate(t) /\ storage = NoToken
  <2> DEFINE new == [tab[t] EXCEPT !.phase = "hydrated", !.apart = FALSE]
             x == Rendered(tab[t], new)
  <2>1. /\ tab[t].phase = "mounting" /\ tab' = [tab EXCEPT ![t] = x]
        /\ UNCHANGED <<storage, cookie>>
    BY <1>1, <1>3 DEF Hydrate
  <2>2. /\ new \in TabStates /\ new.phase = "hydrated" /\ new.restoring = tab[t].restoring
        /\ new.token = tab[t].token /\ new.user = tab[t].user /\ new.crossed = tab[t].crossed
    BY <1>1 DEF TabStates
  <2> HIDE DEF new
  <2>3. /\ x \in TabStates /\ x.phase = "hydrated" /\ x.restoring = tab[t].restoring
        /\ x.token = tab[t].token /\ x.user = tab[t].user /\ x.crossed = tab[t].crossed
        /\ x.effect = (new.effect \/ Depends(tab[t]) # Depends(new))
    BY <1>1, <2>2, RenderedIs
  <2>4. Depends(tab[t]) # Depends(new)
    BY <2>1, <2>2 DEF Depends
  <2>5. x.effect
    BY <2>3, <2>4
  <2> HIDE DEF x
  <2>6. x.token = NoToken /\ x.user = NoUser /\ x.restoring = NoToken
    BY <1>1, <2>1, <2>3 DEF Well, RestoresItsToken
  <2>7. Well(t, x, storage)
    BY <1>3, <2>3, <2>5, <2>6 DEF Well, RestoresItsToken, ShowsItsUser, GoesWhereItBelongs,
           KnowsTheStorage
  <2>. QED BY <1>2, <2>1, <2>3, <2>7, TabKeeps
<1>4. CASE Hydrate(t) /\ storage # NoToken
  <2> DEFINE new == [tab[t] EXCEPT !.phase = "restoring", !.restoring = storage, !.apart = FALSE]
             x == Rendered(tab[t], [new EXCEPT !.token = storage])
  <2>1. tab[t].phase = "mounting" /\ Persist(t, storage, new)
    BY <1>4 DEF Hydrate
  <2>2. /\ new \in TabStates /\ new.phase = "restoring" /\ new.restoring = storage
        /\ new.user = tab[t].user
    BY <1>1 DEF TabStates
  <2> HIDE DEF new
  <2>3. /\ x \in TabStates /\ x.phase = "restoring" /\ x.restoring = storage
        /\ x.token = storage /\ x.user = tab[t].user
    BY <1>1, <2>2, PersistedIs
  <2>4. x = Rendered(tab[t], [new EXCEPT !.token = storage])
    OBVIOUS
  <2> HIDE DEF x
  <2>5. tab[t].user = NoUser
    BY <1>1, <2>1 DEF Well, RestoresItsToken
  <2>6. Well(t, x, storage)
    BY <1>4, <2>3, <2>5 DEF Well, RestoresItsToken, ShowsItsUser, GoesWhereItBelongs,
           KnowsTheStorage
  <2>. QED BY <1>1, <1>2, <2>1, <2>2, <2>4, <2>6, PersistKeeps
<1>5. CASE Restored(t)
  <2> DEFINE user == tab[t].restoring.user
             crossed == tab[t].crossed \cap {t}
             new == [tab[t] EXCEPT !.phase = "hydrated", !.restoring = NoToken,
                                   !.user = user, !.crossed = crossed]
             x == Rendered(tab[t], new)
  <2>1. /\ tab[t].phase = "restoring" /\ tab[t].restoring # NoToken
        /\ tab' = [tab EXCEPT ![t] = x] /\ UNCHANGED <<storage, cookie>>
    <3>1. tab' = [tab EXCEPT ![t] = x]
      BY <1>5, Zenon DEF Restored
    <3>. QED BY <3>1, <1>5 DEF Restored, Restoring
  <2>2. user \in Users /\ crossed \in SUBSET Tabs
    BY <1>1, <2>1 DEF TabStates, Tokens
  <2>3. /\ new \in TabStates /\ new.phase = "hydrated" /\ new.restoring = NoToken
        /\ new.token = tab[t].token /\ new.user = user /\ new.crossed = crossed
        /\ new.apart = tab[t].apart
    <3> HIDE DEF user, crossed
    <3>1. new \in TabStates
      BY <1>1, <2>2, Zenon DEF TabStates
    <3>. QED BY <3>1, <1>1, Zenon DEF TabStates
  <2> HIDE DEF new
  <2>4. /\ x \in TabStates /\ x.phase = "hydrated" /\ x.restoring = NoToken
        /\ x.token = tab[t].token /\ x.user = user /\ x.crossed = crossed
        /\ x.apart = tab[t].apart
        /\ x.effect = (new.effect \/ Depends(tab[t]) # Depends(new))
    BY <1>1, <2>3, RenderedIs, Zenon
  <2>5. Depends(tab[t]) # Depends(new)
    BY <2>1, <2>3 DEF Depends
  <2>6. x.effect
    BY <2>4, <2>5
  <2> HIDE DEF x
  <2>7. /\ tab[t].token # NoToken
        /\ t \notin tab[t].crossed => tab[t].token = tab[t].restoring
        /\ ~tab[t].apart => storage # NoToken
    BY <1>1, <2>1 DEF Well, RestoresItsToken, KnowsTheStorage
  <2>8. Well(t, x, storage)
    BY <2>4, <2>6, <2>7 DEF Well, RestoresItsToken, ShowsItsUser, GoesWhereItBelongs,
           KnowsTheStorage
  <2>. QED BY <1>2, <2>1, <2>4, <2>8, TabKeeps
<1>6. CASE RestoreFails(t)
  <2> DEFINE new == [tab[t] EXCEPT !.phase = "hydrated", !.restoring = NoToken,
                                   !.user = NoUser, !.crossed = {}, !.apart = FALSE]
             x == Rendered(tab[t], [new EXCEPT !.token = NoToken])
  <2>1. tab[t].phase = "restoring" /\ Persist(t, NoToken, new)
    BY <1>6 DEF RestoreFails, Restoring
  <2>2. /\ new \in TabStates /\ new.phase = "hydrated" /\ new.restoring = NoToken
        /\ new.user = NoUser
    BY <1>1 DEF TabStates
  <2> HIDE DEF new
  <2>3. /\ x \in TabStates /\ x.phase = "hydrated" /\ x.restoring = NoToken
        /\ x.token = NoToken /\ x.user = NoUser
        /\ ~x.effect => (tab[t].phase = "hydrated" <=> new.phase = "hydrated")
    BY <1>1, <2>2, PersistedIs
  <2>4. x = Rendered(tab[t], [new EXCEPT !.token = NoToken])
    OBVIOUS
  <2>5. x.effect
    BY <2>1, <2>2, <2>3 DEF TabStates
  <2> HIDE DEF x
  <2>6. Well(t, x, NoToken)
    BY <2>3, <2>5 DEF Well, RestoresItsToken, ShowsItsUser, GoesWhereItBelongs,
           KnowsTheStorage
  <2>. QED BY <1>2, <2>1, <2>2, <2>4, <2>6, PersistKeeps
<1>. QED BY <1>3, <1>4, <1>5, <1>6

\* A form is submitted and answered, a session is ended, a token expires.
LEMMA FormsKeep ==
    ASSUME SessionInv, NEW t \in Tabs,
           \/ \E u \in Users : Submit(t, u)
           \/ LoginAnswered(t) \/ LoginFails(t) \/ Logout(t)
    PROVE  SessionInv'
<1>1. /\ tab[t] \in TabStates /\ Well(t, tab[t], storage) /\ tab \in [Tabs -> TabStates]
  BY DEF SessionInv, TypeOK
<1>2. /\ expired' \subseteq Tokens /\ logins' \in 0 .. MaxLogins
      /\ moves' \in 0 .. MaxMoves /\ faults' \in 0 .. MaxFaults
  <2>1. expired \subseteq Tokens /\ logins \in 0 .. MaxLogins /\ moves \in 0 .. MaxMoves
        /\ faults \in 0 .. MaxFaults
    BY DEF SessionInv, TypeOK
  <2>2. UNCHANGED <<expired, moves, faults>>
        /\ (logins' = logins \/ (logins < MaxLogins /\ logins' = logins + 1))
    BY Zenon DEF Submit, LoginAnswered, LoginFails, Logout
  <2>. QED BY <2>1, <2>2
<1>3. CASE LoginFails(t) \/ \E u \in Users : Submit(t, u)
  <2>1. PICK login \in Tokens \cup {NoToken}, after \in Guarded :
           /\ tab' = [tab EXCEPT ![t] = [tab[t] EXCEPT !.login = login, !.after = after]]
           /\ UNCHANGED <<storage, cookie>>
           /\ tab[t].phase = "mounting" => login = NoToken
    <3>1. CASE LoginFails(t)
      BY <3>1, <1>1 DEF LoginFails, Guarded
    <3>2. ASSUME NEW u \in Users, Submit(t, u)
          PROVE  \E login \in Tokens \cup {NoToken}, after \in Guarded :
                    /\ tab' = [tab EXCEPT ![t] = [tab[t] EXCEPT !.login = login, !.after = after]]
                    /\ UNCHANGED <<storage, cookie>>
                    /\ tab[t].phase = "mounting" => login = NoToken
      <4> DEFINE login == [user |-> u, login |-> logins']
                 after == IF tab[t].page = "login" THEN tab[t].redirect ELSE "wallet"
      <4>1. login \in Tokens
        <5>1. logins' = logins + 1 /\ logins < MaxLogins
          BY <3>2, Zenon DEF Submit
        <5>2. logins \in Nat
          BY DEF SessionInv, TypeOK
        <5>3. logins' \in 1 .. MaxLogins
          BY <5>1, <5>2
        <5>. QED BY <5>3 DEF Tokens
      <4>2. after \in Guarded
        BY <1>1 DEF TabStates, Guarded
      <4>3. /\ tab' = [tab EXCEPT ![t] = [tab[t] EXCEPT !.login = login, !.after = after]]
            /\ UNCHANGED <<storage, cookie>> /\ tab[t].phase # "mounting"
        BY <1>1, <3>2 DEF Submit
      <4> HIDE DEF login, after
      <4>. QED BY <4>1, <4>2, <4>3
    <3>. QED BY <1>3, <3>1, <3>2
  <2> DEFINE x == [tab[t] EXCEPT !.login = login, !.after = after]
  <2>2. /\ x \in TabStates /\ x.login = login /\ x.page = tab[t].page /\ x.goal = tab[t].goal
        /\ x.effect = tab[t].effect /\ x.phase = tab[t].phase /\ x.restoring = tab[t].restoring
        /\ x.token = tab[t].token /\ x.user = tab[t].user /\ x.crossed = tab[t].crossed
        /\ x.apart = tab[t].apart
    BY <1>1 DEF TabStates
  <2>3. tab' = [tab EXCEPT ![t] = x]
    BY <2>1
  <2> HIDE DEF x
  <2>4. RestoresItsToken(t, x) /\ ShowsItsUser(t, x)
    BY <1>1, <2>1, <2>2 DEF Well, RestoresItsToken, ShowsItsUser
  <2>5. GoesWhereItBelongs(x) /\ KnowsTheStorage(x, storage)
    BY <1>1, <2>2 DEF Well, GoesWhereItBelongs, KnowsTheStorage
  <2>6. UNCHANGED <<storage, cookie>>
    BY <2>1
  <2>. QED BY <1>2, <2>2, <2>3, <2>4, <2>5, <2>6, TabKeeps DEF Well
<1>4. CASE LoginAnswered(t)
  <2> DEFINE token == tab[t].login
             crossed == IF tab[t].phase = "restoring" THEN tab[t].crossed \cup {t} ELSE {}
             new == [tab[t] EXCEPT !.user = token.user, !.login = NoToken,
                                   !.goal = tab[t].after, !.after = "wallet",
                                   !.crossed = crossed, !.apart = FALSE]
             x == Rendered(tab[t], [new EXCEPT !.token = token])
  <2>1. token # NoToken /\ Persist(t, token, new)
    BY <1>1, <1>4 DEF LoginAnswered
  <2>2. /\ token \in Tokens /\ token.user \in Users /\ crossed \in SUBSET Tabs
        /\ tab[t].phase = "restoring" => t \in crossed
        /\ tab[t].after \in Guarded /\ tab[t].phase # "mounting" /\ tab[t].restoring \in Tokens \cup {NoToken}
        /\ tab[t].restoring # NoToken <=> tab[t].phase = "restoring"
    BY <1>1, <2>1 DEF TabStates, Tokens, Well, RestoresItsToken
  <2> HIDE DEF token, crossed
  <2>3. /\ new \in TabStates /\ new.user = token.user /\ new.login = NoToken
        /\ new.goal = tab[t].after /\ new.crossed = crossed /\ new.apart = FALSE
        /\ new.phase = tab[t].phase /\ new.restoring = tab[t].restoring
    <3>1. /\ token.user \in Users \cup {NoUser} /\ NoToken \in Tokens \cup {NoToken}
          /\ tab[t].after \in Pages \cup {"none"} /\ "wallet" \in Guarded
          /\ crossed \in SUBSET Tabs /\ FALSE \in BOOLEAN
      BY <2>2 DEF Guarded, Pages
    <3>2. new \in TabStates
      BY <1>1, <3>1, Zenon DEF TabStates
    <3>. QED BY <3>2, <1>1, Zenon DEF TabStates
  <2> HIDE DEF new
  <2>4. /\ x \in TabStates /\ x.user = token.user /\ x.login = NoToken /\ x.token = token
        /\ x.goal = tab[t].after /\ x.crossed = crossed /\ x.apart = FALSE
        /\ x.phase = tab[t].phase /\ x.restoring = tab[t].restoring
    BY <2>2, <2>3, PersistedIs
  <2>5. x = Rendered(tab[t], [new EXCEPT !.token = token])
    OBVIOUS
  <2> HIDE DEF x
  <2>6. x.goal \notin Forms \cup {"none"}
    BY <2>2, <2>4 DEF Guarded, Forms
  <2>7. Well(t, x, token)
    BY <2>1, <2>2, <2>4, <2>6 DEF Well, RestoresItsToken, ShowsItsUser, GoesWhereItBelongs,
           KnowsTheStorage
  <2>8. token \in {storage, NoToken, tab[t].login}
    BY DEF token
  <2>. QED BY <1>2, <2>1, <2>2, <2>3, <2>5, <2>7, <2>8, PersistKeeps
<1>5. CASE Logout(t)
  <2> DEFINE new == [tab[t] EXCEPT !.user = NoUser, !.crossed = {}, !.apart = FALSE]
             x == Rendered(tab[t], [new EXCEPT !.token = NoToken])
  <2>1. tab[t].phase = "hydrated" /\ tab[t].token # NoToken /\ Persist(t, NoToken, new)
    BY <1>5 DEF Logout
  <2>2. /\ new \in TabStates /\ new.phase = "hydrated" /\ new.restoring = tab[t].restoring
        /\ new.user = NoUser
    BY <1>1, <2>1 DEF TabStates
  <2> HIDE DEF new
  <2>3. /\ x \in TabStates /\ x.phase = "hydrated" /\ x.restoring = tab[t].restoring
        /\ x.token = NoToken /\ x.user = NoUser
        /\ ~x.effect => (tab[t].token = NoToken <=> NoToken = NoToken)
    BY <2>2, PersistedIs
  <2>4. x = Rendered(tab[t], [new EXCEPT !.token = NoToken])
    OBVIOUS
  <2>5. x.effect
    BY <2>1, <2>3 DEF TabStates
  <2> HIDE DEF x
  <2>6. Well(t, x, NoToken)
    BY <1>1, <2>1, <2>3, <2>5 DEF Well, RestoresItsToken, ShowsItsUser, GoesWhereItBelongs,
           KnowsTheStorage
  <2>. QED BY <1>2, <2>1, <2>2, <2>4, <2>6, PersistKeeps
<1>. QED BY <1>3, <1>4, <1>5

-----------------------------------------------------------------------------
(* What holds of the specification.                                        *)

\* The invariant holds: every step of every tab keeps it.
THEOREM SessionInvariant == Spec => []SessionInv
<1>1. SessionInv /\ [Next]_vars => SessionInv'
  <2> SUFFICES ASSUME SessionInv, [Next]_vars PROVE SessionInv'
    OBVIOUS
  <2>1. CASE UNCHANGED vars
    BY <2>1 DEF vars, SessionInv, TypeOK, Well, RestoresItsToken, ShowsItsUser,
           GoesWhereItBelongs, KnowsTheStorage
  <2>2. CASE Expire
    <3>1. expired' \subseteq Tokens /\ faults' \in 0 .. MaxFaults
          /\ UNCHANGED <<storage, cookie, tab, logins, moves>>
      BY <2>2 DEF Expire, Fault, SessionInv, TypeOK
    <3>. QED BY <3>1 DEF SessionInv, TypeOK, Well, RestoresItsToken, ShowsItsUser,
                GoesWhereItBelongs, KnowsTheStorage
  <2>3. ASSUME NEW t \in Tabs,
               \/ \E page \in Pages : Open(t, page) \/ Follow(t, page)
               \/ Route(t) \/ Effect(t)
        PROVE  SessionInv'
    <3>1. \E page \in Pages : Open(t, page) \/ Follow(t, page) \/ Route(t) \/ Effect(t)
      BY <2>3 DEF Pages
    <3>. QED BY <3>1, PagesKeep
  <2>4. ASSUME NEW t \in Tabs, Hydrate(t) \/ Answer(t)
        PROVE  SessionInv'
    BY <2>4, RestoringKeeps DEF Answer
  <2>5. ASSUME NEW t \in Tabs,
               \/ \E u \in Users : Submit(t, u)
               \/ LoginAnswered(t) \/ LoginFails(t) \/ Logout(t)
        PROVE  SessionInv'
    BY <2>5, FormsKeep
  <2>. QED BY <2>1, <2>2, <2>3, <2>4, <2>5 DEF Next
<1>. QED BY InitEstablishes, <1>1, PTL DEF Spec

\* Every reachable state is well typed; in particular the router goes to pages only,
\* and a form goes on to a guarded page (login page, register page).
THEOREM SessionTypeCorrect == Spec => []TypeOK
<1>1. SessionInv => TypeOK
  BY DEF SessionInv
<1>. QED BY SessionInvariant, <1>1, PTL

\* A tab shows the profile its token belongs to, but for a login that crossed the
\* restoring of an older session (hydrate, login), for any number of tabs.
THEOREM ShowsOneIdentity == Spec => []OneIdentity
<1>1. SessionInv => OneIdentity
  BY DEF SessionInv, Well, ShowsItsUser, OneIdentity
<1>. QED BY SessionInvariant, <1>1, PTL

\* A tab at rest is where it belongs unless another tab has signed in or out since
\* (AuthGuard, the forms, proxy), for any number of tabs.
THEOREM TabsRestWhereTheyBelong == Spec => []RestsWhereItBelongs
<1>1. SessionInv => RestsWhereItBelongs
  BY DEF SessionInv, Well, GoesWhereItBelongs, AtRest, RestsWhereItBelongs
<1>. QED BY SessionInvariant, <1>1, PTL

\* The stored session appears with the answer to a form and disappears with a logout
\* or with a tab that could not restore it (persistToken), for any number of tabs.
THEOREM SessionsChangeForAReason == Spec => SessionChangesForAReason
<1>1. SessionInv /\ [Next]_vars =>
         [/\ storage' \notin {storage, NoToken} => \E t \in Tabs : tab[t].login = storage'
          /\ storage # NoToken /\ storage' = NoToken
                => \E t \in Tabs :
                      /\ tab[t].token # NoToken /\ tab'[t].token = NoToken
                      /\ \/ tab[t].phase = "hydrated" /\ tab[t].login = tab'[t].login
                         \/ tab[t].restoring = storage
                         \/ tab[t].restoring # NoToken /\ tab[t].crossed # {}]_vars
  <2> SUFFICES ASSUME SessionInv, [Next]_vars
               PROVE  /\ storage' \notin {storage, NoToken} => \E t \in Tabs : tab[t].login = storage'
                      /\ storage # NoToken /\ storage' = NoToken
                            => \E t \in Tabs :
                                  /\ tab[t].token # NoToken /\ tab'[t].token = NoToken
                                  /\ \/ tab[t].phase = "hydrated" /\ tab[t].login = tab'[t].login
                                     \/ tab[t].restoring = storage
                                     \/ tab[t].restoring # NoToken /\ tab[t].crossed # {}
    OBVIOUS
  <2>1. CASE storage' = storage
    BY <2>1
  <2>2. ASSUME NEW t \in Tabs, LoginAnswered(t)
        PROVE  tab[t].login = storage' /\ storage' # NoToken
    BY <2>2 DEF LoginAnswered, Persist
  <2>3. ASSUME NEW t \in Tabs, Logout(t)
        PROVE  /\ storage' = NoToken
               /\ tab[t].token # NoToken /\ tab'[t].token = NoToken
               /\ tab[t].phase = "hydrated" /\ tab[t].login = tab'[t].login
    <3> DEFINE new == [tab[t] EXCEPT !.user = NoUser, !.crossed = {}, !.apart = FALSE]
    <3>1. /\ tab[t].phase = "hydrated" /\ tab[t].token # NoToken /\ storage' = NoToken
          /\ tab'[t] = Rendered(tab[t], [new EXCEPT !.token = NoToken])
      BY <2>3 DEF Logout, Persist
    <3>2. new \in TabStates /\ new.login = tab[t].login
      <4>1. tab[t] \in TabStates
        BY DEF SessionInv, TypeOK
      <4>. QED BY <4>1 DEF TabStates
    <3> HIDE DEF new
    <3>. QED BY <3>1, <3>2, PersistedIs
  <2>4. ASSUME NEW t \in Tabs, RestoreFails(t)
        PROVE  /\ storage' = NoToken
               /\ tab[t].token # NoToken /\ tab'[t].token = NoToken
               /\ storage # NoToken =>
                     \/ tab[t].restoring = storage
                     \/ tab[t].restoring # NoToken /\ tab[t].crossed # {}
    <3> DEFINE new == [tab[t] EXCEPT !.phase = "hydrated", !.restoring = NoToken,
                                     !.user = NoUser, !.crossed = {}, !.apart = FALSE]
    <3>1. /\ tab[t].phase = "restoring" /\ tab[t].restoring # NoToken /\ storage' = NoToken
          /\ tab'[t] = Rendered(tab[t], [new EXCEPT !.token = NoToken])
      BY <2>4 DEF RestoreFails, Restoring, Persist
    <3>2. new \in TabStates
      <4>1. tab[t] \in TabStates
        BY DEF SessionInv, TypeOK
      <4>. QED BY <4>1 DEF TabStates
    <3> HIDE DEF new
    <3>3. tab'[t].token = NoToken
      BY <3>1, <3>2, PersistedIs
    <3>4. Well(t, tab[t], storage)
      BY DEF SessionInv
    <3>. QED BY <3>1, <3>3, <3>4 DEF Well, RestoresItsToken, KnowsTheStorage
  <2>5. ASSUME storage' # storage
        PROVE  \E t \in Tabs : LoginAnswered(t) \/ Logout(t) \/ RestoreFails(t)
    BY <2>5 DEF Next, vars, Expire, Open, Follow, Route, Effect, Hydrate, Persist, Answer, Restored,
           Submit, LoginFails
  <2>. QED BY <2>1, <2>2, <2>3, <2>4, <2>5
<1>. QED BY SessionInvariant, <1>1, PTL DEF Spec, SessionChangesForAReason
=====
