---------------------------- MODULE BrowserSession ----------------------------
(***************************************************************************)
(* The session in the browser: tabs of the web client that share a token   *)
(* in localStorage and a cookie that says that there is one.  A tab that   *)
(* is opened restores its session (hydrate): it takes the stored token and *)
(* asks the API who it belongs to, while its user may already sign in      *)
(* anew, and other tabs sign in and out.  The proxy sends requests for     *)
(* guarded pages to the login page if the cookie is missing, AuthGuard     *)
(* leaves a guarded page without a token, and the forms leave for it with  *)
(* one, each in an effect that runs when what it depends on has changed.   *)
(***************************************************************************)
EXTENDS Integers

CONSTANTS
    Tabs,
    Users,
    NoToken,
    NoUser,
    MaxLogins,      \* bound: forms that are submitted
    MaxMoves,       \* bound: pages opened, links followed
    MaxFaults       \* bound: requests that fail or time out, tokens that expire

ASSUME SessionAssumption ==
    NoUser \notin Users /\ MaxLogins \in Nat /\ MaxMoves \in Nat /\ MaxFaults \in Nat

Guarded == {"wallet", "orders"}
Forms   == {"login", "register"}
Pages   == Guarded \cup Forms \cup {"markets"}

\* The API answers every form with a token of its own.
Tokens == [user : Users, login : 1 .. MaxLogins]

ASSUME NoTokenAssumption == NoToken \notin Tokens

VARIABLES
    storage,        \* the token in localStorage
    cookie,         \* olx.authenticated
    expired,        \* tokens the API no longer accepts
    tab,            \* each tab: its page and the state of its AuthProvider
    logins, moves, faults

vars == <<storage, cookie, expired, tab, logins, moves, faults>>

Closed == [page |-> "none", redirect |-> "wallet", goal |-> "none", effect |-> FALSE,
           phase |-> "mounting", restoring |-> NoToken, token |-> NoToken, user |-> NoUser,
           login |-> NoToken, after |-> "wallet", crossed |-> {}, apart |-> FALSE]

\* A tab: its page, and the state of its AuthProvider and of its form.
TabStates ==
    [page      : Pages \cup {"none"},
     redirect  : Guarded,                  \* ?redirect= of the login page
     goal      : Pages \cup {"none"},      \* where the router is going
     effect    : BOOLEAN,                  \* the page's effect is due
     phase     : {"mounting", "restoring", "hydrated"},
     restoring : Tokens \cup {NoToken},
     token     : Tokens \cup {NoToken},
     user      : Users \cup {NoUser},
     login     : Tokens \cup {NoToken},    \* what a form is waiting for
     after     : Guarded,                  \* and where it goes then
     crossed   : SUBSET Tabs,              \* history: logins while it restored
     apart     : BOOLEAN]                  \* history: another tab signed in or out

TypeOK ==
    /\ storage \in Tokens \cup {NoToken}
    /\ cookie \in BOOLEAN
    /\ expired \subseteq Tokens
    /\ tab \in [Tabs -> TabStates]
    /\ logins \in 0 .. MaxLogins
    /\ moves \in 0 .. MaxMoves
    /\ faults \in 0 .. MaxFaults

Init ==
    /\ storage = NoToken /\ cookie = FALSE /\ expired = {}
    /\ tab = [t \in Tabs |-> Closed]
    /\ logins = 0 /\ moves = 0 /\ faults = 0

Fault == faults < MaxFaults /\ faults' = faults + 1

Move == moves < MaxMoves /\ moves' = moves + 1

\* Wrong on purpose: the forms' effect does not depend on isHydrated.
DependsOnToken(x) == <<x.token # NoToken, x.page, x.redirect>>

\* What the effects of the pages depend on.
Depends(x) == <<x.phase = "hydrated", x.token # NoToken, x.page, x.redirect>>

\* The tab is rendered anew.
Rendered(old, new) == [new EXCEPT !.effect = @ \/ Depends(old) # Depends(new)]

-----------------------------------------------------------------------------
(* Pages.                                                                  *)

\* Wrong on purpose: every page is guarded.
LandingGuarded(x, page) ==
    IF ~cookie THEN [x EXCEPT !.page = "login", !.redirect = page]
    ELSE [x EXCEPT !.page = page, !.redirect = "wallet"]

\* The router or the browser asks for a page; the proxy turns guarded ones down
\* without the cookie, and the login page remembers them.
Landing(x, page) ==
    IF page \in Guarded /\ ~cookie
    THEN [x EXCEPT !.page = "login", !.redirect = page]
    ELSE [x EXCEPT !.page = page, !.redirect = "wallet"]

\* A page is opened or loaded again: all state of the tab is new.
Open(t, page) ==
    /\ Move
    /\ tab' = [tab EXCEPT ![t] = [Landing(Closed, page) EXCEPT !.effect = TRUE]]
    /\ UNCHANGED <<storage, cookie, expired, logins, faults>>

\* A link is followed; those to the forms are there for who is not signed in.
Follow(t, page) ==
    /\ Move
    /\ tab[t].page # "none" /\ tab[t].phase # "mounting"
    /\ page \in Forms => tab[t].phase = "restoring" \/ tab[t].token = NoToken
    /\ tab' = [tab EXCEPT ![t].goal = page]
    /\ UNCHANGED <<storage, cookie, expired, logins, faults>>

\* Wrong on purpose: a page is mounted anew even if it is already there.
RouteAndMount(t) ==
    /\ tab[t].goal # "none"
    /\ tab' = [tab EXCEPT ![t] = [Landing(@, @.goal) EXCEPT !.goal = "none", !.effect = TRUE]]
    /\ UNCHANGED <<storage, cookie, expired, logins, moves, faults>>

\* A page that is already there stays mounted.
Route(t) ==
    /\ tab[t].goal # "none"
    /\ tab' = [tab EXCEPT ![t] = Rendered(@, [Landing(@, @.goal) EXCEPT !.goal = "none"])]
    /\ UNCHANGED <<storage, cookie, expired, logins, moves, faults>>

\* AuthGuard leaves for the login page, the forms for the guarded page.
Effect(t) ==
    LET x    == tab[t]
        goal == IF x.phase = "hydrated" /\ x.page \in Guarded /\ x.token = NoToken THEN "login"
                ELSE IF x.phase = "hydrated" /\ x.page \in Forms /\ x.token # NoToken
                THEN (IF x.page = "login" THEN x.redirect ELSE "wallet")
                ELSE x.goal
    IN  /\ x.effect
        /\ tab' = [tab EXCEPT ![t].effect = FALSE, ![t].goal = goal]
        /\ UNCHANGED <<storage, cookie, expired, logins, moves, faults>>

-----------------------------------------------------------------------------
(* The AuthProvider of a tab.                                              *)

\* persistToken, in a tab that is rendered anew.  The other tabs do not listen to
\* the storage, and go on with the token they have or without one.
Persist(t, token, new) ==
    /\ storage' = token
    /\ cookie' = (token # NoToken)
    /\ tab' = [x \in Tabs |->
                  IF x = t THEN Rendered(tab[t], [new EXCEPT !.token = token])
                  ELSE [tab[x] EXCEPT
                           !.apart   = @ \/ (tab[x].token = NoToken) # (token = NoToken),
                           !.crossed = IF tab[x].phase = "restoring" /\ token = tab[t].login
                                       THEN @ \cup {t} ELSE @]]

\* hydrate takes what is stored.
Hydrate(t) ==
    /\ tab[t].page # "none" /\ tab[t].phase = "mounting"
    /\ IF storage = NoToken
       THEN /\ tab' = [tab EXCEPT ![t] = Rendered(@, [@ EXCEPT
                             !.phase = "hydrated", !.apart = FALSE])]
            /\ UNCHANGED <<storage, cookie>>
       ELSE Persist(t, storage, [tab[t] EXCEPT !.phase = "restoring", !.restoring = storage,
                                                    !.apart = FALSE])
    /\ UNCHANGED <<expired, logins, moves, faults>>

Restoring(t) == tab[t].phase = "restoring" /\ tab[t].restoring # NoToken

\* Wrong on purpose: the token is stored once it is known to be good.
RestoredAndStored(t) ==
    /\ Restoring(t)
    /\ tab[t].restoring \notin expired
    /\ Persist(t, tab[t].restoring, [tab[t] EXCEPT
           !.phase = "hydrated", !.restoring = NoToken, !.user = tab[t].restoring.user])
    /\ UNCHANGED <<expired, logins, moves, faults>>

\* getMe is answered.
Restored(t) ==
    /\ Restoring(t)
    /\ tab[t].restoring \notin expired
    /\ tab' = [tab EXCEPT ![t] = Rendered(tab[t], [tab[t] EXCEPT
                  !.phase = "hydrated", !.restoring = NoToken, !.user = tab[t].restoring.user,
                  !.crossed = tab[t].crossed \cap {t}])]
    /\ UNCHANGED <<storage, cookie, expired, logins, moves, faults>>

\* getMe is refused, fails or times out: the session is dropped, whichever it is.
RestoreFails(t) ==
    /\ Restoring(t)
    /\ Fault \/ (tab[t].restoring \in expired /\ UNCHANGED faults)
    /\ Persist(t, NoToken, [tab[t] EXCEPT !.phase = "hydrated", !.restoring = NoToken,
                                          !.user = NoUser, !.crossed = {}, !.apart = FALSE])
    /\ UNCHANGED <<expired, logins, moves>>

\* A form is submitted, whether the session has been restored or not.
Submit(t, u) ==
    /\ logins < MaxLogins
    /\ tab[t].page \in Forms /\ tab[t].phase # "mounting" /\ tab[t].login = NoToken
    /\ logins' = logins + 1
    /\ tab' = [tab EXCEPT ![t].login = [user |-> u, login |-> logins'],
                          ![t].after = IF tab[t].page = "login" THEN tab[t].redirect ELSE "wallet"]
    /\ UNCHANGED <<storage, cookie, expired, moves, faults>>

\* login or register is answered: the session is replaced, the form goes on.
LoginAnswered(t) ==
    /\ tab[t].login # NoToken
    /\ Persist(t, tab[t].login, [tab[t] EXCEPT
           !.user = tab[t].login.user, !.login = NoToken, !.goal = tab[t].after, !.after = "wallet",
           !.crossed = IF tab[t].phase = "restoring" THEN @ \cup {t} ELSE {}, !.apart = FALSE])
    /\ UNCHANGED <<expired, logins, moves, faults>>

LoginFails(t) ==
    /\ tab[t].login # NoToken
    /\ tab' = [tab EXCEPT ![t].login = NoToken, ![t].after = "wallet"]
    /\ UNCHANGED <<storage, cookie, expired, logins, moves, faults>>

\* Wrong on purpose: the profile is kept.
LogoutKeepingUser(t) ==
    /\ tab[t].phase = "hydrated" /\ tab[t].token # NoToken
    /\ Persist(t, NoToken, [tab[t] EXCEPT !.crossed = {}, !.apart = FALSE])
    /\ UNCHANGED <<expired, logins, moves, faults>>

\* The button is there once the tab is hydrated; the API is not told.
Logout(t) ==
    /\ tab[t].phase = "hydrated" /\ tab[t].token # NoToken
    /\ Persist(t, NoToken, [tab[t] EXCEPT !.user = NoUser, !.crossed = {}, !.apart = FALSE])
    /\ UNCHANGED <<expired, logins, moves, faults>>

\* A stored token outlives its lifetime, or the API has revoked it.
Expire ==
    /\ Fault
    /\ storage # NoToken /\ storage \notin expired
    /\ expired' = expired \cup {storage}
    /\ UNCHANGED <<storage, cookie, tab, logins, moves>>

-----------------------------------------------------------------------------
Answer(t) == Restored(t) \/ RestoreFails(t)

Next ==
    \/ Expire
    \/ \E t \in Tabs :
          \/ \E page \in Pages : Open(t, page) \/ Follow(t, page)
          \/ Route(t) \/ Effect(t) \/ Hydrate(t) \/ Answer(t)
          \/ \E u \in Users : Submit(t, u)
          \/ LoginAnswered(t) \/ LoginFails(t) \/ Logout(t)

\* React runs effects, the router arrives, and a request is answered or given up
\* after ten seconds.  Nobody has to sign in or to go anywhere.
Fairness ==
    \A t \in Tabs : /\ WF_vars(Route(t)) /\ WF_vars(Effect(t)) /\ WF_vars(Hydrate(t))
                    /\ WF_vars(Answer(t)) /\ WF_vars(LoginAnswered(t) \/ LoginFails(t))

Spec == Init /\ [][Next]_vars /\ Fairness

-----------------------------------------------------------------------------
(* What must hold.                                                         *)

AtRest(x) == x.phase = "hydrated" /\ x.goal = "none" /\ ~x.effect /\ x.login = NoToken

\* A tab shows the profile of whom its token belongs to, unless the user signed in
\* while it restored an older session, whose late profile then takes the place of
\* the new one (hydrate, login); and no profile without a token.
OneIdentity ==
    \A t \in Tabs :
        LET x == tab[t]
        IN  /\ x.token = NoToken => x.user = NoUser
            /\ x.token # NoToken /\ x.user # NoUser /\ t \notin x.crossed
                  => x.user = x.token.user

\* The stored session appears with the answer to a form and in no other way: no tab
\* that restores an older one brings it back after a logout.  It disappears with a
\* logout, or with a tab that cannot restore it, be it for a time-out; one that a
\* tab did not restore only if it was signed in to in the meantime (persistToken).
SessionChangesForAReason ==
    [][/\ storage' \notin {storage, NoToken} => \E t \in Tabs : tab[t].login = storage'
       /\ storage # NoToken /\ storage' = NoToken
             => \E t \in Tabs :
                   /\ tab[t].token # NoToken /\ tab'[t].token = NoToken
                   /\ \/ tab[t].phase = "hydrated" /\ tab[t].login = tab'[t].login
                      \/ tab[t].restoring = storage
                      \/ tab[t].restoring # NoToken /\ tab[t].crossed # {}]_vars

\* A tab at rest shows no guarded page without a token, nor a form with one, unless
\* another tab has signed in or out since: then the cookie says something else than
\* the tab, and it may stay where its user seems signed in and is turned away, or
\* on a guarded page that shows nothing (AuthGuard, the forms, proxy).
RestsWhereItBelongs ==
    \A t \in Tabs : AtRest(tab[t]) /\ ~tab[t].apart =>
        /\ tab[t].page \in Guarded => tab[t].token # NoToken
        /\ tab[t].page \in Forms => tab[t].token = NoToken

\* Every tab comes to rest, its session restored or dropped, and no two pages send
\* it back and forth for ever, whatever the other tabs do (AuthGuard, proxy).
EveryTabRests == <>[](\A t \in Tabs : tab[t].page = "none" \/ AtRest(tab[t]))
=============================================================================
