------------------------------ MODULE AuthProofs ------------------------------
(***************************************************************************)
(* Theorems about Auth, for any users, devices, requests and lifetimes: a  *)
(* logout holds until its token has expired, no session ends without a     *)
(* logout of its own token, and an old role is served for a bounded time.  *)
(***************************************************************************)
EXTENDS Auth, TLAPS

USE AuthAssumption, NoTokenAssumption

\* A token that was issued.
Genuine(token) == role[token.user] # "NONE" /\ token.issued <= Second(now)

\* Tokens in hand were issued, and what is cached is about users who registered.
Known ==
    /\ \A r \in Requests : Begun(r) \/ At(r, "revoke") => req[r].token \in Tokens
    /\ \A d \in Devices : device[d] # NoToken => Genuine(device[d])
    /\ \A r \in Requests : req[r].token # NoToken => Genuine(req[r].token)
    /\ \A u \in Users : cache[u] # NoEntry => role[u] # "NONE"

\* The key of a revoked token outlives the token, whichever half second passes
\* between the logout's reckoning and its write.
RevokedLongEnough ==
    /\ \A t \in loggedOut : revoked[t] >= 2 * Expiry(t)
    /\ \A r \in Requests : At(r, "revoke") =>
          r \in Logouts /\ now + 2 * req[r].ttl >= 2 * Expiry(req[r].token)
    /\ \A r \in Requests : At(r, "revocation") /\ req[r].late =>
          req[r].token \in loggedOut \/ Second(now) >= Expiry(req[r].token)

\* Only a logout revokes.
RevokedByLogout ==
    \A t \in Tokens : revoked[t] > 0 =>
        \E l \in Logouts : req[l].token = t /\ At(l, "accepted")

\* A cached role is kept no longer than its time to live, and one that is not the
\* user's any more no longer than the history says.
CacheInTime ==
    \A u \in Users : cache[u] # NoEntry =>
        /\ cache[u].until > now /\ cache[u].until <= now + 2 * CacheTtl
        /\ cache[u].role # role[u] => staleUntil[u] >= cache[u].until

\* A request that must see the current role finds it, or has found it; one that is
\* about to cache an old role has read it before the change.
SeesWell(x) ==
    /\ x.sees = "current" /\ x.step \in {"revocation", "cache"}
          => cache[x.token.user] = NoEntry \/ cache[x.token.user].role = role[x.token.user]
    /\ x.sees = "current" /\ x.step \in {"write", "decide"} => x.role = role[x.token.user]
    /\ x.step = "write" /\ x.role # role[x.token.user] => x.sees = "old"

RolesSeen == \A r \in Requests : SeesWell(req[r])

\* The inductive invariant: what each of the three action properties rests on.
AuthInv == TypeOK /\ Known /\ RevokedLongEnough /\ RevokedByLogout /\ CacheInTime /\ RolesSeen

\* What a second is.
LEMMA Seconds ==
    ASSUME NEW n \in Nat
    PROVE  /\ Second(n) \in Nat /\ 2 * Second(n) <= n /\ n <= 2 * Second(n) + 1
           /\ \A m \in Nat : m <= n => Second(m) <= Second(n)
  BY DEF Second

\* When a token was issued and when it expires.
LEMMA TokenTimes ==
    ASSUME NEW t \in Tokens
    PROVE  /\ t.user \in Users /\ t.issued \in Nat /\ t.issued <= Second(MaxTime)
           /\ Expiry(t) \in Nat /\ 2 * Expiry(t) <= MaxTime + 2 * Lifetime
<1>1. Second(MaxTime) \in Nat /\ 2 * Second(MaxTime) <= MaxTime
  BY Seconds
<1>2. t.user \in Users /\ t.issued \in 0 .. Second(MaxTime)
  BY DEF Tokens
<1>. QED BY <1>1, <1>2 DEF Expiry

\* A request that has not been sent.
LEMMA NewRequestIs ==
    /\ NewRequest \in RequestStates
    /\ NewRequest.step = "new" /\ NewRequest.token = NoToken /\ NewRequest.sees = "any"
    /\ NewRequest.late = FALSE /\ NewRequest.ttl = 0 /\ NewRequest.role = "NONE"
  BY DEF NewRequest, RequestStates

LEMMA InitEstablishes == Init => AuthInv
<1> SUFFICES ASSUME Init PROVE AuthInv
  OBVIOUS
<1>1. now \in Times /\ 0 \in Until
  BY DEF Init, Times, Until
<1>2. NoEntry \in [role : Roles \cup {"NONE"}, until : Until]
  BY <1>1 DEF NoEntry
<1>3. TypeOK
  BY <1>1, <1>2, NewRequestIs DEF Init, TypeOK
<1>4. \A r \in Requests : req[r] = NewRequest
  BY DEF Init
<1>5. Known
  BY <1>4, NewRequestIs DEF Init, Known, Begun, Guards, At
<1>6. RevokedLongEnough /\ RevokedByLogout
  BY <1>4, NewRequestIs DEF Init, RevokedLongEnough, RevokedByLogout, At
<1>7. CacheInTime /\ RolesSeen
  BY <1>4, NewRequestIs DEF Init, CacheInTime, RolesSeen, SeesWell
<1>. QED BY <1>3, <1>5, <1>6, <1>7 DEF AuthInv

-----------------------------------------------------------------------------
(* The steps of a request that change nothing else.                        *)

\* A change of one request keeps the invariant if the request is well afterwards.
LEMMA RequestKeeps ==
    ASSUME AuthInv, NEW r \in Requests, NEW x \in RequestStates,
           req' = [req EXCEPT ![r] = x],
           UNCHANGED <<now, userVars, device, redisVars>>, troubles' \in 0 .. MaxTroubles,
           x.step \in Guards \cup {"revoke"} => x.token \in Tokens,
           x.token # NoToken => Genuine(x.token),
           x.step = "revoke" => r \in Logouts /\ now + 2 * x.ttl >= 2 * Expiry(x.token),
           x.step = "revocation" /\ x.late =>
               x.token \in loggedOut \/ Second(now) >= Expiry(x.token),
           ~At(r, "accepted"),
           SeesWell(x)
    PROVE  AuthInv'
<1>1. /\ now' = now /\ role' = role /\ changes' = changes /\ device' = device
      /\ redis' = redis /\ revoked' = revoked /\ cache' = cache
      /\ loggedOut' = loggedOut /\ staleUntil' = staleUntil
  BY DEF userVars, redisVars
<1>2. /\ req' \in [Requests -> RequestStates] /\ req'[r] = x
      /\ \A q \in Requests \ {r} : req'[q] = req[q]
  BY DEF AuthInv, TypeOK
<1>3. TypeOK'
  BY <1>1, <1>2 DEF AuthInv, TypeOK
<1>4. Known'
  BY <1>1, <1>2 DEF AuthInv, Known, Genuine, Begun, At
<1>5. RevokedLongEnough'
  BY <1>1, <1>2 DEF AuthInv, RevokedLongEnough, At
<1>6. RevokedByLogout'
  <2> SUFFICES ASSUME NEW t \in Tokens, revoked[t] > 0
               PROVE  \E l \in Logouts : req'[l].token = t /\ req'[l].step = "accepted"
    BY <1>1 DEF RevokedByLogout, At
  <2>1. PICK l \in Logouts : req[l].token = t /\ req[l].step = "accepted"
    BY DEF AuthInv, RevokedByLogout, At
  <2>2. l # r
    BY <2>1 DEF At
  <2>. QED BY <2>1, <2>2, <1>2
<1>7. CacheInTime'
  BY <1>1 DEF AuthInv, CacheInTime
<1>8. RolesSeen'
  BY <1>1, <1>2 DEF AuthInv, RolesSeen, SeesWell
<1>. QED BY <1>3, <1>4, <1>5, <1>6, <1>7, <1>8 DEF AuthInv

\* What an answer leaves of a request.
LEMMA Answered ==
    ASSUME TypeOK, NEW r \in Requests, NEW a \in Answers
    PROVE  LET x == [NewRequest EXCEPT
                        !.step = a, !.token = IF r \in Logouts THEN req[r].token ELSE NoToken]
           IN  /\ x \in RequestStates /\ x.step = a /\ x.token \in {req[r].token, NoToken}
               /\ r \in Logouts => x.token = req[r].token
               /\ SeesWell(x)
<1> DEFINE token == IF r \in Logouts THEN req[r].token ELSE NoToken
           x == [NewRequest EXCEPT !.step = a, !.token = token]
<1>1. req[r].token \in Tokens \cup {NoToken}
  BY DEF TypeOK, RequestStates
<1>2. token \in Tokens \cup {NoToken}
  BY <1>1
<1> HIDE DEF token
<1>3. x \in RequestStates /\ x.step = a /\ x.token = token /\ x.sees = "any"
  BY <1>2, NewRequestIs DEF RequestStates, NewRequest
<1>4. SeesWell(x)
  BY <1>3 DEF SeesWell, Answers
<1>. QED BY <1>3, <1>4 DEF token

\* An answer keeps the invariant, if it changes nothing else.
LEMMA AnswerKeeps ==
    ASSUME AuthInv, NEW r \in Requests, NEW a \in Answers, Answer(r, a),
           UNCHANGED <<now, userVars, device, redisVars>>, troubles' \in 0 .. MaxTroubles,
           ~At(r, "accepted")
    PROVE  AuthInv'
<1> DEFINE x == [NewRequest EXCEPT
                    !.step = a, !.token = IF r \in Logouts THEN req[r].token ELSE NoToken]
<1>1. /\ x \in RequestStates /\ x.step = a /\ x.token \in {req[r].token, NoToken}
      /\ SeesWell(x)
  BY Answered DEF AuthInv
<1>2. req' = [req EXCEPT ![r] = x]
  BY DEF Answer
<1>3. x.token # NoToken => Genuine(x.token)
  BY <1>1 DEF AuthInv, Known
<1> HIDE DEF x
<1>4. x.step \notin Guards \cup {"revoke"}
  BY <1>1 DEF Guards, Answers
<1>. QED BY <1>1, <1>2, <1>3, <1>4, RequestKeeps DEF Guards

\* So does the next step of a request, perhaps with the role it has found.
LEMMA GoesOn ==
    ASSUME AuthInv, NEW r \in Requests, NEW s \in Guards, NEW found \in Roles \cup {"NONE"},
           Begun(r), s # "revocation",
           req' = [req EXCEPT ![r] = [req[r] EXCEPT !.step = s, !.role = found]],
           UNCHANGED <<now, userVars, device, redisVars>>, troubles' \in 0 .. MaxTroubles,
           SeesWell([req[r] EXCEPT !.step = s, !.role = found])
    PROVE  AuthInv'
<1> DEFINE x == [req[r] EXCEPT !.step = s, !.role = found]
<1>1. /\ x \in RequestStates /\ x.step = s /\ x.token = req[r].token
  <2>1. req[r] \in RequestStates
    BY DEF AuthInv, TypeOK
  <2>. QED BY <2>1 DEF RequestStates
<1>2. x.token \in Tokens /\ Genuine(x.token)
  BY <1>1 DEF AuthInv, Known
<1>3. ~At(r, "accepted")
  BY DEF Begun, At, Guards
<1> HIDE DEF x
<1>4. x.step \notin {"revoke", "revocation"}
  BY <1>1 DEF Guards
<1>5. req' = [req EXCEPT ![r] = x] /\ SeesWell(x)
  BY DEF x
<1>. QED BY <1>1, <1>2, <1>3, <1>4, <1>5, RequestKeeps


\* And so does a step that leaves the role as it is.
LEMMA GotoKeeps ==
    ASSUME AuthInv, NEW r \in Requests, NEW s \in Guards, Begun(r), Goto(r, s),
           \/ At(r, "revocation") /\ s = "cache"
           \/ At(r, "cache") /\ s = "find"
           \/ At(r, "write") /\ s = "decide",
           UNCHANGED <<now, userVars, device, redisVars>>, troubles' \in 0 .. MaxTroubles
    PROVE  AuthInv'
<1> DEFINE x == [req[r] EXCEPT !.step = s, !.role = req[r].role]
<1>1. req[r] \in RequestStates /\ req[r].role \in Roles \cup {"NONE"}
  BY DEF AuthInv, TypeOK, RequestStates
<1>2. x = [req[r] EXCEPT !.step = s]
  BY <1>1 DEF RequestStates
<1>3. req' = [req EXCEPT ![r] = x]
  BY <1>2 DEF Goto
<1>4. SeesWell(x)
  <2>1. x.step = s /\ x.role = req[r].role /\ x.token = req[r].token /\ x.sees = req[r].sees
    BY <1>1 DEF RequestStates
  <2>2. SeesWell(req[r])
    BY DEF AuthInv, RolesSeen
  <2>. QED BY <2>1, <2>2 DEF SeesWell, At
<1>. QED BY <1>1, <1>3, <1>4, GoesOn, Zenon DEF Guards

\* The guards of a request, but for the write to the cache.
LEMMA GuardsKeep ==
    ASSUME AuthInv, NEW r \in Requests,
           \/ CheckRevoked(r) \/ CheckRevokedThrows(r) \/ ReadCache(r) \/ ReadCacheThrows(r)
           \/ FindUser(r) \/ FindUserThrows(r) \/ WriteCacheThrows(r) \/ RevokeThrows(r)
    PROVE  AuthInv'
<1>1. \/ troubles' = troubles \/ Fault
  BY DEF CheckRevoked, CheckRevokedThrows, ReadCache, ReadCacheThrows, FindUser,
         FindUserThrows, WriteCacheThrows, RevokeThrows
<1>2. troubles' \in 0 .. MaxTroubles
  BY <1>1 DEF Fault, AuthInv, TypeOK
<1>3. UNCHANGED <<now, userVars, device, redisVars>>
  BY DEF CheckRevoked, CheckRevokedThrows, ReadCache, ReadCacheThrows, FindUser,
         FindUserThrows, WriteCacheThrows, RevokeThrows
<1>4. CASE CheckRevoked(r)
  <2>1. At(r, "revocation") /\ (Answer(r, "refused") \/ Goto(r, "cache"))
    BY <1>4 DEF CheckRevoked
  <2>2. Begun(r) /\ ~At(r, "accepted")
    BY <2>1 DEF Begun, Guards, At
  <2>. QED BY <2>1, <2>2, <1>2, <1>3, AnswerKeeps, GotoKeeps DEF Guards, Answers
<1>5. CASE CheckRevokedThrows(r) \/ ReadCacheThrows(r) \/ WriteCacheThrows(r)
  <2>1. \/ At(r, "revocation") /\ Goto(r, "cache")
        \/ At(r, "cache") /\ Goto(r, "find")
        \/ At(r, "write") /\ Goto(r, "decide")
    BY <1>5 DEF CheckRevokedThrows, ReadCacheThrows, WriteCacheThrows
  <2>2. Begun(r)
    BY <2>1 DEF Begun, Guards, At
  <2>. QED BY <2>1, <2>2, <1>2, <1>3, GotoKeeps DEF Guards
<1>6. CASE FindUserThrows(r) \/ RevokeThrows(r)
  <2>1. ~At(r, "accepted") /\ \E a \in Answers : Answer(r, a)
    BY <1>6 DEF FindUserThrows, RevokeThrows, At, Answers
  <2>. QED BY <2>1, <1>2, <1>3, AnswerKeeps
<1>7. CASE FindUser(r)
  <2> DEFINE found == role[req[r].token.user]
             x == [req[r] EXCEPT !.step = "write", !.role = found]
  <2>1. At(r, "find") /\ req' = [req EXCEPT ![r] = x]
    BY <1>7 DEF FindUser, AuthInv, TypeOK
  <2>2. Begun(r) /\ req[r].token \in Tokens
    BY <2>1 DEF Begun, Guards, At, AuthInv, Known
  <2>3. found \in Roles \cup {"NONE"} /\ req[r] \in RequestStates
    BY <2>2, TokenTimes DEF AuthInv, TypeOK
  <2>4. x.step = "write" /\ x.role = found /\ x.token = req[r].token /\ x.sees = req[r].sees
    BY <2>3 DEF RequestStates
  <2>5. SeesWell(x)
    BY <2>4 DEF SeesWell
  <2>. QED BY <2>1, <2>2, <2>3, <2>5, <1>2, <1>3, GoesOn DEF Guards
<1>8. CASE ReadCache(r)
  <2> DEFINE u == req[r].token.user
             s == IF Live(u) THEN "decide" ELSE "find"
             found == IF Live(u) THEN cache[u].role ELSE "NONE"
             x == [req[r] EXCEPT !.step = s, !.role = found]
  <2>1. At(r, "cache") /\ req' = [req EXCEPT ![r] = x]
    BY <1>8 DEF ReadCache, AuthInv, TypeOK
  <2>2. Begun(r) /\ req[r].token \in Tokens
    BY <2>1 DEF Begun, Guards, At, AuthInv, Known
  <2>3. found \in Roles \cup {"NONE"} /\ req[r] \in RequestStates /\ s \in {"decide", "find"}
    BY <2>2, TokenTimes DEF AuthInv, TypeOK
  <2>4. x.step = s /\ x.role = found /\ x.token = req[r].token /\ x.sees = req[r].sees
    BY <2>3 DEF RequestStates
  <2>5. req[r].sees = "current" => cache[u] = NoEntry \/ cache[u].role = role[u]
    BY <2>1 DEF At, AuthInv, RolesSeen, SeesWell
  <2>6. SeesWell(x)
    BY <2>4, <2>5 DEF SeesWell, Live
  <2>. QED BY <2>1, <2>2, <2>3, <2>6, <1>2, <1>3, GoesOn DEF Guards
<1>. QED BY <1>4, <1>5, <1>6, <1>7, <1>8

\* The decision: an answer, or a logout that has reckoned how long its token lives.
LEMMA DecideKeeps ==
    ASSUME AuthInv, NEW r \in Requests, Decide(r)
    PROVE  AuthInv'
<1> DEFINE token == req[r].token
           x == [NewRequest EXCEPT !.step = "revoke", !.token = token, !.ttl = Ttl(token)]
<1>1. /\ At(r, "decide") /\ UNCHANGED <<now, userVars, device, redisVars, troubles>>
      /\ troubles' \in 0 .. MaxTroubles
  BY DEF Decide, AuthInv, TypeOK
<1>2. token \in Tokens /\ ~At(r, "accepted") /\ Genuine(token)
  BY <1>1 DEF Begun, Guards, At, AuthInv, Known
<1>3. CASE \E a \in Answers : Answer(r, a)
  BY <1>1, <1>2, <1>3, AnswerKeeps
<1>4. CASE r \in Logouts /\ Ttl(token) > 0 /\ req' = [req EXCEPT ![r] = x]
  <2>1. /\ Second(now) \in Nat /\ 2 * Second(now) <= now /\ Expiry(token) \in Nat
    <3>1. now \in Nat
      BY DEF AuthInv, TypeOK, Times
    <3>. QED BY <3>1, <1>2, Seconds, TokenTimes
  <2>2. Ttl(token) = Expiry(token) - Second(now)
    BY <1>4, <2>1 DEF Ttl
  <2>3. token.issued <= Second(now) /\ token.issued \in Nat
    BY <1>2, TokenTimes DEF Genuine
  <2>4. Ttl(token) \in 0 .. Lifetime /\ now + 2 * Ttl(token) >= 2 * Expiry(token)
    <3>1. Expiry(token) = token.issued + Lifetime
      BY DEF Expiry
    <3>2. Ttl(token) > 0 /\ now \in Nat
      BY <1>4 DEF AuthInv, TypeOK, Times
    <3> DEFINE ttl == Ttl(token)
               expiry == Expiry(token)
               second == Second(now)
               issued == token.issued
    <3>3. /\ ttl = expiry - second /\ ttl > 0 /\ expiry = issued + Lifetime
          /\ issued \in Nat /\ second \in Nat /\ issued <= second /\ 2 * second <= now
      BY <2>1, <2>2, <2>3, <3>1, <3>2
    <3> HIDE DEF ttl, expiry, second, issued
    <3>4. ttl \in 0 .. Lifetime /\ now + 2 * ttl >= 2 * expiry
      BY <3>2, <3>3
    <3>. QED BY <3>4 DEF ttl, expiry
  <2>5. /\ x \in RequestStates /\ x.step = "revoke" /\ x.token = token
        /\ x.ttl = Ttl(token) /\ x.sees = "any"
    BY <1>2, <2>4, NewRequestIs DEF RequestStates
  <2> HIDE DEF x
  <2>6. SeesWell(x)
    BY <2>5 DEF SeesWell
  <2>. QED BY <1>1, <1>2, <1>4, <2>4, <2>5, <2>6, RequestKeeps DEF Guards
<1>. QED BY <1>3, <1>4 DEF Decide, Answers

\* A request is sent with the token of a device.
LEMMA BeginKeeps ==
    ASSUME AuthInv, NEW r \in Requests, NEW d \in Devices, Begin(r, d)
    PROVE  AuthInv'
<1> DEFINE token == device[d]
           x == [req[r] EXCEPT !.step  = "revocation",
                               !.token = token,
                               !.late  = token \in loggedOut,
                               !.sees  = IF staleUntil[token.user] = 0 THEN "current" ELSE "any"]
<1>1. /\ At(r, "new") /\ token # NoToken
      /\ UNCHANGED <<now, userVars, device, redisVars, troubles>>
      /\ troubles' \in 0 .. MaxTroubles
  BY DEF Begin, AuthInv, TypeOK
<1>2. token \in Tokens /\ Genuine(token) /\ ~At(r, "accepted") /\ req[r] \in RequestStates
  BY <1>1 DEF AuthInv, TypeOK, Known, At
<1>3. CASE Answer(r, "refused")
  BY <1>1, <1>2, <1>3, AnswerKeeps DEF Answers
<1>4. CASE req' = [req EXCEPT ![r] = x]
  <2>1. (token \in loggedOut) \in BOOLEAN
    OBVIOUS
  <2>2. /\ x \in RequestStates /\ x.step = "revocation" /\ x.token = token
        /\ x.late = (token \in loggedOut)
        /\ x.sees = IF staleUntil[token.user] = 0 THEN "current" ELSE "any"
    <3> DEFINE late == token \in loggedOut
               sees == IF staleUntil[token.user] = 0 THEN "current" ELSE "any"
    <3>1. late \in BOOLEAN /\ sees \in {"any", "old", "current"}
      OBVIOUS
    <3>2. x = [req[r] EXCEPT !.step = "revocation", !.token = token, !.late = late, !.sees = sees]
      OBVIOUS
    <3> HIDE DEF late, sees, x
    <3>3. /\ x \in RequestStates /\ x.step = "revocation" /\ x.token = token
          /\ x.late = late /\ x.sees = sees
      BY <1>2, <3>1, <3>2 DEF RequestStates, Guards
    <3>. QED BY <3>3 DEF late, sees
  <2>3. staleUntil[token.user] = 0 =>
           cache[token.user] = NoEntry \/ cache[token.user].role = role[token.user]
    <3>1. token.user \in Users /\ now \in Nat
      BY <1>2, TokenTimes DEF AuthInv, TypeOK, Times
    <3>2. cache[token.user].until \in Nat
      BY <3>1 DEF AuthInv, TypeOK, Until
    <3>. QED BY <3>1, <3>2 DEF AuthInv, CacheInTime
  <2> HIDE DEF x
  <2>4. SeesWell(x)
    BY <2>2, <2>3 DEF SeesWell
  <2>. QED BY <1>1, <1>2, <1>4, <2>2, <2>4, RequestKeeps
<1>. QED BY <1>3, <1>4 DEF Begin, AuthInv, TypeOK

-----------------------------------------------------------------------------
(* The writes to Redis.                                                    *)

LEMMA WriteCacheKeeps ==
    ASSUME AuthInv, NEW r \in Requests, WriteCache(r)
    PROVE  AuthInv'
<1> DEFINE u     == req[r].token.user
           until == now + 2 * CacheTtl
           stale == req[r].role # role[u] /\ req[r].sees = "old"
           entry == [role |-> req[r].role, until |-> until]
<1>1. /\ At(r, "write")
      /\ cache' = [cache EXCEPT ![u] = entry]
      /\ staleUntil' = IF stale THEN [staleUntil EXCEPT ![u] = until] ELSE staleUntil
      /\ req' = [x \in Requests |->
                      [req[x] EXCEPT !.step = IF x = r THEN "decide" ELSE @,
                                     !.sees = IF stale /\ @ = "current" THEN "any" ELSE @]]
  BY DEF WriteCache
<1>same. UNCHANGED <<now, role, changes, device, redis, revoked, loggedOut, troubles>>
  BY DEF WriteCache, userVars
<1>2. req[r].token \in Tokens /\ u \in Users
  BY <1>1, TokenTimes DEF AuthInv, Known, At, Begun, Guards
<1>3. req[r] \in RequestStates /\ now \in Times
  BY DEF AuthInv, TypeOK
<1>4. entry \in [role : Roles \cup {"NONE"}, until : Until]
  BY <1>3 DEF RequestStates, Times, Until
<1>5. \A q \in Requests :
         /\ req'[q] \in RequestStates
         /\ req'[q].step = (IF q = r THEN "decide" ELSE req[q].step)
         /\ req'[q].sees = (IF stale /\ req[q].sees = "current" THEN "any" ELSE req[q].sees)
         /\ req'[q].token = req[q].token /\ req'[q].role = req[q].role
         /\ req'[q].late = req[q].late /\ req'[q].ttl = req[q].ttl
  <2> TAKE q \in Requests
  <2> DEFINE step == IF q = r THEN "decide" ELSE req[q].step
             sees == IF stale /\ req[q].sees = "current" THEN "any" ELSE req[q].sees
  <2>1. req[q] \in RequestStates
    BY DEF AuthInv, TypeOK
  <2>2. step \in {"new", "revoke"} \cup Guards \cup Answers /\ sees \in {"any", "old", "current"}
    BY <2>1 DEF RequestStates, Guards
  <2>3. req'[q] = [req[q] EXCEPT !.step = step, !.sees = sees]
    BY <1>1
  <2> HIDE DEF step, sees
  <2>4. /\ req'[q] \in RequestStates /\ req'[q].step = step /\ req'[q].sees = sees
        /\ req'[q].token = req[q].token /\ req'[q].role = req[q].role
        /\ req'[q].late = req[q].late /\ req'[q].ttl = req[q].ttl
    BY <2>1, <2>2, <2>3 DEF RequestStates
  <2>. QED BY <2>4 DEF step, sees
<1>6. req' \in [Requests -> RequestStates]
  BY <1>1, <1>5
<1>7. staleUntil' \in [Users -> Until] /\ \A v \in Users \ {u} : staleUntil'[v] = staleUntil[v]
  BY <1>1, <1>2, <1>4 DEF AuthInv, TypeOK
<1>8. /\ cache' \in [Users -> [role : Roles \cup {"NONE"}, until : Until]]
      /\ cache'[u] = entry /\ \A v \in Users \ {u} : cache'[v] = cache[v]
  BY <1>1, <1>2, <1>4 DEF AuthInv, TypeOK
<1>9. req[r].role # role[u] => stale
  BY <1>1 DEF AuthInv, RolesSeen, SeesWell, At
<1> HIDE DEF entry, stale
<1>10. TypeOK'
  BY <1>same, <1>6, <1>7, <1>8 DEF AuthInv, TypeOK
<1>11. Known'
  <2>1. role[u] # "NONE"
    BY <1>2 DEF AuthInv, Known, Genuine
  <2>2. \A q \in Requests : req'[q].step \in Guards \cup {"revoke"} =>
                               req[q].step \in Guards \cup {"revoke"}
    <3> TAKE q \in Requests
    <3>1. CASE q = r
      BY <3>1, <1>1 DEF At, Guards
    <3>2. CASE q # r
      BY <3>2, <1>5
    <3>. QED BY <3>1, <3>2
  <2>3. \A q \in Requests : req[q].step \in Guards \cup {"revoke"} => req[q].token \in Tokens
    BY DEF AuthInv, Known, Begun, At
  <2>4. \A q \in Requests : Begun(q)' \/ At(q, "revoke")' => req'[q].token \in Tokens
    <3>1. \A q \in Requests : req'[q].token = req[q].token
      BY <1>5
    <3>. QED BY <2>2, <2>3, <3>1 DEF Begun, At
  <2>5. \A v \in Users : cache'[v] # NoEntry => role[v] # "NONE"
    BY <2>1, <1>8 DEF AuthInv, Known
  <2>6. \A d \in Devices : device'[d] # NoToken => Genuine(device[d])'
    BY <1>same DEF AuthInv, Known, Genuine
  <2>7. \A q \in Requests : req'[q].token # NoToken => Genuine(req[q].token)'
    <3>1. \A q \in Requests : req[q].token # NoToken =>
             role[req[q].token.user] # "NONE" /\ req[q].token.issued <= Second(now)
      BY DEF AuthInv, Known, Genuine
    <3>2. \A q \in Requests : req'[q].token = req[q].token
      BY <1>5
    <3>. QED BY <3>1, <3>2, <1>same DEF Genuine
  <2>8. \A v \in Users : cache'[v] # NoEntry => role'[v] # "NONE"
    BY <2>5, <1>same
  <2>. QED BY <2>4, <2>6, <2>7, <2>8 DEF Known, Genuine, Begun, At
<1>12. RevokedLongEnough'
  <2>1. \A q \in Requests : req'[q].step \in {"revoke", "revocation"} =>
                               req[q].step = req'[q].step
    BY <1>5
  <2>2. /\ \A t \in loggedOut : revoked[t] >= 2 * Expiry(t)
        /\ \A q \in Requests : req[q].step = "revoke" =>
              q \in Logouts /\ now + 2 * req[q].ttl >= 2 * Expiry(req[q].token)
        /\ \A q \in Requests : req[q].step = "revocation" /\ req[q].late =>
              req[q].token \in loggedOut \/ Second(now) >= Expiry(req[q].token)
    BY DEF AuthInv, RevokedLongEnough, At
  <2>3. \A q \in Requests : /\ req'[q].token = req[q].token /\ req'[q].late = req[q].late
                            /\ req'[q].ttl = req[q].ttl
    BY <1>5
  <2>4. \A t \in loggedOut' : revoked'[t] >= 2 * Expiry(t)
    BY <2>2, <1>same
  <2>5. \A q \in Requests : req'[q].step = "revoke" =>
           q \in Logouts /\ now' + 2 * req'[q].ttl >= 2 * Expiry(req'[q].token)
    <3> TAKE q \in Requests
    <3> HAVE req'[q].step = "revoke"
    <3>1. /\ req[q].step = "revoke" /\ req'[q].token = req[q].token
          /\ req'[q].ttl = req[q].ttl /\ now' = now
      BY <2>1, <2>3, <1>same
    <3>. QED BY <3>1, <2>2
  <2>6. \A q \in Requests : req'[q].step = "revocation" /\ req'[q].late =>
           req'[q].token \in loggedOut' \/ Second(now') >= Expiry(req'[q].token)
    <3> TAKE q \in Requests
    <3> HAVE req'[q].step = "revocation" /\ req'[q].late
    <3>1. /\ req[q].step = "revocation" /\ req'[q].token = req[q].token
          /\ req[q].late /\ now' = now /\ loggedOut' = loggedOut
      BY <2>1, <2>3, <1>same
    <3>. QED BY <3>1, <2>2
  <2>. QED BY <2>4, <2>5, <2>6 DEF RevokedLongEnough, At
<1>13. RevokedByLogout'
  <2>1. ASSUME NEW l \in Logouts
        PROVE  /\ req'[l].token = req[l].token
               /\ req[l].step = "accepted" => req'[l].step = "accepted"
    <3>1. l \in Requests
      BY AuthAssumption
    <3>2. CASE l = r
      BY <3>1, <3>2, <1>1, <1>5 DEF At
    <3>3. CASE l # r
      BY <3>1, <3>3, <1>5
    <3>. QED BY <3>2, <3>3
  <2>2. \A t \in Tokens : revoked[t] > 0 =>
           \E l \in Logouts : req[l].token = t /\ req[l].step = "accepted"
    BY DEF AuthInv, RevokedByLogout, At
  <2>3. \A t \in Tokens : revoked'[t] > 0 =>
           \E l \in Logouts : req'[l].token = t /\ req'[l].step = "accepted"
    BY <2>1, <2>2, <1>same
  <2>. QED BY <2>3 DEF RevokedByLogout, At
<1>14. CacheInTime'
  <2>1. until > now /\ until <= now + 2 * CacheTtl
    BY <1>3 DEF Times
  <2>2. req[r].role # role[u] => staleUntil'[u] >= until
    BY <1>1, <1>2, <1>9, <2>1, <1>3 DEF AuthInv, TypeOK, Times
  <2>3. entry.role = req[r].role /\ entry.until = until
    BY DEF entry
  <2> SUFFICES ASSUME NEW v \in Users, cache'[v] # NoEntry
               PROVE  /\ cache'[v].until > now /\ cache'[v].until <= now + 2 * CacheTtl
                      /\ cache'[v].role # role[v] => staleUntil'[v] >= cache'[v].until
    BY <1>same DEF CacheInTime
  <2> HIDE DEF until
  <2>4. CASE v = u
    BY <2>4, <1>8, <2>1, <2>2, <2>3
  <2>5. CASE v # u
    <3>1. cache'[v] = cache[v] /\ staleUntil'[v] = staleUntil[v]
      BY <2>5, <1>7, <1>8
    <3>. QED BY <3>1 DEF AuthInv, CacheInTime
  <2>. QED BY <2>4, <2>5
<1>15. RolesSeen'
  <2> SUFFICES ASSUME NEW q \in Requests
               PROVE  SeesWell(req[q])'
    BY DEF RolesSeen
  <2>1. SeesWell(req[q]) /\ SeesWell(req[r])
    BY DEF AuthInv, RolesSeen
  <2>2. ~stale => entry.role = role[u] /\ req[r].role = role[u]
    BY <1>9 DEF entry
  <2>3. req'[q].sees = "current" => req[q].sees = "current" /\ ~stale
    BY <1>5
  <2>4. CASE q = r
    <3>1. req'[q].step = "decide" /\ req'[q].role = req[r].role /\ req'[q].token.user = u
      BY <2>4, <1>5
    <3>. QED BY <3>1, <2>2, <2>3, <2>4, <1>same DEF SeesWell
  <2>5. CASE q # r
    <3>1. /\ req'[q].token = req[q].token /\ req'[q].step = req[q].step
          /\ req'[q].role = req[q].role
          /\ req[q].sees = "old" => req'[q].sees = "old"
      BY <2>5, <1>5
    <3>2. ASSUME req'[q].sees = "current", req'[q].step \in {"revocation", "cache"}
          PROVE  \/ cache'[req'[q].token.user] = NoEntry
                 \/ cache'[req'[q].token.user].role = role'[req'[q].token.user]
      <4>1. req[q].token.user \in Users
        BY <3>1, <3>2, TokenTimes DEF AuthInv, Known, Begun, Guards
      <4>2. CASE req[q].token.user = u
        BY <4>2, <2>2, <2>3, <3>1, <3>2, <1>8, <1>same
      <4>3. CASE req[q].token.user # u
        <5>1. cache'[req[q].token.user] = cache[req[q].token.user]
          BY <4>1, <4>3, <1>8
        <5>2. req[q].sees = "current"
          BY <2>3, <3>2
        <5>. QED BY <5>1, <5>2, <3>1, <3>2, <2>1, <1>same DEF SeesWell
      <4>. QED BY <4>2, <4>3
    <3>3. req'[q].step = "write" /\ req'[q].role # role'[req'[q].token.user]
             => req'[q].sees = "old"
      BY <3>1, <2>1, <1>same DEF SeesWell
    <3>4. req'[q].sees = "current" /\ req'[q].step \in {"write", "decide"}
             => req'[q].role = role'[req'[q].token.user]
      BY <3>1, <2>1, <2>3, <1>same DEF SeesWell
    <3>. QED BY <3>2, <3>3, <3>4 DEF SeesWell
  <2>. QED BY <2>4, <2>5
<1>. QED BY <1>10, <1>11, <1>12, <1>13, <1>14, <1>15 DEF AuthInv

LEMMA RevokeKeeps ==
    ASSUME AuthInv, NEW r \in Requests, Revoke(r)
    PROVE  AuthInv'
<1> DEFINE token == req[r].token
           until == now + 2 * req[r].ttl
<1>1. /\ At(r, "revoke") /\ r \in Logouts /\ token \in Tokens /\ until >= 2 * Expiry(token)
      /\ revoked' = [revoked EXCEPT ![token] = until] /\ loggedOut' = loggedOut \cup {token}
      /\ Answer(r, "accepted")
      /\ UNCHANGED <<now, role, changes, device, redis, cache, staleUntil, troubles>>
  BY DEF Revoke, userVars, AuthInv, Known, RevokedLongEnough, At
<1>2. until \in Until
  <2>1. req[r] \in RequestStates /\ now \in Times
    BY DEF AuthInv, TypeOK
  <2>2. req[r].ttl \in 0 .. Lifetime
    BY <2>1 DEF RequestStates
  <2>. QED BY <2>1, <2>2 DEF Times, Until
<1> DEFINE x == [NewRequest EXCEPT
                    !.step = "accepted", !.token = IF r \in Logouts THEN req[r].token ELSE NoToken]
<1>3. x \in RequestStates /\ x.step = "accepted" /\ x.token = token /\ SeesWell(x)
  BY <1>1, Answered, Zenon DEF AuthInv, Answers
<1>4. req' = [req EXCEPT ![r] = x]
  BY <1>1 DEF Answer
<1> HIDE DEF x
<1>5. /\ req' \in [Requests -> RequestStates] /\ req'[r] = x
      /\ \A q \in Requests \ {r} : req'[q] = req[q]
  BY <1>3, <1>4 DEF AuthInv, TypeOK
<1>6. TypeOK'
  BY <1>1, <1>2, <1>5 DEF AuthInv, TypeOK
<1>7. Known'
  BY <1>1, <1>3, <1>5 DEF AuthInv, Known, Genuine, Begun, At, Guards
<1>8. RevokedLongEnough'
  BY <1>1, <1>3, <1>5 DEF AuthInv, TypeOK, RevokedLongEnough, At
<1>9. RevokedByLogout'
  <2> SUFFICES ASSUME NEW t \in Tokens, revoked'[t] > 0
               PROVE  \E l \in Logouts : req'[l].token = t /\ req'[l].step = "accepted"
    BY DEF RevokedByLogout, At
  <2>1. CASE t = token
    BY <2>1, <1>1, <1>3, <1>5
  <2>2. CASE t # token
    <3>1. PICK l \in Logouts : req[l].token = t /\ req[l].step = "accepted"
      BY <2>2, <1>1 DEF AuthInv, TypeOK, RevokedByLogout, At
    <3>. QED BY <3>1, <1>1, <1>5 DEF At
  <2>. QED BY <2>1, <2>2
<1>10. CacheInTime'
  BY <1>1 DEF AuthInv, CacheInTime
<1>11. RolesSeen'
  BY <1>1, <1>3, <1>5 DEF AuthInv, RolesSeen, SeesWell
<1>. QED BY <1>6, <1>7, <1>8, <1>9, <1>10, <1>11 DEF AuthInv

-----------------------------------------------------------------------------
(* The clock, Redis and the users.                                         *)

LEMMA TickKeeps ==
    ASSUME AuthInv, Tick
    PROVE  AuthInv'
<1>1. /\ now \in Nat /\ now' \in Times /\ now' = now + 1
      /\ UNCHANGED <<role, changes, device, req, redis, troubles>>
  BY DEF Tick, AuthInv, TypeOK, Times, userVars
<1>2. /\ revoked' = [t \in Tokens |-> IF revoked[t] <= now' THEN 0 ELSE revoked[t]]
      /\ cache' = [u \in Users |-> IF cache[u].until <= now' THEN NoEntry ELSE cache[u]]
      /\ loggedOut' = {t \in loggedOut : Second(now') < Expiry(t)}
      /\ staleUntil' = [u \in Users |-> IF staleUntil[u] <= now' THEN 0 ELSE staleUntil[u]]
  BY DEF Tick
<1>3. /\ revoked \in [Tokens -> Until] /\ loggedOut \subseteq Tokens
      /\ cache \in [Users -> [role : Roles \cup {"NONE"}, until : Until]]
      /\ staleUntil \in [Users -> Until] /\ 0 \in Until
  BY DEF AuthInv, TypeOK, Until
<1>4. /\ Second(now) \in Nat /\ Second(now') \in Nat /\ Second(now) <= Second(now')
      /\ now' <= 2 * Second(now') + 1
  <2>1. now' \in Nat /\ now <= now'
    BY <1>1
  <2>2. Second(now') \in Nat /\ now' <= 2 * Second(now') + 1 /\ Second(now) <= Second(now')
    BY <1>1, <2>1, Seconds
  <2>. QED BY <1>1, <2>2, Seconds
<1>5. NoEntry \in [role : Roles \cup {"NONE"}, until : Until]
  BY <1>3 DEF NoEntry
<1>6. TypeOK'
  <2>1. cache' \in [Users -> [role : Roles \cup {"NONE"}, until : Until]]
    BY <1>2, <1>3, <1>5
  <2>2. revoked' \in [Tokens -> Until] /\ staleUntil' \in [Users -> Until]
    BY <1>2, <1>3
  <2>. QED BY <2>1, <2>2, <1>1, <1>2, <1>3 DEF AuthInv, TypeOK
<1>7. \A t \in Tokens : Genuine(t) => Genuine(t)'
  <2> TAKE t \in Tokens
  <2>1. t.issued \in Nat
    BY TokenTimes
  <2>. QED BY <2>1, <1>1, <1>4 DEF Genuine
<1>8. \A u \in Users : cache'[u] # NoEntry => cache'[u] = cache[u] /\ cache[u].until > now'
  BY <1>1, <1>2, <1>3 DEF Times, Until
<1>9. Known'
  <2>1. \A r \in Requests : req[r].token \in Tokens \cup {NoToken}
    BY DEF AuthInv, TypeOK, RequestStates
  <2>2. \A d \in Devices : device[d] \in Tokens \cup {NoToken}
    BY DEF AuthInv, TypeOK
  <2>3. \A d \in Devices : device'[d] # NoToken => Genuine(device[d])'
    <3> TAKE d \in Devices
    <3> HAVE device'[d] # NoToken
    <3>1. device' = device /\ device[d] \in Tokens /\ Genuine(device[d])
      BY <2>2, <1>1 DEF AuthInv, Known
    <3>2. Genuine(device[d])'
      BY <3>1, <1>1, <1>4, TokenTimes DEF Genuine
    <3>. QED BY <3>2
  <2>4. \A r \in Requests : req'[r].token # NoToken => Genuine(req[r].token)'
    <3> TAKE r \in Requests
    <3> HAVE req'[r].token # NoToken
    <3>1. req' = req /\ req[r].token \in Tokens /\ Genuine(req[r].token)
      BY <2>1, <1>1 DEF AuthInv, Known
    <3>2. Genuine(req[r].token)'
      BY <3>1, <1>1, <1>4, TokenTimes DEF Genuine
    <3>. QED BY <3>2
  <2>5. \A u \in Users : cache'[u] # NoEntry => role'[u] # "NONE"
    BY <1>1, <1>8 DEF AuthInv, Known
  <2>6. \A r \in Requests : Begun(r)' \/ At(r, "revoke")' => req'[r].token \in Tokens
    BY <1>1 DEF AuthInv, Known, Begun, At
  <2>. QED BY <2>3, <2>4, <2>5, <2>6 DEF Known
<1>10. RevokedLongEnough'
  <2>1. \A t \in loggedOut' : revoked'[t] >= 2 * Expiry(t)
    <3> TAKE t \in loggedOut'
    <3>1. t \in Tokens /\ t \in loggedOut /\ Second(now') < Expiry(t)
      BY <1>2, <1>3
    <3>2. revoked[t] >= 2 * Expiry(t) /\ Expiry(t) \in Nat /\ revoked[t] \in Nat
      BY <3>1, <1>3, TokenTimes DEF AuthInv, RevokedLongEnough, Until
    <3> DEFINE second == Second(now')
               expiry == Expiry(t)
               key == revoked[t]
    <3>3. /\ second \in Nat /\ expiry \in Nat /\ key \in Nat /\ now' \in Nat
          /\ second < expiry /\ key >= 2 * expiry /\ now' <= 2 * second + 1
      BY <3>1, <3>2, <1>1, <1>4
    <3> HIDE DEF second, expiry, key
    <3>4. ~(key <= now')
      BY <3>3
    <3>. QED BY <3>1, <3>2, <3>4, <1>2 DEF key
  <2>2. \A r \in Requests : At(r, "revoke")' =>
           r \in Logouts /\ now' + 2 * req'[r].ttl >= 2 * Expiry(req'[r].token)
    <3> TAKE r \in Requests
    <3> HAVE At(r, "revoke")'
    <3>1. /\ req' = req /\ r \in Logouts /\ now + 2 * req[r].ttl >= 2 * Expiry(req[r].token)
          /\ req[r].token \in Tokens /\ req[r].ttl \in Nat
      BY <1>1 DEF AuthInv, TypeOK, RequestStates, Known, RevokedLongEnough, At
    <3> DEFINE expiry == Expiry(req[r].token)
               ttl == req[r].ttl
    <3>2. expiry \in Nat /\ ttl \in Nat /\ now + 2 * ttl >= 2 * expiry
      BY <3>1, TokenTimes
    <3> HIDE DEF expiry, ttl
    <3>3. now' + 2 * ttl >= 2 * expiry
      BY <3>2, <1>1
    <3>. QED BY <3>1, <3>3 DEF expiry, ttl
  <2>3. \A r \in Requests : At(r, "revocation")' /\ req'[r].late =>
           req'[r].token \in loggedOut' \/ Second(now') >= Expiry(req'[r].token)
    <3> TAKE r \in Requests
    <3> HAVE At(r, "revocation")' /\ req'[r].late
    <3>1. /\ req' = req /\ req[r].token \in Tokens
          /\ req[r].token \in loggedOut \/ Second(now) >= Expiry(req[r].token)
      BY <1>1 DEF AuthInv, Known, Begun, Guards, RevokedLongEnough, At
    <3>2. Expiry(req[r].token) \in Nat
      BY <3>1, TokenTimes
    <3>. QED BY <3>1, <3>2, <1>2, <1>4
  <2>. QED BY <2>1, <2>2, <2>3 DEF RevokedLongEnough
<1>11. RevokedByLogout'
  <2> SUFFICES ASSUME NEW t \in Tokens, revoked'[t] > 0
               PROVE  \E l \in Logouts : req[l].token = t /\ req[l].step = "accepted"
    BY <1>1 DEF RevokedByLogout, At
  <2>1. revoked[t] > 0
    BY <1>2, <1>3 DEF Until
  <2>. QED BY <2>1 DEF AuthInv, RevokedByLogout, At
<1>12. CacheInTime'
  <2> SUFFICES ASSUME NEW u \in Users, cache'[u] # NoEntry
               PROVE  /\ cache'[u].until > now' /\ cache'[u].until <= now' + 2 * CacheTtl
                      /\ cache'[u].role # role'[u] => staleUntil'[u] >= cache'[u].until
    BY DEF CacheInTime
  <2>1. cache'[u] = cache[u] /\ cache[u] # NoEntry /\ cache[u].until > now'
    BY <1>8
  <2>2. /\ cache[u].until <= now + 2 * CacheTtl
        /\ cache[u].role # role[u] => staleUntil[u] >= cache[u].until
    BY <2>1 DEF AuthInv, CacheInTime
  <2>3. cache[u].until \in Nat /\ staleUntil[u] \in Nat
    BY <1>3 DEF Until
  <2>. QED BY <2>1, <2>2, <2>3, <1>1, <1>2
<1>13. RolesSeen'
  <2>1. \A u \in Users : cache'[u] = NoEntry \/ cache'[u] = cache[u]
    BY <1>8
  <2> SUFFICES ASSUME NEW r \in Requests
               PROVE  SeesWell(req[r])'
    BY DEF RolesSeen
  <2>2. SeesWell(req[r])
    BY DEF AuthInv, RolesSeen
  <2>3. req[r].step \in {"revocation", "cache"} => req[r].token.user \in Users
    BY TokenTimes DEF AuthInv, Known, Begun, Guards
  <2>. QED BY <2>1, <2>2, <2>3, <1>1 DEF SeesWell
<1>. QED BY <1>6, <1>9, <1>10, <1>11, <1>12, <1>13 DEF AuthInv

\* Redis that stops forgets, one that starts does not.
LEMMA RedisKeeps ==
    ASSUME AuthInv, RedisStops \/ RedisStarts
    PROVE  AuthInv'
<1>1. CASE RedisStarts
  <2>1. /\ redis' = "up"
        /\ UNCHANGED <<now, role, changes, device, req, revoked, cache, loggedOut, staleUntil,
                       troubles>>
    BY <1>1 DEF RedisStarts, userVars
  <2>2. TypeOK'
    BY <2>1 DEF AuthInv, TypeOK
  <2>3. Known' /\ RevokedLongEnough'
    BY <2>1 DEF AuthInv, Known, Genuine, Begun, At, RevokedLongEnough
  <2>4. RevokedByLogout' /\ CacheInTime' /\ RolesSeen'
    BY <2>1 DEF AuthInv, RevokedByLogout, At, CacheInTime, RolesSeen, SeesWell
  <2>. QED BY <2>2, <2>3, <2>4 DEF AuthInv
<1>2. CASE RedisStops
  <2>1. /\ Fault /\ redis' = "down" /\ revoked' = [t \in Tokens |-> 0]
        /\ cache' = [u \in Users |-> NoEntry] /\ loggedOut' = {}
        /\ req' = [r \in Requests |-> [req[r] EXCEPT !.late = FALSE]]
        /\ UNCHANGED <<now, role, changes, device, staleUntil>>
    BY <1>2 DEF RedisStops, userVars
  <2>2. /\ req' \in [Requests -> RequestStates]
        /\ \A r \in Requests : /\ req'[r].step = req[r].step /\ req'[r].token = req[r].token
                               /\ req'[r].role = req[r].role /\ req'[r].ttl = req[r].ttl
                               /\ req'[r].sees = req[r].sees /\ req'[r].late = FALSE
    <3>1. ASSUME NEW x \in RequestStates, NEW y, y = [x EXCEPT !.late = FALSE]
          PROVE  /\ y \in RequestStates /\ y.step = x.step /\ y.token = x.token
                 /\ y.role = x.role /\ y.ttl = x.ttl /\ y.sees = x.sees /\ y.late = FALSE
      BY <3>1 DEF RequestStates
    <3>2. \A r \in Requests : req[r] \in RequestStates /\ req'[r] = [req[r] EXCEPT !.late = FALSE]
      BY <2>1 DEF AuthInv, TypeOK
    <3>3. ASSUME NEW r \in Requests
          PROVE  /\ req'[r] \in RequestStates
                 /\ req'[r].step = req[r].step /\ req'[r].token = req[r].token
                 /\ req'[r].role = req[r].role /\ req'[r].ttl = req[r].ttl
                 /\ req'[r].sees = req[r].sees /\ req'[r].late = FALSE
      <4>1. req[r] \in RequestStates /\ req'[r] = [req[r] EXCEPT !.late = FALSE]
        BY <3>2
      <4>. QED BY <3>1, <4>1
    <3>4. req' \in [Requests -> RequestStates]
      <4>1. req' = [r \in Requests |-> req'[r]]
        BY <2>1
      <4>. QED BY <3>3, <4>1
    <3>. QED BY <3>3, <3>4
  <2>3. 0 \in Until /\ NoEntry \in [role : Roles \cup {"NONE"}, until : Until]
    BY DEF Until, NoEntry
  <2>4. TypeOK'
    BY <2>1, <2>2, <2>3 DEF AuthInv, TypeOK, Fault
  <2>5. Known'
    <3>1. UNCHANGED <<now, role, device>> /\ \A u \in Users : cache'[u] = NoEntry
      BY <2>1
    <3>2. \A r \in Requests : req'[r].step = req[r].step /\ req'[r].token = req[r].token
      BY <2>2
    <3>. QED BY <3>1, <3>2 DEF AuthInv, Known, Genuine, Begun, At
  <2>6. RevokedLongEnough' /\ RevokedByLogout'
    <3>1. RevokedByLogout'
      BY <2>1 DEF RevokedByLogout
    <3>2. \A r \in Requests : req[r].step = "revoke" =>
             r \in Logouts /\ now + 2 * req[r].ttl >= 2 * Expiry(req[r].token)
      BY DEF AuthInv, RevokedLongEnough, At
    <3>3. \A r \in Requests : req'[r].step = "revoke" =>
             r \in Logouts /\ now' + 2 * req'[r].ttl >= 2 * Expiry(req'[r].token)
      <4> TAKE r \in Requests
      <4> HAVE req'[r].step = "revoke"
      <4>1. /\ req[r].step = "revoke" /\ req'[r].ttl = req[r].ttl
            /\ req'[r].token = req[r].token /\ now' = now
        BY <2>1, <2>2
      <4>. QED BY <4>1, <3>2
    <3>4. RevokedLongEnough'
      BY <2>1, <2>2, <3>3 DEF RevokedLongEnough, At
    <3>. QED BY <3>1, <3>4
  <2>7. CacheInTime'
    BY <2>1 DEF CacheInTime
  <2>8. RolesSeen'
    <3> SUFFICES ASSUME NEW r \in Requests
                 PROVE  SeesWell(req[r])'
      BY DEF RolesSeen
    <3>1. SeesWell(req[r])
      BY DEF AuthInv, RolesSeen
    <3>2. req[r].step \in {"revocation", "cache"} => req[r].token.user \in Users
      BY TokenTimes DEF AuthInv, Known, Begun, Guards
    <3>. QED BY <3>1, <3>2, <2>1, <2>2 DEF SeesWell
  <2>. QED BY <2>4, <2>5, <2>6, <2>7, <2>8 DEF AuthInv
<1>. QED BY <1>1, <1>2

\* A change of a role makes the copies of the old one a matter of time.
LEMMA ChangeRoleKeeps ==
    ASSUME AuthInv, NEW u \in Users, ChangeRole(u)
    PROVE  AuthInv'
<1> DEFINE until == now + 2 * CacheTtl
<1>1. /\ changes' \in 0 .. MaxChanges /\ role[u] \in Roles
      /\ role' = [role EXCEPT ![u] = IF @ = "USER" THEN "ADMIN" ELSE "USER"]
      /\ staleUntil' = [staleUntil EXCEPT ![u] = until]
      /\ req' = [r \in Requests |-> [req[r] EXCEPT !.sees = IF Begun(r) THEN "old" ELSE @]]
      /\ UNCHANGED <<now, device, redis, revoked, cache, loggedOut, troubles>>
  BY DEF ChangeRole, AuthInv, TypeOK
<1>2. \A r \in Requests :
         /\ req'[r] \in RequestStates
         /\ req'[r].sees = (IF Begun(r) THEN "old" ELSE req[r].sees)
         /\ req'[r].step = req[r].step /\ req'[r].token = req[r].token
         /\ req'[r].role = req[r].role /\ req'[r].ttl = req[r].ttl /\ req'[r].late = req[r].late
  <2> TAKE r \in Requests
  <2> DEFINE sees == IF Begun(r) THEN "old" ELSE req[r].sees
  <2>1. req[r] \in RequestStates
    BY DEF AuthInv, TypeOK
  <2>2. sees \in {"any", "old", "current"} /\ req'[r] = [req[r] EXCEPT !.sees = sees]
    BY <2>1, <1>1 DEF RequestStates
  <2> HIDE DEF sees
  <2>3. /\ req'[r] \in RequestStates /\ req'[r].sees = sees
        /\ req'[r].step = req[r].step /\ req'[r].token = req[r].token
        /\ req'[r].role = req[r].role /\ req'[r].ttl = req[r].ttl /\ req'[r].late = req[r].late
    BY <2>1, <2>2 DEF RequestStates
  <2>. QED BY <2>3 DEF sees
<1>3. /\ role' \in [Users -> Roles \cup {"NONE"}] /\ role'[u] # "NONE" /\ role[u] # "NONE"
      /\ \A v \in Users \ {u} : role'[v] = role[v]
  BY <1>1 DEF AuthInv, TypeOK, Roles
<1>4. until \in Until
  BY DEF AuthInv, TypeOK, Times, Until
<1>5. /\ staleUntil' \in [Users -> Until] /\ staleUntil'[u] = until
      /\ \A v \in Users \ {u} : staleUntil'[v] = staleUntil[v]
  BY <1>1, <1>4 DEF AuthInv, TypeOK
<1>6. TypeOK'
  <2>1. req' \in [Requests -> RequestStates]
    BY <1>1, <1>2
  <2>. QED BY <2>1, <1>1, <1>3, <1>5 DEF AuthInv, TypeOK
<1>7. Known'
  <2>1. \A t \in Tokens : role[t.user] # "NONE" => role'[t.user] # "NONE"
    BY <1>3, TokenTimes
  <2>2. /\ \A r \in Requests : req[r].token \in Tokens \cup {NoToken}
        /\ \A d \in Devices : device[d] \in Tokens \cup {NoToken}
    BY DEF AuthInv, TypeOK, RequestStates
  <2>3. \A d \in Devices : device'[d] # NoToken => Genuine(device[d])'
    BY <2>1, <2>2, <1>1 DEF AuthInv, Known, Genuine
  <2>4. \A r \in Requests : req'[r].token # NoToken => Genuine(req[r].token)'
    <3> TAKE r \in Requests
    <3> HAVE req'[r].token # NoToken
    <3>1. req'[r].token = req[r].token /\ req[r].token \in Tokens
      BY <2>2, <1>2
    <3>2. role[req[r].token.user] # "NONE" /\ req[r].token.issued <= Second(now)
      BY <3>1 DEF AuthInv, Known, Genuine
    <3>. QED BY <3>1, <3>2, <2>1, <1>1 DEF Genuine
  <2>5. \A v \in Users : cache'[v] # NoEntry => role'[v] # "NONE"
    BY <1>1, <1>3 DEF AuthInv, Known
  <2>6. \A r \in Requests : Begun(r)' \/ At(r, "revoke")' => req'[r].token \in Tokens
    BY <1>2 DEF AuthInv, Known, Begun, At
  <2>. QED BY <2>3, <2>4, <2>5, <2>6 DEF Known
<1>8. RevokedLongEnough' /\ RevokedByLogout'
  <2>1. \A r \in Requests :
           At(r, "revoke") => r \in Logouts /\ now + 2 * req[r].ttl >= 2 * Expiry(req[r].token)
    BY DEF AuthInv, RevokedLongEnough
  <2>2. \A r \in Requests : At(r, "revoke")' =>
           r \in Logouts /\ now' + 2 * req'[r].ttl >= 2 * Expiry(req'[r].token)
    <3> TAKE r \in Requests
    <3> HAVE At(r, "revoke")'
    <3>1. /\ At(r, "revoke") /\ req'[r].ttl = req[r].ttl /\ req'[r].token = req[r].token
          /\ now' = now
      BY <1>1, <1>2 DEF At
    <3>. QED BY <3>1, <2>1
  <2>3. \A r \in Requests : At(r, "revocation")' /\ req'[r].late =>
           req'[r].token \in loggedOut' \/ Second(now') >= Expiry(req'[r].token)
    <3> TAKE r \in Requests
    <3> HAVE At(r, "revocation")' /\ req'[r].late
    <3>1. /\ At(r, "revocation") /\ req[r].late /\ req'[r].token = req[r].token
          /\ now' = now /\ loggedOut' = loggedOut
      BY <1>1, <1>2 DEF At
    <3>. QED BY <3>1 DEF AuthInv, RevokedLongEnough
  <2>4. RevokedLongEnough'
    BY <2>2, <2>3, <1>1 DEF AuthInv, RevokedLongEnough
  <2>5. RevokedByLogout'
    <3> SUFFICES ASSUME NEW t \in Tokens, revoked[t] > 0
                 PROVE  \E l \in Logouts : req'[l].token = t /\ req'[l].step = "accepted"
      BY <1>1 DEF RevokedByLogout, At
    <3>1. PICK l \in Logouts : req[l].token = t /\ req[l].step = "accepted"
      BY DEF AuthInv, RevokedByLogout, At
    <3>. QED BY <3>1, <1>2
  <2>. QED BY <2>4, <2>5
<1>9. CacheInTime'
  <2> SUFFICES ASSUME NEW v \in Users, cache[v] # NoEntry
               PROVE  /\ cache[v].until > now /\ cache[v].until <= now + 2 * CacheTtl
                      /\ cache[v].role # role'[v] => staleUntil'[v] >= cache[v].until
    BY <1>1 DEF CacheInTime
  <2>1. /\ cache[v].until > now /\ cache[v].until <= now + 2 * CacheTtl
        /\ cache[v].role # role[v] => staleUntil[v] >= cache[v].until
    BY DEF AuthInv, CacheInTime
  <2>2. cache[v].until \in Nat /\ until \in Nat
    BY <1>4 DEF AuthInv, TypeOK, Until
  <2>. QED BY <2>1, <2>2, <1>3, <1>5
<1>10. RolesSeen'
  <2> SUFFICES ASSUME NEW r \in Requests
               PROVE  SeesWell(req[r])'
    BY DEF RolesSeen
  <2>. QED BY <1>2 DEF SeesWell, Begun, Guards
<1>. QED BY <1>6, <1>7, <1>8, <1>9, <1>10 DEF AuthInv

\* A token is issued, perhaps to a user who has just been created.
LEMMA IssueKeeps ==
    ASSUME AuthInv, NEW d \in Devices, NEW u \in Users, Register(d, u) \/ Login(d, u)
    PROVE  AuthInv'
<1>1. /\ device' = [device EXCEPT ![d] = Issued(u)]
      /\ UNCHANGED <<now, changes, req, redis, revoked, cache, loggedOut, staleUntil, troubles>>
  BY DEF Register, Login, userVars, redisVars
<1>2. /\ role' \in [Users -> Roles \cup {"NONE"}] /\ role'[u] # "NONE"
      /\ \A v \in Users : role[v] # "NONE" => role'[v] = role[v]
  <2>1. CASE Login(d, u)
    BY <2>1 DEF Login, userVars, AuthInv, TypeOK
  <2>2. CASE Register(d, u)
    BY <2>2 DEF Register, AuthInv, TypeOK, Roles
  <2>. QED BY <2>1, <2>2
<1>3. Issued(u) \in Tokens /\ Issued(u).user = u /\ Issued(u).issued <= Second(now)
  <2>1. now \in Nat /\ MaxTime \in Nat /\ now <= MaxTime
    BY DEF AuthInv, TypeOK, Times
  <2>2. Second(now) \in 0 .. Second(MaxTime)
    BY <2>1, Seconds
  <2>. QED BY <2>2 DEF Issued, Tokens
<1>4. /\ device' \in [Devices -> Tokens \cup {NoToken}]
      /\ \A x \in Devices : device'[x] = Issued(u) \/ device'[x] = device[x]
  BY <1>1, <1>3 DEF AuthInv, TypeOK
<1>5. TypeOK'
  BY <1>1, <1>2, <1>4 DEF AuthInv, TypeOK
<1>6. \A t \in Tokens : Genuine(t) => role'[t.user] = role[t.user] /\ t.issued <= Second(now')
  BY <1>1, <1>2, TokenTimes DEF Genuine
<1>7. Known'
  <2>1. /\ \A r \in Requests : req[r].token \in Tokens \cup {NoToken}
        /\ \A x \in Devices : device[x] \in Tokens \cup {NoToken}
    BY DEF AuthInv, TypeOK, RequestStates
  <2>2. \A r \in Requests : req'[r].token # NoToken => Genuine(req[r].token)'
    <3> TAKE r \in Requests
    <3> HAVE req'[r].token # NoToken
    <3>1. req' = req /\ req[r].token \in Tokens /\ Genuine(req[r].token)
      BY <2>1, <1>1 DEF AuthInv, Known
    <3>. QED BY <3>1, <1>6 DEF Genuine
  <2>3. \A x \in Devices : device'[x] # NoToken => Genuine(device[x])'
    <3> TAKE x \in Devices
    <3> HAVE device'[x] # NoToken
    <3>1. CASE device'[x] = Issued(u)
      BY <3>1, <1>1, <1>2, <1>3 DEF Genuine
    <3>2. CASE device'[x] = device[x]
      <4>1. device[x] \in Tokens /\ Genuine(device[x])
        BY <3>2, <2>1 DEF AuthInv, Known
      <4>. QED BY <4>1, <3>2, <1>6 DEF Genuine
    <3>. QED BY <3>1, <3>2, <1>4
  <2>4. \A v \in Users : cache'[v] # NoEntry => role'[v] # "NONE"
    BY <1>1, <1>2 DEF AuthInv, Known
  <2>5. \A r \in Requests : Begun(r)' \/ At(r, "revoke")' => req'[r].token \in Tokens
    BY <1>1 DEF AuthInv, Known, Begun, At
  <2>. QED BY <2>2, <2>3, <2>4, <2>5 DEF Known
<1>8. RevokedLongEnough' /\ RevokedByLogout'
  BY <1>1 DEF AuthInv, RevokedLongEnough, RevokedByLogout, At
<1>9. CacheInTime'
  BY <1>1, <1>2 DEF AuthInv, Known, CacheInTime
<1>10. RolesSeen'
  <2> SUFFICES ASSUME NEW r \in Requests
               PROVE  SeesWell(req[r])'
    BY DEF RolesSeen
  <2>1. SeesWell(req[r]) /\ req' = req /\ cache' = cache
    BY <1>1 DEF AuthInv, RolesSeen
  <2>2. Begun(r) => role'[req[r].token.user] = role[req[r].token.user]
    <3> HAVE Begun(r)
    <3>1. req[r].token \in Tokens /\ Genuine(req[r].token)
      BY DEF AuthInv, Known
    <3>. QED BY <3>1, <1>6
  <2>. QED BY <2>1, <2>2 DEF SeesWell, Begun, Guards
<1>. QED BY <1>5, <1>7, <1>8, <1>9, <1>10 DEF AuthInv

-----------------------------------------------------------------------------
(* What holds of the specification.                                        *)

LEMMA NextKeeps == AuthInv /\ [Next]_vars => AuthInv'
<1> SUFFICES ASSUME AuthInv, [Next]_vars PROVE AuthInv'
  OBVIOUS
<1>1. CASE UNCHANGED vars
  <2>1. UNCHANGED <<now, role, changes, device, req, redis, revoked, cache, loggedOut,
                    staleUntil, troubles>>
    BY <1>1 DEF vars, userVars, redisVars
  <2>2. TypeOK' /\ Known' /\ RevokedLongEnough'
    BY <2>1 DEF AuthInv, TypeOK, Known, Genuine, Begun, At, RevokedLongEnough
  <2>3. RevokedByLogout' /\ CacheInTime' /\ RolesSeen'
    BY <2>1 DEF AuthInv, RevokedByLogout, At, CacheInTime, RolesSeen, SeesWell
  <2>. QED BY <2>2, <2>3 DEF AuthInv
<1>2. CASE Tick
  BY <1>2, TickKeeps
<1>3. CASE RedisStarts \/ RedisStops
  BY <1>3, RedisKeeps
<1>4. ASSUME NEW u \in Users, ChangeRole(u) \/ \E d \in Devices : Register(d, u) \/ Login(d, u)
      PROVE  AuthInv'
  BY <1>4, ChangeRoleKeeps, IssueKeeps
<1>5. ASSUME NEW r \in Requests, Step(r)
      PROVE  AuthInv'
  BY <1>5, GuardsKeep, WriteCacheKeeps, DecideKeeps, RevokeKeeps DEF Step
<1>6. ASSUME NEW r \in Requests, \E d \in Devices : Begin(r, d)
      PROVE  AuthInv'
  BY <1>6, BeginKeeps
<1>7. ASSUME NEW r \in Requests,
             \/ CheckRevokedThrows(r) \/ ReadCacheThrows(r) \/ FindUserThrows(r)
             \/ WriteCacheThrows(r) \/ RevokeThrows(r)
      PROVE  AuthInv'
  BY <1>7, GuardsKeep
<1>. QED BY <1>1, <1>2, <1>3, <1>4, <1>5, <1>6, <1>7 DEF Next, Trouble

\* The invariant holds (Spec: every handler of the controller and its guards).
THEOREM AuthInvariant == Spec => []AuthInv
<1>1. AuthInv /\ [Next]_vars => AuthInv'
  BY NextKeeps
<1>. QED BY InitEstablishes, <1>1, PTL DEF Spec

\* Every reachable state is well typed, whatever expires, is logged out, cached, throws
\* or restarts (resolveTtlSeconds, AuthUserCacheService, revokeToken).
THEOREM AuthTypeCorrect == Spec => []TypeOK
<1>1. AuthInv => TypeOK
  BY DEF AuthInv
<1>. QED BY AuthInvariant, <1>1, PTL

\* Where an answer, and a step to the next guard, leave each request.
LEMMA StepsTo ==
    ASSUME AuthInv, NEW r \in Requests, NEW q \in Requests, NEW s
    PROVE  /\ Answer(q, s) \/ Goto(q, s) => IF q = r THEN req'[r].step = s ELSE req'[r] = req[r]
           /\ WriteCache(q) => req'[r].step = IF q = r THEN "decide" ELSE req[r].step
<1>1. /\ req[r] \in RequestStates /\ req[q] \in RequestStates
      /\ req \in [Requests -> RequestStates]
  BY DEF AuthInv, TypeOK
<1>2. Answer(q, s) => IF q = r THEN req'[r].step = s ELSE req'[r] = req[r]
  BY <1>1 DEF Answer, NewRequest
<1>3. Goto(q, s) => IF q = r THEN req'[r].step = s ELSE req'[r] = req[r]
  BY <1>1 DEF Goto, RequestStates
<1>4. WriteCache(q) => req'[r].step = IF q = r THEN "decide" ELSE req[r].step
  <2> SUFFICES ASSUME WriteCache(q) PROVE req'[r].step = IF q = r THEN "decide" ELSE req[r].step
    OBVIOUS
  <2>1. PICK see : req'[r] = [req[r] EXCEPT !.step = IF r = q THEN "decide" ELSE @, !.sees = see]
    BY DEF WriteCache
  <2>. QED BY <1>1, <2>1 DEF RequestStates
<1>. QED BY <1>2, <1>3, <1>4

\* What a step of a request may do to it.
LEMMA StepsOfRequests ==
    ASSUME AuthInv, [Next]_vars, NEW r \in Requests
    PROVE  /\ At(r, "revocation") /\ req'[r].step = "cache" =>
                 troubles' # troubles \/ revoked[req[r].token] <= 0
           /\ req[r].step # "refused" /\ req'[r].step = "refused" =>
                 At(r, "new") \/ (req[r].token \in Tokens /\ revoked[req[r].token] > 0)
<1>1. req[r] \in RequestStates /\ req \in [Requests -> RequestStates] /\ troubles \in Nat
  BY DEF AuthInv, TypeOK
<1>2. CASE req'[r].step = req[r].step
  BY <1>2 DEF At
<1>3. ASSUME NEW q \in Requests, q # r, Step(q)
      PROVE  req'[r].step = req[r].step
  <2>1. CASE CheckRevoked(q) \/ Revoke(q)
    BY <2>1, <1>3, StepsTo DEF CheckRevoked, Revoke
  <2>2. CASE ReadCache(q) \/ FindUser(q)
    BY <2>2, <1>3, <1>1 DEF ReadCache, FindUser
  <2>3. CASE WriteCache(q)
    BY <2>3, <1>3, StepsTo
  <2>4. CASE Decide(q)
    BY <2>4, <1>3, <1>1, StepsTo DEF Decide
  <2>. QED BY <1>3, <2>1, <2>2, <2>3, <2>4 DEF Step
<1>4. ASSUME NEW q \in Requests, q # r,
             \/ CheckRevokedThrows(q) \/ ReadCacheThrows(q) \/ FindUserThrows(q)
             \/ WriteCacheThrows(q) \/ RevokeThrows(q)
      PROVE  req'[r].step = req[r].step
  BY <1>4, StepsTo DEF CheckRevokedThrows, ReadCacheThrows, FindUserThrows,
                       WriteCacheThrows,
         RevokeThrows
<1>5. ASSUME NEW q \in Requests, q # r, NEW d \in Devices, Begin(q, d)
      PROVE  req'[r].step = req[r].step
  BY <1>5, <1>1, StepsTo DEF Begin
<1>6. ASSUME \/ UNCHANGED vars \/ Tick \/ RedisStarts \/ RedisStops
             \/ \E u \in Users : ChangeRole(u) \/ \E d \in Devices : Register(d, u) \/ Login(d, u)
      PROVE  req'[r].step = req[r].step
  <2>1. \/ req' = req
        \/ \E late : req'[r] = [req[r] EXCEPT !.late = late]
        \/ \E sees : req'[r] = [req[r] EXCEPT !.sees = sees]
    BY <1>6 DEF vars, Tick, RedisStarts, RedisStops, ChangeRole, Register, Login
  <2>. QED BY <2>1, <1>1 DEF RequestStates
<1>7. CASE CheckRevokedThrows(r)
  <2>1. Fault /\ Goto(r, "cache")
    BY <1>7 DEF CheckRevokedThrows
  <2>2. troubles' # troubles
    BY <2>1, <1>1 DEF Fault
  <2>3. req'[r].step = "cache"
    BY <2>1, StepsTo
  <2>. QED BY <2>2, <2>3
<1>8. CASE CheckRevoked(r)
  <2>1. req[r].token \in Tokens /\ revoked[req[r].token] \in Nat
    BY <1>8 DEF CheckRevoked, At, AuthInv, Known, TypeOK, Begun, Guards, Until
  <2>2. IF revoked[req[r].token] > 0 THEN Answer(r, "refused") ELSE Goto(r, "cache")
    BY <1>8 DEF CheckRevoked
  <2>3. IF revoked[req[r].token] > 0 THEN req'[r].step = "refused" ELSE req'[r].step = "cache"
    BY <2>2, StepsTo
  <2>. QED BY <2>1, <2>3
<1>9. ASSUME NEW d \in Devices, Begin(r, d)
      PROVE  At(r, "new") /\ ~At(r, "revocation")
  BY <1>9 DEF Begin, At
<1>10. ASSUME \/ ReadCache(r) \/ FindUser(r) \/ WriteCache(r) \/ Decide(r) \/ Revoke(r)
              \/ ReadCacheThrows(r) \/ FindUserThrows(r) \/ WriteCacheThrows(r)
              \/ RevokeThrows(r)
       PROVE  ~At(r, "revocation") /\ req'[r].step # "refused"
  <2>1. ~At(r, "revocation")
    BY <1>10 DEF ReadCache, FindUser, WriteCache, Decide, Revoke, ReadCacheThrows,
           FindUserThrows, WriteCacheThrows, RevokeThrows, At
  <2>2. CASE Revoke(r) \/ ReadCacheThrows(r) \/ FindUserThrows(r) \/ WriteCacheThrows(r)
                \/ RevokeThrows(r)
    <3>1. \E s \in {"accepted", "failed", "find", "decide"} : Answer(r, s) \/ Goto(r, s)
      BY <2>2 DEF Revoke, ReadCacheThrows, FindUserThrows, WriteCacheThrows, RevokeThrows
    <3>2. PICK s \in {"accepted", "failed", "find", "decide"} : req'[r].step = s
      BY <3>1, StepsTo
    <3>. QED BY <2>1, <3>2
  <2>3. CASE WriteCache(r)
    <3>1. req'[r].step = "decide"
      BY <2>3, StepsTo
    <3>. QED BY <2>1, <3>1
  <2>4. CASE ReadCache(r) \/ FindUser(r)
    <3>1. PICK s \in {"decide", "find", "write"} : \E found :
              req' = [req EXCEPT ![r].step = s, ![r].role = found]
      BY <2>4 DEF ReadCache, FindUser
    <3>. QED BY <2>1, <3>1, <1>1 DEF RequestStates
  <2>5. CASE Decide(r)
    <3>1. \/ \E s \in {"forbidden", "accepted"} : Answer(r, s)
          \/ req' = [req EXCEPT ![r] = [NewRequest EXCEPT !.step = "revoke",
                         !.token = req[r].token, !.ttl = Ttl(req[r].token)]]
      BY <2>5 DEF Decide
    <3>2. PICK s \in {"forbidden", "accepted", "revoke"} : req'[r].step = s
      BY <3>1, <1>1, StepsTo DEF NewRequest
    <3>. QED BY <2>1, <3>2
  <2>. QED BY <1>10, <2>2, <2>3, <2>4, <2>5
<1>11. CASE Next
  <2>1. ASSUME NEW u \in Users, ChangeRole(u) \/ \E d \in Devices : Register(d, u) \/ Login(d, u)
        PROVE  req'[r].step = req[r].step
    BY <2>1, <1>6
  <2>2. ASSUME NEW q \in Requests,
               \/ Step(q) \/ \E d \in Devices : Begin(q, d)
               \/ CheckRevokedThrows(q) \/ ReadCacheThrows(q) \/ FindUserThrows(q)
               \/ WriteCacheThrows(q) \/ RevokeThrows(q)
        PROVE  \/ req'[r].step = req[r].step
               \/ CheckRevoked(r) \/ CheckRevokedThrows(r)
               \/ At(r, "new") /\ ~At(r, "revocation")
               \/ ~At(r, "revocation") /\ req'[r].step # "refused"
    BY <2>2, <1>3, <1>4, <1>5, <1>9, <1>10 DEF Step
  <2>3. \/ req'[r].step = req[r].step
        \/ CheckRevoked(r) \/ CheckRevokedThrows(r)
        \/ At(r, "new") /\ ~At(r, "revocation")
        \/ ~At(r, "revocation") /\ req'[r].step # "refused"
    <3>1. CASE Tick \/ RedisStarts \/ RedisStops
      BY <3>1, <1>6
    <3>2. CASE \E u \in Users : ChangeRole(u) \/ \E d \in Devices : Register(d, u) \/ Login(d, u)
      BY <3>2, <2>1
    <3>3. CASE \E q \in Requests :
                  \/ Step(q) \/ \E d \in Devices : Begin(q, d)
                  \/ CheckRevokedThrows(q) \/ ReadCacheThrows(q) \/ FindUserThrows(q)
                  \/ WriteCacheThrows(q) \/ RevokeThrows(q)
      BY <3>3, <2>2
    <3>. QED BY <1>11, <3>1, <3>2, <3>3, Zenon DEF Next, Trouble
  <2>4. CASE CheckRevoked(r) \/ CheckRevokedThrows(r)
    BY <2>4, <1>7, <1>8
  <2>5. CASE At(r, "new") /\ ~At(r, "revocation")
    BY <2>5 DEF At
  <2>6. CASE ~At(r, "revocation") /\ req'[r].step # "refused"
    BY <2>6 DEF At
  <2>. QED BY <2>3, <2>4, <2>5, <2>6, <1>2, Zenon
<1>. QED BY <1>2, <1>6, <1>11

\* A logout holds: a request that begins after the logout of its token was answered
\* passes isTokenRevoked only once the token has expired, for any lifetime of tokens.
THEOREM LogoutsHold == Spec => LogoutHolds
<1>1. AuthInv /\ [Next]_vars =>
         [\A r \in Requests : req[r].late /\ At(r, "revocation") /\ req'[r].step = "cache"
             => Second(now) >= Expiry(req[r].token) \/ troubles' # troubles]_vars
  <2> SUFFICES ASSUME AuthInv, [Next]_vars, NEW r \in Requests,
                      req[r].late, At(r, "revocation"), req'[r].step = "cache",
                      troubles' = troubles
               PROVE  Second(now) >= Expiry(req[r].token)
    OBVIOUS
  <2>1. revoked[req[r].token] <= 0
    BY StepsOfRequests
  <2>2. req[r].token \in loggedOut \/ Second(now) >= Expiry(req[r].token)
    BY DEF AuthInv, RevokedLongEnough
  <2>3. req[r].token \in Tokens
    BY DEF AuthInv, Known, Begun, Guards, At
  <2>4. ASSUME req[r].token \in loggedOut PROVE Second(now) >= Expiry(req[r].token)
    <3>1. revoked[req[r].token] >= 2 * Expiry(req[r].token)
      BY <2>4 DEF AuthInv, RevokedLongEnough
    <3>2. Expiry(req[r].token) = req[r].token.issued + Lifetime /\ req[r].token.issued \in Nat
      BY <2>3, TokenTimes DEF Expiry
    <3>3. Expiry(req[r].token) \in Nat /\ Expiry(req[r].token) > 0
      BY <3>2
    <3>4. revoked[req[r].token] \in Nat
      BY <2>3 DEF AuthInv, TypeOK, Until
    <3>. QED BY <2>1, <3>1, <3>3, <3>4
  <2>. QED BY <2>2, <2>4
<1>. QED BY AuthInvariant, <1>1, PTL DEF Spec, LogoutHolds

\* Nobody's session is ended but by a logout with its own token (isTokenRevoked,
\* revokeToken), however many sessions the user has.
THEOREM RefusalsHaveReasons == Spec => RefusedForAReason
<1>1. AuthInv /\ [Next]_vars =>
         [\A r \in Requests : req[r].step # "refused" /\ req'[r].step = "refused"
             => \/ req[r].step = "new"
                \/ \E l \in Logouts : req[l].token = req[r].token /\ At(l, "accepted")]_vars
  <2> SUFFICES ASSUME AuthInv, [Next]_vars, NEW r \in Requests,
                      req[r].step # "refused", req'[r].step = "refused", req[r].step # "new"
               PROVE  \E l \in Logouts : req[l].token = req[r].token /\ At(l, "accepted")
    OBVIOUS
  <2>1. req[r].token \in Tokens /\ revoked[req[r].token] > 0
    BY StepsOfRequests DEF At
  <2>. QED BY <2>1 DEF AuthInv, RevokedByLogout
<1>. QED BY AuthInvariant, <1>1, PTL DEF Spec, RefusedForAReason

\* An old role decides a request only if it may have seen it: within the time to live
\* of the cache after the change, or after another request put it back (getUserById).
THEOREM StaleRolesEnd == Spec => StaleRoleIsBounded
<1>1. AuthInv =>
         \A r \in Requests : At(r, "decide") /\ req[r].sees = "current"
             => req[r].role = role[req[r].token.user]
  BY DEF AuthInv, RolesSeen, SeesWell, At
<1>2. AuthInv /\ [Next]_vars =>
         [\A r \in Requests : At(r, "decide") /\ req'[r].step # "decide"
                                 /\ req[r].sees = "current"
             => req[r].role = role[req[r].token.user]]_vars
  BY <1>1
<1>. QED BY AuthInvariant, <1>2, PTL DEF Spec, StaleRoleIsBounded
===============================================================================
