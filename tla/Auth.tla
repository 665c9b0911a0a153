--------------------------------- MODULE Auth ---------------------------------
(***************************************************************************)
(* Sessions on the server: registration and login issue tokens, a guarded  *)
(* request passes the checks of JwtStrategy and AdminOnlyGuard, a logout   *)
(* revokes its token in Redis until it expires, and the role of a user is  *)
(* cached in Redis for a while.  A request gives way at every await, so    *)
(* its steps interleave with those of others, with the clock, with changes *)
(* of roles and with Redis, which keeps nothing over a restart.            *)
(*                                                                         *)
(* The clock counts half seconds, the code whole ones.  A token carries a  *)
(* user and the second it was issued in, nothing else: two logins of one   *)
(* user in one second are answered with the same token.                    *)
(***************************************************************************)
EXTENDS Integers

CONSTANTS
    Users,
    Devices,        \* clients, each with the token it was last given
    Requests,       \* guarded requests, each sent once
    Logouts,        \* those that are POST /auth/logout
    AdminOnly,      \* those to a route behind AdminOnlyGuard
    NoToken,
    Lifetime,       \* JWT_EXPIRES_IN, in seconds
    CacheTtl,       \* AUTH_USER_CACHE_TTL_SECONDS
    MaxTime,        \* bound: half seconds
    MaxChanges,     \* bound: changes of a role
    MaxTroubles     \* bound: calls to PostgreSQL or Redis that throw, restarts of Redis

ASSUME AuthAssumption ==
    /\ Logouts \subseteq Requests /\ AdminOnly \subseteq Requests \ Logouts
    /\ Lifetime \in Nat \ {0} /\ CacheTtl \in Nat \ {0}
    /\ MaxTime \in Nat /\ MaxChanges \in Nat /\ MaxTroubles \in Nat

Second(time) == time \div 2

Times  == 0 .. MaxTime
Tokens == [user : Users, issued : 0 .. Second(MaxTime)]

ASSUME NoTokenAssumption == NoToken \notin Tokens

Expiry(token) == token.issued + Lifetime

Roles == {"USER", "ADMIN"}

VARIABLES
    now,
    role,           \* in PostgreSQL; "NONE" before the user registers
    device,
    req,            \* each request
    redis,          \* "up", or "down" while it restarts: commands wait for it
    revoked,        \* when the key of a revoked token expires; 0 if there is none
    cache,          \* the cached role of a user and when its key expires
    loggedOut,      \* history: tokens Redis was told to refuse and has not forgotten
    staleUntil,     \* history: when the last cached copy of an old role expires
    troubles, changes

userVars   == <<role, changes>>
redisVars  == <<redis, revoked, cache, loggedOut, staleUntil>>
vars       == <<now, userVars, device, req, redisVars, troubles>>

NoEntry == [role |-> "NONE", until |-> 0]
NewRequest == [step |-> "new", token |-> NoToken, role |-> "NONE", ttl |-> 0,
               late |-> FALSE, sees |-> "any"]

Until == 0 .. MaxTime + 2 * (Lifetime + CacheTtl)

\* The answers a guarded request may get, and what its guards have still to do.
Answers == {"accepted", "refused", "forbidden", "failed"}
Guards  == {"revocation", "cache", "find", "write", "decide"}

RequestStates ==
    [step  : {"new", "revoke"} \cup Guards \cup Answers,
     token : Tokens \cup {NoToken},
     role  : Roles \cup {"NONE"},
     ttl   : 0 .. Lifetime,
     late  : BOOLEAN,                        \* history: it began after a logout
     sees  : {"any", "old", "current"}]      \* history: the roles it may see

TypeOK ==
    /\ now \in Times
    /\ role \in [Users -> Roles \cup {"NONE"}]
    /\ device \in [Devices -> Tokens \cup {NoToken}]
    /\ req \in [Requests -> RequestStates]
    /\ redis \in {"up", "down"}
    /\ revoked \in [Tokens -> Until]
    /\ cache \in [Users -> [role : Roles \cup {"NONE"}, until : Until]]
    /\ loggedOut \subseteq Tokens
    /\ staleUntil \in [Users -> Until]
    /\ troubles \in 0 .. MaxTroubles
    /\ changes \in 0 .. MaxChanges

Init ==
    /\ now = 0
    /\ role = [u \in Users |-> "NONE"]
    /\ device = [d \in Devices |-> NoToken]
    /\ req = [r \in Requests |-> NewRequest]
    /\ redis = "up"
    /\ revoked = [t \in Tokens |-> 0]
    /\ cache = [u \in Users |-> NoEntry]
    /\ loggedOut = {}
    /\ staleUntil = [u \in Users |-> 0]
    /\ troubles = 0
    /\ changes = 0

\* Something goes wrong.
Fault == troubles < MaxTroubles /\ troubles' = troubles + 1

-----------------------------------------------------------------------------
(* The clock, the users and Redis.                                         *)

\* Half a second passes; Redis drops the keys that expire.
Tick ==
    /\ now < MaxTime
    /\ now' = now + 1
    /\ revoked' = [t \in Tokens |-> IF revoked[t] <= now' THEN 0 ELSE revoked[t]]
    /\ cache' = [u \in Users |-> IF cache[u].until <= now' THEN NoEntry ELSE cache[u]]
    /\ loggedOut' = {t \in loggedOut : Second(now') < Expiry(t)}
    /\ staleUntil' = [u \in Users |-> IF staleUntil[u] <= now' THEN 0 ELSE staleUntil[u]]
    /\ UNCHANGED <<userVars, device, req, redis, troubles>>

Begun(r) == req[r].step \in Guards

\* The token of a user signed now.
Issued(u) == [user |-> u, issued |-> Second(now)]

\* The user is created with the role of the column's default, and given a token.
Register(d, u) ==
    /\ role[u] = "NONE"
    /\ role' = [role EXCEPT ![u] = "USER"]
    /\ device' = [device EXCEPT ![d] = Issued(u)]
    /\ UNCHANGED <<now, changes, req, redisVars, troubles>>

Login(d, u) ==
    /\ role[u] # "NONE"
    /\ device' = [device EXCEPT ![d] = Issued(u)]
    /\ UNCHANGED <<now, userVars, req, redisVars, troubles>>

\* Roles are changed in PostgreSQL only, by a seed or by hand.
ChangeRole(u) ==
    /\ changes < MaxChanges
    /\ role[u] \in Roles
    /\ changes' = changes + 1
    /\ role' = [role EXCEPT ![u] = IF @ = "USER" THEN "ADMIN" ELSE "USER"]
    /\ staleUntil' = [staleUntil EXCEPT ![u] = now + 2 * CacheTtl]
    /\ req' = [r \in Requests |-> [req[r] EXCEPT !.sees = IF Begun(r) THEN "old" ELSE @]]
    /\ UNCHANGED <<now, device, redis, revoked, cache, loggedOut, troubles>>

\* What is in Redis is lost, and who waits for an answer goes on waiting.
RedisStops ==
    /\ Fault
    /\ redis' = "down"
    /\ revoked' = [t \in Tokens |-> 0]
    /\ cache' = [u \in Users |-> NoEntry]
    /\ loggedOut' = {}
    /\ req' = [r \in Requests |-> [req[r] EXCEPT !.late = FALSE]]
    /\ UNCHANGED <<now, userVars, device, staleUntil>>

RedisStarts ==
    /\ redis = "down"
    /\ redis' = "up"
    /\ UNCHANGED <<now, userVars, device, req, revoked, cache, loggedOut, staleUntil, troubles>>

-----------------------------------------------------------------------------
(* A guarded request.                                                      *)

At(r, step) == req[r].step = step

\* Answered; what the request knew is forgotten, but the token of a logout.
Answer(r, answer) ==
    req' = [req EXCEPT ![r] = [NewRequest EXCEPT
               !.step = answer, !.token = IF r \in Logouts THEN req[r].token ELSE NoToken]]

Goto(r, step) == req' = [req EXCEPT ![r].step = step]

\* passport-jwt verifies the token, whole seconds against whole seconds.
Begin(r, d) ==
    /\ At(r, "new")
    /\ device[d] # NoToken
    /\ IF Second(now) >= Expiry(device[d]) THEN Answer(r, "refused")
       ELSE req' = [req EXCEPT ![r] =
               [@ EXCEPT !.step  = "revocation",
                         !.token = device[d],
                         !.late  = device[d] \in loggedOut,
                         !.sees  = IF staleUntil[device[d].user] = 0 THEN "current" ELSE "any"]]
    /\ UNCHANGED <<now, userVars, device, redisVars, troubles>>

\* Wrong on purpose: the exception of a revoked token is not answered.
CheckRevokedUnanswered(r) ==
    /\ At(r, "revocation") /\ redis = "up"
    /\ revoked[req[r].token] = 0
    /\ Goto(r, "cache")
    /\ UNCHANGED <<now, userVars, device, redisVars, troubles>>

\* isTokenRevoked.
CheckRevoked(r) ==
    /\ At(r, "revocation") /\ redis = "up"
    /\ IF revoked[req[r].token] > 0 THEN Answer(r, "refused") ELSE Goto(r, "cache")
    /\ UNCHANGED <<now, userVars, device, redisVars, troubles>>

\* It cannot be read, and the token counts as valid.
CheckRevokedThrows(r) ==
    /\ At(r, "revocation")
    /\ Fault
    /\ Goto(r, "cache")
    /\ UNCHANGED <<now, userVars, device, redisVars>>

Live(u) == cache[u] # NoEntry

ReadCache(r) ==
    LET u == req[r].token.user
    IN  /\ At(r, "cache") /\ redis = "up"
        /\ req' = [req EXCEPT ![r].step = IF Live(u) THEN "decide" ELSE "find",
                              ![r].role = IF Live(u) THEN cache[u].role ELSE "NONE"]
        /\ UNCHANGED <<now, userVars, device, redisVars, troubles>>

ReadCacheThrows(r) ==
    /\ At(r, "cache")
    /\ Fault
    /\ Goto(r, "find")
    /\ UNCHANGED <<now, userVars, device, redisVars>>

FindUser(r) ==
    /\ At(r, "find")
    /\ req' = [req EXCEPT ![r].step = "write", ![r].role = role[req[r].token.user]]
    /\ UNCHANGED <<now, userVars, device, redisVars, troubles>>

\* PostgreSQL throws: an internal error.
FindUserThrows(r) ==
    /\ At(r, "find")
    /\ Fault
    /\ Answer(r, "failed")
    /\ UNCHANGED <<now, userVars, device, redisVars>>

\* Wrong on purpose: the key is written without a time to live.
WriteCacheForever(r) ==
    LET u == req[r].token.user
    IN  /\ At(r, "write") /\ redis = "up"
        /\ cache' = [cache EXCEPT ![u] = [role |-> req[r].role, until |-> MaxTime + 1]]
        /\ Goto(r, "decide")
        /\ UNCHANGED <<now, userVars, device, redis, revoked, loggedOut, staleUntil, troubles>>

WriteCache(r) ==
    LET u     == req[r].token.user
        until == now + 2 * CacheTtl
        stale == req[r].role # role[u] /\ req[r].sees = "old"
    IN  /\ At(r, "write") /\ redis = "up"
        /\ cache' = [cache EXCEPT ![u] = [role |-> req[r].role, until |-> until]]
        /\ staleUntil' = IF stale THEN [staleUntil EXCEPT ![u] = until] ELSE staleUntil
        /\ req' = [x \in Requests |->
                      [req[x] EXCEPT !.step = IF x = r THEN "decide" ELSE @,
                                     !.sees = IF stale /\ @ = "current" THEN "any" ELSE @]]
        /\ UNCHANGED <<now, userVars, device, redis, revoked, loggedOut, troubles>>

WriteCacheThrows(r) ==
    /\ At(r, "write")
    /\ Fault
    /\ Goto(r, "decide")
    /\ UNCHANGED <<now, userVars, device, redisVars>>

\* Wrong on purpose: the lifetime is counted from the logout on, and one second more.
TtlFromNow(token) == Lifetime + 1

\* Wrong on purpose: the clock is rounded up.
TtlRoundedUp(token) ==
    LET ttl == Expiry(token) - Second(now + 1) IN IF ttl > 0 THEN ttl ELSE 0

\* resolveTtlSeconds.
Ttl(token) == LET ttl == Expiry(token) - Second(now) IN IF ttl > 0 THEN ttl ELSE 0

\* AdminOnlyGuard and the handler; a logout works out how long its token must be
\* refused, and is done if it has expired.
Decide(r) ==
    LET token == req[r].token
    IN  /\ At(r, "decide")
        /\ \/ r \in AdminOnly /\ req[r].role # "ADMIN" /\ Answer(r, "forbidden")
           \/ /\ r \notin Logouts /\ (r \in AdminOnly => req[r].role = "ADMIN")
              /\ Answer(r, "accepted")
           \/ r \in Logouts /\ Ttl(token) = 0 /\ Answer(r, "accepted")
           \/ /\ r \in Logouts /\ Ttl(token) > 0
              /\ req' = [req EXCEPT ![r] = [NewRequest EXCEPT !.step = "revoke",
                                              !.token = token, !.ttl = Ttl(token)]]
        /\ UNCHANGED <<now, userVars, device, redisVars, troubles>>

\* Wrong on purpose: the key is that of the user.
RevokeUser(r) ==
    LET token == req[r].token
    IN  /\ At(r, "revoke") /\ redis = "up"
        /\ revoked' = [t \in Tokens |-> IF t.user = token.user THEN now + 2 * req[r].ttl
                                        ELSE revoked[t]]
        /\ loggedOut' = loggedOut \cup {token}
        /\ Answer(r, "accepted")
        /\ UNCHANGED <<now, userVars, device, redis, cache, staleUntil, troubles>>

\* revokeToken.
Revoke(r) ==
    LET token == req[r].token
    IN  /\ At(r, "revoke") /\ redis = "up"
        /\ revoked' = [revoked EXCEPT ![token] = now + 2 * req[r].ttl]
        /\ loggedOut' = loggedOut \cup {token}
        /\ Answer(r, "accepted")
        /\ UNCHANGED <<now, userVars, device, redis, cache, staleUntil, troubles>>

\* It cannot be written, which is logged.
RevokeThrows(r) ==
    /\ At(r, "revoke")
    /\ Fault
    /\ Answer(r, "accepted")
    /\ UNCHANGED <<now, userVars, device, redisVars>>

-----------------------------------------------------------------------------
Step(r) == CheckRevoked(r) \/ ReadCache(r) \/ FindUser(r) \/ WriteCache(r) \/ Decide(r)
              \/ Revoke(r)

Trouble ==
    \/ RedisStops
    \/ \E r \in Requests : CheckRevokedThrows(r) \/ ReadCacheThrows(r) \/ FindUserThrows(r)
                              \/ WriteCacheThrows(r) \/ RevokeThrows(r)

Next ==
    \/ Tick \/ RedisStarts \/ Trouble
    \/ \E u \in Users : ChangeRole(u) \/ \E d \in Devices : Register(d, u) \/ Login(d, u)
    \/ \E r \in Requests : Step(r) \/ \E d \in Devices : Begin(r, d)

\* A handler goes on, and Docker brings Redis back (restart: unless-stopped).
\* Nobody has to send a request, and the clock may stand still.
Fairness == WF_vars(RedisStarts) /\ \A r \in Requests : WF_vars(Step(r))

Spec == Init /\ [][Next]_vars /\ Fairness

-----------------------------------------------------------------------------
(* What must hold.                                                         *)

\* A request that begins after a logout of its token was answered does not pass
\* the revocation check before the token has expired, whatever the half second
\* each of the two ran in: the key in Redis outlives the token (revokeToken,
\* isTokenRevoked).  Redis must not have lost the key nor fail to read it.
LogoutHolds ==
    [][\A r \in Requests : req[r].late /\ At(r, "revocation") /\ req'[r].step = "cache"
          => Second(now) >= Expiry(req[r].token) \/ troubles' # troubles]_vars

\* A request is refused for a token that has not expired only after a logout with
\* this very token got through its guards: other sessions of the user go on, but
\* for those that signed in within the same second (issueToken, hashToken).
RefusedForAReason ==
    [][\A r \in Requests : req[r].step # "refused" /\ req'[r].step = "refused"
          => \/ req[r].step = "new"
             \/ \E l \in Logouts : req[l].token = req[r].token /\ At(l, "accepted")]_vars

\* Who is decided by a role he no longer has sent his request less than the
\* cache's time to live after the role changed, or after a request that had read
\* the old role before the change put it back into the cache (getUserById).
StaleRoleIsBounded ==
    [][\A r \in Requests : At(r, "decide") /\ req'[r].step # "decide"
                              /\ req[r].sees = "current"
          => req[r].role = role[req[r].token.user]]_vars

\* Every request is answered in the end, although its commands wait for as long
\* as Redis is away (maxRetriesPerRequest: null).
EveryRequestIsAnswered ==
    <>[](\A r \in Requests : req[r].step \in {"new"} \cup Answers)
=============================================================================
