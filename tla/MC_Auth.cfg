\* Three seconds, in which tokens live for two and cached roles for one.
SPECIFICATION Spec
CONSTANTS
    alice = alice
    phone = phone
    laptop = laptop
    out = out
    admin = admin
    NoToken = NoToken
    Users = {alice}
    Devices = {phone, laptop}
    Requests = {out, admin}
    Logouts = {out}
    AdminOnly = {admin}
    Lifetime = 2
    CacheTtl = 1
    MaxTime = 5
    MaxChanges = 1
    MaxTroubles = 1
CHECK_DEADLOCK FALSE
INVARIANT TypeOK
PROPERTIES LogoutHolds RefusedForAReason StaleRoleIsBounded EveryRequestIsAnswered
