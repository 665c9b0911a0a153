\* Two calls that throw, one crash, one restart of Redis and one retry, in any order.
SPECIFICATION Spec
CONSTANTS
    t1 = t1
    t2 = t2
    a1 = a1
    a2 = a2
    NoTrade = NoTrade
    Trades = {t1, t2}
    Admins = {a1}
    MaxFaults = 2
    MaxCrashes = 1
    MaxLosses = 1
    KeepFailed = 1
CHECK_DEADLOCK FALSE
INVARIANTS TypeOK PendingIsInHand
PROPERTIES CompletedIsSettled ImplementsLifecycle PendingSettles PendingEnds
