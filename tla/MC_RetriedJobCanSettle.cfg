\* One attempt that fails.
SPECIFICATION Spec
CONSTANTS
    t1 = t1
    t2 = t2
    a1 = a1
    a2 = a2
    NoTrade = NoTrade
    Trades = {t1}
    Admins = {}
    MaxFaults = 1
    MaxCrashes = 0
    MaxLosses = 0
    KeepFailed = 1
CHECK_DEADLOCK FALSE
INVARIANT RetriedJobCanSettle
