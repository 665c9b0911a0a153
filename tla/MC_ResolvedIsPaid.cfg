\* A trade that settles after its market was resolved.
SPECIFICATION Spec
CONSTANTS
    alice = alice
    bob = bob
    market = market
    y1 = y1
    n1 = n1
    y2 = y2
    n2 = n2
    k1 = k1
    NoSide = NoSide
    Users = {alice, bob}
    Markets = {market}
    Orders = {y1, n1}
    Info <- MCInfo
    ClientKeys <- OwnKeys
    Amounts = {200}
    MaxRetries = 0
    IntMax = 400
CHECK_DEADLOCK FALSE
INVARIANT ResolvedIsPaid
