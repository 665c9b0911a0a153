\* IntMax is set so that alice's deposit and her payouts together overflow the column.
SPECIFICATION Spec
CONSTANTS
    alice = alice
    bob = bob
    deposit = deposit
    again = again
    withdraw = withdraw
    resolve = resolve
    retry = retry
    short = short
    fund = fund
    k1 = k1
    k2 = k2
    k3 = k3
    k4 = k4
    k5 = k5
    k6 = k6
    k7 = k7
    k8 = k8
    k9 = k9
    NoRequest = NoRequest
    Users = {alice, bob}
    Requests = {deposit, again, withdraw, resolve, retry, short, fund}
    ValidKeys = {k1, k2, k3, k4, k5, k6, k7, k9}
    IntMax = 7
    Asks <- MCAsks
INVARIANTS TypeOK DoneIsRecorded DraftIsCurrent
PROPERTIES ImplementsContract EveryRequestEnds
CHECK_DEADLOCK FALSE
