\* One deposit pays for three orders; bob has two keys, so that a withdrawal can follow.
SPECIFICATION Spec
CONSTANTS
    alice = alice
    bob = bob
    market = market
    y1 = y1
    n1 = n1
    y2 = y2
    n2 = n2
    k1 = k1
    NoSide = NoSide
    Users = {alice, bob}
    Markets = {market}
    Orders = {y1, n1, y2, n2}
    Info <- MCInfo
    ClientKeys <- MCClientKeys
    Amounts = {280}
    MaxRetries = 2
    IntMax = 400
CHECK_DEADLOCK FALSE
INVARIANTS TypeOK Lockstep SettledIsDebited CollateralIsExact CreditsAreDue MoneyConserved
PROPERTIES FinalIsFinal ImplementsLifecycle ImplementsContract ResolutionPays
