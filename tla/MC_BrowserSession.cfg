\* Two logins, three moves and a fault.
SPECIFICATION Spec
CONSTANTS
    left = left
    right = right
    alice = alice
    bob = bob
    NoToken = NoToken
    NoUser = NoUser
    Tabs = {left, right}
    Users = {alice, bob}
    MaxLogins = 2
    MaxMoves = 3
    MaxFaults = 1
CHECK_DEADLOCK FALSE
INVARIANTS TypeOK OneIdentity RestsWhereItBelongs
PROPERTIES SessionChangesForAReason EveryTabRests
