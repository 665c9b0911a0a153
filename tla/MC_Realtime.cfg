\* Two changes, one of them asked for by the page; two failures, two lost connections.
SPECIFICATION Spec
CONSTANTS
    h1 = h1
    h2 = h2
    Handlers = {h1, h2}
    Mine = {h2}
    MaxFaults = 2
    MaxDrops = 2
CHECK_DEADLOCK FALSE
INVARIANTS TypeOK StaleForAReason
PROPERTY BookConverges
