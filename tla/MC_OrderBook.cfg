\* Three orders; two calls that throw, crashes or restarts of Redis in all.
SPECIFICATION Spec
CONSTANTS
    y1 = y1
    n1 = n1
    n2 = n2
    place_y1 = place_y1
    again_y1 = again_y1
    place_n1 = place_n1
    place_n2 = place_n2
    NoRequest = NoRequest
    NoOrder = NoOrder
    Orders = {y1, n1, n2}
    Requests = {place_y1, again_y1, place_n1, place_n2}
    OrderOf <- MCOrderOf
    Cancellable = {y1}
    Fits <- Complementary
    MaxTroubles = 2
CHECK_DEADLOCK FALSE
INVARIANTS TypeOK OpenIsVisible MatchedOnce CrossedOnlyIfSkipped
PROPERTIES ImplementsOrderLifecycle EveryRequestEnds
