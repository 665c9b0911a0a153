\* Two requests, nothing throws.
SPECIFICATION Spec
CONSTANTS
    y1 = y1
    n1 = n1
    n2 = n2
    place_y1 = place_y1
    again_y1 = again_y1
    place_n1 = place_n1
    place_n2 = place_n2
    NoRequest = NoRequest
    NoOrder = NoOrder
    Orders = {y1, n1}
    Requests = {place_y1, place_n1}
    OrderOf <- MCOrderOf
    Cancellable = {y1, n1}
    Fits <- Complementary
    MaxTroubles = 0
CHECK_DEADLOCK FALSE
INVARIANT BookShowsOpenOrders
