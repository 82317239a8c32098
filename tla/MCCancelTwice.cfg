\* Two cancellations of one order at the same time.
CONSTANTS
    Products = {p1}
    Buyers = {b1}
    CartRequests = {}
    Requests = {r1, r2}
    Orders = {o1, o2}
    MaxStock = 1
    MaxQuantity = 1
    MaxReturns = 2
    OrderMoves = {}
    DeliveryMoves = {}
    None = None
SPECIFICATION Spec
INVARIANT RestockedOnce
\* Once every product is deleted nobody has anything left to ask for.
CHECK_DEADLOCK FALSE
