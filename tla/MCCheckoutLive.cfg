\* Two transactions over the same two products.
CONSTANTS
    Products = {p1, p2}
    Buyers = {b1, b2}
    CartRequests = {}
    Requests = {r1, r2}
    Orders = {o1, o2}
    MaxStock = 1
    MaxQuantity = 1
    MaxReturns = 1
    OrderMoves = {}
    DeliveryMoves = {}
    None = None
SPECIFICATION FairSpec
PROPERTY RequestsEnd
\* Once every product is deleted nobody has anything left to ask for.
CHECK_DEADLOCK FALSE
