\* Two requests of one buyer race with the administrator.
CONSTANTS
    Products = {p1, p2}
    Buyers = {b1}
    CartRequests = {c1, c2}
    MaxStock = 3
    MaxQuantity = 2
    None = None
SPECIFICATION HistorySpec
SYMMETRY Symmetry
INVARIANTS
    CartTypeOK
    LineWithinStock
    DeletedStaysOut
\* Once every product is deleted nobody has anything left to ask for.
CHECK_DEADLOCK FALSE
