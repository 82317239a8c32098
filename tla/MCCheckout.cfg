\* Two buyers, two products, two transactions at a time.
CONSTANTS
    Products = {p1, p2}
    Buyers = {b1, b2}
    CartRequests = {}
    Requests = {r1, r2}
    Orders = {o1, o2}
    MaxStock = 1
    MaxQuantity = 1
    MaxReturns = 2
    OrderMoves = {"PAID"}
    DeliveryMoves = {"SCHEDULED"}
    None = None
SPECIFICATION Spec
SYMMETRY Symmetry
INVARIANTS
    TypeOK
    NeverOversold
    StockLedger
    TransactionInv
    NoStandstill
    OrderedProductsExist
PROPERTY ImplementsInventory
\* Once every product is deleted nobody has anything left to ask for.
CHECK_DEADLOCK FALSE
