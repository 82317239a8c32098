\* Two buyers, two addresses, an order, two requests at a time.
CONSTANTS
    Buyers = {b1, b2}
    Addresses = {a1, a2}
    Orders = {o1}
    Requests = {r1, r2}
    OrderMoves = {"AWAITING_PAYMENT", "CANCELLED"}
    DeliveryMoves = {"ON_THE_WAY"}
    None = None
SPECIFICATION Spec
SYMMETRY Symmetry
INVARIANTS
    AddressesTypeOK
    DeliveryToOwnAddress
    OneDefault
PROPERTIES
    DefaultLostByRemovalOnly
    LastAddressKept
\* Once every id was used and every order placed the buyers may rest.
CHECK_DEADLOCK FALSE
