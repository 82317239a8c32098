\* Two zones, two neighbourhoods, an address, one request at a time.
CONSTANTS
    Zones = {z1, z2}
    Neighborhoods = {n1, n2}
    Addresses = {a1}
    Orders = {o1}
    Requests = {r1}
    Prices = {1, 2}
    None = None
SPECIFICATION Spec
SYMMETRY Symmetry
INVARIANTS
    FeesTypeOK
    FeeInForce
    PagesInForce
