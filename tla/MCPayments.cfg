\* Two orders, two attempts, one confirmation at a time, over the generic
\* webhook and that of E-Kwanza.
CONSTANTS
    Orders = {o1, o2}
    Attempts = {a1, a2}
    Confirmers = {h1}
    Buyers = {b1}
    Routes = {"generic", "ekwanza"}
    Names = {"merchant", "order"}
    Words <- ListedForOne
    OrderMoves = {}
    MaxCredits = 1
    MaxFaults = 0
    None = None
SPECIFICATION Spec
SYMMETRY Symmetry
INVARIANTS
    PaymentsTypeOK
    Prompted
\* Once every charge is declined nothing has to happen.
CHECK_DEADLOCK FALSE
