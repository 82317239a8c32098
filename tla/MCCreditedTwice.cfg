\* One order, one charge, two calls of the generic webhook at a time.
CONSTANTS
    Orders = {o1}
    Attempts = {a1}
    Confirmers = {h1, h2}
    Buyers = {b1}
    Routes = {"generic"}
    Names = {"merchant"}
    Words <- ListedForOne
    OrderMoves = {}
    MaxCredits = 2
    MaxFaults = 0
    None = None
SPECIFICATION Spec
INVARIANT SettledOnce
\* Once the charge is declined nothing has to happen.
CHECK_DEADLOCK FALSE
