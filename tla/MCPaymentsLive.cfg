\* One order, one attempt, two confirmations at a time, over AppyPay's own
\* webhook, its alias, and an administrator.
CONSTANTS
    Orders = {o1}
    Attempts = {a1}
    Confirmers = {h1, h2}
    Buyers = {b1}
    Routes = {"appypay", "alias", "admin"}
    Names = {"merchant"}
    Words <- ListedForOne
    OrderMoves = {"CANCELLED"}
    MaxCredits = 1
    MaxFaults = 1
    None = None
SPECIFICATION FairSpec
INVARIANTS
    BooksBalance
    AckedMeansRecorded
PROPERTY ChargeConfirmed
\* A cancelled order that was never paid leaves nothing to do.
CHECK_DEADLOCK FALSE
