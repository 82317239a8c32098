\* One order, two transfers, two buyer requests and two notifications.
CONSTANTS
    Orders = {o1}
    Transfers = {x1, x2}
    Buyers = {b1, b2}
    Hooks = {h1, h2}
    Methods = {"kwik", "local", "bank_transfer"}
    MaxDebits = 1
    MaxFaults = 1
    None = None
SPECIFICATION Spec
SYMMETRY Symmetry
INVARIANTS
    PayoutsTypeOK
    TransfersRecorded
    OpenedOnce
    ConfirmedByTransfer
PROPERTY ImplementsDisbursement
\* Once the order is paid and the bank is silent nothing has to happen.
CHECK_DEADLOCK FALSE
