\* An administrator and a buyer, two requests at a time, three seconds.
CONSTANTS
    Users = {u1, u2}
    Admins = {u1}
    Emails = {e1, e2}
    ResetKeys = {k1}
    Requests = {r1, r2}
    RefreshTTL = 2
    AccessTTL = 1
    ResetTTL = 1
    MaxTime = 2
    MaxTokens = 2
    None = None
SPECIFICATION Spec
SYMMETRY Symmetry
INVARIANTS
    AccountsTypeOK
    RevokedGetsNothing
    LinkWorksOnce
    EmailsUnique
