\* Each family of tables; two requests at a time, two writes.
CONSTANTS
    Requests = {r1, r2}
    ShortTTL = 1
    LongTTL = 1
    MaxFill = 1
    MaxTime = 2
    MaxWrites = 2
    None = None
SPECIFICATION Spec
SYMMETRY Symmetry
INVARIANTS
    CacheTypeOK
    WritesShow
    BoundedStaleness
    SavedStays
\* At the end of the clock and of the writes everybody may be idle.
CHECK_DEADLOCK FALSE
