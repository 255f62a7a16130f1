SPECIFICATION FairSpec
CONSTANTS
    Requests = {c1, c2, p1, p2}
    Splitters = {p1, p2}
    Nobody = Nobody
    MaxRenewals = 2
CHECK_DEADLOCK FALSE
INVARIANTS QuietRenewalsAreSafe MessagesUnderstood
PROPERTY ConnectionDrains
