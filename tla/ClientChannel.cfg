SPECIFICATION FairChannelSpec
CONSTANTS
    Callers = {c1, c2, p1, p2}
    Splitters = {p1, p2}
    Renewal = Renewal
    MaxRenewals = 1
CHECK_DEADLOCK FALSE
INVARIANTS TurnIsPassedOn PendingHasReader
PROPERTY CallsReturn
