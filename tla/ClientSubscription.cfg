SPECIFICATION FairSpec
CONSTANTS
    Items = {i1, i2}
    Views = {v1, v2}
    Readers = {v1}
    MaxNotifications = 1
INVARIANTS NoItemForgotten RecordsMatchServer
PROPERTY ClosedViewsReleased
CHECK_DEADLOCK FALSE
