SPECIFICATION FairSpec
CONSTANTS
    MaxSubscriptions = 2
    Requests = {r1, r2}
    None = None
    Parameters <- Every
    MaxPerPublish = 1
    MaxElapsed = 1
    MaxNotifications = 1
    MaxOutstandingPublishRequests = 2
INVARIANT OrderIsExact
PROPERTIES NobodyOvertakesTwice BacklogReachesClient RetainedIsReleased
CHECK_DEADLOCK FALSE
