SPECIFICATION FairSpec
CONSTANTS
    Items = {1, 2}
    MonitoringParameters <- SomeMonitoringParameters
    ItemParameters <- SomeMonitoringParameters
    MaxItems = 2
    MaxBindings = 2
    RequestedParameters <- SomeParameters
    UInt32Modulus = 16
    DefaultKeepAliveCount = 1
    MaxRetransmitQueueNotifications = 1
    MaxNotificationsPerPublishResponse = 1
    MaxElapsed = 2
    MaxBatch = 2
    MaxNotifications = 2
CHECK_DEADLOCK FALSE
INVARIANTS BindingsAccountedFor RetainedIsExact DeliveryInOrder
PROPERTIES GrowsWithinLimit NothingLost ImplementsQueue BacklogDrains
