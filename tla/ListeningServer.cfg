\* A Close that waits for a WebSocket task that threw never goes on: there the
\* system stops.
CHECK_DEADLOCK FALSE
SPECIFICATION FairListenerSpec
CONSTANTS
    Owners = {o1}
    Connections = {c1, c2}
    Kinds = {"websocket", "binary"}
    MaxOpens = 2
    MaxHandlers = 1
    MaxSize = 7
INVARIANTS TasksAccountedFor CloseMeansQuiet
PROPERTIES LastCall CloseReturns
