\* Two sessions of the VM, one after the other, either of which may fail to
\* start, and the process of the host, while endpoints are plugged in and out:
\* threads that start, fail, wait and sleep while the loop joins them.
SPECIFICATION AgentSpec
CONSTANTS
    MaxSessions = 2
    MaxBlocked = 7
    First = "render"
    WaitMax <- VmWaits
    EventDriven = {"render"}
    MaxEventTimeouts = 2
    ReopenDelay = 2
    BlockingCalls = FALSE
    InitFails = {"render"}
    SpawnFails = {"render", "capture"}
    Names <- VmNames
    Matches <- VmMatches
    Wanted <- VmWanted
    Default = Default
    cable = cable
    card = card
    other = other
    cableIn = cableIn
INVARIANTS TypeOK EndpointsReleased ShutDownBounded DeadEndpointReopened
           NoFeedback
PROPERTIES StopsReturn NeverGivesUp
CHECK_DEADLOCK FALSE
