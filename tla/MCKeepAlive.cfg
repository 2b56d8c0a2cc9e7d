\* The shipped timeouts, in units of 250 ms, on a link that loses a datagram now
\* and then, breaks and mends, to a VM that restarts without a word.
SPECIFICATION CalmSpec
CONSTANTS
    HandshakeTimeout = 4
    HostIdle = 20
    PingInterval = 8
    VmIdle = 20
    SweepInterval = 4
    MaxDelay = 2
    MaxJoin = 4
    MaxLosses = 1
    VmRestarts = TRUE
    LinkBreaks = TRUE
    MaxMissed = 5
INVARIANTS TypeOK HostNotices VmReleases TogetherAgain
PROPERTY Stays
