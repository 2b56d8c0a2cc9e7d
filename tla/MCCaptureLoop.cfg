\* Packets of a frame duration of three, rounded down to two frames; an endpoint
\* that is late, early or lost, polls in time and late, up to two packets in one
\* poll, and a network loop that lags.  A queue of eight that grows by one frame
\* in three sheds its first frame at 13.
SPECIFICATION LongSpec
CONSTANTS
    PacketFrames = 2
    FrameDuration = 3
    ScheduleReset = 3
    CaptureQueue = 2
    Behind = 4
    Ahead = 2
    PollWithin = 7
    Backlog = 1
    EndpointFails = TRUE
    SteadyPoll = 1
    SteadyBehind = 2
    AnyTime = 9
    MaxTime = 20
INVARIANTS TypeOK NeverAhead BurstBounded InOrder FewGaps LostToRounding
CHECK_DEADLOCK FALSE
