\* Packets across the wrap of the sequence space, far enough apart to restart
\* the buffer, near enough to conceal the gap; device callbacks that ask for
\* less than a packet and for three.
SPECIFICATION Spec
CONSTANTS
    HalfSpace = 12
    ResyncGap = 9
    FramesPerPacket = 2
    RequestedFrames = 5
    Unit = 4
    MaxDeviation = 1
    DriftGain = 3
    PacketIndex <- AcrossTheWrap
    PullSizes <- OneToSix
    MaxPushes = 4
INVARIANTS TypeOK SlotAligned FillBounded LookaheadHeld NothingReplayed
           LossAccounted
PROPERTY ListenerInOrder
CHECK_DEADLOCK FALSE
