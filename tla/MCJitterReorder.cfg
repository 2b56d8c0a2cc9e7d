\* Packets overtake one another: is a packet counted late only when its slot
\* has been played?
SPECIFICATION Spec
CONSTANTS
    HalfSpace = 4
    ResyncGap = 2
    FramesPerPacket = 2
    RequestedFrames = 5
    Unit = 4
    MaxDeviation = 1
    DriftGain = 3
    PacketIndex <- TinySpace
    PullSizes <- OneToSix
    MaxPushes = 5
PROPERTY LateMeansPlayed
