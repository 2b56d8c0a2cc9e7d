\* The capture thread may fail to start after the render thread has.
SPECIFICATION Spec
CONSTANTS
    a = a
    b = b
    c = c
    stereo = stereo
    mono = mono
    NoSession = NoSession
    VmAddr = "vm"
    AddrOf <- Addresses
    Host = {a}
    FormatOf <- OneFormat
    Supported = {stereo, mono}
    Trusted = {a}
    SpawnFails = {"render", "capture"}
    NetCap = 2
    MaxMic = 0
    CaptureQueue = 0
    MaxSpeaker = 0
    MaxLives = 1
    HalfSpace = 8
    ResyncGap = 2
INVARIANT ThreadsMatchSession
CHECK_DEADLOCK FALSE
