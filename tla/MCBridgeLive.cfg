\* Two hosts at two addresses, dying and restarting agents; no audio.
SPECIFICATION FairSpec
CONSTANTS
    a = a
    b = b
    c = c
    stereo = stereo
    mono = mono
    NoSession = NoSession
    VmAddr = "vm"
    AddrOf <- Addresses
    Host = {a, b}
    FormatOf <- OneFormat
    Supported = {stereo, mono}
    Trusted = {a, b}
    SpawnFails = {}
    NetCap = 2
    MaxMic = 0
    CaptureQueue = 0
    MaxSpeaker = 0
    MaxLives = 2
    HalfSpace = 8
    ResyncGap = 2
PROPERTIES EventuallyUp DivergenceHeals DeadHostReleased
CHECK_DEADLOCK FALSE
