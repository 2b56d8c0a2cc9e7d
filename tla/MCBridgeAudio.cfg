\* One host streams both ways, loses the link, and comes back.
SPECIFICATION AudioSpec
CONSTANTS
    a = a
    b = b
    c = c
    stereo = stereo
    mono = mono
    NoSession = NoSession
    VmAddr = "vm"
    AddrOf <- Addresses
    Host = {a}
    FormatOf <- OneFormat
    Supported = {stereo, mono}
    Trusted = {a}
    SpawnFails = {"render"}
    NetCap = 2
    MaxMic = 2
    CaptureQueue = 1
    MaxSpeaker = 2
    MaxLives = 2
    HalfSpace = 8
    ResyncGap = 2
INVARIANT TypeOK
PROPERTIES OnceBetweenResets SpeakerLateMeansPlayed
CHECK_DEADLOCK FALSE
