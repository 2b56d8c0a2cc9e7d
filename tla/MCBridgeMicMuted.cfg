\* One host streams its microphone and re-handshakes.
SPECIFICATION Spec
CONSTANTS
    a = a
    b = b
    c = c
    stereo = stereo
    mono = mono
    NoSession = NoSession
    VmAddr = "vm"
    AddrOf <- Addresses
    Host = {a}
    FormatOf <- OneFormat
    Supported = {stereo, mono}
    Trusted = {a}
    SpawnFails = {"render"}
    NetCap = 2
    MaxMic = 2
    CaptureQueue = 0
    MaxSpeaker = 0
    MaxLives = 1
    HalfSpace = 8
    ResyncGap = 2
PROPERTY MicLateMeansPlayed
CHECK_DEADLOCK FALSE
