\* A host restarts in another format while the VM has PCM queued.
SPECIFICATION Spec
CONSTANTS
    a = a
    b = b
    c = c
    stereo = stereo
    mono = mono
    NoSession = NoSession
    VmAddr = "vm"
    AddrOf <- Addresses
    Host = {a, c}
    FormatOf <- NewFormat
    Supported = {stereo, mono}
    Trusted = {a, c}
    SpawnFails = {"render"}
    NetCap = 2
    MaxMic = 0
    CaptureQueue = 1
    MaxSpeaker = 1
    MaxLives = 1
    HalfSpace = 8
    ResyncGap = 2
INVARIANT SpeakerInFormat
CHECK_DEADLOCK FALSE
