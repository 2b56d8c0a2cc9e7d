\* Hosts at two addresses, restarted on their old ports in another format, with
\* a format the VM cannot handle and without the token, compete for a VM agent
\* that restarts too. No audio.
SPECIFICATION Spec
CONSTANTS
    a = a
    b = b
    c = c
    d = d
    e = e
    stereo = stereo
    mono = mono
    odd = odd
    NoSession = NoSession
    VmAddr = "vm"
    AddrOf <- Addresses
    Host = {a, b, c, d, e}
    FormatOf <- Asked
    Supported = {stereo, mono}
    Trusted = {a, b, c, e}
    SpawnFails = {"render"}
    NetCap = 2
    MaxMic = 0
    CaptureQueue = 0
    MaxSpeaker = 0
    MaxLives = 2
    HalfSpace = 8
    ResyncGap = 2
INVARIANTS ThreadsMatchSession AdmittedOnly
PROPERTIES LiveSessionKept SessionIsLease
CHECK_DEADLOCK FALSE
