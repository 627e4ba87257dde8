SPECIFICATION Spec

CONSTANTS
    t1 = t1
    t2 = t2
    b1 = b1
    b2 = b2
    NUM_BUFFER_SLOTS = 3
    Thread = {t1, t2}
    Buffer = {b1, b2}
    NullBuffer = NullBuffer
    Api = {"EGL"}
    UnknownApi = UnknownApi
    MAX_REASONABLE_NSEC = 1
    Time = {0}
    AutoTimestamp = {FALSE}
    ControlledByApp = {FALSE}
    MaxFrames = 2
    MaxShared = 2
    AllocMayFail = FALSE
    Ops = {
        "connect", "dequeueBuffer", "requestBuffer", "queueBuffer",
        "acquireBuffer", "releaseBuffer", "setSharedBufferMode",
        "leaveSharedBufferMode", "setAutoRefresh", "queueBufferRejectsCrop",
        "anySlot"}

SYMMETRY Symmetry
PROPERTY ImplementsFrameStream
CHECK_DEADLOCK FALSE
