SPECIFICATION Spec

CONSTANTS
    t1 = t1
    b1 = b1
    b2 = b2
    b3 = b3
    NUM_BUFFER_SLOTS = 3
    Thread = {t1}
    Buffer = {b1, b2, b3}
    NullBuffer = NullBuffer
    Api = {"EGL"}
    UnknownApi = UnknownApi
    MAX_REASONABLE_NSEC = 1
    Time = {0}
    AutoTimestamp = {FALSE}
    ControlledByApp = {FALSE}
    MaxFrames = 2
    MaxShared = 2
    AllocMayFail = FALSE
    Ops = {
        "connect", "dequeueBuffer", "requestBuffer", "queueBuffer",
        "acquireBuffer", "releaseBuffer", "disconnect", "consumerDisconnect",
        "setSharedBufferMode", "leaveSharedBufferMode", "setAsyncMode",
        "setMaxBufferCount", "allowAllocation"}

SYMMETRY Symmetry
INVARIANT SlotsConsistent
INVARIANT QueueConsistent
INVARIANT FramesInOrder
CHECK_DEADLOCK FALSE
