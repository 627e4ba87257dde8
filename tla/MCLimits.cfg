SPECIFICATION Spec

CONSTANTS
    t1 = t1
    b1 = b1
    b2 = b2
    b3 = b3
    b4 = b4
    NUM_BUFFER_SLOTS = 4
    Thread = {t1}
    Buffer = {b1, b2, b3, b4}
    NullBuffer = NullBuffer
    Api = {"EGL"}
    UnknownApi = UnknownApi
    MAX_REASONABLE_NSEC = 1
    Time = {0}
    AutoTimestamp = {FALSE}
    ControlledByApp = {FALSE}
    MaxFrames = 1
    MaxShared = 2
    AllocMayFail = FALSE
    Ops = {
        "connect", "dequeueBuffer", "requestBuffer", "queueBuffer",
        "acquireBuffer", "releaseBuffer", "setMaxDequeuedBufferCount",
        "setMaxAcquiredBufferCount", "setAsyncMode", "setDequeueTimeout",
        "attachBuffer", "consumerAttachBuffer"}

SYMMETRY Symmetry
INVARIANT TypeOK
INVARIANT AllocatedSlotCount
INVARIANT AcquiredWithinLimit
