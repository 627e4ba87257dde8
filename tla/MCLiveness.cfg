SPECIFICATION FairSpec

CONSTANTS
    t1 = t1
    t2 = t2
    b1 = b1
    b2 = b2
    NUM_BUFFER_SLOTS = 3
    Thread = {t1, t2}
    Buffer = {b1, b2}
    NullBuffer = NullBuffer
    Api = {"EGL"}
    UnknownApi = UnknownApi
    MAX_REASONABLE_NSEC = 1
    Time = {0}
    AutoTimestamp = {FALSE}
    ControlledByApp = {TRUE, FALSE}
    MaxFrames = 2
    MaxShared = 2
    AllocMayFail = TRUE
    Ops = {
        "connect", "dequeueBuffer", "requestBuffer", "queueBuffer",
        "acquireBuffer", "releaseBuffer"}

PROPERTY DequeueReturns
PROPERTY QueueReturns
