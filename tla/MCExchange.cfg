SPECIFICATION Spec

CONSTANTS
    t1 = t1
    t2 = t2
    b1 = b1
    b2 = b2
    b3 = b3
    b4 = b4
    NUM_BUFFER_SLOTS = 3
    Thread = {t1, t2}
    Buffer = {b1, b2, b3, b4}
    NullBuffer = NullBuffer
    Api = {"EGL"}
    UnknownApi = UnknownApi
    MAX_REASONABLE_NSEC = 1
    Time = {0, 2, 3}
    AutoTimestamp = {TRUE, FALSE}
    ControlledByApp = {FALSE}
    MaxFrames = 2
    MaxShared = 2
    AllocMayFail = FALSE
    Ops = {
        "connect", "dequeueBuffer", "requestBuffer", "queueBuffer",
        "acquireBuffer", "releaseBuffer", "cancelBuffer", "needsReallocation",
        "attachBuffer", "detachBuffer", "detachNextBuffer",
        "consumerAttachBuffer", "consumerDetachBuffer", "discardFreeBuffers",
        "spuriousWakeup", "allocateBuffers", "acquireBufferTimed",
        "setDequeueTimeout"}

SYMMETRY Symmetry
INVARIANT SlotsConsistent
INVARIANT QueueConsistent
INVARIANT NoMissedWakeup
INVARIANT CallbacksInOrder
PROPERTY ConsumerOwnsAcquired
