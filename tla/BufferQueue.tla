---------------------------- MODULE BufferQueue ----------------------------
(***************************************************************************)
(* One BufferQueue between the threads of a producer and a consumer: the   *)
(* calls of BufferQueueProducer and BufferQueueConsumer in any order the   *)
(* locks allow.  Ops is the set of calls the clients make in a model; the  *)
(* theorems hold for every Ops unless they say otherwise.                  *)
(***************************************************************************)
EXTENDS BufferQueueProducer, BufferQueueConsumer

CONSTANTS
    Ops,             \* names of the calls that the clients make
    AutoTimestamp,   \* values of isAutoTimestamp that queueBuffer is given
    ControlledByApp, \* values of the controlledByApp argument of connect
    AllocMayFail     \* TRUE: the allocator may run out of memory

ASSUME OpsAssumption ==
    /\ AutoTimestamp \subseteq BOOLEAN /\ ControlledByApp \subseteq BOOLEAN
    /\ AllocMayFail \in BOOLEAN

-----------------------------------------------------------------------------
(* A new GraphicBuffer is none of those that the queue still refers to.    *)

LiveBuffers == {mSlots[s].mGraphicBuffer : s \in Slot}
               \cup {mQueue[i].mGraphicBuffer : i \in DOMAIN mQueue}

FreshBuffers == Buffer \ LiveBuffers

AllocatorResults ==
    FreshBuffers \cup (IF AllocMayFail THEN {NullBuffer} ELSE {})

\* The clients name a slot only after a call has returned it, so none whose
\* buffer is still being allocated, unless "anySlot" is among Ops.
Named(s) == "anySlot" \in Ops \/ mSlots[s].mGraphicBuffer # NullBuffer

-----------------------------------------------------------------------------
(* The steps of producer thread t.                                         *)

Dequeueing(t) ==
    \/ "dequeueBuffer" \in Ops /\ dequeueBuffer(t)
    \/ dequeueWaitsOrGivesUp(t)
    \/ dequeueDereferencesNull(t)
    \/ \E s \in Slot :
          dequeueTakesSlot(t, s, mSlots[s].mGraphicBuffer = NullBuffer)
    \/ /\ "needsReallocation" \in Ops
       /\ \E s \in Slot :
             \/ dequeueRejectsBuffer(t, s)
             \/ dequeueTakesSlot(t, s, TRUE)
    \/ \E b \in AllocatorResults : dequeueAllocated(t, b)
    \/ waitTimesOut(t)

Preallocating(t) ==
    /\ pc[t] = "idle" => "allocateBuffers" \in Ops
    /\ \/ allocateBuffers(t)
       \/ \E b \in AllocatorResults, retry \in BOOLEAN :
             allocateBuffersAllocated(t, b, retry)

Attaching(t) ==
    /\ pc[t] = "idle" => "attachBuffer" \in Ops
    /\ \/ attachBufferBlocks(t)
       \/ attachWaitsOrGivesUp(t)
       \/ \E s \in Slot, b \in FreshBuffers : attachBuffer(t, s, b)

DetachingNext(t) ==
    /\ pc[t] = "idle" => "detachNextBuffer" \in Ops
    /\ detachNextBufferBlocks(t) \/ detachNextBuffer(t)

Queueing(t) ==
    \/ /\ "queueBuffer" \in Ops
       /\ \E s \in Slot :
             /\ Named(s)
             /\ \/ \E timestamp \in Time, isAuto \in AutoTimestamp :
                      queueBuffer(t, s, timestamp, isAuto)
                \/ queueBufferDereferencesNull(t, s)
    \/ queueBufferCallback(t)

ThreadStep(t) ==
    \/ Dequeueing(t) \/ Preallocating(t) \/ Attaching(t) \/ DetachingNext(t)
    \/ Queueing(t)

\* The producer's calls that are a single critical section.
ProducerCall ==
    \/ \E s \in Slot :
          /\ Named(s)
          /\ \/ "requestBuffer" \in Ops /\ requestBuffer(s)
             \/ "detachBuffer" \in Ops /\ detachBuffer(s)
             \/ "cancelBuffer" \in Ops /\ cancelBuffer(s)
             \/ "queueBufferRejectsCrop" \in Ops /\ queueBufferRejectsCrop(s)
    \/ /\ "setMaxDequeuedBufferCount" \in Ops
       /\ \E n \in 1 .. NUM_BUFFER_SLOTS : setMaxDequeuedBufferCount(n)
    \/ "setAsyncMode" \in Ops /\ setAsyncMode(~mAsyncMode)
    \/ "setDequeueTimeout" \in Ops /\ \E timed \in BOOLEAN : setDequeueTimeout(timed)
    \/ "allowAllocation" \in Ops /\ allowAllocation(~mAllowAllocation)
    \/ "setSharedBufferMode" \in Ops /\ ~mSharedBufferMode /\ setSharedBufferMode(TRUE)
    \/ "leaveSharedBufferMode" \in Ops /\ mSharedBufferMode /\ setSharedBufferMode(FALSE)
    \/ "setAutoRefresh" \in Ops /\ setAutoRefresh(~mAutoRefresh)
    \/ /\ "connect" \in Ops
       /\ \E api \in Api \cup {UnknownApi}, byApp \in ControlledByApp :
             connect(api, byApp)
    \/ "disconnect" \in Ops /\ disconnect

ConsumerCall ==
    \/ "acquireBuffer" \in Ops /\ acquireBuffer
    \/ /\ "acquireBufferTimed" \in Ops
       /\ \E expectedPresent \in Time, maxFrameNumber \in 0 .. MaxFrames :
             acquireBufferTimed(expectedPresent, maxFrameNumber)
    \/ dropFront \/ acquireAfterDropping \/ presentLater
    \/ /\ "acquireBuffer" \in Ops
       /\ acquireSharedBufferBlocks \/ acquireSharedBuffer
    \/ acquireSharedOutOfRange
    \/ /\ "releaseBuffer" \in Ops
       /\ \E s \in Slot, frameNumber \in 0 .. MaxFrames : releaseBuffer(s, frameNumber)
    \/ "consumerDetachBuffer" \in Ops /\ \E s \in Slot : consumerDetachBuffer(s)
    \/ /\ "consumerAttachBuffer" \in Ops
       /\ \E s \in Slot, b \in FreshBuffers : consumerAttachBuffer(s, b)
    \/ "discardFreeBuffers" \in Ops /\ discardFreeBuffers
    \/ \E byApp \in ControlledByApp : consumerConnect(byApp)
    \/ "consumerDisconnect" \in Ops /\ consumerDisconnect
    \/ /\ "setMaxBufferCount" \in Ops
       /\ \E n \in 1 .. NUM_BUFFER_SLOTS : setMaxBufferCount(n)
    \/ /\ "setMaxAcquiredBufferCount" \in Ops
       /\ \E n \in 1 .. NUM_BUFFER_SLOTS : setMaxAcquiredBufferCount(n)

Next ==
    \/ \E t \in Thread : ThreadStep(t)
    \/ "spuriousWakeup" \in Ops /\ \E t \in Thread : spuriousWakeup(t)
    \/ ProducerCall
    \/ ConsumerCall

Spec == Init /\ [][Next]_vars

\* A thread that is in a call goes on with it; mMutex is held for short times
\* only.  The consumer acquires what is queued, and gives one buffer back when
\* it holds more than its maximum; it may keep the maximum for ever.
CallGoesOn(t) == pc[t] # "idle" /\ ThreadStep(t)

ReleaseExtraBuffer ==
    /\ acquiredCount > mMaxAcquiredBufferCount
    /\ \E s \in Slot, frameNumber \in 0 .. MaxFrames : releaseBuffer(s, frameNumber)

FairSpec ==
    /\ Spec
    /\ \A t \in Thread : WF_vars(CallGoesOn(t))
    /\ WF_vars(acquireBuffer)
    /\ WF_vars(ReleaseExtraBuffer)

-----------------------------------------------------------------------------
(* Safety                                                                  *)

FreeBufferSet == ToSet(mFreeBuffers)

\* Every slot is in exactly one of mUnusedSlots, mFreeSlots, mFreeBuffers and
\* mActiveBuffers, and mFreeBuffers names no slot twice, whatever order the
\* producer's and the consumer's calls come in (the first half of
\* BufferQueueCore::validateConsistencyLocked).
SlotPartition ==
    ~mIsAbandoned =>
        /\ IsInjective(mFreeBuffers)
        /\ mUnusedSlots \cup mFreeSlots \cup FreeBufferSet \cup mActiveBuffers = Slot
        /\ mUnusedSlots \cap mFreeSlots = {}
        /\ mUnusedSlots \cap FreeBufferSet = {}
        /\ mUnusedSlots \cap mActiveBuffers = {}
        /\ mFreeSlots \cap FreeBufferSet = {}
        /\ mFreeSlots \cap mActiveBuffers = {}
        /\ FreeBufferSet \cap mActiveBuffers = {}

\* The list a slot is in agrees with its state (the second half of
\* validateConsistencyLocked): what the free lists offer is free and has the
\* buffer it should have, what is active has an owner, and has a buffer unless
\* a dequeueBuffer is still allocating it.
ListsMatchStates ==
    ~mIsAbandoned =>
        /\ \A s \in mUnusedSlots \cup mFreeSlots : isFree(mSlots[s].mBufferState)
        /\ \A s \in FreeBufferSet :
              isFree(mSlots[s].mBufferState) /\ mSlots[s].mGraphicBuffer # NullBuffer
        /\ \A s \in mActiveBuffers :
              /\ ~isFree(mSlots[s].mBufferState) \/ isShared(mSlots[s].mBufferState)
              /\ \/ mSlots[s].mGraphicBuffer # NullBuffer
                 \/ \E t \in Thread : pc[t] = "alloc" /\ outSlot[t] = s

\* A slot in mUnusedSlots or mFreeSlots holds no buffer: the memory of a buffer
\* that was given up has been given back.
FreeSlotsAreEmpty ==
    ~mIsAbandoned =>
        \A s \in mUnusedSlots \cup mFreeSlots : mSlots[s].mGraphicBuffer = NullBuffer

\* The table in BufferSlot.h: a slot that is not shared has one owner.
OneOwner ==
    \A s \in Slot : LET b == mSlots[s].mBufferState IN
        ~b.mShared => b.mDequeueCount + b.mQueueCount + b.mAcquireCount <= 1

\* What validateConsistencyLocked asserts of lists and states, and the table of
\* BufferSlot.h, hold whenever mMutex is free: no interleaving of attaching,
\* detaching, reallocating, disconnecting and sharing leaves a slot in two
\* lists, with a state its list denies, or with two owners.
SlotsConsistent == SlotPartition /\ ListsMatchStates /\ FreeSlotsAreEmpty /\ OneOwner

\* As many slots are in play as the limits promise (the end of
\* validateConsistencyLocked), after any sequence of setMaxDequeuedBufferCount,
\* setMaxAcquiredBufferCount, setAsyncMode and setDequeueTimeout: each passes on
\* the difference it makes, and a difference for which no slot is free is
\* refused as a whole.  Not so after setMaxBufferCount, or after a connection
\* that must not block, has clipped the sum of the limits.
AllocatedSlotCount ==
    ~mIsAbandoned => Cardinality(Slot \ mUnusedSlots) = getMaxBufferCountLocked

\* The items of mQueue that are not stale are exactly the queued buffers: a slot
\* counts one queueBuffer for each of them, and unless it is shared it has the
\* frame number that the consumer's release of the item will name.
QueueMatchesSlots ==
    LET items(s) == {i \in DOMAIN mQueue : mQueue[i].mSlot = s /\ ~mQueue[i].mIsStale}
    IN \A s \in Slot :
        /\ mSlots[s].mBufferState.mQueueCount = Cardinality(items(s))
        /\ mSlots[s].mBufferState.mShared
              \/ \A i \in items(s) : mQueue[i].mFrameNumber = mSlots[s].mFrameNumber

\* The buffer an item of mQueue shows is the one in its slot.
QueuedBufferInSlot ==
    \A i \in DOMAIN mQueue :
        ~mQueue[i].mIsStale =>
            mQueue[i].mGraphicBuffer = mSlots[mQueue[i].mSlot].mGraphicBuffer

\* Queue and slots tell the same story: whoever acquires, drops, replaces or
\* releases the frame of an item that is not stale finds its slot, buffer and
\* frame number as queueBuffer left them, also after disconnections and across
\* the waits inside dequeueBuffer (queueBuffer, acquireBuffer,
\* freeAllBuffersLocked).
QueueConsistent == QueueMatchesSlots /\ QueuedBufferInSlot

\* Frame numbers in mQueue increase: no replacement, drop, disconnection or
\* mode change makes the consumer see frames out of order.
FramesInOrder ==
    /\ \A i, j \in DOMAIN mQueue :
          i < j => mQueue[i].mFrameNumber < mQueue[j].mFrameNumber
    /\ \A i \in DOMAIN mQueue : mQueue[i].mFrameNumber <= mFrameCounter

\* The consumer never holds more than one buffer over its maximum.
AcquiredWithinLimit == acquiredCount <= mMaxAcquiredBufferCount + 1

\* A thread asleep on mDequeueCondition could not have gone on: no change that
\* makes a slot available, or makes the call fail, goes unannounced.
NoMissedWakeup ==
    MutexFree => \A t \in Thread :
        /\ pc[t] \in {"dequeueWait", "dequeueTimedWait"} => MustWait("dequeue")
        /\ pc[t] \in {"attachWait", "attachTimedWait"} => MustWait("attach")

\* The threads in queueBuffer's callback hold the tickets from
\* mCurrentCallbackTicket up to mNextCallbackTicket, each one once, in the
\* order of their frames: onFrameAvailable is called in frame order.
CallbacksInOrder ==
    LET inCallback == {t \in Thread : pc[t] = "callback"} IN
    /\ \A n \in mCurrentCallbackTicket .. mNextCallbackTicket - 1 :
          \E t \in inCallback : callbackTicket[t] = n
    /\ \A t \in inCallback : callbackTicket[t] \in
          mCurrentCallbackTicket .. mNextCallbackTicket - 1
    /\ \A t, u \in inCallback : t # u =>
          /\ callbackTicket[t] # callbackTicket[u]
          /\ callbackTicket[t] < callbackTicket[u]
                <=> currentFrameNumber[t] < currentFrameNumber[u]

\* The comment in dequeueBuffer: "If we are not allowed to allocate new buffers,
\* waitForFreeSlotThenRelock must have returned a slot containing a buffer",
\* before the code dereferences it.  Not so in shared buffer mode with two
\* threads: the shared slot may be one whose buffer the other still allocates.
FoundSlotHasBuffer ==
    ~mAllowAllocation =>
        \A t \in Thread, s \in Slot :
            InDequeueLoop(t) /\ Finds("dequeue", s) =>
                mSlots[s].mGraphicBuffer # NullBuffer

\* While the consumer holds a buffer that is not shared, no step of a producer
\* thread changes the buffer in the slot or the frame number that its
\* releaseBuffer must name: only a release, a detach or a disconnection ends
\* the ownership.
ConsumerOwnsAcquired ==
    [][\A s \in Slot :
        /\ isAcquired(mSlots[s].mBufferState) /\ ~mSlots[s].mBufferState.mShared
        /\ isAcquired(mSlots[s].mBufferState)'
        => /\ mSlots'[s].mGraphicBuffer = mSlots[s].mGraphicBuffer
           /\ mSlots'[s].mFrameNumber = mSlots[s].mFrameNumber
           /\ ~isDequeued(mSlots'[s].mBufferState)]_vars

-----------------------------------------------------------------------------
(* Liveness                                                                *)

InDequeue(t) == pc[t] \in {"dequeue", "dequeueAgain", "dequeueWait",
                           "dequeueTimedWait", "alloc"}

\* dequeueBuffer returns although the consumer never lets go of the buffers it
\* is entitled to, unless the producer holds all the buffers it is entitled
\* to: mMaxAcquiredBufferCount + mMaxDequeuedBufferCount buffers are enough.
DequeueReturns ==
    \A t \in Thread :
        InDequeue(t) ~> \/ ~InDequeue(t)
                       \/ dequeuedCount >= mMaxDequeuedBufferCount

\* Every queueBuffer gets its turn to call the listener and returns.
QueueReturns ==
    \A t \in Thread : pc[t] = "callback" ~> pc[t] # "callback"

-----------------------------------------------------------------------------
(* Refinement                                                              *)

PendingFrames ==
    [i \in DOMAIN mQueue |-> [number |-> mQueue[i].mFrameNumber,
                              droppable |-> mQueue[i].mIsDroppable]]

Stream == INSTANCE FrameStream WITH pending <- PendingFrames,
                                    issued <- mFrameCounter

\* Every step of the BufferQueue is a step of FrameStream on mQueue, or leaves
\* the stream of frames alone: no interleaving of calls loses, duplicates or
\* reorders a frame beyond what FrameStream allows.
ImplementsFrameStream == Stream!StreamSpec
=============================================================================
