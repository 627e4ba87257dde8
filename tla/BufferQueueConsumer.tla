------------------------ MODULE BufferQueueConsumer ------------------------
(***************************************************************************)
(* The calls of IGraphicBufferConsumer, libs/gui/BufferQueueConsumer.cpp.  *)
(* The consumer's calls are made one after the other.                      *)
(***************************************************************************)
EXTENDS BufferQueueCore

-----------------------------------------------------------------------------
(* acquireBuffer                                                           *)

sharedBufferAvailable ==
    mSharedBufferMode /\ mAutoRefresh /\ mSharedBufferSlot # INVALID_BUFFER_SLOT

\* Faulty variant: two buffers over the maximum.
MayAcquireTwoMore == acquiredCount <= mMaxAcquiredBufferCount + 1

\* The consumer may go one over its maximum, to set up the new buffer before
\* it releases the old one.
MayAcquire == acquiredCount < mMaxAcquiredBufferCount + 1

\* Takes the item at the front of mQueue and returns NO_ERROR.
AcquireFront ==
    LET front == Head(mQueue)
        slot == mSlots[front.mSlot]
    IN
    /\ slot.mBufferState.mAcquireCount < MaxShared
    /\ mSlots' = IF front.mIsStale
                    THEN mSlots
                    ELSE [mSlots EXCEPT ![front.mSlot] =
                            [slot EXCEPT !.mAcquireCalled = TRUE,
                                         !.mBufferState = acquire(slot.mBufferState)]]
    /\ mQueue' = Tail(mQueue)
    /\ pc' = Woken(pc)
    /\ cpc' = "idle"
    /\ acquireArgs' = [expectedPresent |-> 0, maxFrameNumber |-> 0]
    /\ UNCHANGED <<listVars, mLastQueuedSlot, mFrameCounter,
                   mBufferHasBeenQueued, connectionVars, limitVars, sharedVars,
                   mIsAllocating, localVars, ticketVars>>

\* With expectedPresent = 0 the front of the queue is taken at once.
acquireBuffer ==
    /\ MutexFree /\ cpc = "idle"
    /\ MayAcquire
    /\ mQueue # <<>>
    /\ AcquireFront

\* With an expectedPresent the drop loop is entered, mMutex stays locked.
acquireBufferTimed(expectedPresent, maxFrameNumber) ==
    /\ MutexFree /\ cpc = "idle"
    /\ MayAcquire
    /\ mQueue # <<>>
    /\ expectedPresent # 0
    /\ cpc' = "dropping"
    /\ acquireArgs' = [expectedPresent |-> expectedPresent,
                       maxFrameNumber |-> maxFrameNumber]
    /\ UNCHANGED <<slotVars, queueVars, connectionVars, limitVars, sharedVars,
                   mIsAllocating, pc, localVars, ticketVars>>

\* Faulty variant: without the break for an entry[1] that is not due yet.
DropsFrontForFuture ==
    /\ Len(mQueue) > 1 /\ ~mQueue[1].mIsAutoTimestamp
    /\ \/ acquireArgs.maxFrameNumber = 0
       \/ mQueue[2].mFrameNumber <= acquireArgs.maxFrameNumber
    /\ mQueue[2].mTimestamp >= acquireArgs.expectedPresent - MAX_REASONABLE_NSEC

\* The condition of the loop, with its two breaks: entry[1] is timely.
DropsFront ==
    /\ Len(mQueue) > 1 /\ ~mQueue[1].mIsAutoTimestamp
    /\ \/ acquireArgs.maxFrameNumber = 0
       \/ mQueue[2].mFrameNumber <= acquireArgs.maxFrameNumber
    /\ mQueue[2].mTimestamp >= acquireArgs.expectedPresent - MAX_REASONABLE_NSEC
    /\ mQueue[2].mTimestamp <= acquireArgs.expectedPresent

\* Faulty variant: the slot keeps counting the item.
dropFrontKeepsCount ==
    /\ cpc = "dropping"
    /\ DropsFront
    /\ mQueue' = Tail(mQueue)
    /\ UNCHANGED <<slotVars, mFrameCounter, mBufferHasBeenQueued,
                   connectionVars, limitVars, sharedVars, mIsAllocating, pc,
                   localVars, ticketVars, consumerVars>>

dropFront ==
    /\ cpc = "dropping"
    /\ DropsFront
    /\ LET front == Head(mQueue) IN
       IF front.mIsStale
          THEN UNCHANGED <<mSlots, mActiveBuffers, mFreeBuffers>>
          ELSE ReturnToFreeBuffers(
                   [mSlots EXCEPT ![front.mSlot].mBufferState = freeQueued(@)],
                   front.mSlot)
    /\ mQueue' = Tail(mQueue)
    /\ UNCHANGED <<mFreeSlots, mUnusedSlots, mLastQueuedSlot, mFrameCounter,
                   mBufferHasBeenQueued, connectionVars, limitVars, sharedVars,
                   mIsAllocating, pc, localVars, ticketVars, consumerVars>>

bufferIsDue ==
    LET desiredPresent == Head(mQueue).mTimestamp IN
    \/ desiredPresent <= acquireArgs.expectedPresent
    \/ desiredPresent > acquireArgs.expectedPresent + MAX_REASONABLE_NSEC

consumerIsReady ==
    acquireArgs.maxFrameNumber > 0 =>
        Head(mQueue).mFrameNumber <= acquireArgs.maxFrameNumber

acquireAfterDropping ==
    /\ cpc = "dropping" /\ ~DropsFront
    /\ bufferIsDue /\ consumerIsReady
    /\ AcquireFront

\* PRESENT_LATER: what was dropped stays dropped, and no producer is woken.
presentLater ==
    /\ cpc = "dropping" /\ ~DropsFront
    /\ ~(bufferIsDue /\ consumerIsReady)
    /\ cpc' = "idle"
    /\ acquireArgs' = [expectedPresent |-> 0, maxFrameNumber |-> 0]
    /\ UNCHANGED <<slotVars, queueVars, connectionVars, limitVars, sharedVars,
                   mIsAllocating, pc, localVars, ticketVars>>

-----------------------------------------------------------------------------
(* acquireBuffer of the shared buffer, when the queue is empty             *)

acquireSharedBufferBlocks ==
    /\ MutexFree /\ cpc = "idle"
    /\ MayAcquire
    /\ mQueue = <<>> /\ sharedBufferAvailable
    /\ mIsAllocating
    /\ cpc' = "sharedWait"
    /\ UNCHANGED <<slotVars, queueVars, connectionVars, limitVars, sharedVars,
                   mIsAllocating, pc, localVars, ticketVars, acquireArgs>>

\* After waitWhileAllocatingLocked the code reads mSharedBufferSlot and mQueue
\* again, but keeps the iterator "front" of the queue that was empty before:
\* erasing it from a queue that has grown removes the first item or nothing.
acquireSharedBuffer ==
    /\ MutexFree /\ ~mIsAllocating
    /\ \/ cpc = "idle" /\ MayAcquire /\ mQueue = <<>> /\ sharedBufferAvailable
       \/ cpc = "sharedWait"
    /\ mSharedBufferSlot # INVALID_BUFFER_SLOT
    /\ LET slot == mSlots[mSharedBufferSlot]
           state == slot.mBufferState
       IN /\ state.mAcquireCount < MaxShared
          /\ mSlots' = [mSlots EXCEPT ![mSharedBufferSlot] =
                [slot EXCEPT !.mAcquireCalled = TRUE,
                             !.mBufferState = IF mQueue = <<>>
                                                 THEN acquireNotInQueue(state)
                                                 ELSE acquire(state)]]
    /\ \/ UNCHANGED mQueue
       \/ mQueue # <<>> /\ mQueue' = Tail(mQueue)
    /\ pc' = Woken(pc)
    /\ cpc' = "idle"
    /\ UNCHANGED <<listVars, mLastQueuedSlot, mFrameCounter,
                   mBufferHasBeenQueued, connectionVars, limitVars, sharedVars,
                   mIsAllocating, localVars, ticketVars, acquireArgs>>

\* mSlots[-1], when the shared slot was given up during the wait.
acquireSharedOutOfRange ==
    /\ MutexFree /\ ~mIsAllocating
    /\ cpc = "sharedWait"
    /\ mSharedBufferSlot = INVALID_BUFFER_SLOT
    /\ cpc' = "crash"
    /\ UNCHANGED <<slotVars, queueVars, connectionVars, limitVars, sharedVars,
                   mIsAllocating, pc, localVars, ticketVars, acquireArgs>>

-----------------------------------------------------------------------------
(* Releasing, detaching and attaching                                      *)

releaseBuffer(s, frameNumber) ==
    /\ MutexFree /\ cpc = "idle"
    /\ frameNumber = mSlots[s].mFrameNumber \/ isShared(mSlots[s].mBufferState)
    /\ isAcquired(mSlots[s].mBufferState)
    /\ ReturnToFreeBuffers([mSlots EXCEPT ![s].mBufferState = release(@)], s)
    /\ pc' = Woken(pc)
    /\ UNCHANGED <<mFreeSlots, mUnusedSlots, mLastQueuedSlot, queueVars,
                   connectionVars, limitVars, sharedVars, mIsAllocating,
                   localVars, ticketVars, consumerVars>>

consumerDetachBuffer(s) ==
    /\ MutexFree /\ cpc = "idle"
    /\ ~mIsAbandoned
    /\ ~mSharedBufferMode /\ mSharedBufferSlot # s
    /\ isAcquired(mSlots[s].mBufferState)
    /\ mActiveBuffers' = mActiveBuffers \ {s}
    /\ mFreeSlots' = mFreeSlots \cup {s}
    /\ clearBufferSlotLocked({s})
    /\ pc' = Woken(pc)
    /\ UNCHANGED <<mFreeBuffers, mUnusedSlots, queueVars, connectionVars,
                   limitVars, sharedVars, mIsAllocating, localVars, ticketVars,
                   consumerVars>>

\* There is no check of mIsAbandoned here.
consumerAttachBuffer(s, b) ==
    /\ MutexFree /\ cpc = "idle"
    /\ ~mSharedBufferMode
    /\ MayAcquire
    /\ \/ /\ s \in LowestOf(mFreeSlots)
          /\ mFreeSlots' = mFreeSlots \ {s}
          /\ UNCHANGED mFreeBuffers
       \/ /\ mFreeSlots = {} /\ mFreeBuffers # <<>>
          /\ s = Head(mFreeBuffers)
          /\ mFreeBuffers' = Tail(mFreeBuffers)
          /\ UNCHANGED mFreeSlots
    /\ mActiveBuffers' = mActiveBuffers \cup {s}
    /\ mSlots' = [mSlots EXCEPT ![s] =
          [mSlots[s] EXCEPT
              !.mGraphicBuffer = b,
              !.mBufferState = acquireNotInQueue(mSlots[s].mBufferState),
              !.mNeedsReallocation = TRUE,
              !.mFrameNumber = 0,
              !.mAcquireCalled = FALSE]]
    /\ UNCHANGED <<mUnusedSlots, mLastQueuedSlot, queueVars, connectionVars,
                   limitVars, sharedVars, mIsAllocating, pc, localVars,
                   ticketVars, consumerVars>>

discardFreeBuffers ==
    /\ MutexFree /\ cpc = "idle"
    /\ discardFreeBuffersLocked
    /\ UNCHANGED <<queueVars, connectionVars, limitVars, sharedVars,
                   mIsAllocating, pc, localVars, ticketVars, consumerVars>>

-----------------------------------------------------------------------------
(* connect, disconnect and the limits                                      *)

consumerConnect(controlledByApp) ==
    /\ MutexFree /\ cpc = "idle"
    /\ ~mIsAbandoned
    /\ mConsumerListener' = TRUE
    /\ mConsumerControlledByApp' = controlledByApp
    /\ UNCHANGED <<slotVars, queueVars, mIsAbandoned, mConnectedApi, limitVars,
                   sharedVars, mIsAllocating, pc, localVars, ticketVars,
                   consumerVars>>

\* disconnect() does not wait for an allocation in progress.
consumerDisconnect ==
    /\ MutexFree /\ cpc = "idle"
    /\ mConsumerListener
    /\ mIsAbandoned' = TRUE
    /\ mConsumerListener' = FALSE
    /\ mQueue' = <<>>
    /\ freeAllBuffersLocked
    /\ mSharedBufferSlot' = INVALID_BUFFER_SLOT
    /\ pc' = Woken(pc)
    /\ UNCHANGED <<mFrameCounter, mBufferHasBeenQueued,
                   mConsumerControlledByApp, mConnectedApi, limitVars,
                   mSharedBufferMode, mAutoRefresh, mIsAllocating, localVars,
                   ticketVars, consumerVars>>

\* Only while no producer is connected.  There is no check of mIsAbandoned.
setMaxBufferCount(bufferCount) ==
    /\ MutexFree /\ cpc = "idle"
    /\ bufferCount \in 1 .. NUM_BUFFER_SLOTS
    /\ mConnectedApi = NO_CONNECTED_API
    /\ bufferCount >= mMaxAcquiredBufferCount
    /\ adjustAvailableSlotsLocked(
           getMaxBufferCount(mAsyncMode, mDequeueBufferCannotBlock, bufferCount)
               - getMaxBufferCountLocked)
    /\ mMaxBufferCount' = bufferCount
    /\ UNCHANGED <<queueVars, connectionVars, mMaxAcquiredBufferCount,
                   mMaxDequeuedBufferCount, mAsyncMode,
                   mDequeueBufferCannotBlock, mDequeueTimeout,
                   mAllowAllocation, sharedVars, mIsAllocating, pc, localVars,
                   ticketVars, consumerVars>>

\* Faulty variant: without the check against MAX_MAX_ACQUIRED_BUFFERS.
setMaxAcquiredUnchecked(n) ==
    /\ MutexFree /\ cpc = "idle" /\ ~mIsAllocating
    /\ n >= 1 /\ ~mIsAbandoned
    /\ n # mMaxAcquiredBufferCount
    /\ acquiredCount <= n
    /\ n + mMaxDequeuedBufferCount
           + ExtraBuffer(mAsyncMode, mDequeueBufferCannotBlock) <= mMaxBufferCount
    /\ adjustAvailableSlotsLocked(n - mMaxAcquiredBufferCount)
    /\ mMaxAcquiredBufferCount' = n
    /\ UNCHANGED <<queueVars, connectionVars, mMaxDequeuedBufferCount,
                   mMaxBufferCount, mAsyncMode, mDequeueBufferCannotBlock,
                   mDequeueTimeout, mAllowAllocation, sharedVars,
                   mIsAllocating, pc, localVars, ticketVars, consumerVars>>

\* No broadcast of mDequeueCondition here.
setMaxAcquiredBufferCount(n) ==
    /\ MutexFree /\ cpc = "idle" /\ ~mIsAllocating
    /\ n \in 1 .. MAX_MAX_ACQUIRED_BUFFERS
    /\ ~mIsAbandoned
    /\ n # mMaxAcquiredBufferCount
    /\ acquiredCount <= n
    /\ n + mMaxDequeuedBufferCount
           + ExtraBuffer(mAsyncMode, mDequeueBufferCannotBlock) <= mMaxBufferCount
    /\ adjustAvailableSlotsLocked(n - mMaxAcquiredBufferCount)
    /\ mMaxAcquiredBufferCount' = n
    /\ UNCHANGED <<queueVars, connectionVars, mMaxDequeuedBufferCount,
                   mMaxBufferCount, mAsyncMode, mDequeueBufferCannotBlock,
                   mDequeueTimeout, mAllowAllocation, sharedVars,
                   mIsAllocating, pc, localVars, ticketVars, consumerVars>>
=============================================================================
