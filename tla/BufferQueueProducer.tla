------------------------ MODULE BufferQueueProducer ------------------------
(***************************************************************************)
(* The calls of IGraphicBufferProducer, libs/gui/BufferQueueProducer.cpp.  *)
(* Thread t is the thread that runs the call; a call that is a single      *)
(* critical section does not name its thread.  Arguments that only decide  *)
(* between outcomes the caller cannot foresee (sizes, formats, generation  *)
(* numbers, results of the allocator) are Boolean or chosen freely.        *)
(***************************************************************************)
EXTENDS BufferQueueCore

Goto(t, where) == [pc EXCEPT ![t] = where]

Usable == ~mIsAbandoned /\ mConnectedApi # NO_CONNECTED_API

\* Faulty variant: no check that the producer is the owner.
OwnerNotChecked(s) == TRUE

\* The check that requestBuffer, detachBuffer, queueBuffer and cancelBuffer make
\* of the slot they are given.  It holds also while dequeueBuffer allocates.
OwnedByProducer(s) == isDequeued(mSlots[s].mBufferState)

requestBuffer(s) ==
    /\ MutexFree /\ Usable
    /\ OwnedByProducer(s)
    /\ mSlots' = [mSlots EXCEPT ![s].mRequestBufferCalled = TRUE]
    /\ UNCHANGED <<listVars, mLastQueuedSlot, queueVars, connectionVars,
                   limitVars, sharedVars, mIsAllocating, pc, localVars,
                   ticketVars, consumerVars>>

-----------------------------------------------------------------------------
(* Limits.  waitWhileAllocatingLocked comes first in these calls: they run  *)
(* when nothing is being allocated.                                        *)

setMaxDequeuedBufferCount(n) ==
    /\ MutexFree /\ ~mIsAllocating /\ ~mIsAbandoned
    /\ n # mMaxDequeuedBufferCount
    /\ dequeuedCount <= n
    /\ LET bufferCount == getMinUndequeuedBufferCountLocked + n IN
       /\ bufferCount <= NUM_BUFFER_SLOTS
       /\ bufferCount >= getMinMaxBufferCountLocked
       /\ bufferCount <= mMaxBufferCount
    /\ adjustAvailableSlotsLocked(n - mMaxDequeuedBufferCount)
    /\ mMaxDequeuedBufferCount' = n
    /\ pc' = Woken(pc)
    /\ UNCHANGED <<queueVars, connectionVars, mMaxAcquiredBufferCount,
                   mMaxBufferCount, mAsyncMode, mDequeueBufferCannotBlock,
                   mDequeueTimeout, mAllowAllocation, sharedVars,
                   mIsAllocating, localVars, ticketVars, consumerVars>>

setAsyncMode(async) ==
    /\ MutexFree /\ ~mIsAllocating /\ ~mIsAbandoned
    /\ async # mAsyncMode
    /\ mMaxAcquiredBufferCount + mMaxDequeuedBufferCount
           + ExtraBuffer(async, mDequeueBufferCannotBlock) <= mMaxBufferCount
    /\ adjustAvailableSlotsLocked(
           getMaxBufferCount(async, mDequeueBufferCannotBlock, mMaxBufferCount)
               - getMaxBufferCountLocked)
    /\ mAsyncMode' = async
    /\ pc' = Woken(pc)
    /\ UNCHANGED <<queueVars, connectionVars, mMaxAcquiredBufferCount,
                   mMaxDequeuedBufferCount, mMaxBufferCount,
                   mDequeueBufferCannotBlock, mDequeueTimeout,
                   mAllowAllocation, sharedVars, mIsAllocating, localVars,
                   ticketVars, consumerVars>>

\* timed: the new timeout is >= 0.  The threads that already sleep keep the
\* kind of wait they went to sleep with, and nobody wakes them.
setDequeueTimeout(timed) ==
    /\ MutexFree
    /\ adjustAvailableSlotsLocked(
           getMaxBufferCount(mAsyncMode, FALSE, mMaxBufferCount)
               - getMaxBufferCountLocked)
    /\ mDequeueTimeout' = timed
    /\ mDequeueBufferCannotBlock' = FALSE
    /\ UNCHANGED <<queueVars, connectionVars, mMaxAcquiredBufferCount,
                   mMaxDequeuedBufferCount, mMaxBufferCount, mAsyncMode,
                   mAllowAllocation, sharedVars, mIsAllocating, pc, localVars,
                   ticketVars, consumerVars>>

allowAllocation(allow) ==
    /\ MutexFree
    /\ mAllowAllocation' = allow
    /\ UNCHANGED <<slotVars, queueVars, connectionVars,
                   mMaxAcquiredBufferCount, mMaxDequeuedBufferCount,
                   mMaxBufferCount, mAsyncMode, mDequeueBufferCannotBlock,
                   mDequeueTimeout, sharedVars, mIsAllocating, pc, localVars,
                   ticketVars, consumerVars>>

setSharedBufferMode(shared) ==
    /\ MutexFree
    /\ mSharedBufferMode' = shared
    /\ mSharedBufferSlot' = IF shared THEN mSharedBufferSlot
                                      ELSE INVALID_BUFFER_SLOT
    /\ UNCHANGED <<slotVars, queueVars, connectionVars, limitVars,
                   mAutoRefresh, mIsAllocating, pc, localVars, ticketVars,
                   consumerVars>>

setAutoRefresh(autoRefresh) ==
    /\ MutexFree
    /\ mAutoRefresh' = autoRefresh
    /\ UNCHANGED <<slotVars, queueVars, connectionVars, limitVars,
                   mSharedBufferMode, mSharedBufferSlot, mIsAllocating, pc,
                   localVars, ticketVars, consumerVars>>

-----------------------------------------------------------------------------
(* waitForFreeSlotThenRelock, one iteration of its loop                    *)

tooManyDequeued ==
    mBufferHasBeenQueued /\ dequeuedCount >= mMaxDequeuedBufferCount

tooManyBuffers == Len(mQueue) > getMaxBufferCountLocked

SharedSlotFound(s) ==
    /\ mSharedBufferMode /\ mSharedBufferSlot # INVALID_BUFFER_SLOT
    /\ s = mSharedBufferSlot

\* getFreeBufferLocked and getFreeSlotLocked: where each caller finds slot s.
\* dequeueBuffer prefers free buffers, attachBuffer prefers free slots.
FreeBufferFound(caller, s) ==
    /\ ~(mSharedBufferMode /\ mSharedBufferSlot # INVALID_BUFFER_SLOT)
    /\ mFreeBuffers # <<>> /\ s = Head(mFreeBuffers)
    /\ caller = "attach" => mFreeSlots = {}

FreeSlotFound(caller, s) ==
    /\ ~(mSharedBufferMode /\ mSharedBufferSlot # INVALID_BUFFER_SLOT)
    /\ s \in LowestOf(mFreeSlots)
    /\ caller = "dequeue" => mFreeBuffers = <<>> /\ mAllowAllocation

SlotFound(caller, s) ==
    /\ ~tooManyBuffers
    /\ \/ SharedSlotFound(s)
       \/ FreeBufferFound(caller, s)
       \/ FreeSlotFound(caller, s)

NoSlotFound(caller) == \A s \in Slot : ~SlotFound(caller, s)

\* Faulty variant: the slot stays in mFreeSlots.
TakeFreeBufferOnly(caller, s) ==
    /\ mFreeBuffers' = IF FreeBufferFound(caller, s) THEN Tail(mFreeBuffers)
                                                     ELSE mFreeBuffers
    /\ UNCHANGED mFreeSlots

\* The slot found leaves its list.
TakeFromFreeLists(caller, s) ==
    /\ mFreeBuffers' = IF FreeBufferFound(caller, s) THEN Tail(mFreeBuffers)
                                                     ELSE mFreeBuffers
    /\ mFreeSlots' = IF FreeSlotFound(caller, s) THEN mFreeSlots \ {s}
                                                 ELSE mFreeSlots

\* The consumer may hold one buffer more than the maximum for a moment; a
\* non-blocking producer waits for it to give that one back.
mayNotBlock ==
    /\ mDequeueBufferCannotBlock \/ mAsyncMode
    /\ acquiredCount <= mMaxAcquiredBufferCount

\* NO_INIT, INVALID_OPERATION or WOULD_BLOCK
GivesUp(caller) ==
    \/ mIsAbandoned
    \/ tooManyDequeued
    \/ NoSlotFound(caller) /\ mayNotBlock

MustWait(caller) ==
    ~mIsAbandoned /\ ~tooManyDequeued /\ NoSlotFound(caller) /\ ~mayNotBlock

Finds(caller, s) == ~mIsAbandoned /\ ~tooManyDequeued /\ SlotFound(caller, s)

waitForFreeSlotThenRelock(t, caller) ==
    /\ \/ GivesUp(caller) /\ pc' = Goto(t, "idle")
       \/ /\ MustWait(caller)
          /\ pc' = Goto(t, CASE caller = "dequeue" /\ mDequeueTimeout -> "dequeueTimedWait"
                             [] caller = "dequeue" /\ ~mDequeueTimeout -> "dequeueWait"
                             [] caller = "attach" /\ mDequeueTimeout -> "attachTimedWait"
                             [] OTHER -> "attachWait")
    /\ UNCHANGED <<slotVars, queueVars, connectionVars, limitVars, sharedVars,
                   mIsAllocating, localVars, ticketVars, consumerVars>>

\* mDequeueCondition.waitRelative returns TIMED_OUT and the call returns.
waitTimesOut(t) ==
    /\ MutexFree
    /\ pc[t] \in {"dequeueTimedWait", "attachTimedWait"}
    /\ pc' = Goto(t, "idle")
    /\ UNCHANGED <<slotVars, queueVars, connectionVars, limitVars, sharedVars,
                   mIsAllocating, localVars, ticketVars, consumerVars>>

\* A condition variable may wake its waiter for no reason.
spuriousWakeup(t) ==
    /\ MutexFree
    /\ Woken(pc)[t] # pc[t]
    /\ pc' = Goto(t, Woken(pc)[t])
    /\ UNCHANGED <<slotVars, queueVars, connectionVars, limitVars, sharedVars,
                   mIsAllocating, localVars, ticketVars, consumerVars>>

-----------------------------------------------------------------------------
(* dequeueBuffer                                                           *)

\* The first critical section.
dequeueBuffer(t) ==
    /\ MutexFree /\ Usable
    /\ pc[t] = "idle"
    /\ pc' = Goto(t, "dequeue")
    /\ UNCHANGED <<slotVars, queueVars, connectionVars, limitVars, sharedVars,
                   mIsAllocating, localVars, ticketVars, consumerVars>>

\* The second critical section starts, or its loop continues.
InDequeueLoop(t) ==
    \/ pc[t] = "dequeueAgain"
    \/ pc[t] = "dequeue" /\ MutexFree

dequeueWaitsOrGivesUp(t) ==
    InDequeueLoop(t) /\ waitForFreeSlotThenRelock(t, "dequeue")

\* The code calls buffer->needsReallocation() on a buffer it takes to exist.
DereferencesBuffer(s) == ~mAllowAllocation \/ mSharedBufferSlot = s

dequeueDereferencesNull(t) ==
    /\ InDequeueLoop(t)
    /\ \E s \in Slot :
          /\ Finds("dequeue", s)
          /\ DereferencesBuffer(s)
          /\ mSlots[s].mGraphicBuffer = NullBuffer
    /\ pc' = Goto(t, "crash")
    /\ UNCHANGED <<slotVars, queueVars, connectionVars, limitVars, sharedVars,
                   mIsAllocating, localVars, ticketVars, consumerVars>>

\* The buffer found does not suit the request: a shared buffer cannot be
\* reallocated (BAD_VALUE); with allocation forbidden the buffer is dropped
\* and the loop looks for another, without letting go of mMutex.
dequeueRejectsBuffer(t, s) ==
    /\ InDequeueLoop(t)
    /\ Finds("dequeue", s)
    /\ DereferencesBuffer(s)
    /\ mSlots[s].mGraphicBuffer # NullBuffer
    /\ \/ /\ mSharedBufferSlot = s
          /\ pc' = Goto(t, "idle")
          /\ UNCHANGED slotVars
       \/ /\ mSharedBufferSlot # s
          /\ mFreeBuffers' = Tail(mFreeBuffers)
          /\ mFreeSlots' = mFreeSlots \cup {s}
          /\ clearBufferSlotLocked({s})
          /\ pc' = Goto(t, "dequeueAgain")
          /\ UNCHANGED <<mUnusedSlots, mActiveBuffers>>
    /\ UNCHANGED <<queueVars, connectionVars, limitVars, sharedVars,
                   mIsAllocating, localVars, ticketVars, consumerVars>>

\* reallocate: no buffer in the slot, or one that does not suit the request.
dequeueTakesSlot(t, s, reallocate) ==
    /\ InDequeueLoop(t)
    /\ Finds("dequeue", s)
    /\ mSlots[s].mGraphicBuffer = NullBuffer => reallocate
    /\ DereferencesBuffer(s) => ~reallocate
    /\ mSlots[s].mBufferState.mDequeueCount < MaxShared
    /\ TakeFromFreeLists("dequeue", s)
    /\ mActiveBuffers' = IF mSharedBufferSlot # s THEN mActiveBuffers \cup {s}
                                                  ELSE mActiveBuffers
    /\ LET becomesShared == mSharedBufferMode
                            /\ mSharedBufferSlot = INVALID_BUFFER_SLOT
           taken == [mSlots[s] EXCEPT
                        !.mNeedsReallocation = FALSE,
                        !.mBufferState = SharedIf(becomesShared,
                                                  dequeue(mSlots[s].mBufferState))]
       IN /\ mSlots' = [mSlots EXCEPT ![s] =
                IF reallocate
                    THEN [taken EXCEPT !.mAcquireCalled = FALSE,
                                       !.mGraphicBuffer = NullBuffer,
                                       !.mRequestBufferCalled = FALSE]
                    ELSE taken]
          /\ mSharedBufferSlot' = IF becomesShared THEN s ELSE mSharedBufferSlot
    /\ mIsAllocating' = (mIsAllocating \/ reallocate)
    /\ pc' = Goto(t, IF reallocate THEN "alloc" ELSE "idle")
    /\ outSlot' = IF reallocate THEN [outSlot EXCEPT ![t] = s] ELSE outSlot
    /\ UNCHANGED <<mUnusedSlots, mLastQueuedSlot, queueVars, connectionVars,
                   limitVars, mSharedBufferMode, mAutoRefresh, callbackTicket,
                   currentFrameNumber, ticketVars, consumerVars>>

\* The third critical section, after the allocator returned b, or NullBuffer
\* when it failed.
dequeueAllocated(t, b) ==
    /\ MutexFree
    /\ pc[t] = "alloc"
    /\ mIsAllocating' = FALSE
    /\ IF b # NullBuffer /\ ~mIsAbandoned
          THEN /\ mSlots' = [mSlots EXCEPT ![outSlot[t]].mGraphicBuffer = b]
               /\ UNCHANGED <<mFreeSlots, mLastQueuedSlot>>
          ELSE /\ mFreeSlots' = mFreeSlots \cup {outSlot[t]}
               /\ clearBufferSlotLocked({outSlot[t]})
    /\ pc' = Goto(t, "idle")
    /\ outSlot' = [outSlot EXCEPT ![t] = INVALID_BUFFER_SLOT]
    /\ UNCHANGED <<mFreeBuffers, mUnusedSlots, mActiveBuffers, queueVars,
                   connectionVars, limitVars, sharedVars, callbackTicket,
                   currentFrameNumber, ticketVars, consumerVars>>

-----------------------------------------------------------------------------
(* allocateBuffers                                                         *)

\* The critical section at the head of the loop; the call starts with it.
allocateBuffers(t) ==
    /\ MutexFree /\ ~mIsAllocating
    /\ pc[t] \in {"idle", "allocateBuffers"}
    /\ LET allocates == mAllowAllocation /\ mFreeSlots # {} IN
       /\ mIsAllocating' = allocates
       /\ pc' = Goto(t, IF allocates THEN "allocateBuffersAlloc" ELSE "idle")
    /\ UNCHANGED <<slotVars, queueVars, connectionVars, limitVars, sharedVars,
                   localVars, ticketVars, consumerVars>>

\* The critical section after the allocation: of NullBuffer when it failed;
\* retry: the default size, format or usage changed in the meantime.
allocateBuffersAllocated(t, b, retry) ==
    /\ MutexFree
    /\ pc[t] = "allocateBuffersAlloc"
    /\ mIsAllocating' = FALSE
    /\ pc' = Goto(t, IF b = NullBuffer THEN "idle" ELSE "allocateBuffers")
    /\ IF b = NullBuffer \/ retry \/ mFreeSlots = {}
          THEN UNCHANGED <<mSlots, mFreeSlots, mFreeBuffers, mLastQueuedSlot>>
          ELSE \E s \in LowestOf(mFreeSlots) :
                  /\ mSlots' = [Cleared(mSlots, {s}) EXCEPT ![s].mGraphicBuffer = b]
                  /\ mLastQueuedSlot' = LastQueuedAfterClearing({s})
                  /\ mFreeBuffers' = <<s>> \o mFreeBuffers
                  /\ mFreeSlots' = mFreeSlots \ {s}
    /\ UNCHANGED <<mUnusedSlots, mActiveBuffers, queueVars, connectionVars,
                   limitVars, sharedVars, localVars, ticketVars, consumerVars>>

-----------------------------------------------------------------------------
(* Attaching and detaching                                                 *)

detachBuffer(s) ==
    /\ MutexFree /\ Usable
    /\ ~mSharedBufferMode /\ mSharedBufferSlot # s
    /\ OwnedByProducer(s)
    /\ mSlots[s].mRequestBufferCalled
    /\ mActiveBuffers' = mActiveBuffers \ {s}
    /\ mFreeSlots' = mFreeSlots \cup {s}
    /\ clearBufferSlotLocked({s})
    /\ pc' = Woken(pc)
    /\ UNCHANGED <<mFreeBuffers, mUnusedSlots, queueVars, connectionVars,
                   limitVars, sharedVars, mIsAllocating, localVars, ticketVars,
                   consumerVars>>

\* The checks of detachNextBuffer are made before waitWhileAllocatingLocked
\* and not again after it.
detachNextBufferBlocks(t) ==
    /\ MutexFree /\ Usable /\ ~mSharedBufferMode
    /\ pc[t] = "idle" /\ mIsAllocating
    /\ pc' = Goto(t, "detachNextBlocked")
    /\ UNCHANGED <<slotVars, queueVars, connectionVars, limitVars, sharedVars,
                   mIsAllocating, localVars, ticketVars, consumerVars>>

detachNextBuffer(t) ==
    /\ MutexFree /\ ~mIsAllocating
    /\ \/ pc[t] = "idle" /\ Usable /\ ~mSharedBufferMode
       \/ pc[t] = "detachNextBlocked"
    /\ pc' = Goto(t, "idle")
    /\ IF mFreeBuffers = <<>>
          THEN UNCHANGED slotVars
          ELSE /\ mFreeBuffers' = Tail(mFreeBuffers)
               /\ mFreeSlots' = mFreeSlots \cup {Head(mFreeBuffers)}
               /\ clearBufferSlotLocked({Head(mFreeBuffers)})
               /\ UNCHANGED <<mUnusedSlots, mActiveBuffers>>
    /\ UNCHANGED <<queueVars, connectionVars, limitVars, sharedVars,
                   mIsAllocating, localVars, ticketVars, consumerVars>>

\* As in detachNextBuffer, but the loop of waitForFreeSlotThenRelock follows.
attachBufferBlocks(t) ==
    /\ MutexFree /\ Usable /\ ~mSharedBufferMode
    /\ pc[t] = "idle" /\ mIsAllocating
    /\ pc' = Goto(t, "attachBlocked")
    /\ UNCHANGED <<slotVars, queueVars, connectionVars, limitVars, sharedVars,
                   mIsAllocating, localVars, ticketVars, consumerVars>>

InAttachLoop(t) ==
    /\ MutexFree
    /\ \/ pc[t] = "attach"
       \/ pc[t] = "attachBlocked" /\ ~mIsAllocating
       \/ pc[t] = "idle" /\ Usable /\ ~mSharedBufferMode /\ ~mIsAllocating

attachWaitsOrGivesUp(t) ==
    InAttachLoop(t) /\ waitForFreeSlotThenRelock(t, "attach")

attachBuffer(t, s, b) ==
    /\ InAttachLoop(t)
    /\ Finds("attach", s)
    /\ TakeFromFreeLists("attach", s)
    /\ mActiveBuffers' = mActiveBuffers \cup {s}
    /\ mSlots' = [mSlots EXCEPT ![s] =
          [mSlots[s] EXCEPT !.mGraphicBuffer = b,
                            !.mBufferState = dequeue(mSlots[s].mBufferState),
                            !.mRequestBufferCalled = TRUE,
                            !.mAcquireCalled = FALSE,
                            !.mNeedsReallocation = FALSE]]
    /\ pc' = Goto(t, "idle")
    /\ UNCHANGED <<mUnusedSlots, mLastQueuedSlot, queueVars, connectionVars,
                   limitVars, sharedVars, mIsAllocating, localVars, ticketVars,
                   consumerVars>>

-----------------------------------------------------------------------------
(* queueBuffer and cancelBuffer                                            *)

\* The BufferItem that queueBuffer builds once slot s is marked as queued.
QueuedItem(s, shared, timestamp, isAuto) ==
    [mSlot |-> s,
     mFrameNumber |-> mFrameCounter + 1,
     mGraphicBuffer |-> mSlots[s].mGraphicBuffer,
     mIsDroppable |-> mAsyncMode \/ mDequeueBufferCannotBlock \/ shared,
     mIsStale |-> FALSE,
     mAcquireCalled |-> mSlots[s].mAcquireCalled,
     mTimestamp |-> timestamp,
     mIsAutoTimestamp |-> isAuto]

\* Faulty variant: the last item is overwritten, droppable or not.
ReplaceAlways(slots, item) ==
    /\ mSlots' = slots
    /\ mQueue' = IF mQueue # <<>> THEN Append(Front(mQueue), item) ELSE <<item>>
    /\ UNCHANGED <<mActiveBuffers, mFreeBuffers>>

\* The last item is overwritten when it is droppable; its slot is returned
\* unless the item is stale.
EnqueueOrReplace(slots, item) ==
    IF mQueue # <<>> /\ Last(mQueue).mIsDroppable
       THEN /\ mQueue' = Append(Front(mQueue), item)
            /\ IF Last(mQueue).mIsStale
                  THEN /\ mSlots' = slots
                       /\ UNCHANGED <<mActiveBuffers, mFreeBuffers>>
                  ELSE LET s == Last(mQueue).mSlot IN
                       ReturnToFreeBuffers(
                           [slots EXCEPT ![s].mBufferState = freeQueued(@)], s)
       ELSE /\ mQueue' = Append(mQueue, item)
            /\ mSlots' = slots
            /\ UNCHANGED <<mActiveBuffers, mFreeBuffers>>

queueBuffer(t, s, timestamp, isAuto) ==
    /\ MutexFree /\ Usable
    /\ pc[t] = "idle"
    /\ mFrameCounter < MaxFrames
    /\ OwnedByProducer(s)
    /\ mSlots[s].mRequestBufferCalled
    /\ mSlots[s].mGraphicBuffer # NullBuffer
    /\ LET becomesShared == mSharedBufferMode
                            /\ mSharedBufferSlot = INVALID_BUFFER_SLOT
           isSharedSlot == mSharedBufferMode
                           /\ (becomesShared \/ mSharedBufferSlot = s)
       IN /\ mSharedBufferSlot' = IF becomesShared THEN s ELSE mSharedBufferSlot
          /\ EnqueueOrReplace(
                [mSlots EXCEPT ![s] =
                    [mSlots[s] EXCEPT
                        !.mFrameNumber = mFrameCounter + 1,
                        !.mBufferState = SharedIf(becomesShared,
                                                  queue(mSlots[s].mBufferState))]],
                QueuedItem(s, isSharedSlot, timestamp, isAuto))
    /\ mFrameCounter' = mFrameCounter + 1
    /\ mBufferHasBeenQueued' = TRUE
    /\ mLastQueuedSlot' = s
    /\ callbackTicket' = [callbackTicket EXCEPT ![t] = mNextCallbackTicket]
    /\ currentFrameNumber' = [currentFrameNumber EXCEPT ![t] = mFrameCounter + 1]
    /\ mNextCallbackTicket' = mNextCallbackTicket + 1
    /\ pc' = Woken(Goto(t, "callback"))
    /\ UNCHANGED <<mFreeSlots, mUnusedSlots, connectionVars, limitVars,
                   mSharedBufferMode, mAutoRefresh, mIsAllocating, outSlot,
                   mCurrentCallbackTicket, consumerVars>>

\* The code calls graphicBuffer->getWidth() on the buffer of a slot that is still
\* being allocated.
queueBufferDereferencesNull(t, s) ==
    /\ MutexFree /\ Usable
    /\ pc[t] = "idle"
    /\ OwnedByProducer(s)
    /\ mSlots[s].mRequestBufferCalled
    /\ mSlots[s].mGraphicBuffer = NullBuffer
    /\ pc' = Goto(t, "crash")
    /\ UNCHANGED <<slotVars, queueVars, connectionVars, limitVars, sharedVars,
                   mIsAllocating, localVars, ticketVars, consumerVars>>

\* queueBuffer returns BAD_VALUE for a crop rectangle outside the buffer, after
\* it has chosen the slot as the shared buffer.
queueBufferRejectsCrop(s) ==
    /\ MutexFree /\ Usable
    /\ OwnedByProducer(s)
    /\ mSlots[s].mRequestBufferCalled
    /\ mSlots[s].mGraphicBuffer # NullBuffer
    /\ mSharedBufferMode /\ mSharedBufferSlot = INVALID_BUFFER_SLOT
    /\ mSharedBufferSlot' = s
    /\ mSlots' = [mSlots EXCEPT ![s].mBufferState.mShared = TRUE]
    /\ UNCHANGED <<listVars, mLastQueuedSlot, queueVars, connectionVars,
                   limitVars, mSharedBufferMode, mAutoRefresh, mIsAllocating,
                   pc, localVars, ticketVars, consumerVars>>

\* Faulty variants: the thread does not wait for its turn; it does not pass
\* the turn on.
callbackOutOfTurn(t) ==
    /\ pc[t] = "callback"
    /\ mCurrentCallbackTicket' = mCurrentCallbackTicket + 1
    /\ pc' = Goto(t, "idle")
    /\ callbackTicket' = [callbackTicket EXCEPT ![t] = 0]
    /\ currentFrameNumber' = [currentFrameNumber EXCEPT ![t] = 0]
    /\ UNCHANGED <<slotVars, queueVars, connectionVars, limitVars, sharedVars,
                   mIsAllocating, outSlot, mNextCallbackTicket, consumerVars>>

callbackKeepsTurn(t) ==
    /\ pc[t] = "callback"
    /\ callbackTicket[t] = mCurrentCallbackTicket
    /\ pc' = Goto(t, "idle")
    /\ callbackTicket' = [callbackTicket EXCEPT ![t] = 0]
    /\ currentFrameNumber' = [currentFrameNumber EXCEPT ![t] = 0]
    /\ UNCHANGED <<slotVars, queueVars, connectionVars, limitVars, sharedVars,
                   mIsAllocating, outSlot, ticketVars, consumerVars>>

\* The critical section of mCallbackMutex: the listener is called in the order
\* of the tickets.  The thread then returns from queueBuffer.
queueBufferCallback(t) ==
    /\ pc[t] = "callback"
    /\ callbackTicket[t] = mCurrentCallbackTicket
    /\ mCurrentCallbackTicket' = mCurrentCallbackTicket + 1
    /\ pc' = Goto(t, "idle")
    /\ callbackTicket' = [callbackTicket EXCEPT ![t] = 0]
    /\ currentFrameNumber' = [currentFrameNumber EXCEPT ![t] = 0]
    /\ UNCHANGED <<slotVars, queueVars, connectionVars, limitVars, sharedVars,
                   mIsAllocating, outSlot, mNextCallbackTicket, consumerVars>>

cancelBuffer(s) ==
    /\ MutexFree /\ Usable
    /\ ~mSharedBufferMode
    /\ OwnedByProducer(s)
    /\ ReturnToFreeBuffers([mSlots EXCEPT ![s].mBufferState = cancel(@)], s)
    /\ pc' = Woken(pc)
    /\ UNCHANGED <<mFreeSlots, mUnusedSlots, mLastQueuedSlot, queueVars,
                   connectionVars, limitVars, sharedVars, mIsAllocating,
                   localVars, ticketVars, consumerVars>>

-----------------------------------------------------------------------------
(* connect and disconnect                                                  *)

\* Faulty variant: the frames are counted from 0 again.
connectRestartsFrames(api, producerControlledByApp) ==
    LET cannotBlock == /\ ~mDequeueTimeout
                       /\ mConsumerControlledByApp
                       /\ producerControlledByApp
    IN /\ MutexFree
       /\ ~mIsAbandoned /\ mConsumerListener
       /\ mConnectedApi = NO_CONNECTED_API
       /\ adjustAvailableSlotsLocked(
              getMaxBufferCount(mAsyncMode, cannotBlock, mMaxBufferCount)
                  - getMaxBufferCountLocked)
       /\ mConnectedApi' = IF api \in Api THEN api ELSE mConnectedApi
       /\ mBufferHasBeenQueued' = FALSE
       /\ mDequeueBufferCannotBlock' = cannotBlock
       /\ mAllowAllocation' = TRUE
       /\ mFrameCounter' = 0
       /\ UNCHANGED <<mQueue, mIsAbandoned, mConsumerListener,
                      mConsumerControlledByApp, mMaxAcquiredBufferCount,
                      mMaxDequeuedBufferCount, mMaxBufferCount, mAsyncMode,
                      mDequeueTimeout, sharedVars, mIsAllocating, pc,
                      localVars, ticketVars, consumerVars>>

\* connect() with an API it does not know reports an error at the end, but has
\* reset the flags by then.
connect(api, producerControlledByApp) ==
    LET cannotBlock == /\ ~mDequeueTimeout
                       /\ mConsumerControlledByApp
                       /\ producerControlledByApp
    IN /\ MutexFree
       /\ ~mIsAbandoned /\ mConsumerListener
       /\ mConnectedApi = NO_CONNECTED_API
       /\ adjustAvailableSlotsLocked(
              getMaxBufferCount(mAsyncMode, cannotBlock, mMaxBufferCount)
                  - getMaxBufferCountLocked)
       /\ mConnectedApi' = IF api \in Api THEN api ELSE mConnectedApi
       /\ mBufferHasBeenQueued' = FALSE
       /\ mDequeueBufferCannotBlock' = cannotBlock
       /\ mAllowAllocation' = TRUE
       /\ UNCHANGED <<mQueue, mFrameCounter, mIsAbandoned, mConsumerListener,
                      mConsumerControlledByApp, mMaxAcquiredBufferCount,
                      mMaxDequeuedBufferCount, mMaxBufferCount, mAsyncMode,
                      mDequeueTimeout, sharedVars, mIsAllocating, pc,
                      localVars, ticketVars, consumerVars>>

disconnect ==
    /\ MutexFree /\ ~mIsAllocating /\ Usable
    /\ freeAllBuffersLocked
    /\ mQueue' = MarkedStale(mQueue)
    /\ mSharedBufferSlot' = INVALID_BUFFER_SLOT
    /\ mConnectedApi' = NO_CONNECTED_API
    /\ pc' = Woken(pc)
    /\ UNCHANGED <<mFrameCounter, mBufferHasBeenQueued, mIsAbandoned,
                   mConsumerListener, mConsumerControlledByApp, limitVars,
                   mSharedBufferMode, mAutoRefresh, mIsAllocating, localVars,
                   ticketVars, consumerVars>>
=============================================================================
