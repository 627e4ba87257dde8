------------------------- MODULE BufferQueueProofs -------------------------
(***************************************************************************)
(* Proofs about BufferQueue, for every number of slots, threads, buffers,  *)
(* frames and every set Ops of calls.                                      *)
(***************************************************************************)
EXTENDS BufferQueue, FiniteSetTheorems, TLAPS

-----------------------------------------------------------------------------
(* Slots and their states                                                  *)

\* Every transition of BufferState yields a BufferState: the guarded
\* decrements never take a count below zero.
LEMMA BufferStateType ==
    ASSUME NEW b \in BufferState
    PROVE  /\ dequeue(b) \in BufferState /\ cancel(b) \in BufferState
           /\ queue(b) \in BufferState /\ freeQueued(b) \in BufferState
           /\ acquire(b) \in BufferState /\ acquireNotInQueue(b) \in BufferState
           /\ release(b) \in BufferState
           /\ \A becomesShared \in BOOLEAN :
                 SharedIf(becomesShared, b) \in BufferState
<1>1. \A n \in Nat : Decremented(n) \in Nat
  BY DEF Decremented
<1>2. dequeue(b) \in BufferState /\ cancel(b) \in BufferState
  BY <1>1 DEF dequeue, cancel, BufferState
<1>3. freeQueued(b) \in BufferState /\ acquireNotInQueue(b) \in BufferState
      /\ release(b) \in BufferState
  BY <1>1 DEF freeQueued, acquireNotInQueue, release, BufferState
<1>4. /\ b.mDequeueCount \in Nat /\ b.mQueueCount \in Nat
      /\ b.mQueueCount + 1 \in Nat /\ b.mAcquireCount + 1 \in Nat
  BY DEF BufferState
<1>5. \A m \in Nat, n \in Nat :
        /\ [b EXCEPT !.mDequeueCount = m, !.mQueueCount = n] \in BufferState
        /\ [b EXCEPT !.mQueueCount = m, !.mAcquireCount = n] \in BufferState
  BY DEF BufferState
<1>6. queue(b) \in BufferState
  BY <1>1, <1>4, <1>5 DEF queue
<1>7. acquire(b) \in BufferState
  BY <1>1, <1>4, <1>5 DEF acquire
<1>8. ASSUME NEW becomesShared \in BOOLEAN
      PROVE  SharedIf(becomesShared, b) \in BufferState
  BY DEF SharedIf, BufferState
<1> QED
  BY <1>2, <1>3, <1>6, <1>7, <1>8

\* A slot that was cleared, and one that was never used, are BufferSlots.
LEMMA ClearedSlotType == ClearedSlot \in BufferSlot /\ InitialSlot \in BufferSlot
  BY DEF ClearedSlot, InitialSlot, BufferSlot, BufferState, FREE

\* clearBufferSlotLocked keeps every slot a BufferSlot.
LEMMA ClearedType ==
    ASSUME NEW slots \in [Slot -> BufferSlot], NEW S
    PROVE  Cleared(slots, S) \in [Slot -> BufferSlot]
  BY ClearedSlotType DEF Cleared

\* Replacing the state of a slot by another BufferState keeps it a BufferSlot.
LEMMA SlotStateType ==
    ASSUME NEW slots \in [Slot -> BufferSlot], NEW s \in Slot,
           NEW b \in BufferState
    PROVE  [slots EXCEPT ![s].mBufferState = b] \in [Slot -> BufferSlot]
  BY DEF BufferSlot

\* The updates that the calls make to the fields of one slot.
LEMMA SlotUpdateType ==
    ASSUME NEW slot \in BufferSlot, NEW st \in BufferState, NEW n \in Nat,
           NEW b \in Buffer \cup {NullBuffer}
    PROVE  /\ [slot EXCEPT !.mNeedsReallocation = FALSE,
                           !.mBufferState = st] \in BufferSlot
           /\ [slot EXCEPT !.mAcquireCalled = FALSE,
                           !.mGraphicBuffer = NullBuffer,
                           !.mRequestBufferCalled = FALSE] \in BufferSlot
           /\ [slot EXCEPT !.mGraphicBuffer = b,
                           !.mBufferState = st,
                           !.mRequestBufferCalled = TRUE,
                           !.mAcquireCalled = FALSE,
                           !.mNeedsReallocation = FALSE] \in BufferSlot
           /\ [slot EXCEPT !.mFrameNumber = n,
                           !.mBufferState = st] \in BufferSlot
           /\ [slot EXCEPT !.mAcquireCalled = TRUE,
                           !.mBufferState = st] \in BufferSlot
           /\ [slot EXCEPT !.mGraphicBuffer = b,
                           !.mBufferState = st,
                           !.mNeedsReallocation = TRUE,
                           !.mFrameNumber = 0,
                           !.mAcquireCalled = FALSE] \in BufferSlot
           /\ [slot EXCEPT !.mGraphicBuffer = b] \in BufferSlot
           /\ [slot EXCEPT !.mRequestBufferCalled = TRUE] \in BufferSlot
  BY DEF BufferSlot

\* Ending the sharing of a free slot keeps it a BufferSlot.
LEMMA UnsharedIfFreeType ==
    ASSUME NEW slots \in [Slot -> BufferSlot], NEW s \in Slot
    PROVE  UnsharedIfFree(slots, s) \in [Slot -> BufferSlot]
<1>1. slots[s].mBufferState \in BufferState
  BY DEF BufferSlot
<1>2. [slots EXCEPT ![s].mBufferState.mShared = FALSE] \in [Slot -> BufferSlot]
  BY <1>1 DEF BufferSlot, BufferState
<1> QED
  BY <1>2 DEF UnsharedIfFree

\* Returning a slot to mFreeBuffers keeps the types of the slots and lists.
LEMMA ReturnType ==
    ASSUME SlotTypeOK, NEW slots \in [Slot -> BufferSlot], NEW s \in Slot,
           ReturnToFreeBuffers(slots, s)
    PROVE  /\ mSlots' \in [Slot -> BufferSlot]
           /\ mActiveBuffers' \in SUBSET Slot
           /\ mFreeBuffers' \in Seq(Slot)
<1>1. mSlots' \in [Slot -> BufferSlot]
  BY UnsharedIfFreeType DEF ReturnToFreeBuffers
<1>2. Append(mFreeBuffers, s) \in Seq(Slot)
  BY DEF SlotTypeOK
<1> QED
  BY <1>1, <1>2 DEF ReturnToFreeBuffers, SlotTypeOK

\* The free slots are finitely many.
LEMMA FreeSlotsFinite ==
    ASSUME SlotTypeOK
    PROVE  IsFiniteSet(mFreeSlots) /\ Cardinality(mFreeSlots) \in Nat
<1>1. IsFiniteSet(Slot)
  BY CoreAssumption, FS_Interval DEF Slot
<1>2. IsFiniteSet(mFreeSlots)
  BY <1>1, FS_Subset DEF SlotTypeOK
<1> QED
  BY <1>2, FS_CardinalityType

\* clearBufferSlotLocked keeps the types of the slots and of mLastQueuedSlot.
LEMMA ClearType ==
    ASSUME SlotTypeOK, NEW S, clearBufferSlotLocked(S)
    PROVE  /\ mSlots' \in [Slot -> BufferSlot]
           /\ mLastQueuedSlot' \in Slot \cup {INVALID_BUFFER_SLOT}
  BY ClearedType
     DEF clearBufferSlotLocked, LastQueuedAfterClearing, SlotTypeOK

\* The set of the slots in mFreeBuffers is a set of slots.
LEMMA FreeBufferSetType ==
    ASSUME SlotTypeOK
    PROVE  ToSet(mFreeBuffers) \in SUBSET Slot
  BY DEF ToSet, SlotTypeOK

\* adjustAvailableSlotsLocked keeps the types of the slots and lists, whether
\* slots come into play or leave it.
LEMMA AdjustType ==
    ASSUME SlotTypeOK, NEW delta \in Int, adjustAvailableSlotsLocked(delta)
    PROVE  SlotTypeOK'
<1>1. CASE delta >= 0 /\ MoreSlots(delta)
  BY <1>1 DEF MoreSlots, SlotTypeOK
<1>2. CASE delta < 0 /\ FewerSlots(-delta)
  <2> DEFINE n == -delta
             slots == {s \in mFreeSlots :
                         Cardinality({r \in mFreeSlots : r < s}) < n}
             missing == IF n > Cardinality(mFreeSlots)
                           THEN n - Cardinality(mFreeSlots) ELSE 0
             kept == Len(mFreeBuffers) - missing
             buffers == {mFreeBuffers[i] : i \in kept + 1 .. Len(mFreeBuffers)}
  <2>1. n \in Nat
    BY <1>2
  <2>2. Cardinality(mFreeSlots) \in Nat /\ Len(mFreeBuffers) \in Nat
    BY FreeSlotsFinite DEF SlotTypeOK
  <2>3. n <= Cardinality(mFreeSlots) + Len(mFreeBuffers)
    BY <1>2 DEF FewerSlots
  <2>4. missing \in Nat /\ missing <= Len(mFreeBuffers)
    BY <2>1, <2>2, <2>3
  <2>5. kept \in Nat /\ kept <= Len(mFreeBuffers)
    BY <2>2, <2>4
  <2>6. /\ mFreeSlots' = mFreeSlots \ slots
        /\ mFreeBuffers' = SubSeq(mFreeBuffers, 1, kept)
        /\ mUnusedSlots' = mUnusedSlots \cup slots \cup buffers
        /\ clearBufferSlotLocked(slots \cup buffers)
        /\ UNCHANGED mActiveBuffers
    BY <1>2 DEF FewerSlots
  <2> HIDE DEF kept, missing, n
  <2>7. SubSeq(mFreeBuffers, 1, kept) \in Seq(Slot)
    BY <2>2, <2>5 DEF SlotTypeOK
  <2>8. buffers \in SUBSET Slot
    BY <2>2, <2>5 DEF SlotTypeOK
  <2>9. slots \in SUBSET Slot
    BY DEF SlotTypeOK
  <2>10. mSlots' \in [Slot -> BufferSlot]
         /\ mLastQueuedSlot' \in Slot \cup {INVALID_BUFFER_SLOT}
    BY <2>6, ClearType
  <2> QED
    BY <2>6, <2>7, <2>8, <2>9, <2>10 DEF SlotTypeOK
<1> QED
  BY <1>1, <1>2 DEF adjustAvailableSlotsLocked

-----------------------------------------------------------------------------
(* The type invariant                                                      *)

\* A group of variables that a step leaves alone keeps its part of TypeOK.
LEMMA UnchangedType ==
    ASSUME TypeOK
    PROVE  /\ UNCHANGED slotVars => SlotTypeOK'
           /\ UNCHANGED queueVars => QueueTypeOK'
           /\ UNCHANGED connectionVars => ConnectionTypeOK'
           /\ UNCHANGED limitVars => LimitTypeOK'
           /\ UNCHANGED sharedVars => SharedTypeOK'
           /\ UNCHANGED <<mIsAllocating, pc, localVars, ticketVars>> => ThreadTypeOK'
           /\ UNCHANGED <<consumerVars, queueVars>> => ConsumerTypeOK'
<1> USE DEF TypeOK
<1>1. UNCHANGED slotVars => SlotTypeOK'
  BY DEF slotVars, listVars, SlotTypeOK
<1>2. UNCHANGED queueVars => QueueTypeOK'
  BY DEF queueVars, QueueTypeOK
<1>3. UNCHANGED connectionVars => ConnectionTypeOK'
  BY DEF connectionVars, ConnectionTypeOK
<1>4. UNCHANGED limitVars => LimitTypeOK'
  BY DEF limitVars, LimitTypeOK
<1>5. UNCHANGED sharedVars => SharedTypeOK'
  BY DEF sharedVars, SharedTypeOK
<1>6. UNCHANGED <<mIsAllocating, pc, localVars, ticketVars>> => ThreadTypeOK'
  BY DEF localVars, ticketVars, ThreadTypeOK
<1>7. UNCHANGED <<consumerVars, queueVars>> => ConsumerTypeOK'
  BY DEF consumerVars, queueVars, ConsumerTypeOK
<1> QED
  BY <1>1, <1>2, <1>3, <1>4, <1>5, <1>6, <1>7

\* A broadcast, and a thread that goes elsewhere than to the allocator, keep
\* the control points well-typed.
LEMMA WokenType ==
    ASSUME TypeOK, pc' = Woken(pc), UNCHANGED <<mIsAllocating, localVars, ticketVars>>
    PROVE  ThreadTypeOK'
<1>1. Woken(pc) \in [Thread -> PC]
  BY DEF Woken, PC, TypeOK, ThreadTypeOK
<1>2. \A t \in Thread : Woken(pc)[t] = "alloc" => pc[t] = "alloc"
  BY DEF Woken
<1> QED
  BY <1>1, <1>2 DEF TypeOK, ThreadTypeOK, localVars, ticketVars

\* A thread that moves to a place of PC keeps pc well typed.
LEMMA GotoType ==
    ASSUME TypeOK, NEW t \in Thread, NEW where \in PC \ {"alloc"},
           pc' = Goto(t, where), mIsAllocating' \in BOOLEAN,
           UNCHANGED <<localVars, ticketVars>>
    PROVE  ThreadTypeOK'
<1>1. Goto(t, where) \in [Thread -> PC]
  BY DEF Goto, TypeOK, ThreadTypeOK
<1>2. \A u \in Thread : Goto(t, where)[u] = "alloc" => pc[u] = "alloc"
  BY DEF Goto, TypeOK, ThreadTypeOK
<1> QED
  BY <1>1, <1>2 DEF TypeOK, ThreadTypeOK, localVars, ticketVars

\* The steps that only move a thread.
LEMMA OnlyGotoType ==
    ASSUME TypeOK, NEW t \in Thread, NEW where \in PC \ {"alloc"},
           pc' = Goto(t, where),
           UNCHANGED <<slotVars, queueVars, connectionVars, limitVars,
                       sharedVars, mIsAllocating, localVars, ticketVars,
                       consumerVars>>
    PROVE  TypeOK'
<1>1. mIsAllocating' \in BOOLEAN
  BY DEF TypeOK, ThreadTypeOK
<1>2. ThreadTypeOK'
  BY <1>1, GotoType
<1> QED
  BY <1>2, UnchangedType DEF TypeOK

\* waitForFreeSlotThenRelock moves one thread and changes nothing else.
LEMMA WaitType ==
    ASSUME TypeOK, NEW t \in Thread, NEW caller \in {"dequeue", "attach"},
           waitForFreeSlotThenRelock(t, caller)
    PROVE  TypeOK'
<1>1. PICK where \in PC \ {"alloc"} : pc' = Goto(t, where)
  BY DEF waitForFreeSlotThenRelock, PC
<1> QED
  BY <1>1, OnlyGotoType DEF waitForFreeSlotThenRelock

\* The steps of a dequeueBuffer before it has found a slot, and the queueBuffer
\* that dereferences NULL.
LEMMA DequeueLoopType ==
    ASSUME TypeOK, NEW t \in Thread,
           \/ dequeueBuffer(t) \/ dequeueWaitsOrGivesUp(t)
           \/ dequeueDereferencesNull(t) \/ waitTimesOut(t) \/ spuriousWakeup(t)
           \/ \E s \in Slot : queueBufferDereferencesNull(t, s)
    PROVE  TypeOK'
<1>1. CASE dequeueBuffer(t)
  BY <1>1, OnlyGotoType DEF dequeueBuffer, PC
<1>2. CASE dequeueWaitsOrGivesUp(t)
  BY <1>2, WaitType DEF dequeueWaitsOrGivesUp
<1>3. CASE dequeueDereferencesNull(t) \/ \E s \in Slot : queueBufferDereferencesNull(t, s)
  BY <1>3, OnlyGotoType DEF dequeueDereferencesNull, queueBufferDereferencesNull, PC
<1>4. CASE waitTimesOut(t)
  BY <1>4, OnlyGotoType DEF waitTimesOut, PC
<1>5. CASE spuriousWakeup(t)
  <2>1. Woken(pc)[t] \in PC \ {"alloc"}
    BY <1>5 DEF spuriousWakeup, Woken, PC, TypeOK, ThreadTypeOK
  <2> QED
    BY <1>5, <2>1, OnlyGotoType DEF spuriousWakeup
<1> QED
  BY <1>1, <1>2, <1>3, <1>4, <1>5

\* The step of dequeueBuffer that takes a slot, with or without allocating.
LEMMA DequeueTakesType ==
    ASSUME TypeOK, NEW t \in Thread, NEW s \in Slot, NEW reallocate \in BOOLEAN,
           dequeueTakesSlot(t, s, reallocate)
    PROVE  TypeOK'
<1> DEFINE becomesShared == mSharedBufferMode
                            /\ mSharedBufferSlot = INVALID_BUFFER_SLOT
           st == SharedIf(becomesShared, dequeue(mSlots[s].mBufferState))
           taken == [mSlots[s] EXCEPT !.mNeedsReallocation = FALSE,
                                      !.mBufferState = st]
           emptied == [taken EXCEPT !.mAcquireCalled = FALSE,
                                    !.mGraphicBuffer = NullBuffer,
                                    !.mRequestBufferCalled = FALSE]
<1>1. mSlots[s] \in BufferSlot /\ mSlots[s].mBufferState \in BufferState
  BY DEF TypeOK, SlotTypeOK, BufferSlot
<1>2. st \in BufferState
  BY <1>1, BufferStateType
<1>3. mSlots' = [mSlots EXCEPT ![s] = IF reallocate THEN emptied ELSE taken]
  BY DEF dequeueTakesSlot
<1>4. mSharedBufferSlot' = IF becomesShared THEN s ELSE mSharedBufferSlot
  BY DEF dequeueTakesSlot
<1>5. SharedTypeOK'
  BY <1>4 DEF dequeueTakesSlot, TypeOK, SharedTypeOK
<1> HIDE DEF st, becomesShared
<1>6. taken \in BufferSlot
  BY <1>1, <1>2, SlotUpdateType
<1> HIDE DEF taken
<1>7. emptied \in BufferSlot
  BY <1>2, <1>6, SlotUpdateType
<1> HIDE DEF emptied
<1>8. SlotTypeOK'
  <2>1. mSlots' \in [Slot -> BufferSlot]
    BY <1>3, <1>6, <1>7 DEF TypeOK, SlotTypeOK
  <2>2. mFreeBuffers' \in Seq(Slot) /\ mFreeSlots' \in SUBSET Slot
    BY DEF dequeueTakesSlot, TakeFromFreeLists, FreeBufferFound, TypeOK, SlotTypeOK
  <2>3. mActiveBuffers' \in SUBSET Slot /\ UNCHANGED <<mUnusedSlots, mLastQueuedSlot>>
    BY DEF dequeueTakesSlot, TypeOK, SlotTypeOK
  <2> QED
    BY <2>1, <2>2, <2>3 DEF TypeOK, SlotTypeOK
<1>9. ThreadTypeOK'
  <2> USE DEF TypeOK, ThreadTypeOK
  <2>1. mIsAllocating' \in BOOLEAN
    BY DEF dequeueTakesSlot
  <2>2. /\ pc' = Goto(t, IF reallocate THEN "alloc" ELSE "idle")
        /\ outSlot' = IF reallocate THEN [outSlot EXCEPT ![t] = s] ELSE outSlot
        /\ UNCHANGED <<callbackTicket, currentFrameNumber, ticketVars>>
    BY DEF dequeueTakesSlot
  <2>3. pc' \in [Thread -> PC]
    BY <2>2 DEF Goto, PC
  <2>4. outSlot' \in [Thread -> Slot \cup {INVALID_BUFFER_SLOT}]
    BY <2>2
  <2>5. \A u \in Thread : pc'[u] = "alloc" => outSlot'[u] \in Slot
    BY <2>2 DEF Goto
  <2> QED
    BY <2>1, <2>2, <2>3, <2>4, <2>5 DEF ticketVars
<1> QED
  BY <1>5, <1>8, <1>9, UnchangedType DEF TypeOK, dequeueTakesSlot

\* The steps of dequeueBuffer that reject a buffer and that end an allocation.
LEMMA DequeueRejectsType ==
    ASSUME TypeOK, NEW t \in Thread, NEW s \in Slot, dequeueRejectsBuffer(t, s)
    PROVE  TypeOK'
<1>1. PICK where \in PC \ {"alloc"} : pc' = Goto(t, where)
  BY DEF dequeueRejectsBuffer, PC
<1>2. ThreadTypeOK'
  BY <1>1, GotoType DEF dequeueRejectsBuffer, TypeOK, ThreadTypeOK
<1>3. CASE UNCHANGED slotVars
  BY <1>2, <1>3, UnchangedType DEF dequeueRejectsBuffer, TypeOK
<1>4. CASE ~UNCHANGED slotVars
  <2>1. /\ mSharedBufferSlot # s
        /\ mFreeBuffers' = Tail(mFreeBuffers)
        /\ mFreeSlots' = mFreeSlots \cup {s}
        /\ clearBufferSlotLocked({s})
        /\ UNCHANGED <<mUnusedSlots, mActiveBuffers>>
    BY <1>4 DEF dequeueRejectsBuffer
  <2>2. mFreeBuffers # <<>>
    BY <2>1 DEF dequeueRejectsBuffer, Finds, SlotFound, SharedSlotFound,
                FreeBufferFound, FreeSlotFound, DereferencesBuffer
  <2>3. SlotTypeOK'
    BY <2>1, <2>2, ClearType DEF TypeOK, SlotTypeOK
  <2> QED
    BY <1>2, <2>3, UnchangedType DEF dequeueRejectsBuffer, TypeOK
<1> QED
  BY <1>3, <1>4

\* dequeueBuffer's last critical section puts a new buffer, or none, in its slot.
LEMMA DequeueAllocatedType ==
    ASSUME TypeOK, NEW t \in Thread, NEW b \in Buffer \cup {NullBuffer},
           dequeueAllocated(t, b)
    PROVE  TypeOK'
<1>1. outSlot[t] \in Slot
  BY DEF dequeueAllocated, TypeOK, ThreadTypeOK
<1>2. SlotTypeOK'
  <2>1. CASE b # NullBuffer /\ ~mIsAbandoned
    <3>1. /\ mSlots' = [mSlots EXCEPT ![outSlot[t]].mGraphicBuffer = b]
          /\ UNCHANGED <<mFreeSlots, mLastQueuedSlot, mFreeBuffers,
                         mUnusedSlots, mActiveBuffers>>
      BY <2>1 DEF dequeueAllocated
    <3>2. mSlots' \in [Slot -> BufferSlot]
      BY <1>1, <3>1 DEF TypeOK, SlotTypeOK, BufferSlot
    <3> QED
      BY <3>1, <3>2 DEF TypeOK, SlotTypeOK
  <2>2. CASE ~(b # NullBuffer /\ ~mIsAbandoned)
    <3>1. mFreeSlots' = mFreeSlots \cup {outSlot[t]}
          /\ clearBufferSlotLocked({outSlot[t]})
          /\ UNCHANGED <<mFreeBuffers, mUnusedSlots, mActiveBuffers>>
      BY <2>2 DEF dequeueAllocated
    <3> QED
      BY <1>1, <3>1, ClearType DEF TypeOK, SlotTypeOK
  <2> QED
    BY <2>1, <2>2
<1>3. ThreadTypeOK'
  <2> USE DEF TypeOK, ThreadTypeOK
  <2>1. /\ pc' = Goto(t, "idle")
        /\ outSlot' = [outSlot EXCEPT ![t] = INVALID_BUFFER_SLOT]
        /\ mIsAllocating' = FALSE
        /\ UNCHANGED <<callbackTicket, currentFrameNumber, ticketVars>>
    BY DEF dequeueAllocated
  <2>2. pc' \in [Thread -> PC]
    BY <2>1 DEF Goto, PC
  <2>3. \A u \in Thread : pc'[u] = "alloc" => outSlot'[u] \in Slot
    BY <2>1 DEF Goto
  <2> QED
    BY <2>1, <2>2, <2>3 DEF ticketVars
<1> QED
  BY <1>2, <1>3, UnchangedType DEF TypeOK, dequeueAllocated

\* The steps of allocateBuffers.
LEMMA AllocateBuffersType ==
    ASSUME TypeOK, NEW t \in Thread, allocateBuffers(t)
    PROVE  TypeOK'
<1>1. mIsAllocating' \in BOOLEAN
  BY DEF allocateBuffers, TypeOK, LimitTypeOK
<1>2. PICK where \in PC \ {"alloc"} : pc' = Goto(t, where)
  BY DEF allocateBuffers, PC
<1>3. ThreadTypeOK'
  BY <1>1, <1>2, GotoType DEF allocateBuffers
<1> QED
  BY <1>3, UnchangedType DEF allocateBuffers, TypeOK

\* allocateBuffers fills one free slot and goes on, or gives up.
LEMMA AllocateBuffersAllocatedType ==
    ASSUME TypeOK, NEW t \in Thread, NEW b \in Buffer \cup {NullBuffer},
           NEW retry \in BOOLEAN, allocateBuffersAllocated(t, b, retry)
    PROVE  TypeOK'
<1>1. PICK where \in PC \ {"alloc"} : pc' = Goto(t, where)
  BY DEF allocateBuffersAllocated, PC
<1>2. ThreadTypeOK'
  BY <1>1, GotoType DEF allocateBuffersAllocated
<1>3. SlotTypeOK'
  <2>1. CASE UNCHANGED <<mSlots, mFreeSlots, mFreeBuffers, mLastQueuedSlot>>
    BY <2>1 DEF allocateBuffersAllocated, TypeOK, SlotTypeOK
  <2>2. CASE ~UNCHANGED <<mSlots, mFreeSlots, mFreeBuffers, mLastQueuedSlot>>
    <3>1. PICK s \in LowestOf(mFreeSlots) :
             /\ mSlots' = [Cleared(mSlots, {s}) EXCEPT ![s].mGraphicBuffer = b]
             /\ mLastQueuedSlot' = LastQueuedAfterClearing({s})
             /\ mFreeBuffers' = <<s>> \o mFreeBuffers
             /\ mFreeSlots' = mFreeSlots \ {s}
      BY <2>2 DEF allocateBuffersAllocated
    <3>2. s \in Slot
      BY DEF LowestOf, TypeOK, SlotTypeOK
    <3>3. Cleared(mSlots, {s}) \in [Slot -> BufferSlot]
      BY ClearedType DEF TypeOK, SlotTypeOK
    <3>4. mSlots' \in [Slot -> BufferSlot]
      BY <3>1, <3>2, <3>3 DEF BufferSlot
    <3>5. mFreeBuffers' \in Seq(Slot)
      BY <3>1, <3>2 DEF TypeOK, SlotTypeOK
    <3> QED
      BY <3>1, <3>4, <3>5
         DEF allocateBuffersAllocated, LastQueuedAfterClearing, TypeOK, SlotTypeOK
  <2> QED
    BY <2>1, <2>2
<1> QED
  BY <1>2, <1>3, UnchangedType DEF allocateBuffersAllocated, TypeOK

\* Detaching and attaching by the producer.
LEMMA DetachType ==
    ASSUME TypeOK, NEW s \in Slot, detachBuffer(s)
    PROVE  TypeOK'
<1>1. ThreadTypeOK'
  BY WokenType DEF detachBuffer
<1>2. /\ mSlots' \in [Slot -> BufferSlot]
      /\ mLastQueuedSlot' \in Slot \cup {INVALID_BUFFER_SLOT}
  BY ClearType DEF detachBuffer, TypeOK
<1>3. SlotTypeOK'
  BY <1>2 DEF detachBuffer, TypeOK, SlotTypeOK
<1> QED
  BY <1>1, <1>3, UnchangedType DEF detachBuffer, TypeOK

\* detachNextBuffer clears the slot at the head of mFreeBuffers.
LEMMA DetachNextType ==
    ASSUME TypeOK, NEW t \in Thread,
           detachNextBufferBlocks(t) \/ detachNextBuffer(t)
    PROVE  TypeOK'
<1>1. CASE detachNextBufferBlocks(t)
  BY <1>1, OnlyGotoType DEF detachNextBufferBlocks, PC
<1>2. CASE detachNextBuffer(t)
  <2>1. ThreadTypeOK'
    BY <1>2, GotoType DEF detachNextBuffer, PC, TypeOK, ThreadTypeOK
  <2>2. CASE mFreeBuffers = <<>>
    BY <1>2, <2>1, <2>2, UnchangedType DEF detachNextBuffer, TypeOK
  <2>3. CASE mFreeBuffers # <<>>
    <3>1. /\ mFreeBuffers' = Tail(mFreeBuffers)
          /\ mFreeSlots' = mFreeSlots \cup {Head(mFreeBuffers)}
          /\ clearBufferSlotLocked({Head(mFreeBuffers)})
          /\ UNCHANGED <<mUnusedSlots, mActiveBuffers>>
      BY <1>2, <2>3 DEF detachNextBuffer
    <3>2. Tail(mFreeBuffers) \in Seq(Slot) /\ Head(mFreeBuffers) \in Slot
      BY <2>3 DEF TypeOK, SlotTypeOK
    <3>3. SlotTypeOK'
      BY <3>1, <3>2, ClearType DEF TypeOK, SlotTypeOK
    <3> QED
      BY <1>2, <2>1, <3>3, UnchangedType DEF detachNextBuffer, TypeOK
  <2> QED
    BY <2>2, <2>3
<1> QED
  BY <1>1, <1>2

\* attachBuffer puts a buffer in the slot that it found.
LEMMA AttachType ==
    ASSUME TypeOK, NEW t \in Thread, NEW s \in Slot, NEW b \in Buffer,
           attachBuffer(t, s, b)
    PROVE  TypeOK'
<1>1. ThreadTypeOK'
  BY GotoType DEF attachBuffer, PC, TypeOK, ThreadTypeOK
<1>2. mSlots[s] \in BufferSlot /\ dequeue(mSlots[s].mBufferState) \in BufferState
  BY BufferStateType DEF TypeOK, SlotTypeOK, BufferSlot
<1>3. mSlots' \in [Slot -> BufferSlot]
  <2> DEFINE attached == [mSlots[s] EXCEPT
                            !.mGraphicBuffer = b,
                            !.mBufferState = dequeue(mSlots[s].mBufferState),
                            !.mRequestBufferCalled = TRUE,
                            !.mAcquireCalled = FALSE,
                            !.mNeedsReallocation = FALSE]
  <2>1. attached \in BufferSlot
    BY <1>2, SlotUpdateType
  <2>2. mSlots' = [mSlots EXCEPT ![s] = attached]
    BY DEF attachBuffer
  <2> HIDE DEF attached
  <2> QED
    BY <2>1, <2>2 DEF TypeOK, SlotTypeOK
<1>4. mFreeBuffers' \in Seq(Slot) /\ mFreeSlots' \in SUBSET Slot
  BY DEF attachBuffer, TakeFromFreeLists, FreeBufferFound, TypeOK, SlotTypeOK
<1>5. SlotTypeOK'
  BY <1>3, <1>4 DEF attachBuffer, TypeOK, SlotTypeOK
<1> QED
  BY <1>1, <1>5, UnchangedType DEF attachBuffer, TypeOK

\* attachBuffer's waits and early returns move one thread only.
LEMMA AttachLoopType ==
    ASSUME TypeOK, NEW t \in Thread,
           attachBufferBlocks(t) \/ attachWaitsOrGivesUp(t)
    PROVE  TypeOK'
<1>1. CASE attachBufferBlocks(t)
  BY <1>1, OnlyGotoType DEF attachBufferBlocks, PC
<1>2. CASE attachWaitsOrGivesUp(t)
  BY <1>2, WaitType DEF attachWaitsOrGivesUp
<1> QED
  BY <1>1, <1>2

\* Outside the drop loop the consumer's variables do not depend on mQueue.
LEMMA ConsumerElsewhereType ==
    ASSUME TypeOK, MutexFree, UNCHANGED consumerVars
    PROVE  ConsumerTypeOK'
  BY DEF MutexFree, consumerVars, TypeOK, ConsumerTypeOK

\* What queueBuffer puts into mQueue.
LEMMA QueuedItemType ==
    ASSUME TypeOK, NEW s \in Slot, NEW shared \in BOOLEAN, NEW timestamp \in Time,
           NEW isAuto \in BOOLEAN
    PROVE  QueuedItem(s, shared, timestamp, isAuto) \in BufferItem
  BY DEF QueuedItem, BufferItem, BufferSlot, TypeOK, SlotTypeOK, QueueTypeOK,
         LimitTypeOK

\* Appending to mQueue or replacing its last item keeps slots, lists and queue
\* well typed.
LEMMA EnqueueType ==
    ASSUME TypeOK, NEW slots \in [Slot -> BufferSlot], NEW item \in BufferItem,
           EnqueueOrReplace(slots, item)
    PROVE  /\ mQueue' \in Seq(BufferItem)
           /\ mSlots' \in [Slot -> BufferSlot]
           /\ mActiveBuffers' \in SUBSET Slot
           /\ mFreeBuffers' \in Seq(Slot)
<1> USE DEF TypeOK, SlotTypeOK, QueueTypeOK
<1>1. CASE mQueue # <<>> /\ Last(mQueue).mIsDroppable
  <2>1. Len(mQueue) \in Nat /\ Len(mQueue) > 0
    BY <1>1
  <2>2. Last(mQueue) \in BufferItem
    BY <2>1 DEF Last
  <2>3. Front(mQueue) \in Seq(BufferItem)
    BY <2>1 DEF Front
  <2>4. mQueue' \in Seq(BufferItem)
    BY <1>1, <2>3 DEF EnqueueOrReplace
  <2>5. CASE Last(mQueue).mIsStale
    BY <1>1, <2>4, <2>5 DEF EnqueueOrReplace
  <2>6. CASE ~Last(mQueue).mIsStale
    <3> DEFINE r == Last(mQueue).mSlot
               st == freeQueued(slots[r].mBufferState)
    <3>1. r \in Slot
      BY <2>2 DEF BufferItem
    <3>2. ReturnToFreeBuffers([slots EXCEPT ![r].mBufferState = st], r)
      BY <1>1, <2>6 DEF EnqueueOrReplace
    <3>3. st \in BufferState
      BY <3>1, BufferStateType DEF BufferSlot
    <3> HIDE DEF r, st
    <3>4. [slots EXCEPT ![r].mBufferState = st] \in [Slot -> BufferSlot]
      BY <3>1, <3>3, SlotStateType
    <3> QED
      BY <2>4, <3>1, <3>2, <3>4, ReturnType
  <2> QED
    BY <2>5, <2>6
<1>2. CASE ~(mQueue # <<>> /\ Last(mQueue).mIsDroppable)
  <2>1. /\ mQueue' = Append(mQueue, item) /\ mSlots' = slots
        /\ UNCHANGED <<mActiveBuffers, mFreeBuffers>>
    BY <1>2, Zenon DEF EnqueueOrReplace
  <2> QED
    BY <2>1
<1> QED
  BY <1>1, <1>2

\* A thread in queueBuffer goes to its callback; the sleepers are woken.
LEMMA QueueThreadType ==
    ASSUME TypeOK, NEW t \in Thread,
           pc' = Woken(Goto(t, "callback")),
           callbackTicket' = [callbackTicket EXCEPT ![t] = mNextCallbackTicket],
           currentFrameNumber' = [currentFrameNumber EXCEPT ![t] = mFrameCounter + 1],
           mNextCallbackTicket' = mNextCallbackTicket + 1,
           UNCHANGED <<mIsAllocating, outSlot, mCurrentCallbackTicket>>
    PROVE  ThreadTypeOK'
<1> USE DEF TypeOK, ThreadTypeOK, QueueTypeOK
<1>1. Goto(t, "callback") \in [Thread -> PC]
  BY DEF Goto, PC
<1>2. \A u \in Thread : Goto(t, "callback")[u] = "alloc" => pc[u] = "alloc"
  BY DEF Goto
<1>3. pc' \in [Thread -> PC]
  BY <1>1 DEF Woken, PC
<1>4. \A u \in Thread : pc'[u] = "alloc" => pc[u] = "alloc"
  BY <1>2 DEF Woken
<1>5. mFrameCounter + 1 \in Nat /\ mNextCallbackTicket' \in Nat
  OBVIOUS
<1>6. callbackTicket' \in [Thread -> Nat]
  OBVIOUS
<1>7. currentFrameNumber' \in [Thread -> Nat]
  BY <1>5
<1> QED
  BY <1>3, <1>4, <1>5, <1>6, <1>7

\* queueBuffer keeps every member well typed.
LEMMA QueueType ==
    ASSUME TypeOK, NEW t \in Thread, NEW s \in Slot, NEW timestamp \in Time,
           NEW isAuto \in BOOLEAN, queueBuffer(t, s, timestamp, isAuto)
    PROVE  TypeOK'
<1> DEFINE becomesShared == mSharedBufferMode
                            /\ mSharedBufferSlot = INVALID_BUFFER_SLOT
           isSharedSlot == mSharedBufferMode
                           /\ (becomesShared \/ mSharedBufferSlot = s)
           st == SharedIf(becomesShared, queue(mSlots[s].mBufferState))
           n == mFrameCounter + 1
           queued == [mSlots[s] EXCEPT !.mFrameNumber = n, !.mBufferState = st]
           slots == [mSlots EXCEPT ![s] = queued]
           item == QueuedItem(s, isSharedSlot, timestamp, isAuto)
<1>1. EnqueueOrReplace(slots, item)
  BY DEF queueBuffer
<1>2. item \in BufferItem
  BY QueuedItemType
<1>3. SharedTypeOK'
  BY DEF queueBuffer, TypeOK, SharedTypeOK
<1>4. mSlots[s] \in BufferSlot /\ mSlots[s].mBufferState \in BufferState
  BY DEF TypeOK, SlotTypeOK, BufferSlot
<1>5. st \in BufferState
  BY <1>4, BufferStateType
<1>6. n \in Nat
  BY DEF TypeOK, QueueTypeOK
<1> HIDE DEF st, n, item
<1>7. queued \in BufferSlot
  BY <1>4, <1>5, <1>6, SlotUpdateType
<1> HIDE DEF queued
<1>8. slots \in [Slot -> BufferSlot]
  BY <1>7 DEF TypeOK, SlotTypeOK
<1> HIDE DEF slots
<1>9. /\ mQueue' \in Seq(BufferItem)
      /\ mSlots' \in [Slot -> BufferSlot]
      /\ mActiveBuffers' \in SUBSET Slot
      /\ mFreeBuffers' \in Seq(Slot)
  BY <1>1, <1>2, <1>8, EnqueueType
<1>10. SlotTypeOK' /\ QueueTypeOK'
  BY <1>6, <1>9 DEF n, queueBuffer, TypeOK, SlotTypeOK, QueueTypeOK
<1>11. ThreadTypeOK'
  BY QueueThreadType DEF queueBuffer
<1>12. ConsumerTypeOK'
  BY ConsumerElsewhereType DEF queueBuffer
<1> QED
  BY <1>3, <1>10, <1>11, <1>12, UnchangedType DEF queueBuffer, TypeOK

\* So does the callback part of queueBuffer.
LEMMA QueueCallbackType ==
    ASSUME TypeOK, NEW t \in Thread, queueBufferCallback(t)
    PROVE  TypeOK'
<1>1. ThreadTypeOK'
  <2> USE DEF TypeOK, ThreadTypeOK
  <2>1. /\ pc' = Goto(t, "idle")
        /\ mCurrentCallbackTicket' = mCurrentCallbackTicket + 1
        /\ callbackTicket' = [callbackTicket EXCEPT ![t] = 0]
        /\ currentFrameNumber' = [currentFrameNumber EXCEPT ![t] = 0]
        /\ UNCHANGED <<mIsAllocating, outSlot, mNextCallbackTicket>>
    BY DEF queueBufferCallback
  <2>2. pc' \in [Thread -> PC]
    BY <2>1 DEF Goto, PC
  <2>3. \A u \in Thread : pc'[u] = "alloc" => pc[u] = "alloc"
    BY <2>1 DEF Goto
  <2> QED
    BY <2>1, <2>2, <2>3
<1> QED
  BY <1>1, UnchangedType DEF queueBufferCallback, TypeOK

\* requestBuffer, cancelBuffer and the queueBuffer that fails.
LEMMA SlotCallType ==
    ASSUME TypeOK, NEW s \in Slot,
           requestBuffer(s) \/ cancelBuffer(s) \/ queueBufferRejectsCrop(s)
    PROVE  TypeOK'
<1>1. CASE requestBuffer(s)
  <2>1. mSlots' = [mSlots EXCEPT ![s].mRequestBufferCalled = TRUE]
        /\ UNCHANGED <<listVars, mLastQueuedSlot>>
    BY <1>1 DEF requestBuffer
  <2>2. mSlots' \in [Slot -> BufferSlot]
    BY <2>1 DEF TypeOK, SlotTypeOK, BufferSlot
  <2>3. SlotTypeOK'
    BY <2>1, <2>2 DEF listVars, TypeOK, SlotTypeOK
  <2> QED
    BY <1>1, <2>3, UnchangedType DEF requestBuffer, TypeOK
<1>2. CASE cancelBuffer(s)
  <2> DEFINE st == cancel(mSlots[s].mBufferState)
  <2>1. st \in BufferState
    BY BufferStateType DEF TypeOK, SlotTypeOK, BufferSlot
  <2>2. ReturnToFreeBuffers([mSlots EXCEPT ![s].mBufferState = st], s)
    BY <1>2 DEF cancelBuffer
  <2> HIDE DEF st
  <2>3. [mSlots EXCEPT ![s].mBufferState = st] \in [Slot -> BufferSlot]
    BY <2>1, SlotStateType DEF TypeOK, SlotTypeOK
  <2>4. SlotTypeOK'
    BY <1>2, <2>2, <2>3, ReturnType DEF cancelBuffer, TypeOK, SlotTypeOK
  <2>5. ThreadTypeOK'
    BY <1>2, WokenType DEF cancelBuffer
  <2> QED
    BY <1>2, <2>4, <2>5, UnchangedType DEF cancelBuffer, TypeOK
<1>3. CASE queueBufferRejectsCrop(s)
  <2>1. mSlots' = [mSlots EXCEPT ![s].mBufferState.mShared = TRUE]
        /\ mSharedBufferSlot' = s
        /\ UNCHANGED <<listVars, mLastQueuedSlot, mSharedBufferMode, mAutoRefresh>>
    BY <1>3 DEF queueBufferRejectsCrop
  <2>2. mSlots' \in [Slot -> BufferSlot]
    <3>1. mSlots \in [Slot -> BufferSlot] /\ mSlots[s].mBufferState \in BufferState
      BY DEF TypeOK, SlotTypeOK, BufferSlot
    <3> QED
      BY <2>1, <3>1 DEF BufferSlot, BufferState
  <2>3. SlotTypeOK' /\ SharedTypeOK'
    BY <2>1, <2>2 DEF listVars, TypeOK, SlotTypeOK, SharedTypeOK
  <2> QED
    BY <1>3, <2>3, UnchangedType DEF queueBufferRejectsCrop, TypeOK
<1> QED
  BY <1>1, <1>2, <1>3

\* The counts and limits are integers.
LEMMA LimitsAreInt ==
    ASSUME TypeOK
    PROVE  /\ getMaxBufferCountLocked \in Int
           /\ \A async, cannotBlock \in BOOLEAN, n \in Int :
                 getMaxBufferCount(async, cannotBlock, n) \in Int
           /\ MAX_MAX_ACQUIRED_BUFFERS \in Int
  BY CoreAssumption
     DEF getMaxBufferCountLocked, getMaxBufferCount, ExtraBuffer,
         MAX_MAX_ACQUIRED_BUFFERS, TypeOK, LimitTypeOK

\* The calls of the producer that change a limit.
LEMMA ProducerLimitType ==
    ASSUME TypeOK,
           \/ \E n \in 1 .. NUM_BUFFER_SLOTS : setMaxDequeuedBufferCount(n)
           \/ \E async \in BOOLEAN : setAsyncMode(async)
           \/ \E timed \in BOOLEAN : setDequeueTimeout(timed)
           \/ \E allow \in BOOLEAN : allowAllocation(allow)
    PROVE  TypeOK'
<1>1. ASSUME NEW n \in 1 .. NUM_BUFFER_SLOTS, setMaxDequeuedBufferCount(n)
      PROVE  TypeOK'
  <2>1. n - mMaxDequeuedBufferCount \in Int
    BY CoreAssumption DEF TypeOK, LimitTypeOK
  <2>2. SlotTypeOK'
    BY <1>1, <2>1, AdjustType DEF setMaxDequeuedBufferCount, TypeOK
  <2>3. LimitTypeOK'
    BY <1>1 DEF setMaxDequeuedBufferCount, TypeOK, LimitTypeOK
  <2>4. ThreadTypeOK'
    BY <1>1, WokenType DEF setMaxDequeuedBufferCount
  <2> QED
    BY <1>1, <2>2, <2>3, <2>4, UnchangedType DEF setMaxDequeuedBufferCount, TypeOK
<1>2. ASSUME NEW async \in BOOLEAN, setAsyncMode(async)
      PROVE  TypeOK'
  <2> DEFINE delta == getMaxBufferCount(async, mDequeueBufferCannotBlock,
                                        mMaxBufferCount) - getMaxBufferCountLocked
  <2>1. delta \in Int
    BY LimitsAreInt, CoreAssumption DEF TypeOK, LimitTypeOK
  <2>2. adjustAvailableSlotsLocked(delta)
    BY <1>2 DEF setAsyncMode
  <2> HIDE DEF delta
  <2>3. SlotTypeOK'
    BY <2>1, <2>2, AdjustType DEF TypeOK
  <2>4. LimitTypeOK'
    BY <1>2 DEF setAsyncMode, TypeOK, LimitTypeOK
  <2>5. ThreadTypeOK'
    BY <1>2, WokenType DEF setAsyncMode
  <2> QED
    BY <1>2, <2>3, <2>4, <2>5, UnchangedType DEF setAsyncMode, TypeOK
<1>3. ASSUME NEW timed \in BOOLEAN, setDequeueTimeout(timed)
      PROVE  TypeOK'
  <2> DEFINE delta == getMaxBufferCount(mAsyncMode, FALSE, mMaxBufferCount)
                          - getMaxBufferCountLocked
  <2>1. delta \in Int
    BY CoreAssumption DEF getMaxBufferCount, getMaxBufferCountLocked, ExtraBuffer,
                          MAX_MAX_ACQUIRED_BUFFERS, TypeOK, LimitTypeOK
  <2>2. adjustAvailableSlotsLocked(delta)
    BY <1>3 DEF setDequeueTimeout
  <2> HIDE DEF delta
  <2>3. SlotTypeOK'
    BY <2>1, <2>2, AdjustType DEF TypeOK
  <2>4. LimitTypeOK'
    BY <1>3 DEF setDequeueTimeout, TypeOK, LimitTypeOK
  <2> QED
    BY <1>3, <2>3, <2>4, UnchangedType DEF setDequeueTimeout, TypeOK
<1>4. ASSUME NEW allow \in BOOLEAN, allowAllocation(allow)
      PROVE  TypeOK'
  <2>1. LimitTypeOK'
    BY <1>4 DEF allowAllocation, TypeOK, LimitTypeOK
  <2> QED
    BY <1>4, <2>1, UnchangedType DEF allowAllocation, TypeOK
<1> QED
  BY <1>1, <1>2, <1>3, <1>4

\* The calls that change the mode of shared buffers.
LEMMA SharedModeType ==
    ASSUME TypeOK,
           \/ \E shared \in BOOLEAN : setSharedBufferMode(shared)
           \/ \E autoRefresh \in BOOLEAN : setAutoRefresh(autoRefresh)
    PROVE  TypeOK'
<1>1. ASSUME NEW shared \in BOOLEAN, setSharedBufferMode(shared)
      PROVE  TypeOK'
  <2>1. SharedTypeOK'
    BY <1>1 DEF setSharedBufferMode, TypeOK, SharedTypeOK
  <2> QED
    BY <1>1, <2>1, UnchangedType DEF setSharedBufferMode, TypeOK
<1>2. ASSUME NEW autoRefresh \in BOOLEAN, setAutoRefresh(autoRefresh)
      PROVE  TypeOK'
  <2>1. SharedTypeOK'
    BY <1>2 DEF setAutoRefresh, TypeOK, SharedTypeOK
  <2> QED
    BY <1>2, <2>1, UnchangedType DEF setAutoRefresh, TypeOK
<1> QED
  BY <1>1, <1>2

\* freeAllBuffersLocked and the stale items it leaves keep their types.
LEMMA FreeAllType ==
    ASSUME TypeOK, freeAllBuffersLocked
    PROVE  SlotTypeOK' /\ MarkedStale(mQueue) \in Seq(BufferItem)
<1> DEFINE all == mFreeSlots \cup ToSet(mFreeBuffers) \cup mActiveBuffers
<1>1. all \in SUBSET Slot
  BY FreeBufferSetType DEF TypeOK, SlotTypeOK
<1>2. SlotTypeOK'
  BY <1>1, ClearType DEF freeAllBuffersLocked, TypeOK, SlotTypeOK
<1>3. \A item \in BufferItem :
         [item EXCEPT !.mIsStale = TRUE, !.mAcquireCalled = FALSE] \in BufferItem
  BY DEF BufferItem
<1>4. /\ Len(mQueue) \in Nat /\ DOMAIN mQueue = 1 .. Len(mQueue)
      /\ \A i \in DOMAIN mQueue : mQueue[i] \in BufferItem
  BY DEF TypeOK, QueueTypeOK
<1>5. MarkedStale(mQueue) \in [1 .. Len(mQueue) -> BufferItem]
  BY <1>3, <1>4 DEF MarkedStale
<1> QED
  BY <1>2, <1>4, <1>5

\* connect and disconnect keep the members of the connection well typed.
LEMMA ConnectType ==
    ASSUME TypeOK,
           \/ \E api \in Api \cup {UnknownApi}, byApp \in BOOLEAN : connect(api, byApp)
           \/ disconnect
    PROVE  TypeOK'
<1>1. ASSUME NEW api \in Api \cup {UnknownApi}, NEW byApp \in BOOLEAN,
             connect(api, byApp)
      PROVE  TypeOK'
  <2> DEFINE cannotBlock == /\ ~mDequeueTimeout
                            /\ mConsumerControlledByApp
                            /\ byApp
             delta == getMaxBufferCount(mAsyncMode, cannotBlock, mMaxBufferCount)
                          - getMaxBufferCountLocked
  <2>1. delta \in Int
    BY CoreAssumption DEF getMaxBufferCount, getMaxBufferCountLocked, ExtraBuffer,
                          MAX_MAX_ACQUIRED_BUFFERS, TypeOK, LimitTypeOK
  <2>2. adjustAvailableSlotsLocked(delta)
    BY <1>1 DEF connect
  <2> HIDE DEF delta
  <2>3. SlotTypeOK'
    BY <2>1, <2>2, AdjustType DEF TypeOK
  <2>4. LimitTypeOK' /\ ConnectionTypeOK' /\ QueueTypeOK'
    BY <1>1 DEF connect, TypeOK, LimitTypeOK, ConnectionTypeOK, QueueTypeOK
  <2>5. ConsumerTypeOK'
    BY <1>1, ConsumerElsewhereType DEF connect
  <2> QED
    BY <1>1, <2>3, <2>4, <2>5, UnchangedType DEF connect, TypeOK
<1>2. CASE disconnect
  <2>1. SlotTypeOK' /\ QueueTypeOK'
    BY <1>2, FreeAllType DEF disconnect, TypeOK, QueueTypeOK
  <2>2. ConnectionTypeOK' /\ SharedTypeOK'
    BY <1>2 DEF disconnect, TypeOK, ConnectionTypeOK, SharedTypeOK
  <2>3. ThreadTypeOK'
    BY <1>2, WokenType DEF disconnect
  <2>4. ConsumerTypeOK'
    BY <1>2, ConsumerElsewhereType DEF disconnect
  <2> QED
    BY <1>2, <2>1, <2>2, <2>3, <2>4, UnchangedType DEF disconnect, TypeOK
<1> QED
  BY <1>1, <1>2

\* acquireBuffer, when it takes the front of mQueue.
LEMMA AcquireFrontType ==
    ASSUME TypeOK, mQueue # <<>>, AcquireFront
    PROVE  TypeOK'
<1> DEFINE front == Head(mQueue)
           slot == mSlots[front.mSlot]
           st == acquire(slot.mBufferState)
           acquired == [slot EXCEPT !.mAcquireCalled = TRUE, !.mBufferState = st]
<1>1. front \in BufferItem /\ Tail(mQueue) \in Seq(BufferItem)
  BY DEF TypeOK, QueueTypeOK
<1>2. front.mSlot \in Slot
  BY <1>1 DEF BufferItem
<1>3. slot \in BufferSlot /\ st \in BufferState
  BY <1>2, BufferStateType DEF TypeOK, SlotTypeOK, BufferSlot
<1>4. mSlots' = IF front.mIsStale THEN mSlots
                                  ELSE [mSlots EXCEPT ![front.mSlot] = acquired]
  BY DEF AcquireFront
<1>5. mQueue' = Tail(mQueue)
  BY DEF AcquireFront
<1> HIDE DEF st, slot, front
<1>6. acquired \in BufferSlot
  BY <1>3, SlotUpdateType
<1> HIDE DEF acquired
<1>7. mSlots' \in [Slot -> BufferSlot]
  BY <1>2, <1>4, <1>6 DEF TypeOK, SlotTypeOK
<1>8. SlotTypeOK' /\ QueueTypeOK'
  BY <1>1, <1>5, <1>7 DEF AcquireFront, listVars, TypeOK, SlotTypeOK, QueueTypeOK
<1>9. ThreadTypeOK'
  BY WokenType DEF AcquireFront
<1>10. ConsumerTypeOK'
  BY CoreAssumption DEF AcquireFront, ConsumerTypeOK
<1> QED
  BY <1>8, <1>9, <1>10, UnchangedType DEF AcquireFront, TypeOK

\* The steps of an acquireBuffer that has an expectedPresent.
LEMMA DropLoopType ==
    ASSUME TypeOK,
           \/ \E expectedPresent \in Time, maxFrameNumber \in 0 .. MaxFrames :
                 acquireBufferTimed(expectedPresent, maxFrameNumber)
           \/ dropFront \/ acquireAfterDropping \/ presentLater
    PROVE  TypeOK'
<1>1. ASSUME NEW expectedPresent \in Time, NEW maxFrameNumber \in 0 .. MaxFrames,
             acquireBufferTimed(expectedPresent, maxFrameNumber)
      PROVE  TypeOK'
  <2>1. ConsumerTypeOK'
    BY <1>1, CoreAssumption
       DEF acquireBufferTimed, queueVars, TypeOK, ConsumerTypeOK
  <2> QED
    BY <1>1, <2>1, UnchangedType DEF acquireBufferTimed, TypeOK
<1>2. CASE dropFront
  <2> DEFINE front == Head(mQueue)
             st == freeQueued(mSlots[front.mSlot].mBufferState)
             slots == [mSlots EXCEPT ![front.mSlot].mBufferState = st]
  <2>1. Len(mQueue) \in Nat /\ Len(mQueue) > 1
    BY <1>2 DEF dropFront, DropsFront, TypeOK, QueueTypeOK
  <2>2. /\ front \in BufferItem
        /\ Tail(mQueue) \in Seq(BufferItem) /\ Tail(mQueue) # <<>>
    <3> DEFINE rest == Tail(mQueue)
    <3>1. mQueue \in Seq(BufferItem) /\ mQueue # <<>>
      BY <2>1 DEF TypeOK, QueueTypeOK
    <3>2. rest \in Seq(BufferItem) /\ front \in BufferItem
      BY <3>1
    <3>3. Len(rest) = Len(mQueue) - 1
      BY <3>1
    <3> HIDE DEF rest
    <3>4. rest # <<>>
      BY <2>1, <3>2, <3>3
    <3> QED
      BY <3>2, <3>4 DEF rest
  <2>3. front.mSlot \in Slot
    BY <2>2 DEF BufferItem
  <2>4. st \in BufferState
    BY <2>3, BufferStateType DEF TypeOK, SlotTypeOK, BufferSlot
  <2>5. mQueue' = Tail(mQueue)
        /\ IF front.mIsStale THEN UNCHANGED <<mSlots, mActiveBuffers, mFreeBuffers>>
                             ELSE ReturnToFreeBuffers(slots, front.mSlot)
    BY <1>2 DEF dropFront
  <2> HIDE DEF st, front
  <2>6. slots \in [Slot -> BufferSlot]
    BY <2>3, <2>4, SlotStateType DEF TypeOK, SlotTypeOK
  <2> HIDE DEF slots
  <2>7. /\ mSlots' \in [Slot -> BufferSlot]
        /\ mActiveBuffers' \in SUBSET Slot
        /\ mFreeBuffers' \in Seq(Slot)
    BY <2>3, <2>5, <2>6, ReturnType DEF TypeOK, SlotTypeOK
  <2>8. SlotTypeOK' /\ QueueTypeOK'
    BY <1>2, <2>2, <2>5, <2>7 DEF dropFront, TypeOK, SlotTypeOK, QueueTypeOK
  <2>9. ConsumerTypeOK'
    BY <1>2, <2>2, <2>5 DEF dropFront, consumerVars, TypeOK, ConsumerTypeOK
  <2> QED
    BY <1>2, <2>8, <2>9, UnchangedType DEF dropFront, TypeOK
<1>3. CASE acquireAfterDropping
  BY <1>3, AcquireFrontType DEF acquireAfterDropping, TypeOK, ConsumerTypeOK
<1>4. CASE presentLater
  <2>1. ConsumerTypeOK'
    BY <1>4, CoreAssumption DEF presentLater, ConsumerTypeOK
  <2> QED
    BY <1>4, <2>1, UnchangedType DEF presentLater, TypeOK
<1> QED
  BY <1>1, <1>2, <1>3, <1>4

\* The steps of an acquireBuffer of the shared buffer.
LEMMA AcquireSharedType ==
    ASSUME TypeOK,
           acquireSharedBufferBlocks \/ acquireSharedBuffer \/ acquireSharedOutOfRange
    PROVE  TypeOK'
<1>1. CASE acquireSharedBufferBlocks \/ acquireSharedOutOfRange
  <2>1. ConsumerTypeOK'
    BY <1>1 DEF acquireSharedBufferBlocks, acquireSharedOutOfRange, queueVars,
                TypeOK, ConsumerTypeOK
  <2> QED
    BY <1>1, <2>1, UnchangedType
       DEF acquireSharedBufferBlocks, acquireSharedOutOfRange, TypeOK
<1>2. CASE acquireSharedBuffer
  <2> DEFINE r == mSharedBufferSlot
             slot == mSlots[r]
             state == slot.mBufferState
             st == IF mQueue = <<>> THEN acquireNotInQueue(state) ELSE acquire(state)
             acquired == [slot EXCEPT !.mAcquireCalled = TRUE, !.mBufferState = st]
  <2>1. r \in Slot
    BY <1>2 DEF acquireSharedBuffer, TypeOK, SharedTypeOK
  <2>2. slot \in BufferSlot /\ st \in BufferState
    BY <2>1, BufferStateType DEF TypeOK, SlotTypeOK, BufferSlot
  <2>3. mSlots' = [mSlots EXCEPT ![r] = acquired]
    BY <1>2 DEF acquireSharedBuffer
  <2> HIDE DEF r, slot, st
  <2>4. acquired \in BufferSlot
    BY <2>2, SlotUpdateType
  <2> HIDE DEF acquired
  <2>5. SlotTypeOK'
    BY <1>2, <2>1, <2>3, <2>4
       DEF acquireSharedBuffer, listVars, TypeOK, SlotTypeOK
  <2>6. mQueue' \in Seq(BufferItem)
    BY <1>2 DEF acquireSharedBuffer, TypeOK, QueueTypeOK
  <2>7. QueueTypeOK'
    BY <1>2, <2>6 DEF acquireSharedBuffer, TypeOK, QueueTypeOK
  <2>8. ConsumerTypeOK'
    BY <1>2 DEF acquireSharedBuffer, TypeOK, ConsumerTypeOK
  <2>9. ThreadTypeOK'
    BY <1>2, WokenType DEF acquireSharedBuffer
  <2> QED
    BY <1>2, <2>5, <2>7, <2>8, <2>9, UnchangedType DEF acquireSharedBuffer, TypeOK
<1> QED
  BY <1>1, <1>2

\* The consumer's calls that name a slot.
LEMMA ReleaseType ==
    ASSUME TypeOK, NEW s \in Slot, NEW frameNumber, releaseBuffer(s, frameNumber)
    PROVE  TypeOK'
<1> DEFINE st == release(mSlots[s].mBufferState)
<1>1. st \in BufferState
  BY BufferStateType DEF TypeOK, SlotTypeOK, BufferSlot
<1>2. ReturnToFreeBuffers([mSlots EXCEPT ![s].mBufferState = st], s)
  BY DEF releaseBuffer
<1> HIDE DEF st
<1>3. [mSlots EXCEPT ![s].mBufferState = st] \in [Slot -> BufferSlot]
  BY <1>1, SlotStateType DEF TypeOK, SlotTypeOK
<1>4. SlotTypeOK'
  BY <1>2, <1>3, ReturnType DEF releaseBuffer, TypeOK, SlotTypeOK
<1>5. ThreadTypeOK'
  BY WokenType DEF releaseBuffer
<1> QED
  BY <1>4, <1>5, UnchangedType DEF releaseBuffer, TypeOK

\* The consumer's detachBuffer clears one slot.
LEMMA ConsumerDetachType ==
    ASSUME TypeOK, NEW s \in Slot, consumerDetachBuffer(s)
    PROVE  TypeOK'
<1>1. ThreadTypeOK'
  BY WokenType DEF consumerDetachBuffer
<1>2. /\ mSlots' \in [Slot -> BufferSlot]
      /\ mLastQueuedSlot' \in Slot \cup {INVALID_BUFFER_SLOT}
  BY ClearType DEF consumerDetachBuffer, TypeOK
<1>3. SlotTypeOK'
  BY <1>2 DEF consumerDetachBuffer, TypeOK, SlotTypeOK
<1> QED
  BY <1>1, <1>3, UnchangedType DEF consumerDetachBuffer, TypeOK

\* The consumer's attachBuffer fills one free slot.
LEMMA ConsumerAttachType ==
    ASSUME TypeOK, NEW s \in Slot, NEW b \in Buffer, consumerAttachBuffer(s, b)
    PROVE  TypeOK'
<1> DEFINE st == acquireNotInQueue(mSlots[s].mBufferState)
           attached == [mSlots[s] EXCEPT !.mGraphicBuffer = b,
                                         !.mBufferState = st,
                                         !.mNeedsReallocation = TRUE,
                                         !.mFrameNumber = 0,
                                         !.mAcquireCalled = FALSE]
<1>1. mSlots[s] \in BufferSlot /\ st \in BufferState
  BY BufferStateType DEF TypeOK, SlotTypeOK, BufferSlot
<1>2. mSlots' = [mSlots EXCEPT ![s] = attached]
  BY DEF consumerAttachBuffer
<1> HIDE DEF st
<1>3. attached \in BufferSlot
  BY <1>1, SlotUpdateType
<1> HIDE DEF attached
<1>4. mSlots' \in [Slot -> BufferSlot]
  BY <1>2, <1>3 DEF TypeOK, SlotTypeOK
<1>5. mFreeBuffers' \in Seq(Slot) /\ mFreeSlots' \in SUBSET Slot
  <2>1. mFreeBuffers \in Seq(Slot) /\ mFreeSlots \in SUBSET Slot
    BY DEF TypeOK, SlotTypeOK
  <2>2. CASE mFreeSlots' = mFreeSlots \ {s} /\ UNCHANGED mFreeBuffers
    BY <2>1, <2>2
  <2>3. CASE /\ mFreeBuffers # <<>> /\ mFreeBuffers' = Tail(mFreeBuffers)
             /\ UNCHANGED mFreeSlots
    BY <2>1, <2>3
  <2> QED
    BY <2>2, <2>3 DEF consumerAttachBuffer
<1>6. SlotTypeOK'
  BY <1>4, <1>5 DEF consumerAttachBuffer, TypeOK, SlotTypeOK
<1> QED
  BY <1>6, UnchangedType DEF consumerAttachBuffer, TypeOK

\* discardFreeBuffers clears the slots of mFreeBuffers.
LEMMA DiscardType ==
    ASSUME TypeOK, discardFreeBuffers
    PROVE  TypeOK'
<1>1. discardFreeBuffersLocked
  BY DEF discardFreeBuffers
<1>2. SlotTypeOK'
  BY <1>1, ClearType, FreeBufferSetType
     DEF discardFreeBuffersLocked, TypeOK, SlotTypeOK
<1> QED
  BY <1>2, UnchangedType DEF discardFreeBuffers, TypeOK

\* The consumer connects, or abandons the queue.
LEMMA ConsumerConnectType ==
    ASSUME TypeOK,
           (\E byApp \in BOOLEAN : consumerConnect(byApp)) \/ consumerDisconnect
    PROVE  TypeOK'
<1>1. ASSUME NEW byApp \in BOOLEAN, consumerConnect(byApp)
      PROVE  TypeOK'
  <2>1. ConnectionTypeOK'
    BY <1>1 DEF consumerConnect, TypeOK, ConnectionTypeOK
  <2> QED
    BY <1>1, <2>1, UnchangedType DEF consumerConnect, TypeOK
<1>2. CASE consumerDisconnect
  <2>1. SlotTypeOK'
    BY <1>2, FreeAllType DEF consumerDisconnect
  <2>2. ConnectionTypeOK' /\ SharedTypeOK'
    BY <1>2 DEF consumerDisconnect, TypeOK, ConnectionTypeOK, SharedTypeOK
  <2>5. <<>> \in Seq(BufferItem)
    OBVIOUS
  <2>6. QueueTypeOK'
    BY <1>2, <2>5 DEF consumerDisconnect, TypeOK, QueueTypeOK
  <2>3. ThreadTypeOK'
    BY <1>2, WokenType DEF consumerDisconnect
  <2>4. ConsumerTypeOK'
    BY <1>2, ConsumerElsewhereType DEF consumerDisconnect
  <2> QED
    BY <1>2, <2>1, <2>2, <2>3, <2>4, <2>6, UnchangedType
       DEF consumerDisconnect, TypeOK
<1> QED
  BY <1>1, <1>2

\* The consumer's limits stay in their ranges because the setters check them.
LEMMA ConsumerLimitType ==
    ASSUME TypeOK, NEW n \in 1 .. NUM_BUFFER_SLOTS,
           setMaxBufferCount(n) \/ setMaxAcquiredBufferCount(n)
    PROVE  TypeOK'
<1>0. n \in Int
  BY CoreAssumption
<1>1. CASE setMaxBufferCount(n)
  <2> DEFINE delta == getMaxBufferCount(mAsyncMode, mDequeueBufferCannotBlock, n)
                          - getMaxBufferCountLocked
  <2>1. delta \in Int
    BY <1>0, CoreAssumption
       DEF getMaxBufferCount, getMaxBufferCountLocked, ExtraBuffer,
           MAX_MAX_ACQUIRED_BUFFERS, TypeOK, LimitTypeOK
  <2>2. adjustAvailableSlotsLocked(delta)
    BY <1>1 DEF setMaxBufferCount
  <2> HIDE DEF delta
  <2>3. SlotTypeOK'
    BY <2>1, <2>2, AdjustType DEF TypeOK
  <2>4. LimitTypeOK'
    BY <1>1 DEF setMaxBufferCount, TypeOK, LimitTypeOK
  <2> QED
    BY <1>1, <2>3, <2>4, UnchangedType DEF setMaxBufferCount, TypeOK
<1>2. CASE setMaxAcquiredBufferCount(n)
  <2>1. n - mMaxAcquiredBufferCount \in Int
    BY <1>0, CoreAssumption DEF MAX_MAX_ACQUIRED_BUFFERS, TypeOK, LimitTypeOK
  <2>2. SlotTypeOK'
    BY <1>2, <2>1, AdjustType DEF setMaxAcquiredBufferCount, TypeOK
  <2>3. LimitTypeOK'
    BY <1>2 DEF setMaxAcquiredBufferCount, TypeOK, LimitTypeOK
  <2> QED
    BY <1>2, <2>2, <2>3, UnchangedType DEF setMaxAcquiredBufferCount, TypeOK
<1> QED
  BY <1>1, <1>2

\* The constructor establishes the type invariant.
LEMMA InitType == Init => TypeOK
<1> SUFFICES ASSUME Init PROVE TypeOK
  OBVIOUS
<1>0. 0 \in Slot /\ 1 \in Slot
  BY CoreAssumption DEF Slot
<1>1. SlotTypeOK
  BY <1>0, ClearedSlotType DEF Init, SlotTypeOK
<1>2. QueueTypeOK
  <2>1. <<>> \in Seq(BufferItem)
    OBVIOUS
  <2> QED
    BY <2>1 DEF Init, QueueTypeOK
<1>3. ConnectionTypeOK /\ SharedTypeOK
  BY DEF Init, ConnectionTypeOK, SharedTypeOK
<1>6. LimitTypeOK
  <2>1. /\ 1 \in 1 .. MAX_MAX_ACQUIRED_BUFFERS /\ 1 \in 1 .. NUM_BUFFER_SLOTS
        /\ NUM_BUFFER_SLOTS \in 1 .. NUM_BUFFER_SLOTS
    BY CoreAssumption DEF MAX_MAX_ACQUIRED_BUFFERS
  <2> QED
    BY <2>1 DEF Init, LimitTypeOK
<1>4. ThreadTypeOK
  BY DEF Init, ThreadTypeOK, PC
<1>5. ConsumerTypeOK
  BY CoreAssumption DEF Init, ConsumerTypeOK
<1> QED
  BY <1>1, <1>2, <1>3, <1>4, <1>5, <1>6 DEF TypeOK

\* The steps of one producer thread, whatever calls it makes.
LEMMA ThreadStepType ==
    ASSUME TypeOK, NEW t \in Thread, ThreadStep(t)
    PROVE  TypeOK'
<1>0. /\ AllocatorResults \subseteq Buffer \cup {NullBuffer}
      /\ FreshBuffers \subseteq Buffer
  BY DEF AllocatorResults, FreshBuffers
<1>1. CASE Dequeueing(t)
  <2>1. ASSUME NEW s \in Slot,
               dequeueTakesSlot(t, s, mSlots[s].mGraphicBuffer = NullBuffer)
        PROVE  TypeOK'
    <3>1. (mSlots[s].mGraphicBuffer = NullBuffer) \in BOOLEAN
      OBVIOUS
    <3> QED
      BY <2>1, <3>1, DequeueTakesType
  <2>2. ASSUME NEW s \in Slot,
               dequeueRejectsBuffer(t, s) \/ dequeueTakesSlot(t, s, TRUE)
        PROVE  TypeOK'
    BY <2>2, DequeueRejectsType, DequeueTakesType
  <2>3. ASSUME NEW b \in AllocatorResults, dequeueAllocated(t, b)
        PROVE  TypeOK'
    BY <1>0, <2>3, DequeueAllocatedType
  <2> QED
    BY <1>1, <2>1, <2>2, <2>3, DequeueLoopType DEF Dequeueing
<1>2. CASE Preallocating(t)
  BY <1>0, <1>2, AllocateBuffersType, AllocateBuffersAllocatedType DEF Preallocating
<1>3. CASE Attaching(t)
  BY <1>0, <1>3, AttachLoopType, AttachType DEF Attaching
<1>4. CASE DetachingNext(t)
  BY <1>4, DetachNextType DEF DetachingNext
<1>5. CASE Queueing(t)
  BY <1>5, OpsAssumption, QueueType, QueueCallbackType, DequeueLoopType DEF Queueing
<1> QED
  BY <1>1, <1>2, <1>3, <1>4, <1>5 DEF ThreadStep

\* Every call of the producer that is one critical section keeps TypeOK.
LEMMA ProducerCallType ==
    ASSUME TypeOK, ProducerCall
    PROVE  TypeOK'
<1>1. (~mAsyncMode) \in BOOLEAN /\ (~mAllowAllocation) \in BOOLEAN
      /\ (~mAutoRefresh) \in BOOLEAN /\ ControlledByApp \subseteq BOOLEAN
  BY OpsAssumption
<1> QED
  BY <1>1, SlotCallType, DetachType, ProducerLimitType, SharedModeType,
     ConnectType DEF ProducerCall

\* Every call of the consumer keeps TypeOK.
LEMMA ConsumerCallType ==
    ASSUME TypeOK, ConsumerCall
    PROVE  TypeOK'
<1>1. ControlledByApp \subseteq BOOLEAN /\ FreshBuffers \subseteq Buffer
  BY OpsAssumption DEF FreshBuffers
<1>2. ASSUME acquireBuffer PROVE TypeOK'
  BY <1>2, AcquireFrontType DEF acquireBuffer
<1> QED
  BY <1>1, <1>2, DropLoopType, AcquireSharedType, ReleaseType,
     ConsumerDetachType, ConsumerAttachType, DiscardType, ConsumerConnectType,
     ConsumerLimitType DEF ConsumerCall

\* TypeOK is inductive as it stands.
LEMMA NextType == TypeOK /\ [Next]_vars => TypeOK'
<1> SUFFICES ASSUME TypeOK, [Next]_vars PROVE TypeOK'
  OBVIOUS
<1>1. CASE Next
  BY <1>1, ThreadStepType, ProducerCallType, ConsumerCallType, DequeueLoopType
     DEF Next
<1>2. CASE UNCHANGED vars
  BY <1>2, UnchangedType DEF vars, TypeOK
<1> QED
  BY <1>1, <1>2

\* Every member of BufferQueueCore keeps its type, the slot numbers stay in
\* range and the limits within their maxima, through every interleaving of the
\* producer's and the consumer's calls, for any number of slots and threads.
THEOREM TypeCorrect == Spec => []TypeOK
  BY InitType, NextType, PTL DEF Spec

-----------------------------------------------------------------------------
(* What a step may do to the frames and to the callbacks                   *)

\* Neither a frame nor a ticket is handed out, and no callback is made.
TicketsKept ==
    /\ UNCHANGED <<mFrameCounter, callbackTicket, currentFrameNumber, ticketVars>>
    /\ \A t \in Thread : pc'[t] = "callback" <=> pc[t] = "callback"

\* All that a step other than queueBuffer does to mQueue.
QueueNotExtended ==
    \/ UNCHANGED mQueue
    \/ mQueue # <<>> /\ mQueue' = Tail(mQueue)
    \/ mQueue' = MarkedStale(mQueue)
    \/ mQueue' = <<>>

QuietStep == TicketsKept /\ QueueNotExtended

QueueBufferStep ==
    \E t \in Thread, s \in Slot, timestamp \in Time, isAuto \in BOOLEAN :
        queueBuffer(t, s, timestamp, isAuto)

CallbackStep == \E t \in Thread : queueBufferCallback(t)

\* A broadcast, and a thread that moves between other places, change nothing
\* about who is in a callback.
LEMMA WokenQuiet ==
    ASSUME pc' = Woken(pc)
    PROVE  \A t \in Thread : pc'[t] = "callback" <=> pc[t] = "callback"
  BY DEF Woken

\* So does a thread that moves between places outside the callback.
LEMMA GotoQuiet ==
    ASSUME TypeOK, NEW t \in Thread, NEW where, pc[t] # "callback",
           where # "callback", pc' = Goto(t, where)
    PROVE  \A u \in Thread : pc'[u] = "callback" <=> pc[u] = "callback"
  BY DEF Goto, TypeOK, ThreadTypeOK

\* A step of a producer thread is quiet, a queueBuffer or a callback.
LEMMA ThreadStepKinds ==
    ASSUME TypeOK, NEW t \in Thread, ThreadStep(t) \/ spuriousWakeup(t)
    PROVE  QuietStep \/ QueueBufferStep \/ CallbackStep
<1> USE DEF QuietStep, TicketsKept, QueueNotExtended, queueVars, localVars
<1>1. ASSUME NEW caller, pc[t] # "callback", waitForFreeSlotThenRelock(t, caller)
      PROVE  QuietStep
  <2>1. PICK where : where # "callback" /\ pc' = Goto(t, where)
    BY <1>1 DEF waitForFreeSlotThenRelock
  <2> QED
    BY <1>1, <2>1, GotoQuiet DEF waitForFreeSlotThenRelock
<1>2. CASE Dequeueing(t)
  <2>1. CASE dequeueBuffer(t)
    BY <2>1, GotoQuiet DEF dequeueBuffer
  <2>2. CASE dequeueWaitsOrGivesUp(t)
    BY <1>1, <2>2 DEF dequeueWaitsOrGivesUp, InDequeueLoop
  <2>3. CASE dequeueDereferencesNull(t)
    BY <2>3, GotoQuiet DEF dequeueDereferencesNull, InDequeueLoop
  <2>4. ASSUME NEW s \in Slot, NEW r, dequeueTakesSlot(t, s, r)
        PROVE  QuietStep
    <3>1. PICK where : where # "callback" /\ pc' = Goto(t, where)
      BY <2>4 DEF dequeueTakesSlot
    <3> QED
      BY <2>4, <3>1, GotoQuiet DEF dequeueTakesSlot, InDequeueLoop
  <2>5. ASSUME NEW s \in Slot, dequeueRejectsBuffer(t, s)
        PROVE  QuietStep
    <3>1. PICK where : where # "callback" /\ pc' = Goto(t, where)
      BY <2>5 DEF dequeueRejectsBuffer
    <3> QED
      BY <2>5, <3>1, GotoQuiet DEF dequeueRejectsBuffer, InDequeueLoop
  <2>6. ASSUME NEW b, dequeueAllocated(t, b)
        PROVE  QuietStep
    BY <2>6, GotoQuiet DEF dequeueAllocated
  <2>7. CASE waitTimesOut(t)
    BY <2>7, GotoQuiet DEF waitTimesOut
  <2> QED
    BY <1>2, <2>1, <2>2, <2>3, <2>4, <2>5, <2>6, <2>7 DEF Dequeueing
<1>3. CASE Preallocating(t)
  <2>1. CASE allocateBuffers(t)
    <3>1. PICK where : where # "callback" /\ pc' = Goto(t, where)
      BY <2>1 DEF allocateBuffers
    <3> QED
      BY <2>1, <3>1, GotoQuiet DEF allocateBuffers
  <2>2. ASSUME NEW b, NEW r, allocateBuffersAllocated(t, b, r)
        PROVE  QuietStep
    <3>1. PICK where : where # "callback" /\ pc' = Goto(t, where)
      BY <2>2 DEF allocateBuffersAllocated
    <3> QED
      BY <2>2, <3>1, GotoQuiet DEF allocateBuffersAllocated
  <2> QED
    BY <1>3, <2>1, <2>2 DEF Preallocating
<1>4. CASE Attaching(t)
  <2>1. CASE attachBufferBlocks(t)
    BY <2>1, GotoQuiet DEF attachBufferBlocks
  <2>2. CASE attachWaitsOrGivesUp(t)
    BY <1>1, <2>2 DEF attachWaitsOrGivesUp, InAttachLoop
  <2>3. ASSUME NEW s \in Slot, NEW b, attachBuffer(t, s, b)
        PROVE  QuietStep
    BY <2>3, GotoQuiet DEF attachBuffer, InAttachLoop
  <2> QED
    BY <1>4, <2>1, <2>2, <2>3 DEF Attaching
<1>5. CASE DetachingNext(t)
  BY <1>5, GotoQuiet DEF DetachingNext, detachNextBufferBlocks, detachNextBuffer
<1>6. CASE Queueing(t)
  <2>1. ASSUME NEW s \in Slot, queueBufferDereferencesNull(t, s) PROVE QuietStep
    BY <2>1, GotoQuiet DEF queueBufferDereferencesNull
  <2> QED
    BY <1>6, <2>1, OpsAssumption DEF Queueing, QueueBufferStep, CallbackStep
<1>7. CASE spuriousWakeup(t)
  <2>1. pc[t] # "callback" /\ Woken(pc)[t] # "callback"
    BY <1>7 DEF spuriousWakeup, Woken
  <2> QED
    BY <1>7, <2>1, GotoQuiet DEF spuriousWakeup
<1> QED
  BY <1>2, <1>3, <1>4, <1>5, <1>6, <1>7 DEF ThreadStep

\* The producer's other calls are quiet.
LEMMA ProducerCallQuiet ==
    ASSUME TypeOK, ProducerCall
    PROVE  QuietStep
<1> USE DEF QuietStep, TicketsKept, QueueNotExtended, queueVars, localVars
<1>1. ASSUME NEW s \in Slot,
             \/ requestBuffer(s) \/ detachBuffer(s) \/ cancelBuffer(s)
             \/ queueBufferRejectsCrop(s)
      PROVE  QuietStep
  BY <1>1, WokenQuiet
     DEF requestBuffer, detachBuffer, cancelBuffer, queueBufferRejectsCrop
<1>2. ASSUME NEW n, setMaxDequeuedBufferCount(n)
      PROVE  QuietStep
  BY <1>2, WokenQuiet DEF setMaxDequeuedBufferCount
<1>3. ASSUME NEW x, setAsyncMode(x)
      PROVE  QuietStep
  BY <1>3, WokenQuiet DEF setAsyncMode
<1>4. ASSUME NEW x, \/ setDequeueTimeout(x) \/ allowAllocation(x)
                    \/ setSharedBufferMode(x) \/ setAutoRefresh(x)
      PROVE  QuietStep
  BY <1>4 DEF setDequeueTimeout, allowAllocation, setSharedBufferMode, setAutoRefresh
<1>5. ASSUME NEW api, NEW byApp, connect(api, byApp)
      PROVE  QuietStep
  BY <1>5 DEF connect
<1>6. CASE disconnect
  BY <1>6, WokenQuiet DEF disconnect
<1> QED
  BY <1>1, <1>2, <1>3, <1>4, <1>5, <1>6 DEF ProducerCall

\* The consumer's calls are quiet: they shorten mQueue, mark it or leave it.
LEMMA ConsumerCallQuiet ==
    ASSUME TypeOK, ConsumerCall
    PROVE  QuietStep
<1> USE DEF QuietStep, TicketsKept, QueueNotExtended, queueVars, localVars
<1>1. ASSUME mQueue # <<>>, AcquireFront
      PROVE  QuietStep
  BY <1>1, WokenQuiet DEF AcquireFront
<1>2. ASSUME acquireBuffer \/ acquireAfterDropping
      PROVE  QuietStep
  BY <1>1, <1>2 DEF acquireBuffer, acquireAfterDropping, TypeOK, ConsumerTypeOK
<1>3. ASSUME NEW x, NEW y, acquireBufferTimed(x, y)
      PROVE  QuietStep
  BY <1>3 DEF acquireBufferTimed
<1>4. CASE dropFront
  BY <1>4 DEF dropFront, TypeOK, ConsumerTypeOK
<1>5. CASE presentLater
  BY <1>5 DEF presentLater
<1>6. CASE acquireSharedBufferBlocks \/ acquireSharedOutOfRange
  BY <1>6 DEF acquireSharedBufferBlocks, acquireSharedOutOfRange
<1>7. CASE acquireSharedBuffer
  BY <1>7, WokenQuiet DEF acquireSharedBuffer
<1>8. ASSUME NEW s \in Slot, NEW n, releaseBuffer(s, n)
      PROVE  QuietStep
  BY <1>8, WokenQuiet DEF releaseBuffer
<1>9. ASSUME NEW s \in Slot, consumerDetachBuffer(s)
      PROVE  QuietStep
  BY <1>9, WokenQuiet DEF consumerDetachBuffer
<1>10. ASSUME NEW s \in Slot, NEW b, consumerAttachBuffer(s, b)
       PROVE  QuietStep
  BY <1>10 DEF consumerAttachBuffer
<1>11. CASE discardFreeBuffers
  BY <1>11 DEF discardFreeBuffers
<1>12. ASSUME NEW x, consumerConnect(x) \/ setMaxBufferCount(x)
                     \/ setMaxAcquiredBufferCount(x)
       PROVE  QuietStep
  BY <1>12 DEF consumerConnect, setMaxBufferCount, setMaxAcquiredBufferCount
<1>13. CASE consumerDisconnect
  BY <1>13, WokenQuiet DEF consumerDisconnect
<1> QED
  BY <1>2, <1>3, <1>4, <1>5, <1>6, <1>7, <1>8, <1>9, <1>10, <1>11, <1>12, <1>13
     DEF ConsumerCall

\* Every step is quiet, a queueBuffer or a callback.
LEMMA StepKinds ==
    ASSUME TypeOK, [Next]_vars
    PROVE  QuietStep \/ QueueBufferStep \/ CallbackStep
<1>1. CASE Next
  BY <1>1, ThreadStepKinds, ProducerCallQuiet, ConsumerCallQuiet DEF Next
<1>2. CASE UNCHANGED vars
  BY <1>2 DEF vars, queueVars, localVars, QuietStep, TicketsKept, QueueNotExtended
<1> QED
  BY <1>1, <1>2

\* What queueBuffer does to mQueue: the new item has the next frame number and
\* goes to the end, after the last item or in its place.
LEMMA QueueBufferEffect ==
    ASSUME TypeOK, QueueBufferStep
    PROVE  /\ mFrameCounter' = mFrameCounter + 1
           /\ \E item \in BufferItem :
                 /\ item.mFrameNumber = mFrameCounter + 1
                 /\ mQueue' = IF mQueue # <<>> /\ Last(mQueue).mIsDroppable
                                 THEN Append(Front(mQueue), item)
                                 ELSE Append(mQueue, item)
<1>1. PICK t \in Thread, s \in Slot, timestamp \in Time, isAuto \in BOOLEAN :
         queueBuffer(t, s, timestamp, isAuto)
  BY DEF QueueBufferStep
<1> DEFINE isSharedSlot == mSharedBufferMode
                           /\ (\/ mSharedBufferMode
                                  /\ mSharedBufferSlot = INVALID_BUFFER_SLOT
                               \/ mSharedBufferSlot = s)
           item == QueuedItem(s, isSharedSlot, timestamp, isAuto)
<1>2. PICK slots : EnqueueOrReplace(slots, item)
  BY <1>1 DEF queueBuffer
<1>3. isSharedSlot \in BOOLEAN
  OBVIOUS
<1>4. item \in BufferItem
  BY <1>3, QueuedItemType
<1>5. item.mFrameNumber = mFrameCounter + 1
  BY DEF QueuedItem
<1>6. mQueue' = IF mQueue # <<>> /\ Last(mQueue).mIsDroppable
                   THEN Append(Front(mQueue), item) ELSE Append(mQueue, item)
  BY <1>2, Zenon DEF EnqueueOrReplace
<1>7. mFrameCounter' = mFrameCounter + 1
  BY <1>1 DEF queueBuffer
<1> HIDE DEF item
<1> QED
  BY <1>4, <1>5, <1>6, <1>7

-----------------------------------------------------------------------------
(* Frames are delivered in order                                           *)

\* The order of the frames, for any sequence of items.
InOrder(q, n) ==
    /\ \A i, j \in DOMAIN q : i < j => q[i].mFrameNumber < q[j].mFrameNumber
    /\ \A i \in DOMAIN q : q[i].mFrameNumber <= n

\* Taking the oldest item keeps the order.
LEMMA InOrderTail ==
    ASSUME NEW q \in Seq(BufferItem), NEW n \in Nat, q # <<>>, InOrder(q, n)
    PROVE  InOrder(Tail(q), n)
<1>1. /\ Len(Tail(q)) = Len(q) - 1 /\ Len(q) \in Nat /\ Len(q) > 0
      /\ DOMAIN Tail(q) = 1 .. Len(q) - 1 /\ DOMAIN q = 1 .. Len(q)
      /\ \A i \in 1 .. Len(q) - 1 : Tail(q)[i] = q[i + 1]
  OBVIOUS
<1>2. \A i \in DOMAIN Tail(q) : i \in Int /\ i + 1 \in DOMAIN q
  BY <1>1
<1>3. \A i, j \in DOMAIN Tail(q) : i < j => i + 1 < j + 1
  BY <1>2
<1>4. \A i \in DOMAIN Tail(q) : Tail(q)[i] = q[i + 1]
  BY <1>1
<1> QED
  BY <1>2, <1>3, <1>4 DEF InOrder

\* Giving up the newest item keeps the order.
LEMMA InOrderFront ==
    ASSUME NEW q \in Seq(BufferItem), NEW n \in Nat, q # <<>>, InOrder(q, n)
    PROVE  Front(q) \in Seq(BufferItem) /\ InOrder(Front(q), n)
<1>1. Len(q) \in Nat /\ Len(q) > 0 /\ DOMAIN q = 1 .. Len(q)
  OBVIOUS
<1>2. Front(q) \in Seq(BufferItem)
  BY <1>1 DEF Front
<1>3. DOMAIN Front(q) = 1 .. Len(q) - 1
  BY <1>1 DEF Front
<1>4. \A i \in DOMAIN Front(q) : i \in DOMAIN q /\ Front(q)[i] = q[i]
  BY <1>1 DEF Front
<1> QED
  BY <1>2, <1>4 DEF InOrder

\* An item with the next frame number goes to the end.
LEMMA InOrderAppend ==
    ASSUME NEW q \in Seq(BufferItem), NEW n \in Nat, InOrder(q, n),
           NEW item \in BufferItem, item.mFrameNumber = n + 1
    PROVE  InOrder(Append(q, item), n + 1)
<1> DEFINE r == Append(q, item)
<1>1. /\ Len(q) \in Nat /\ DOMAIN q = 1 .. Len(q)
      /\ DOMAIN r = 1 .. Len(q) + 1
      /\ \A i \in DOMAIN q : r[i] = q[i]
      /\ r[Len(q) + 1] = item
  OBVIOUS
<1> HIDE DEF r
<1>2. \A i \in DOMAIN q : q[i].mFrameNumber \in Nat
  <2>1. \A i \in DOMAIN q : q[i] \in BufferItem
    OBVIOUS
  <2>2. \A x \in BufferItem : x.mFrameNumber \in Nat
    BY DEF BufferItem
  <2> QED
    BY <2>1, <2>2
<1>3. \A i \in DOMAIN r : (i \in DOMAIN q /\ i < Len(q) + 1) \/ i = Len(q) + 1
  BY <1>1
<1>4. \A i \in DOMAIN r : r[i].mFrameNumber \in Nat /\ r[i].mFrameNumber <= n + 1
  BY <1>1, <1>2, <1>3 DEF InOrder
<1>5. ASSUME NEW i \in DOMAIN r, NEW j \in DOMAIN r, i < j
      PROVE  r[i].mFrameNumber < r[j].mFrameNumber
  <2>1. i \in DOMAIN q
    BY <1>1, <1>3, <1>5
  <2>2. CASE j \in DOMAIN q
    BY <1>1, <1>5, <2>1, <2>2 DEF InOrder
  <2>3. CASE j = Len(q) + 1
    <3>1. r[i].mFrameNumber <= n /\ r[i].mFrameNumber \in Nat
      BY <1>1, <1>2, <2>1 DEF InOrder
    <3>2. r[j].mFrameNumber = n + 1
      BY <1>1, <2>3
    <3> QED
      BY <3>1, <3>2
  <2> QED
    BY <1>3, <2>2, <2>3
<1> QED
  BY <1>4, <1>5 DEF InOrder, r

\* Marking the items stale keeps their frame numbers.
LEMMA InOrderStale ==
    ASSUME NEW q \in Seq(BufferItem), NEW n \in Nat, InOrder(q, n)
    PROVE  InOrder(MarkedStale(q), n)
<1>1. \A i \in DOMAIN q : q[i] \in BufferItem
  OBVIOUS
<1>2. \A item \in BufferItem :
         [item EXCEPT !.mIsStale = TRUE, !.mAcquireCalled = FALSE].mFrameNumber
             = item.mFrameNumber
  BY DEF BufferItem
<1>3. /\ DOMAIN MarkedStale(q) = DOMAIN q
      /\ \A i \in DOMAIN q : MarkedStale(q)[i].mFrameNumber = q[i].mFrameNumber
  BY <1>1, <1>2 DEF MarkedStale
<1> QED
  BY <1>3 DEF InOrder

\* FramesInOrder is inductive relative to TypeOK.
LEMMA FramesInOrderStep == TypeOK /\ FramesInOrder /\ [Next]_vars => FramesInOrder'
<1> SUFFICES ASSUME TypeOK, FramesInOrder, [Next]_vars PROVE FramesInOrder'
  OBVIOUS
<1>1. /\ mQueue \in Seq(BufferItem) /\ mFrameCounter \in Nat
      /\ InOrder(mQueue, mFrameCounter)
  BY DEF TypeOK, QueueTypeOK, FramesInOrder, InOrder
<1>2. InOrder(mQueue', mFrameCounter')
  <2>1. CASE QuietStep
    <3>1. mFrameCounter' = mFrameCounter
      BY <2>1 DEF QuietStep, TicketsKept
    <3>2. InOrder(<<>>, mFrameCounter)
      BY DEF InOrder
    <3>3. InOrder(mQueue', mFrameCounter)
      BY <1>1, <2>1, <3>2, InOrderTail, InOrderStale
         DEF QuietStep, QueueNotExtended
    <3> QED
      BY <3>1, <3>3
  <2>2. CASE QueueBufferStep
    <3>1. /\ mFrameCounter' = mFrameCounter + 1
          /\ \E item \in BufferItem :
                 /\ item.mFrameNumber = mFrameCounter + 1
                 /\ mQueue' = IF mQueue # <<>> /\ Last(mQueue).mIsDroppable
                                 THEN Append(Front(mQueue), item)
                                 ELSE Append(mQueue, item)
      BY <2>2, QueueBufferEffect
    <3>2. PICK item \in BufferItem :
             /\ item.mFrameNumber = mFrameCounter + 1
             /\ \/ mQueue # <<>> /\ mQueue' = Append(Front(mQueue), item)
                \/ mQueue' = Append(mQueue, item)
      BY <3>1, Zenon
    <3> QED
      BY <1>1, <3>1, <3>2, InOrderFront, InOrderAppend
  <2>3. CASE CallbackStep
    BY <1>1, <2>3 DEF CallbackStep, queueBufferCallback, queueVars
  <2> QED
    BY <2>1, <2>2, <2>3, StepKinds
<1> QED
  BY <1>2 DEF FramesInOrder, InOrder

\* No interleaving of calls, replacement, drop, disconnection or change of mode
\* makes the consumer see the frames of a BufferQueue out of order.
THEOREM FramesStayInOrder == Spec => []FramesInOrder
<1>1. Init => FramesInOrder
  BY DEF Init, FramesInOrder
<1> QED
  BY <1>1, TypeCorrect, FramesInOrderStep, PTL DEF Spec

-----------------------------------------------------------------------------
(* Callbacks are made in order                                             *)

\* The inductive invariant: CallbacksInOrder, and the frames in a callback are
\* among those that were counted.
CallbackInv ==
    /\ CallbacksInOrder
    /\ mCurrentCallbackTicket <= mNextCallbackTicket
    /\ \A t \in Thread : pc[t] = "callback" => currentFrameNumber[t] <= mFrameCounter

\* A queueBuffer that takes the next ticket keeps the callbacks in order.
LEMMA QueueBufferKeepsCallbacks ==
    ASSUME TypeOK, CallbackInv, QueueBufferStep
    PROVE  CallbackInv'
<1>1. PICK t \in Thread, s \in Slot, timestamp \in Time, isAuto \in BOOLEAN :
         queueBuffer(t, s, timestamp, isAuto)
  BY DEF QueueBufferStep
<1>2. /\ pc[t] = "idle"
      /\ mFrameCounter' = mFrameCounter + 1
      /\ callbackTicket' = [callbackTicket EXCEPT ![t] = mNextCallbackTicket]
      /\ currentFrameNumber' = [currentFrameNumber EXCEPT ![t] = mFrameCounter + 1]
      /\ mNextCallbackTicket' = mNextCallbackTicket + 1
      /\ mCurrentCallbackTicket' = mCurrentCallbackTicket
      /\ pc' = Woken(Goto(t, "callback"))
  BY <1>1 DEF queueBuffer
<1>3. /\ pc \in [Thread -> PC]
      /\ callbackTicket \in [Thread -> Nat] /\ currentFrameNumber \in [Thread -> Nat]
      /\ mNextCallbackTicket \in Nat /\ mCurrentCallbackTicket \in Nat
      /\ mFrameCounter \in Nat
  BY DEF TypeOK, ThreadTypeOK, QueueTypeOK
<1>4. \A u \in Thread : pc'[u] = "callback" <=> (u = t \/ pc[u] = "callback")
  BY <1>2, <1>3 DEF Woken, Goto
<1>5. /\ callbackTicket'[t] = mNextCallbackTicket
      /\ currentFrameNumber'[t] = mFrameCounter + 1
      /\ \A u \in Thread : u # t =>
            /\ callbackTicket'[u] = callbackTicket[u]
            /\ currentFrameNumber'[u] = currentFrameNumber[u]
  BY <1>2, <1>3
<1>6. \A u \in Thread : u # t /\ pc'[u] = "callback" =>
         /\ callbackTicket[u] \in mCurrentCallbackTicket .. mNextCallbackTicket - 1
         /\ currentFrameNumber[u] <= mFrameCounter
         /\ callbackTicket[u] \in Nat /\ currentFrameNumber[u] \in Nat
  BY <1>3, <1>4 DEF CallbackInv, CallbacksInOrder
<1>7. ASSUME NEW n \in mCurrentCallbackTicket' .. mNextCallbackTicket' - 1
      PROVE  \E u \in Thread : pc'[u] = "callback" /\ callbackTicket'[u] = n
  <2>1. n = mNextCallbackTicket
        \/ n \in mCurrentCallbackTicket .. mNextCallbackTicket - 1
    BY <1>2, <1>3, <1>7
  <2>2. CASE n = mNextCallbackTicket
    BY <1>4, <1>5, <2>2
  <2>3. CASE n \in mCurrentCallbackTicket .. mNextCallbackTicket - 1
    <3>1. PICK u \in Thread : pc[u] = "callback" /\ callbackTicket[u] = n
      BY <2>3 DEF CallbackInv, CallbacksInOrder
    <3> QED
      BY <1>2, <1>4, <1>5, <3>1
  <2> QED
    BY <2>1, <2>2, <2>3
<1>8. ASSUME NEW u \in Thread, pc'[u] = "callback"
      PROVE  /\ callbackTicket'[u] \in mCurrentCallbackTicket' .. mNextCallbackTicket' - 1
             /\ currentFrameNumber'[u] <= mFrameCounter'
  <2>1. mCurrentCallbackTicket <= mNextCallbackTicket
    BY DEF CallbackInv
  <2>2. CASE u = t
    BY <1>2, <1>3, <1>5, <2>1, <2>2
  <2>3. CASE u # t
    BY <1>2, <1>3, <1>5, <1>6, <1>8, <2>3
  <2> QED
    BY <2>2, <2>3
<1>9. ASSUME NEW u \in Thread, NEW v \in Thread, u # v,
             pc'[u] = "callback", pc'[v] = "callback"
      PROVE  /\ callbackTicket'[u] # callbackTicket'[v]
             /\ callbackTicket'[u] < callbackTicket'[v]
                   <=> currentFrameNumber'[u] < currentFrameNumber'[v]
  <2>1. CASE u = t
    BY <1>3, <1>5, <1>6, <1>9, <2>1
  <2>2. CASE v = t
    BY <1>3, <1>5, <1>6, <1>9, <2>2
  <2>3. CASE u # t /\ v # t
    <3>1. pc[u] = "callback" /\ pc[v] = "callback"
      BY <1>4, <1>9, <2>3
    <3> QED
      BY <1>5, <1>9, <2>3, <3>1 DEF CallbackInv, CallbacksInOrder
  <2> QED
    BY <2>1, <2>2, <2>3
<1>10. CallbacksInOrder'
  BY <1>7, <1>8, <1>9 DEF CallbacksInOrder
<1>11. mCurrentCallbackTicket' <= mNextCallbackTicket'
  BY <1>2, <1>3 DEF CallbackInv
<1> QED
  BY <1>8, <1>10, <1>11 DEF CallbackInv

\* The thread that leaves its callback is the one with the current ticket, and
\* passes the turn to the next.
LEMMA CallbackKeepsCallbacks ==
    ASSUME TypeOK, CallbackInv, CallbackStep
    PROVE  CallbackInv'
<1>1. PICK t \in Thread : queueBufferCallback(t)
  BY DEF CallbackStep
<1>2. /\ pc[t] = "callback" /\ callbackTicket[t] = mCurrentCallbackTicket
      /\ mCurrentCallbackTicket' = mCurrentCallbackTicket + 1
      /\ mNextCallbackTicket' = mNextCallbackTicket
      /\ mFrameCounter' = mFrameCounter
      /\ pc' = [pc EXCEPT ![t] = "idle"]
      /\ callbackTicket' = [callbackTicket EXCEPT ![t] = 0]
      /\ currentFrameNumber' = [currentFrameNumber EXCEPT ![t] = 0]
  BY <1>1 DEF queueBufferCallback, Goto, queueVars
<1>3. /\ pc \in [Thread -> PC]
      /\ callbackTicket \in [Thread -> Nat] /\ currentFrameNumber \in [Thread -> Nat]
      /\ mNextCallbackTicket \in Nat /\ mCurrentCallbackTicket \in Nat
  BY DEF TypeOK, ThreadTypeOK
<1>4. \A u \in Thread : pc'[u] = "callback" <=> (u # t /\ pc[u] = "callback")
  BY <1>2, <1>3
<1>5. \A u \in Thread : u # t =>
            /\ callbackTicket'[u] = callbackTicket[u]
            /\ currentFrameNumber'[u] = currentFrameNumber[u]
  BY <1>2, <1>3
<1>6. callbackTicket[t] \in mCurrentCallbackTicket .. mNextCallbackTicket - 1
  BY <1>2 DEF CallbackInv, CallbacksInOrder
<1>7. ASSUME NEW n \in mCurrentCallbackTicket' .. mNextCallbackTicket' - 1
      PROVE  \E u \in Thread : pc'[u] = "callback" /\ callbackTicket'[u] = n
  <2>1. n \in mCurrentCallbackTicket .. mNextCallbackTicket - 1
        /\ n # mCurrentCallbackTicket
    BY <1>2, <1>3, <1>7
  <2>2. PICK u \in Thread : pc[u] = "callback" /\ callbackTicket[u] = n
    BY <2>1 DEF CallbackInv, CallbacksInOrder
  <2> QED
    BY <1>2, <1>4, <1>5, <2>1, <2>2
<1>8. ASSUME NEW u \in Thread, pc'[u] = "callback"
      PROVE  /\ callbackTicket'[u] \in mCurrentCallbackTicket' .. mNextCallbackTicket' - 1
             /\ currentFrameNumber'[u] <= mFrameCounter'
  <2>1. u # t /\ pc[u] = "callback"
    BY <1>4, <1>8
  <2>2. /\ callbackTicket[u] # callbackTicket[t]
        /\ callbackTicket[u] \in mCurrentCallbackTicket .. mNextCallbackTicket - 1
        /\ currentFrameNumber[u] <= mFrameCounter
    BY <1>2, <2>1 DEF CallbackInv, CallbacksInOrder
  <2> QED
    BY <1>2, <1>3, <1>5, <2>1, <2>2
<1>9. ASSUME NEW u \in Thread, NEW v \in Thread, u # v,
             pc'[u] = "callback", pc'[v] = "callback"
      PROVE  /\ callbackTicket'[u] # callbackTicket'[v]
             /\ callbackTicket'[u] < callbackTicket'[v]
                   <=> currentFrameNumber'[u] < currentFrameNumber'[v]
  BY <1>4, <1>5, <1>9 DEF CallbackInv, CallbacksInOrder
<1>10. CallbacksInOrder'
  BY <1>7, <1>8, <1>9 DEF CallbacksInOrder
<1>11. mCurrentCallbackTicket' <= mNextCallbackTicket'
  BY <1>2, <1>3, <1>6
<1> QED
  BY <1>8, <1>10, <1>11 DEF CallbackInv

\* CallbackInv is inductive.
LEMMA CallbackInvStep == TypeOK /\ CallbackInv /\ [Next]_vars => CallbackInv'
<1> SUFFICES ASSUME TypeOK, CallbackInv, [Next]_vars PROVE CallbackInv'
  OBVIOUS
<1>1. CASE QuietStep
  BY <1>1 DEF QuietStep, TicketsKept, ticketVars, CallbackInv, CallbacksInOrder
<1> QED
  BY <1>1, QueueBufferKeepsCallbacks, CallbackKeepsCallbacks, StepKinds

\* Whatever the interleaving of any number of threads in queueBuffer, the
\* tickets in use are consecutive and in the order of the frames, so that
\* onFrameAvailable is called in the order the frames were queued.
THEOREM CallbacksStayInOrder == Spec => []CallbacksInOrder
<1>1. Init => CallbackInv
  BY DEF Init, CallbackInv, CallbacksInOrder
<1>2. CallbackInv => CallbacksInOrder
  BY DEF CallbackInv
<1> QED
  BY <1>1, <1>2, TypeCorrect, CallbackInvStep, PTL DEF Spec

-----------------------------------------------------------------------------
(* BufferQueue implements FrameStream                                      *)

\* What FrameStream sees of one item, and of a queue of items.
FrameOf(item) == [number |-> item.mFrameNumber, droppable |-> item.mIsDroppable]
FramesOf(q) == [i \in DOMAIN q |-> FrameOf(q[i])]
Frame == [number : Nat, droppable : BOOLEAN]

\* An item of mQueue is a frame.
LEMMA FrameType ==
    ASSUME NEW item \in BufferItem
    PROVE  FrameOf(item) \in Frame
  BY DEF FrameOf, Frame, BufferItem

\* A queue of items is a sequence of as many frames.
LEMMA FramesType ==
    ASSUME NEW q \in Seq(BufferItem)
    PROVE  /\ FramesOf(q) \in Seq(Frame)
           /\ Len(FramesOf(q)) = Len(q) /\ Len(q) \in Nat
           /\ DOMAIN FramesOf(q) = 1 .. Len(q) /\ DOMAIN q = 1 .. Len(q)
           /\ \A i \in 1 .. Len(q) : FramesOf(q)[i] = FrameOf(q[i])
           /\ FramesOf(q) = <<>> <=> q = <<>>
<1>1. Len(q) \in Nat /\ DOMAIN q = 1 .. Len(q)
  OBVIOUS
<1>2. \A i \in 1 .. Len(q) : FrameOf(q[i]) \in Frame
  <2>1. \A i \in 1 .. Len(q) : q[i] \in BufferItem
    OBVIOUS
  <2> QED
    BY <2>1, FrameType
<1>3. FramesOf(q) = [i \in 1 .. Len(q) |-> FrameOf(q[i])]
  BY <1>1 DEF FramesOf
<1> DEFINE f == [i \in 1 .. Len(q) |-> FrameOf(q[i])]
<1>4. f \in [1 .. Len(q) -> Frame]
  BY <1>2
<1>5. f \in Seq(Frame) /\ DOMAIN f = 1 .. Len(q)
  BY <1>1, <1>4
<1>6. Len(f) = Len(q)
  BY <1>1, <1>5
<1>7. \A i \in 1 .. Len(q) : f[i] = FrameOf(q[i])
  OBVIOUS
<1> HIDE DEF f
<1>8. f = <<>> <=> q = <<>>
  BY <1>1, <1>5, <1>6
<1> QED
  BY <1>1, <1>3, <1>5, <1>6, <1>7, <1>8 DEF f

\* Two sequences of frames are equal when they are as long and agree everywhere.
LEMMA SameFrames ==
    ASSUME NEW f \in Seq(Frame), NEW g \in Seq(Frame), Len(f) = Len(g),
           \A i \in 1 .. Len(f) : f[i] = g[i]
    PROVE  f = g
  OBVIOUS

\* Taking the oldest item takes the oldest frame.
LEMMA FramesTail ==
    ASSUME NEW q \in Seq(BufferItem), q # <<>>
    PROVE  FramesOf(Tail(q)) = Tail(FramesOf(q))
<1>1. /\ Tail(q) \in Seq(BufferItem) /\ Len(Tail(q)) = Len(q) - 1
      /\ \A i \in 1 .. Len(q) - 1 : Tail(q)[i] = q[i + 1]
  OBVIOUS
<1> DEFINE f == FramesOf(q)
           g == FramesOf(Tail(q))
<1>2. /\ f \in Seq(Frame) /\ Len(f) = Len(q) /\ f # <<>> /\ Len(q) \in Nat
      /\ \A i \in 1 .. Len(q) : f[i] = FrameOf(q[i])
  BY FramesType
<1>3. /\ g \in Seq(Frame) /\ Len(g) = Len(q) - 1
      /\ \A i \in 1 .. Len(q) - 1 : g[i] = FrameOf(Tail(q)[i])
  BY <1>1, FramesType
<1> HIDE DEF f, g
<1>4. /\ Tail(f) \in Seq(Frame) /\ Len(Tail(f)) = Len(q) - 1
      /\ \A i \in 1 .. Len(q) - 1 : Tail(f)[i] = f[i + 1]
  BY <1>2
<1>5. \A i \in 1 .. Len(q) - 1 : i + 1 \in 1 .. Len(q)
  BY <1>2
<1>6. \A i \in 1 .. Len(q) - 1 : g[i] = Tail(f)[i]
  BY <1>1, <1>2, <1>3, <1>4, <1>5
<1>7. g = Tail(f)
  BY <1>3, <1>4, <1>6, SameFrames
<1> QED
  BY <1>7 DEF f, g

\* Giving up the newest item gives up the newest frame.
LEMMA FramesFront ==
    ASSUME NEW q \in Seq(BufferItem), q # <<>>
    PROVE  /\ Front(q) \in Seq(BufferItem)
           /\ FramesOf(Front(q)) = Front(FramesOf(q))
           /\ Last(FramesOf(q)).droppable = Last(q).mIsDroppable
<1>1. /\ Front(q) \in Seq(BufferItem) /\ Len(Front(q)) = Len(q) - 1
      /\ \A i \in 1 .. Len(q) - 1 : Front(q)[i] = q[i]
      /\ Len(q) \in Nat /\ Len(q) > 0
  <2>1. Len(q) \in Nat /\ Len(q) > 0
    OBVIOUS
  <2>2. Front(q) \in Seq(BufferItem)
    BY <2>1 DEF Front
  <2>3. Len(Front(q)) = Len(q) - 1
    <3>1. DOMAIN Front(q) = 1 .. Len(q) - 1
      BY <2>1 DEF Front
    <3> QED
      BY <2>1, <2>2, <3>1
  <2>4. \A i \in 1 .. Len(q) - 1 : Front(q)[i] = q[i]
    BY <2>1 DEF Front
  <2> QED
    BY <2>1, <2>2, <2>3, <2>4
<1> DEFINE f == FramesOf(q)
           g == FramesOf(Front(q))
<1>2. /\ f \in Seq(Frame) /\ Len(f) = Len(q)
      /\ \A i \in 1 .. Len(q) : f[i] = FrameOf(q[i])
  BY FramesType
<1>3. /\ g \in Seq(Frame) /\ Len(g) = Len(q) - 1
      /\ \A i \in 1 .. Len(q) - 1 : g[i] = FrameOf(Front(q)[i])
  BY <1>1, FramesType
<1> HIDE DEF f, g
<1>4. /\ Front(f) \in Seq(Frame) /\ Len(Front(f)) = Len(q) - 1
      /\ \A i \in 1 .. Len(q) - 1 : Front(f)[i] = f[i]
  BY <1>1, <1>2 DEF Front
<1>5. \A i \in 1 .. Len(q) - 1 : g[i] = Front(f)[i]
  BY <1>1, <1>2, <1>3, <1>4
<1>6. g = Front(f)
  BY <1>3, <1>4, <1>5, SameFrames
<1>7. Last(f) = FrameOf(Last(q))
  BY <1>1, <1>2 DEF Last
<1> QED
  BY <1>1, <1>6, <1>7 DEF f, g, FrameOf

\* Adding an item adds its frame.
LEMMA FramesAppend ==
    ASSUME NEW q \in Seq(BufferItem), NEW item \in BufferItem
    PROVE  FramesOf(Append(q, item)) = Append(FramesOf(q), FrameOf(item))
<1> DEFINE r == Append(q, item)
           f == FramesOf(q)
           g == FramesOf(r)
           x == FrameOf(item)
<1>1. /\ r \in Seq(BufferItem) /\ Len(r) = Len(q) + 1 /\ Len(q) \in Nat
      /\ \A i \in 1 .. Len(q) : r[i] = q[i]
      /\ r[Len(q) + 1] = item
  OBVIOUS
<1>2. /\ f \in Seq(Frame) /\ Len(f) = Len(q)
      /\ \A i \in 1 .. Len(q) : f[i] = FrameOf(q[i])
  BY FramesType
<1> HIDE DEF r
<1>3. /\ g \in Seq(Frame) /\ Len(g) = Len(q) + 1
      /\ \A i \in 1 .. Len(q) + 1 : g[i] = FrameOf(r[i])
  BY <1>1, FramesType
<1>4. x \in Frame
  BY FrameType
<1> HIDE DEF f, g, x
<1>5. /\ Append(f, x) \in Seq(Frame) /\ Len(Append(f, x)) = Len(q) + 1
      /\ \A i \in 1 .. Len(q) : Append(f, x)[i] = f[i]
      /\ Append(f, x)[Len(q) + 1] = x
  BY <1>2, <1>4
<1>6. ASSUME NEW i \in 1 .. Len(q) + 1
      PROVE  g[i] = Append(f, x)[i]
  <2>1. CASE i = Len(q) + 1
    BY <1>1, <1>3, <1>5, <2>1 DEF x
  <2>2. CASE i \in 1 .. Len(q)
    BY <1>1, <1>2, <1>3, <1>5, <2>2
  <2>3. i = Len(q) + 1 \/ i \in 1 .. Len(q)
    BY <1>1
  <2> QED
    BY <2>1, <2>2, <2>3
<1>7. g = Append(f, x)
  BY <1>3, <1>5, <1>6, SameFrames
<1> QED
  BY <1>7 DEF f, g, r, x

\* A disconnection of the producer marks the items as stale; the frames stay.
LEMMA FramesStale ==
    ASSUME NEW q \in Seq(BufferItem)
    PROVE  FramesOf(MarkedStale(q)) = FramesOf(q)
<1>1. \A i \in DOMAIN q : q[i] \in BufferItem
  OBVIOUS
<1>2. \A item \in BufferItem :
         FrameOf([item EXCEPT !.mIsStale = TRUE, !.mAcquireCalled = FALSE])
             = FrameOf(item)
  BY DEF BufferItem, FrameOf
<1> QED
  BY <1>1, <1>2 DEF MarkedStale, FramesOf

\* Every step maps to a step of FrameStream, or leaves the frames alone.
LEMMA StreamStep ==
    ASSUME TypeOK, [Next]_vars
    PROVE  [Stream!StreamNext]_(Stream!streamVars)
<1> DEFINE f == FramesOf(mQueue)
           g == FramesOf(mQueue')
<1>1. PendingFrames = f /\ PendingFrames' = g
  BY DEF PendingFrames, FramesOf, FrameOf
<1>2. mQueue \in Seq(BufferItem) /\ mFrameCounter \in Nat
  BY DEF TypeOK, QueueTypeOK
<1>3. CASE QuietStep
  <2>1. mFrameCounter' = mFrameCounter
    BY <1>3 DEF QuietStep, TicketsKept
  <2>2. CASE UNCHANGED mQueue
    BY <1>1, <2>1, <2>2 DEF Stream!streamVars
  <2>3. CASE mQueue' = MarkedStale(mQueue)
    <3>1. g = f
      BY <1>2, <2>3, FramesStale
    <3> QED
      BY <1>1, <2>1, <3>1 DEF Stream!streamVars
  <2>4. CASE mQueue # <<>> /\ mQueue' = Tail(mQueue)
    <3>1. g = Tail(f) /\ f # <<>>
      BY <1>2, <2>4, FramesTail, FramesType
    <3> QED
      BY <1>1, <2>1, <3>1 DEF Stream!StreamNext, Stream!Take
  <2>5. CASE mQueue' = <<>>
    <3>1. g = <<>>
      BY <2>5 DEF FramesOf
    <3> QED
      BY <1>1, <2>1, <3>1 DEF Stream!StreamNext, Stream!Abandon
  <2> QED
    BY <1>3, <2>2, <2>3, <2>4, <2>5 DEF QuietStep, QueueNotExtended
<1>4. CASE QueueBufferStep
  <2>1. PICK item \in BufferItem :
           /\ item.mFrameNumber = mFrameCounter + 1
           /\ mQueue' = IF mQueue # <<>> /\ Last(mQueue).mIsDroppable
                           THEN Append(Front(mQueue), item)
                           ELSE Append(mQueue, item)
    BY <1>4, QueueBufferEffect
  <2>2. mFrameCounter' = mFrameCounter + 1
    BY <1>4, QueueBufferEffect
  <2> DEFINE droppable == item.mIsDroppable
             frame == [number |-> mFrameCounter + 1, droppable |-> droppable]
  <2>3. droppable \in BOOLEAN
    BY DEF BufferItem
  <2>4. frame = FrameOf(item)
    BY <2>1 DEF FrameOf
  <2> HIDE DEF frame
  <2>5. g = IF f # <<>> /\ Last(f).droppable
               THEN Append(Front(f), frame) ELSE Append(f, frame)
    <3>1. f # <<>> <=> mQueue # <<>>
      BY <1>2, FramesType
    <3>2. mQueue # <<>> => Last(f).droppable = Last(mQueue).mIsDroppable
      BY <1>2, FramesFront
    <3>3. CASE mQueue # <<>> /\ Last(mQueue).mIsDroppable
      <4>1. mQueue' = Append(Front(mQueue), item)
        BY <2>1, <3>3
      <4>2. g = Append(Front(f), frame)
        BY <1>2, <2>4, <3>3, <4>1, FramesFront, FramesAppend
      <4> QED
        BY <3>1, <3>2, <3>3, <4>2
    <3>4. CASE ~(mQueue # <<>> /\ Last(mQueue).mIsDroppable)
      <4>1. mQueue' = Append(mQueue, item)
        BY <2>1, <3>4
      <4>2. g = Append(f, frame)
        BY <1>2, <2>4, <4>1, FramesAppend
      <4> QED
        BY <3>1, <3>2, <3>4, <4>2
    <3> QED
      BY <3>3, <3>4
  <2> HIDE DEF f, g, droppable
  <2>6. Stream!Queue(droppable)
    BY <1>1, <2>2, <2>5 DEF Stream!Queue, Stream!Last, Stream!Front, Last, Front, frame
  <2> QED
    BY <2>3, <2>6 DEF Stream!StreamNext
<1>5. CASE CallbackStep
  BY <1>5 DEF CallbackStep, queueBufferCallback, queueVars, Stream!streamVars,
              PendingFrames
<1> QED
  BY <1>3, <1>4, <1>5, StepKinds

\* The detailed specification implements the abstract one, for any number of
\* slots, threads and frames: the consumer is given the frames in the order they
\* were queued, and only FrameStream's reasons lose one.
THEOREM BufferQueueImplementsFrameStream == Spec => ImplementsFrameStream
<1>1. Init => Stream!StreamInit
  BY DEF Init, Stream!StreamInit, PendingFrames
<1>2. TypeOK /\ [Next]_vars => [Stream!StreamNext]_(Stream!streamVars)
  BY StreamStep
<1> QED
  BY <1>1, <1>2, TypeCorrect, PTL DEF Spec, ImplementsFrameStream, Stream!StreamSpec
=============================================================================
