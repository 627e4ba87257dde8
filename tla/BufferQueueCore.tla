-------------------------- MODULE BufferQueueCore --------------------------
(***************************************************************************)
(* The state of one BufferQueue (libs/gui/BufferQueueCore.cpp and the      *)
(* members of BufferQueueProducer and BufferQueueConsumer) and the helpers *)
(* that run with mMutex held.                                              *)
(*                                                                         *)
(* Every action of the project is one critical section of mMutex, or one   *)
(* iteration of a loop that keeps mMutex (see MutexFree).  A call that     *)
(* releases mMutex half way is several actions joined by pc.  A call that  *)
(* returns an error and changes nothing is no step at all: the guard of an *)
(* action is the condition under which the call has an effect.             *)
(***************************************************************************)
EXTENDS BufferSlot, FiniteSets, Sequences, SequencesExt

CONSTANTS
    NUM_BUFFER_SLOTS,     \* BufferQueueDefs::NUM_BUFFER_SLOTS, 64 in the code
    Thread,               \* threads that run calls of IGraphicBufferProducer
    Api,                  \* the producer APIs that connect() accepts
    UnknownApi,           \* an API number that connect() rejects
    MAX_REASONABLE_NSEC,  \* acquireBuffer: one second
    Time,                 \* presentation timestamps, 0 is "not given"
    MaxFrames,            \* bound on mFrameCounter
    MaxShared             \* bound on the owners a shared buffer has at a time

NO_CONNECTED_API == "NO_CONNECTED_API"
INVALID_BUFFER_SLOT == -1
MAX_MAX_ACQUIRED_BUFFERS == NUM_BUFFER_SLOTS - 2

ASSUME CoreAssumption ==
    /\ NUM_BUFFER_SLOTS \in Nat /\ NUM_BUFFER_SLOTS >= 3
    /\ MAX_REASONABLE_NSEC \in Nat
    /\ Time \subseteq Nat /\ 0 \in Time
    /\ MaxFrames \in Nat /\ MaxShared \in Nat
    /\ NO_CONNECTED_API \notin Api /\ UnknownApi \notin Api

Slot == 0 .. NUM_BUFFER_SLOTS - 1

VARIABLES
    mSlots, mFreeSlots, mFreeBuffers, mUnusedSlots, mActiveBuffers,
    mLastQueuedSlot,
    mQueue, mFrameCounter, mBufferHasBeenQueued,
    mIsAbandoned, mConsumerListener, mConsumerControlledByApp, mConnectedApi,
    mMaxAcquiredBufferCount, mMaxDequeuedBufferCount, mMaxBufferCount,
    mAsyncMode, mDequeueBufferCannotBlock, mDequeueTimeout, mAllowAllocation,
    mSharedBufferMode, mAutoRefresh, mSharedBufferSlot,
    mIsAllocating,
    pc,                   \* where each producer thread is in its call
    outSlot,              \* dequeueBuffer's *outSlot, while it allocates
    callbackTicket, currentFrameNumber,    \* locals of queueBuffer
    mNextCallbackTicket, mCurrentCallbackTicket,
    cpc,                  \* where the consumer is in acquireBuffer
    acquireArgs           \* acquireBuffer's expectedPresent, maxFrameNumber

listVars == <<mFreeSlots, mFreeBuffers, mUnusedSlots, mActiveBuffers>>
slotVars == <<mSlots, listVars, mLastQueuedSlot>>
queueVars == <<mQueue, mFrameCounter, mBufferHasBeenQueued>>
connectionVars ==
    <<mIsAbandoned, mConsumerListener, mConsumerControlledByApp, mConnectedApi>>
limitVars ==
    <<mMaxAcquiredBufferCount, mMaxDequeuedBufferCount, mMaxBufferCount,
      mAsyncMode, mDequeueBufferCannotBlock, mDequeueTimeout, mAllowAllocation>>
sharedVars == <<mSharedBufferMode, mAutoRefresh, mSharedBufferSlot>>
localVars == <<outSlot, callbackTicket, currentFrameNumber>>
ticketVars == <<mNextCallbackTicket, mCurrentCallbackTicket>>
consumerVars == <<cpc, acquireArgs>>
vars == <<slotVars, queueVars, connectionVars, limitVars, sharedVars,
          mIsAllocating, pc, localVars, ticketVars, consumerVars>>

-----------------------------------------------------------------------------
(* Types                                                                   *)

BufferItem ==
    [mSlot : Slot, mFrameNumber : Nat, mGraphicBuffer : Buffer \cup {NullBuffer},
     mIsDroppable : BOOLEAN, mIsStale : BOOLEAN, mAcquireCalled : BOOLEAN,
     mTimestamp : Time, mIsAutoTimestamp : BOOLEAN]

\* "dequeue" and "attach" are the heads of the loop in
\* waitForFreeSlotThenRelock, the two Waits under each are the two ways that
\* loop sleeps on mDequeueCondition.
PC == {"idle",
       "dequeue", "dequeueAgain", "dequeueWait", "dequeueTimedWait", "alloc",
       "attachBlocked", "attach", "attachWait", "attachTimedWait",
       "detachNextBlocked", "allocateBuffers", "allocateBuffersAlloc",
       "callback", "crash"}

SlotTypeOK ==
    /\ mSlots \in [Slot -> BufferSlot]
    /\ mFreeSlots \in SUBSET Slot /\ mUnusedSlots \in SUBSET Slot
    /\ mActiveBuffers \in SUBSET Slot
    /\ mFreeBuffers \in Seq(Slot)
    /\ mLastQueuedSlot \in Slot \cup {INVALID_BUFFER_SLOT}

QueueTypeOK ==
    /\ mQueue \in Seq(BufferItem)
    /\ mFrameCounter \in Nat
    /\ mBufferHasBeenQueued \in BOOLEAN

ConnectionTypeOK ==
    /\ mIsAbandoned \in BOOLEAN /\ mConsumerListener \in BOOLEAN
    /\ mConsumerControlledByApp \in BOOLEAN
    /\ mConnectedApi \in Api \cup {NO_CONNECTED_API}

LimitTypeOK ==
    /\ mMaxAcquiredBufferCount \in 1 .. MAX_MAX_ACQUIRED_BUFFERS
    /\ mMaxDequeuedBufferCount \in 1 .. NUM_BUFFER_SLOTS
    /\ mMaxBufferCount \in 1 .. NUM_BUFFER_SLOTS
    /\ mAsyncMode \in BOOLEAN /\ mDequeueBufferCannotBlock \in BOOLEAN
    /\ mDequeueTimeout \in BOOLEAN     \* TRUE: mDequeueTimeout >= 0
    /\ mAllowAllocation \in BOOLEAN

SharedTypeOK ==
    /\ mSharedBufferMode \in BOOLEAN /\ mAutoRefresh \in BOOLEAN
    /\ mSharedBufferSlot \in Slot \cup {INVALID_BUFFER_SLOT}

ThreadTypeOK ==
    /\ mIsAllocating \in BOOLEAN
    /\ pc \in [Thread -> PC]
    /\ outSlot \in [Thread -> Slot \cup {INVALID_BUFFER_SLOT}]
    /\ \A t \in Thread : pc[t] = "alloc" => outSlot[t] \in Slot
    /\ callbackTicket \in [Thread -> Nat]
    /\ currentFrameNumber \in [Thread -> Nat]
    /\ mNextCallbackTicket \in Nat /\ mCurrentCallbackTicket \in Nat

ConsumerTypeOK ==
    /\ cpc \in {"idle", "dropping", "sharedWait", "crash"}
    /\ acquireArgs \in [expectedPresent : Time, maxFrameNumber : Nat]
    /\ cpc = "dropping" => mQueue # <<>>

\* The type invariant: every member of BufferQueueCore keeps its C++ type, the
\* slot numbers stay in range, and the limits stay between 1 and their maxima
\* through every sequence of the set*() calls.
TypeOK ==
    /\ SlotTypeOK /\ QueueTypeOK /\ ConnectionTypeOK /\ LimitTypeOK
    /\ SharedTypeOK /\ ThreadTypeOK /\ ConsumerTypeOK

-----------------------------------------------------------------------------
(* The constructor                                                         *)

Init ==
    /\ mSlots = [s \in Slot |-> InitialSlot]
    /\ mFreeSlots = {0, 1}      \* getMaxBufferCountLocked() is 1 + 1
    /\ mUnusedSlots = Slot \ {0, 1}
    /\ mFreeBuffers = <<>> /\ mActiveBuffers = {}
    /\ mLastQueuedSlot = INVALID_BUFFER_SLOT
    /\ mQueue = <<>> /\ mFrameCounter = 0 /\ mBufferHasBeenQueued = FALSE
    /\ mIsAbandoned = FALSE /\ mConsumerListener = FALSE
    /\ mConsumerControlledByApp = FALSE /\ mConnectedApi = NO_CONNECTED_API
    /\ mMaxAcquiredBufferCount = 1 /\ mMaxDequeuedBufferCount = 1
    /\ mMaxBufferCount = NUM_BUFFER_SLOTS
    /\ mAsyncMode = FALSE /\ mDequeueBufferCannotBlock = FALSE
    /\ mDequeueTimeout = FALSE /\ mAllowAllocation = TRUE
    /\ mSharedBufferMode = FALSE /\ mAutoRefresh = FALSE
    /\ mSharedBufferSlot = INVALID_BUFFER_SLOT
    /\ mIsAllocating = FALSE
    /\ pc = [t \in Thread |-> "idle"]
    /\ outSlot = [t \in Thread |-> INVALID_BUFFER_SLOT]
    /\ callbackTicket = [t \in Thread |-> 0]
    /\ currentFrameNumber = [t \in Thread |-> 0]
    /\ mNextCallbackTicket = 0 /\ mCurrentCallbackTicket = 0
    /\ cpc = "idle"
    /\ acquireArgs = [expectedPresent |-> 0, maxFrameNumber |-> 0]

-----------------------------------------------------------------------------
(* mMutex and mDequeueCondition                                            *)

\* mMutex is held between two steps only inside a loop that does not release
\* it: the drop loop of acquireBuffer, and dequeueBuffer's "continue".  Once
\* the process has crashed nobody gets it.
MutexFree ==
    /\ cpc \notin {"dropping", "crash"}
    /\ \A u \in Thread : pc[u] \notin {"dequeueAgain", "crash"}

Crashed == cpc = "crash" \/ \E u \in Thread : pc[u] = "crash"

\* Faulty variant: no broadcast.
NotWoken(where) == where

\* mDequeueCondition.broadcast(): every sleeper goes back to its loop head.
Woken(where) ==
    [u \in Thread |->
        CASE where[u] \in {"dequeueWait", "dequeueTimedWait"} -> "dequeue"
          [] where[u] \in {"attachWait", "attachTimedWait"} -> "attach"
          [] OTHER -> where[u]]

-----------------------------------------------------------------------------
(* Counts and limits                                                       *)

dequeuedCount ==
    Cardinality({s \in mActiveBuffers : isDequeued(mSlots[s].mBufferState)})
acquiredCount ==
    Cardinality({s \in mActiveBuffers : isAcquired(mSlots[s].mBufferState)})

ExtraBuffer(asyncMode, cannotBlock) == IF asyncMode \/ cannotBlock THEN 1 ELSE 0

getMinUndequeuedBufferCountLocked ==
    mMaxAcquiredBufferCount + ExtraBuffer(mAsyncMode, mDequeueBufferCannotBlock)

getMinMaxBufferCountLocked == getMinUndequeuedBufferCountLocked + 1

\* The overload with arguments; getMaxBufferCountLocked below has none.
getMaxBufferCount(asyncMode, cannotBlock, maxBufferCount) ==
    LET maxCount == mMaxAcquiredBufferCount + mMaxDequeuedBufferCount
                        + ExtraBuffer(asyncMode, cannotBlock)
    IN IF maxBufferCount < maxCount THEN maxBufferCount ELSE maxCount

getMaxBufferCountLocked ==
    getMaxBufferCount(mAsyncMode, mDequeueBufferCannotBlock, mMaxBufferCount)

-----------------------------------------------------------------------------
(* Slots                                                                   *)

LowestOf(S) == {s \in S : \A r \in S : s <= r}

\* clearBufferSlotLocked of every slot in S.
Cleared(slots, S) == [s \in Slot |-> IF s \in S THEN ClearedSlot ELSE slots[s]]

LastQueuedAfterClearing(S) ==
    IF mLastQueuedSlot \in S THEN INVALID_BUFFER_SLOT ELSE mLastQueuedSlot

clearBufferSlotLocked(S) ==
    /\ mSlots' = Cleared(mSlots, S)
    /\ mLastQueuedSlot' = LastQueuedAfterClearing(S)

\* Faulty variant: unshared as soon as shared mode is over.
UnsharedWhileOwned(slots, s) ==
    IF ~mSharedBufferMode THEN [slots EXCEPT ![s].mBufferState.mShared = FALSE]
                          ELSE slots

\* What every path that takes a buffer away from its owner does next: the
\* shared buffer stops being shared once it is free and shared mode is over,
\* and a buffer that is not shared goes to the end of mFreeBuffers.
UnsharedIfFree(slots, s) ==
    IF ~mSharedBufferMode /\ isFree(slots[s].mBufferState)
        THEN [slots EXCEPT ![s].mBufferState.mShared = FALSE]
        ELSE slots

ReturnToFreeBuffers(slots, s) ==
    /\ mSlots' = UnsharedIfFree(slots, s)
    /\ IF isShared(UnsharedIfFree(slots, s)[s].mBufferState)
          THEN UNCHANGED <<mActiveBuffers, mFreeBuffers>>
          ELSE /\ mActiveBuffers' = mActiveBuffers \ {s}
               /\ mFreeBuffers' = Append(mFreeBuffers, s)

freeAllBuffersLocked ==
    LET all == mFreeSlots \cup ToSet(mFreeBuffers) \cup mActiveBuffers IN
    /\ clearBufferSlotLocked(all)
    /\ mFreeSlots' = all /\ mFreeBuffers' = <<>> /\ mActiveBuffers' = {}
    /\ UNCHANGED mUnusedSlots

\* Faulty variant: the items keep pointing at the slots that were freed.
NotMarkedStale(items) == items

\* The last loop of freeAllBuffersLocked, over the items of mQueue.
MarkedStale(items) ==
    [i \in DOMAIN items |->
        [items[i] EXCEPT !.mIsStale = TRUE, !.mAcquireCalled = FALSE]]

discardFreeBuffersLocked ==
    /\ clearBufferSlotLocked(ToSet(mFreeBuffers))
    /\ mFreeSlots' = mFreeSlots \cup ToSet(mFreeBuffers)
    /\ mFreeBuffers' = <<>>
    /\ UNCHANGED <<mUnusedSlots, mActiveBuffers>>

\* adjustAvailableSlotsLocked(n) for n >= 0.  Which unused slots are taken
\* does not matter, they are all cleared; the list is a set here.
MoreSlots(n) ==
    \E S \in SUBSET mUnusedSlots :
        /\ Cardinality(S) = n
        /\ mUnusedSlots' = mUnusedSlots \ S
        /\ mFreeSlots' = mFreeSlots \cup S
        /\ UNCHANGED <<mSlots, mFreeBuffers, mActiveBuffers, mLastQueuedSlot>>

\* Faulty variant: the free buffers that had to go are kept.
FewerFreeSlotsOnly(n) ==
    LET slots == {s \in mFreeSlots :
                    Cardinality({r \in mFreeSlots : r < s}) < n}
    IN /\ n <= Cardinality(mFreeSlots) + Len(mFreeBuffers)
       /\ mFreeSlots' = mFreeSlots \ slots
       /\ mUnusedSlots' = mUnusedSlots \cup slots
       /\ clearBufferSlotLocked(slots)
       /\ UNCHANGED <<mFreeBuffers, mActiveBuffers>>

\* adjustAvailableSlotsLocked(-n) for n > 0: the lowest free slots go first,
\* then the free buffers from the back of their list.
FewerSlots(n) ==
    LET slots == {s \in mFreeSlots :
                    Cardinality({r \in mFreeSlots : r < s}) < n}
        missing == IF n > Cardinality(mFreeSlots)
                      THEN n - Cardinality(mFreeSlots) ELSE 0
        kept == Len(mFreeBuffers) - missing
        buffers == {mFreeBuffers[i] : i \in kept + 1 .. Len(mFreeBuffers)}
    IN /\ n <= Cardinality(mFreeSlots) + Len(mFreeBuffers)
       /\ mFreeSlots' = mFreeSlots \ slots
       /\ mFreeBuffers' = SubSeq(mFreeBuffers, 1, kept)
       /\ mUnusedSlots' = mUnusedSlots \cup slots \cup buffers
       /\ clearBufferSlotLocked(slots \cup buffers)
       /\ UNCHANGED mActiveBuffers

\* Not enabled when the request cannot be met: the caller returns an error.
adjustAvailableSlotsLocked(delta) ==
    \/ delta >= 0 /\ MoreSlots(delta)
    \/ delta < 0 /\ FewerSlots(-delta)
=============================================================================
