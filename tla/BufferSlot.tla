----------------------------- MODULE BufferSlot -----------------------------
(***************************************************************************)
(* BufferState and BufferSlot of libs/gui/include/gui/BufferSlot.h: the    *)
(* per-slot bookkeeping that producer and consumer share.                  *)
(*                                                                         *)
(* Fences, EGL handles and the contents of a GraphicBuffer are left out; a *)
(* GraphicBuffer is a member of Buffer and NullBuffer is the NULL pointer. *)
(***************************************************************************)
EXTENDS Integers

CONSTANTS
    Buffer,       \* identities of GraphicBuffer objects
    NullBuffer    \* sp<GraphicBuffer>() == NULL

ASSUME BufferAssumption == NullBuffer \notin Buffer

-----------------------------------------------------------------------------
(* struct BufferState                                                      *)

BufferState ==
    [mDequeueCount : Nat, mQueueCount : Nat, mAcquireCount : Nat,
     mShared : BOOLEAN]

FREE ==
    [mDequeueCount |-> 0, mQueueCount |-> 0, mAcquireCount |-> 0,
     mShared |-> FALSE]

isDequeued(b) == b.mDequeueCount > 0
isQueued(b) == b.mQueueCount > 0
isAcquired(b) == b.mAcquireCount > 0
isShared(b) == b.mShared
isFree(b) == ~isAcquired(b) /\ ~isDequeued(b) /\ ~isQueued(b)

\* Every decrement of a count is guarded by "if (count > 0)".
Decremented(n) == IF n > 0 THEN n - 1 ELSE n

\* dequeue() and attachProducer() are the same assignment.
dequeue(b) == [b EXCEPT !.mDequeueCount = @ + 1]

\* cancel() and detachProducer() are the same assignment.
cancel(b) == [b EXCEPT !.mDequeueCount = Decremented(@)]

queue(b) == [b EXCEPT !.mDequeueCount = Decremented(@),
                      !.mQueueCount = @ + 1]

freeQueued(b) == [b EXCEPT !.mQueueCount = Decremented(@)]

acquire(b) == [b EXCEPT !.mQueueCount = Decremented(@),
                        !.mAcquireCount = @ + 1]

\* acquireNotInQueue() and attachConsumer() are the same assignment.
acquireNotInQueue(b) == [b EXCEPT !.mAcquireCount = @ + 1]

release(b) == [b EXCEPT !.mAcquireCount = Decremented(@)]

\* "if (becomesShared) mShared = true"
SharedIf(becomesShared, b) == [b EXCEPT !.mShared = @ \/ becomesShared]

-----------------------------------------------------------------------------
(* struct BufferSlot                                                       *)

BufferSlot ==
    [mGraphicBuffer : Buffer \cup {NullBuffer}, mBufferState : BufferState,
     mRequestBufferCalled : BOOLEAN, mFrameNumber : Nat,
     mAcquireCalled : BOOLEAN, mNeedsReallocation : BOOLEAN]

InitialSlot ==
    [mGraphicBuffer |-> NullBuffer, mBufferState |-> FREE,
     mRequestBufferCalled |-> FALSE, mFrameNumber |-> 0,
     mAcquireCalled |-> FALSE, mNeedsReallocation |-> FALSE]

\* What BufferQueueCore::clearBufferSlotLocked leaves in a slot.
ClearedSlot == [InitialSlot EXCEPT !.mNeedsReallocation = TRUE]
=============================================================================
