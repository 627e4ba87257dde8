----------------------- MODULE BufferQueueSlotProofs -----------------------
(***************************************************************************)
(* Proofs about the slots of a BufferQueue, for every number of slots,     *)
(* threads, buffers and frames, and for clients that keep to PrivateCalls. *)
(***************************************************************************)
EXTENDS BufferQueueProofs, SequenceTheorems

-----------------------------------------------------------------------------
(* The table of BufferSlot.h without its line for shared buffers           *)

DEQUEUED == [mDequeueCount |-> 1, mQueueCount |-> 0, mAcquireCount |-> 0,
             mShared |-> FALSE]
QUEUED == [mDequeueCount |-> 0, mQueueCount |-> 1, mAcquireCount |-> 0,
           mShared |-> FALSE]
ACQUIRED == [mDequeueCount |-> 0, mQueueCount |-> 0, mAcquireCount |-> 1,
             mShared |-> FALSE]

\* The states of the table are different from each other.
LEMMA StatesDiffer ==
    /\ FREE # DEQUEUED /\ FREE # QUEUED /\ FREE # ACQUIRED
    /\ DEQUEUED # QUEUED /\ DEQUEUED # ACQUIRED /\ QUEUED # ACQUIRED
<1>1. /\ FREE.mDequeueCount = 0 /\ FREE.mQueueCount = 0 /\ FREE.mAcquireCount = 0
      /\ DEQUEUED.mDequeueCount = 1 /\ DEQUEUED.mQueueCount = 0
      /\ QUEUED.mDequeueCount = 0 /\ QUEUED.mQueueCount = 1
      /\ ACQUIRED.mDequeueCount = 0 /\ ACQUIRED.mQueueCount = 0
      /\ ACQUIRED.mAcquireCount = 1
  BY DEF FREE, DEQUEUED, QUEUED, ACQUIRED
<1> QED
  BY <1>1

\* What BufferState's predicates say of the states of the table.
LEMMA StatePredicates ==
    /\ isFree(FREE) /\ ~isFree(DEQUEUED) /\ ~isFree(QUEUED) /\ ~isFree(ACQUIRED)
    /\ ~isDequeued(FREE) /\ isDequeued(DEQUEUED) /\ ~isDequeued(QUEUED)
    /\ ~isDequeued(ACQUIRED)
    /\ ~isAcquired(FREE) /\ ~isAcquired(DEQUEUED) /\ ~isAcquired(QUEUED)
    /\ isAcquired(ACQUIRED)
    /\ ~isShared(FREE) /\ ~isShared(DEQUEUED) /\ ~isShared(QUEUED)
    /\ ~isShared(ACQUIRED)
  BY DEF FREE, DEQUEUED, QUEUED, ACQUIRED, isFree, isDequeued, isQueued, isAcquired,
         isShared

\* The transitions of BufferState that the table has arrows for.
LEMMA Transitions ==
    /\ SharedIf(FALSE, dequeue(FREE)) = DEQUEUED /\ dequeue(FREE) = DEQUEUED
    /\ SharedIf(FALSE, queue(DEQUEUED)) = QUEUED
    /\ cancel(DEQUEUED) = FREE /\ freeQueued(QUEUED) = FREE
    /\ acquire(QUEUED) = ACQUIRED /\ acquireNotInQueue(FREE) = ACQUIRED
    /\ release(ACQUIRED) = FREE
<1>1. Decremented(0) = 0 /\ Decremented(1) = 0
  BY DEF Decremented
<1> DEFINE Fields(b, d, q, a) ==
               /\ b.mDequeueCount = d /\ b.mQueueCount = q /\ b.mAcquireCount = a
               /\ b.mShared = FALSE
<1>2. ASSUME NEW b \in BufferState, NEW c \in BufferState, NEW d, NEW q, NEW a,
             Fields(b, d, q, a), Fields(c, d, q, a)
      PROVE  b = c
  BY <1>2 DEF BufferState
<1>3. /\ FREE \in BufferState /\ Fields(FREE, 0, 0, 0)
      /\ DEQUEUED \in BufferState /\ Fields(DEQUEUED, 1, 0, 0)
      /\ QUEUED \in BufferState /\ Fields(QUEUED, 0, 1, 0)
      /\ ACQUIRED \in BufferState /\ Fields(ACQUIRED, 0, 0, 1)
  BY DEF BufferState, FREE, DEQUEUED, QUEUED, ACQUIRED
<1>4. /\ Fields(dequeue(FREE), 1, 0, 0) /\ Fields(acquireNotInQueue(FREE), 0, 0, 1)
      /\ Fields(cancel(DEQUEUED), 0, 0, 0) /\ Fields(freeQueued(QUEUED), 0, 0, 0)
      /\ Fields(release(ACQUIRED), 0, 0, 0)
  BY <1>1, <1>3 DEF dequeue, acquireNotInQueue, cancel, freeQueued, release, BufferState
<1>5. Fields(queue(DEQUEUED), 0, 1, 0) /\ Fields(acquire(QUEUED), 0, 0, 1)
  BY <1>1, <1>3 DEF queue, acquire, BufferState
<1>6. /\ Fields(SharedIf(FALSE, DEQUEUED), 1, 0, 0)
      /\ Fields(SharedIf(FALSE, QUEUED), 0, 1, 0)
  BY <1>3 DEF SharedIf, BufferState
<1> HIDE DEF Fields
<1>7. dequeue(FREE) = DEQUEUED /\ acquireNotInQueue(FREE) = ACQUIRED
  BY <1>2, <1>3, <1>4, BufferStateType
<1>8. cancel(DEQUEUED) = FREE /\ freeQueued(QUEUED) = FREE /\ release(ACQUIRED) = FREE
  BY <1>2, <1>3, <1>4, BufferStateType
<1>9. queue(DEQUEUED) = QUEUED /\ acquire(QUEUED) = ACQUIRED
  BY <1>2, <1>3, <1>5, BufferStateType
<1>10. SharedIf(FALSE, DEQUEUED) = DEQUEUED /\ SharedIf(FALSE, QUEUED) = QUEUED
  BY <1>2, <1>3, <1>6, BufferStateType
<1> QED
  BY <1>7, <1>8, <1>9, <1>10

\* What the updates of the fields of one slot leave in the fields that matter.
LEMMA SlotUpdates ==
    ASSUME NEW slot \in BufferSlot, NEW st, NEW n, NEW b
    PROVE  /\ LET u == [slot EXCEPT !.mNeedsReallocation = FALSE, !.mBufferState = st]
              IN /\ u.mGraphicBuffer = slot.mGraphicBuffer /\ u.mBufferState = st
                 /\ u.mFrameNumber = slot.mFrameNumber
           /\ LET u == [slot EXCEPT !.mAcquireCalled = FALSE,
                                    !.mGraphicBuffer = NullBuffer,
                                    !.mRequestBufferCalled = FALSE]
              IN /\ u.mGraphicBuffer = NullBuffer
                 /\ u.mBufferState = slot.mBufferState
           /\ LET u == [slot EXCEPT !.mGraphicBuffer = b,
                                    !.mBufferState = st,
                                    !.mRequestBufferCalled = TRUE,
                                    !.mAcquireCalled = FALSE,
                                    !.mNeedsReallocation = FALSE]
              IN u.mGraphicBuffer = b /\ u.mBufferState = st
           /\ LET u == [slot EXCEPT !.mFrameNumber = n, !.mBufferState = st]
              IN /\ u.mGraphicBuffer = slot.mGraphicBuffer /\ u.mBufferState = st
                 /\ u.mFrameNumber = n
           /\ LET u == [slot EXCEPT !.mAcquireCalled = TRUE, !.mBufferState = st]
              IN /\ u.mGraphicBuffer = slot.mGraphicBuffer /\ u.mBufferState = st
                 /\ u.mFrameNumber = slot.mFrameNumber
           /\ LET u == [slot EXCEPT !.mGraphicBuffer = b,
                                    !.mBufferState = st,
                                    !.mNeedsReallocation = TRUE,
                                    !.mFrameNumber = 0,
                                    !.mAcquireCalled = FALSE]
              IN u.mGraphicBuffer = b /\ u.mBufferState = st
  BY DEF BufferSlot

\* A slot that was cleared is free and has no buffer.
LEMMA ClearedFields ==
    /\ ClearedSlot.mBufferState = FREE /\ ClearedSlot.mGraphicBuffer = NullBuffer
    /\ InitialSlot.mBufferState = FREE /\ InitialSlot.mGraphicBuffer = NullBuffer
  BY DEF ClearedSlot, InitialSlot

-----------------------------------------------------------------------------
(* Lists without duplicates                                                *)

\* The slots in list q, each once.
Distinct(q) == IsInjective(q)

\* The empty list.
LEMMA EmptyList == ToSet(<<>>) = {} /\ Distinct(<<>>)
  BY DEF ToSet, Distinct, IsInjective

\* A slot at the end of a list.
LEMMA ListAppend ==
    ASSUME NEW S, NEW q \in Seq(S), NEW x \in S, x \notin ToSet(q), Distinct(q)
    PROVE  ToSet(Append(q, x)) = ToSet(q) \cup {x} /\ Distinct(Append(q, x))
<1> DEFINE w == Append(q, x)
<1>1. /\ w \in Seq(S) /\ DOMAIN w = 1 .. Len(q) + 1 /\ Len(q) \in Nat
      /\ DOMAIN q = 1 .. Len(q)
      /\ \A i \in 1 .. Len(q) : w[i] = q[i] /\ w[Len(q) + 1] = x
  OBVIOUS
<1>2. w[Len(q) + 1] = x /\ \A i \in 1 .. Len(q) : w[i] = q[i]
  OBVIOUS
<1> HIDE DEF w
<1>3. \A i \in DOMAIN w : i \in DOMAIN q \/ i = Len(q) + 1
  BY <1>1
<1>4. \A i \in DOMAIN q : i \in DOMAIN w
  BY <1>1
<1>5. Len(q) + 1 \in DOMAIN w
  BY <1>1
<1>6. ToSet(w) = ToSet(q) \cup {x}
  BY <1>1, <1>2, <1>3, <1>4, <1>5 DEF ToSet
<1>7. \A i \in DOMAIN q : q[i] # x
  BY DEF ToSet
<1>8. Distinct(w)
  BY <1>1, <1>2, <1>3, <1>7 DEF Distinct, IsInjective
<1> QED
  BY <1>6, <1>8 DEF w

\* A slot at the front of a list.
LEMMA ListPrepend ==
    ASSUME NEW S, NEW q \in Seq(S), NEW x \in S, x \notin ToSet(q), Distinct(q)
    PROVE  ToSet(<<x>> \o q) = ToSet(q) \cup {x} /\ Distinct(<<x>> \o q)
<1> DEFINE w == <<x>> \o q
<1>1. /\ w \in Seq(S) /\ DOMAIN w = 1 .. Len(q) + 1 /\ Len(q) \in Nat
      /\ DOMAIN q = 1 .. Len(q)
  OBVIOUS
<1>2. w[1] = x /\ \A i \in 1 .. Len(q) : w[i + 1] = q[i]
  OBVIOUS
<1> HIDE DEF w
<1>3. \A i \in DOMAIN w : i = 1 \/ (i - 1 \in DOMAIN q /\ w[i] = q[i - 1])
  <2> SUFFICES ASSUME NEW i \in DOMAIN w, i # 1
               PROVE  i - 1 \in DOMAIN q /\ w[i] = q[i - 1]
    OBVIOUS
  <2>1. i - 1 \in 1 .. Len(q) /\ i = (i - 1) + 1
    BY <1>1
  <2> QED
    BY <1>1, <1>2, <2>1
<1>4. \A i \in DOMAIN q : i + 1 \in DOMAIN w
  BY <1>1
<1>5. 1 \in DOMAIN w
  BY <1>1
<1>6. ToSet(w) = ToSet(q) \cup {x}
  <2>1. ASSUME NEW y \in ToSet(w) PROVE y \in ToSet(q) \cup {x}
    <3>1. PICK i \in DOMAIN w : y = w[i]
      BY <2>1 DEF ToSet
    <3> QED
      BY <1>2, <1>3, <3>1 DEF ToSet
  <2>2. ASSUME NEW y \in ToSet(q) PROVE y \in ToSet(w)
    <3>1. PICK i \in DOMAIN q : y = q[i]
      BY <2>2 DEF ToSet
    <3>2. i + 1 \in DOMAIN w /\ w[i + 1] = y
      BY <1>1, <1>2, <1>4, <3>1
    <3> QED
      BY <3>2 DEF ToSet
  <2>3. x \in ToSet(w)
    BY <1>2, <1>5 DEF ToSet
  <2> QED
    BY <2>1, <2>2, <2>3
<1>7. \A i \in DOMAIN q : q[i] # x
  BY DEF ToSet
<1>8. Distinct(w)
  BY <1>1, <1>2, <1>3, <1>7 DEF Distinct, IsInjective
<1> QED
  BY <1>6, <1>8 DEF w

\* The front of a list taken from it.
LEMMA ListTail ==
    ASSUME NEW S, NEW q \in Seq(S), q # <<>>, Distinct(q)
    PROVE  /\ Head(q) \in ToSet(q) /\ ToSet(Tail(q)) = ToSet(q) \ {Head(q)}
           /\ Distinct(Tail(q)) /\ Tail(q) \in Seq(S)
<1> DEFINE w == Tail(q)
           h == Head(q)
<1>1. /\ Len(q) \in Nat /\ Len(q) >= 1 /\ DOMAIN q = 1 .. Len(q)
      /\ w \in Seq(S) /\ DOMAIN w = 1 .. Len(q) - 1
      /\ h = q[1]
  BY EmptySeq
<1>2. \A i \in 1 .. Len(q) - 1 : w[i] = q[i + 1]
  BY <1>1
<1> HIDE DEF w, h
<1>3. \A i \in DOMAIN w : i + 1 \in DOMAIN q /\ i + 1 # 1 /\ w[i] = q[i + 1]
  BY <1>1, <1>2
<1>4. \A i \in DOMAIN q : i = 1 \/ (i - 1 \in DOMAIN w /\ w[i - 1] = q[i])
  <2> SUFFICES ASSUME NEW i \in DOMAIN q, i # 1
               PROVE  i - 1 \in DOMAIN w /\ w[i - 1] = q[i]
    OBVIOUS
  <2>1. i - 1 \in 1 .. Len(q) - 1 /\ i = (i - 1) + 1
    BY <1>1
  <2> QED
    BY <1>1, <1>2, <2>1
<1>5. 1 \in DOMAIN q
  BY <1>1
<1>6. \A i \in DOMAIN q : i # 1 => q[i] # h
  BY <1>1, <1>5 DEF Distinct, IsInjective
<1>7. ToSet(w) = ToSet(q) \ {h}
  BY <1>1, <1>3, <1>4, <1>6 DEF ToSet
<1>8. Distinct(w)
  <2> SUFFICES ASSUME NEW i \in DOMAIN w, NEW j \in DOMAIN w, w[i] = w[j]
               PROVE  i = j
    BY DEF Distinct, IsInjective
  <2>1. i + 1 = j + 1
    BY <1>3 DEF Distinct, IsInjective
  <2> QED
    BY <1>1, <2>1
<1>9. h \in ToSet(q)
  BY <1>1, <1>5 DEF ToSet
<1> QED
  BY <1>1, <1>7, <1>8, <1>9 DEF w, h

\* A list that loses its end.
LEMMA ListFront ==
    ASSUME NEW S, NEW q \in Seq(S), NEW k \in 0 .. Len(q), Distinct(q)
    PROVE  /\ ToSet(SubSeq(q, 1, k)) = ToSet(q) \ {q[i] : i \in k + 1 .. Len(q)}
           /\ {q[i] : i \in k + 1 .. Len(q)} \subseteq ToSet(q)
           /\ Distinct(SubSeq(q, 1, k))
<1> DEFINE w == SubSeq(q, 1, k)
<1>1. /\ Len(q) \in Nat /\ DOMAIN q = 1 .. Len(q) /\ k \in Nat /\ k <= Len(q)
      /\ DOMAIN w = 1 .. k
      /\ \A i \in 1 .. k : w[i] = q[i]
  OBVIOUS
<1> HIDE DEF w
<1>2. /\ \A i \in 1 .. k : i \in 1 .. Len(q) /\ i \notin k + 1 .. Len(q)
      /\ \A i \in k + 1 .. Len(q) : i \in 1 .. Len(q)
      /\ \A i \in 1 .. Len(q) : i \in 1 .. k \/ i \in k + 1 .. Len(q)
  BY <1>1
<1>3. \A i, j \in 1 .. Len(q) : q[i] = q[j] => i = j
  BY <1>1 DEF Distinct, IsInjective
<1>4. {q[i] : i \in k + 1 .. Len(q)} \subseteq ToSet(q)
  BY <1>1, <1>2 DEF ToSet
<1>5. ToSet(w) = ToSet(q) \ {q[i] : i \in k + 1 .. Len(q)}
  <2>1. ToSet(w) = {q[i] : i \in 1 .. k} /\ ToSet(q) = {q[i] : i \in 1 .. Len(q)}
    BY <1>1 DEF ToSet
  <2>2. \A i \in 1 .. k, j \in k + 1 .. Len(q) : q[i] # q[j]
    BY <1>2, <1>3
  <2> QED
    BY <1>2, <2>1, <2>2
<1>6. Distinct(w)
  BY <1>1, <1>2, <1>3 DEF Distinct, IsInjective
<1> QED
  BY <1>4, <1>5, <1>6 DEF w

-----------------------------------------------------------------------------
(* The clients, and the inductive invariant                                *)

\* The calls for which the slots stay consistent: allocations succeed, the
\* clients name no slot that is still being allocated, no buffer is shared, no
\* thread allocates while another thread disconnects (then the
\* end of one allocation hides the other, BufferQueueProducer.cpp:515), and a
\* consumer that disconnects does not attach buffers afterwards.
PrivateCalls ==
    /\ ~AllocMayFail
    /\ "anySlot" \notin Ops
    /\ "setSharedBufferMode" \notin Ops
    /\ "disconnect" \in Ops => \A t, u \in Thread : t = u
    /\ "consumerDisconnect" \in Ops => "consumerAttachBuffer" \notin Ops

\* Nothing is shared, and nothing has crashed.
NothingShared ==
    /\ ~mSharedBufferMode /\ mSharedBufferSlot = INVALID_BUFFER_SLOT
    /\ cpc \in {"idle", "dropping"} /\ \A t \in Thread : pc[t] # "crash"

\* Every slot has one of the four states.
FourStates ==
    \A s \in Slot : mSlots[s].mBufferState \in {FREE, DEQUEUED, QUEUED, ACQUIRED}

\* The lists are a partition of the slots.
Lists ==
    /\ Distinct(mFreeBuffers)
    /\ mUnusedSlots \cup mFreeSlots \cup ToSet(mFreeBuffers) \cup mActiveBuffers = Slot
    /\ mUnusedSlots \cap mFreeSlots = {}
    /\ mUnusedSlots \cap ToSet(mFreeBuffers) = {}
    /\ mUnusedSlots \cap mActiveBuffers = {}
    /\ mFreeSlots \cap ToSet(mFreeBuffers) = {}
    /\ mFreeSlots \cap mActiveBuffers = {}
    /\ ToSet(mFreeBuffers) \cap mActiveBuffers = {}

\* What is in a slot, by the list it is in.
Contents ==
    /\ \A s \in mUnusedSlots \cup mFreeSlots :
          mSlots[s].mBufferState = FREE /\ mSlots[s].mGraphicBuffer = NullBuffer
    /\ \A s \in ToSet(mFreeBuffers) :
          mSlots[s].mBufferState = FREE /\ mSlots[s].mGraphicBuffer # NullBuffer
    /\ \A s \in mActiveBuffers :
          /\ mSlots[s].mBufferState # FREE
          /\ mSlots[s].mGraphicBuffer = NullBuffer => mSlots[s].mBufferState = DEQUEUED

\* A slot without a buffer that has an owner is being allocated, by one thread.
\* A thread that is alone says so in mIsAllocating.
Allocations ==
    /\ \A t \in Thread : pc[t] = "alloc" =>
          outSlot[t] \in mActiveBuffers /\ mSlots[outSlot[t]].mGraphicBuffer = NullBuffer
    /\ \A t, u \in Thread :
          pc[t] = "alloc" /\ pc[u] = "alloc" /\ outSlot[t] = outSlot[u] => t = u
    /\ \A s \in mActiveBuffers : mSlots[s].mGraphicBuffer = NullBuffer =>
          \E t \in Thread : pc[t] = "alloc" /\ outSlot[t] = s

\* A thread that is alone has mIsAllocating set while it allocates.
AllocationKnown ==
    "disconnect" \in Ops => \A t \in Thread :
        pc[t] \in {"alloc", "allocateBuffersAlloc"} => mIsAllocating

\* The items of mQueue that are not stale are the queued slots, each once.
QueuedOnce ==
    /\ \A i \in DOMAIN mQueue : ~mQueue[i].mIsStale =>
          LET slot == mSlots[mQueue[i].mSlot] IN
          /\ slot.mBufferState = QUEUED
          /\ slot.mGraphicBuffer = mQueue[i].mGraphicBuffer
          /\ slot.mFrameNumber = mQueue[i].mFrameNumber
    /\ \A i, j \in DOMAIN mQueue :
          ~mQueue[i].mIsStale /\ ~mQueue[j].mIsStale /\ mQueue[i].mSlot = mQueue[j].mSlot
              => i = j
    /\ \A s \in Slot : mSlots[s].mBufferState = QUEUED =>
          \E i \in DOMAIN mQueue : mQueue[i].mSlot = s /\ ~mQueue[i].mIsStale

\* A queue that the consumer has left is empty and stays so.
LeftEmpty ==
    mIsAbandoned =>
        /\ "consumerDisconnect" \in Ops /\ mQueue = <<>>
        /\ \A s \in Slot : mSlots[s].mBufferState = FREE

\* The inductive invariant about the slots.  Lists, contents and allocations need
\* each other: a slot that is taken from a free list was free because of
\* Contents, and one that is given back was active because of Lists.
SlotInv ==
    /\ NothingShared /\ FourStates /\ QueuedOnce /\ LeftEmpty /\ AllocationKnown
    /\ ~mIsAbandoned => Lists /\ Contents /\ Allocations

-----------------------------------------------------------------------------
(* What a step can do to the slots                                         *)

\* What matters in slot r is as it was.
Same(r) ==
    /\ mSlots'[r].mBufferState = mSlots[r].mBufferState
    /\ mSlots'[r].mGraphicBuffer = mSlots[r].mGraphicBuffer
    /\ mSlots'[r].mFrameNumber = mSlots[r].mFrameNumber

\* So are the other slots.
Others(s) == \A r \in Slot \ {s} : Same(r)

\* The same threads allocate for the same slots, apart from those in T.
AllocatorsKept(T) ==
    \A t \in Thread \ T :
        (pc'[t] = "alloc" <=> pc[t] = "alloc") /\ outSlot'[t] = outSlot[t]

\* Nothing happens to the slots.
Quiet == (\A r \in Slot : Same(r)) /\ UNCHANGED <<listVars, mQueue>> /\ AllocatorsKept({})

\* A slot leaves the free lists and gets an owner; its buffer is there, or a
\* thread sets out to allocate it.
FromFreeLists(s) ==
    \/ s \in mFreeSlots /\ mFreeSlots' = mFreeSlots \ {s} /\ UNCHANGED mFreeBuffers
    \/ /\ mFreeBuffers # <<>> /\ s = Head(mFreeBuffers)
       /\ mFreeBuffers' = Tail(mFreeBuffers) /\ UNCHANGED mFreeSlots

Taken(s) ==
    /\ FromFreeLists(s)
    /\ mActiveBuffers' = mActiveBuffers \cup {s}
    /\ UNCHANGED <<mUnusedSlots, mQueue>>
    /\ Others(s)
    /\ mSlots'[s].mBufferState \in {DEQUEUED, ACQUIRED}
    /\ \/ AllocatorsKept({}) /\ mSlots'[s].mGraphicBuffer # NullBuffer
       \/ /\ mSlots'[s].mBufferState = DEQUEUED /\ mSlots'[s].mGraphicBuffer = NullBuffer
          /\ \E t \in Thread : /\ pc[t] # "alloc" /\ pc'[t] = "alloc" /\ outSlot'[t] = s
                               /\ AllocatorsKept({t})

\* The allocation of thread t ends.
Filled(t) ==
    /\ pc[t] = "alloc" /\ pc'[t] # "alloc" /\ AllocatorsKept({t})
    /\ UNCHANGED <<listVars, mQueue>>
    /\ Others(outSlot[t])
    /\ mSlots'[outSlot[t]].mBufferState = mSlots[outSlot[t]].mBufferState
    /\ mSlots'[outSlot[t]].mFrameNumber = mSlots[outSlot[t]].mFrameNumber
    /\ mSlots'[outSlot[t]].mGraphicBuffer # NullBuffer

\* A free slot gets a buffer.
Preallocated(s) ==
    /\ s \in mFreeSlots /\ mFreeSlots' = mFreeSlots \ {s}
    /\ mFreeBuffers' = <<s>> \o mFreeBuffers
    /\ UNCHANGED <<mUnusedSlots, mActiveBuffers, mQueue>>
    /\ Others(s) /\ AllocatorsKept({})
    /\ mSlots'[s].mBufferState = FREE /\ mSlots'[s].mGraphicBuffer # NullBuffer

\* Slot s is cleared and put into mFreeSlots.
Emptied(s) ==
    /\ mFreeSlots' = mFreeSlots \cup {s}
    /\ UNCHANGED <<mUnusedSlots, mQueue>>
    /\ Others(s) /\ AllocatorsKept({})
    /\ mSlots'[s].mBufferState = FREE /\ mSlots'[s].mGraphicBuffer = NullBuffer

\* The first free buffer is given up.
HeadEmptied ==
    /\ mFreeBuffers # <<>> /\ mFreeBuffers' = Tail(mFreeBuffers)
    /\ UNCHANGED mActiveBuffers /\ Emptied(Head(mFreeBuffers))

\* Its owner gives up the buffer of slot s.
Detached(s) ==
    /\ mSlots[s].mBufferState \in {DEQUEUED, ACQUIRED}
    /\ mSlots[s].mGraphicBuffer # NullBuffer
    /\ mActiveBuffers' = mActiveBuffers \ {s} /\ UNCHANGED mFreeBuffers /\ Emptied(s)

\* All free buffers are given up.
Discarded ==
    /\ mFreeSlots' = mFreeSlots \cup ToSet(mFreeBuffers) /\ mFreeBuffers' = <<>>
    /\ UNCHANGED <<mUnusedSlots, mActiveBuffers, mQueue>> /\ AllocatorsKept({})
    /\ \A r \in Slot \ ToSet(mFreeBuffers) : Same(r)
    /\ \A r \in ToSet(mFreeBuffers) :
          mSlots'[r].mBufferState = FREE /\ mSlots'[r].mGraphicBuffer = NullBuffer

\* Slot s is free again and keeps its buffer.
Freed(s) ==
    /\ mActiveBuffers' = mActiveBuffers \ {s} /\ mFreeBuffers' = Append(mFreeBuffers, s)
    /\ mSlots'[s].mBufferState = FREE
    /\ mSlots'[s].mGraphicBuffer = mSlots[s].mGraphicBuffer

\* Its owner gives slot s back with its buffer.
Returned(s) ==
    /\ mSlots[s].mBufferState \in {DEQUEUED, ACQUIRED}
    /\ mSlots[s].mGraphicBuffer # NullBuffer
    /\ Freed(s) /\ Others(s) /\ AllocatorsKept({})
    /\ UNCHANGED <<mFreeSlots, mUnusedSlots, mQueue>>

\* Slot s is queued with an item; the item may take the place of the last one.
Queued(s, item) ==
    /\ mSlots[s].mBufferState = DEQUEUED /\ mSlots[s].mGraphicBuffer # NullBuffer
    /\ mSlots'[s].mBufferState = QUEUED
    /\ mSlots'[s].mGraphicBuffer = mSlots[s].mGraphicBuffer
    /\ item.mGraphicBuffer = mSlots[s].mGraphicBuffer
    /\ item.mFrameNumber = mSlots'[s].mFrameNumber
    /\ item.mSlot = s /\ ~item.mIsStale
    /\ AllocatorsKept({}) /\ UNCHANGED <<mFreeSlots, mUnusedSlots>>

Appended(s, item) ==
    /\ Queued(s, item) /\ Others(s) /\ UNCHANGED <<mActiveBuffers, mFreeBuffers>>
    /\ \/ mQueue' = Append(mQueue, item)
       \/ /\ mQueue # <<>> /\ Last(mQueue).mIsStale
          /\ mQueue' = Append(Front(mQueue), item)

Replaced(s, item) ==
    /\ Queued(s, item)
    /\ mQueue # <<>> /\ ~Last(mQueue).mIsStale /\ mQueue' = Append(Front(mQueue), item)
    /\ Freed(Last(mQueue).mSlot) /\ \A r \in Slot \ {s, Last(mQueue).mSlot} : Same(r)

\* The first item of the queue goes; its slot is acquired, is free again, or has
\* nothing to do with the item any more.
FrontGone ==
    /\ mQueue # <<>> /\ mQueue' = Tail(mQueue) /\ AllocatorsKept({})
    /\ UNCHANGED <<mFreeSlots, mUnusedSlots>>

FrontStale ==
    /\ FrontGone /\ Head(mQueue).mIsStale
    /\ (\A r \in Slot : Same(r)) /\ UNCHANGED <<mActiveBuffers, mFreeBuffers>>

FrontAcquired ==
    LET s == Head(mQueue).mSlot IN
    /\ FrontGone /\ ~Head(mQueue).mIsStale
    /\ Others(s) /\ UNCHANGED <<mActiveBuffers, mFreeBuffers>>
    /\ mSlots'[s].mBufferState = ACQUIRED
    /\ mSlots'[s].mGraphicBuffer = mSlots[s].mGraphicBuffer

FrontDropped ==
    /\ FrontGone /\ ~Head(mQueue).mIsStale
    /\ Others(Head(mQueue).mSlot) /\ Freed(Head(mQueue).mSlot)

\* The number of slots in play changes.
SlotsAdded(S) ==
    /\ S \subseteq mUnusedSlots
    /\ mUnusedSlots' = mUnusedSlots \ S /\ mFreeSlots' = mFreeSlots \cup S
    /\ (\A r \in Slot : Same(r)) /\ AllocatorsKept({})
    /\ UNCHANGED <<mFreeBuffers, mActiveBuffers, mQueue>>

LastFree(k) == {mFreeBuffers[i] : i \in k + 1 .. Len(mFreeBuffers)}

SlotsRemoved(S, k) ==
    /\ S \subseteq mFreeSlots /\ k \in 0 .. Len(mFreeBuffers)
    /\ mFreeSlots' = mFreeSlots \ S /\ mFreeBuffers' = SubSeq(mFreeBuffers, 1, k)
    /\ mUnusedSlots' = mUnusedSlots \cup S \cup LastFree(k)
    /\ \A r \in Slot \ (S \cup LastFree(k)) : Same(r)
    /\ \A r \in S \cup LastFree(k) :
          mSlots'[r].mBufferState = FREE /\ mSlots'[r].mGraphicBuffer = NullBuffer
    /\ AllocatorsKept({}) /\ UNCHANGED <<mActiveBuffers, mQueue>>

\* The producer disconnects while nothing is allocated.
AllFreed ==
    LET all == mFreeSlots \cup ToSet(mFreeBuffers) \cup mActiveBuffers IN
    /\ \A t \in Thread : pc[t] # "alloc"
    /\ mFreeSlots' = all /\ mFreeBuffers' = <<>> /\ mActiveBuffers' = {}
    /\ UNCHANGED mUnusedSlots
    /\ \A r \in Slot \ all : Same(r)
    /\ \A r \in all :
          mSlots'[r].mBufferState = FREE /\ mSlots'[r].mGraphicBuffer = NullBuffer
    /\ mQueue' = MarkedStale(mQueue) /\ AllocatorsKept({})

\* What the steps do to the slots while the consumer is there.
SlotStep ==
    \/ Quiet \/ HeadEmptied \/ Discarded \/ AllFreed
    \/ FrontStale \/ FrontAcquired \/ FrontDropped
    \/ \E t \in Thread : Filled(t)
    \/ \E s \in Slot : Taken(s) \/ Preallocated(s) \/ Detached(s) \/ Returned(s)
    \/ \E s \in Slot, item \in BufferItem : Appended(s, item) \/ Replaced(s, item)
    \/ \E S \in SUBSET Slot : SlotsAdded(S)
    \/ \E S \in SUBSET Slot, k \in Nat : SlotsRemoved(S, k)

\* What holds of the slots while the consumer is there.
SlotsOK == FourStates /\ Lists /\ Contents /\ Allocations /\ QueuedOnce

\* The slot that Head names is a free buffer, the one with an owner is active.
LEMMA WhereSlotsAre ==
    ASSUME SlotTypeOK, QueueTypeOK, SlotsOK
    PROVE  /\ mFreeBuffers # <<>> => Head(mFreeBuffers) \in ToSet(mFreeBuffers)
           /\ \A s \in Slot : mSlots[s].mBufferState \in {DEQUEUED, QUEUED, ACQUIRED}
                                <=> s \in mActiveBuffers
           /\ ToSet(mFreeBuffers) \subseteq Slot
<1>1. mFreeBuffers # <<>> => Head(mFreeBuffers) \in ToSet(mFreeBuffers)
  BY ListTail DEF SlotTypeOK, SlotsOK, Lists
<1>2. ASSUME NEW s \in Slot
      PROVE  mSlots[s].mBufferState \in {DEQUEUED, QUEUED, ACQUIRED} <=> s \in mActiveBuffers
  BY StatesDiffer DEF SlotsOK, FourStates, Lists, Contents
<1>3. ToSet(mFreeBuffers) \subseteq Slot
  BY FreeBufferSetType
<1> QED
  BY <1>1, <1>2, <1>3

\* The items of the queue, and its two ends.
LEMMA QueueElements ==
    ASSUME QueueTypeOK
    PROVE  /\ DOMAIN mQueue = 1 .. Len(mQueue) /\ Len(mQueue) \in Nat
           /\ \A i \in DOMAIN mQueue : mQueue[i] \in BufferItem /\ mQueue[i].mSlot \in Slot
           /\ mQueue # <<>> =>
                 /\ Len(mQueue) > 0 /\ 1 \in DOMAIN mQueue /\ Head(mQueue) = mQueue[1]
                 /\ Len(mQueue) \in DOMAIN mQueue /\ Last(mQueue) = mQueue[Len(mQueue)]
<1>1. /\ mQueue \in Seq(BufferItem) /\ DOMAIN mQueue = 1 .. Len(mQueue)
      /\ Len(mQueue) \in Nat
  BY DEF QueueTypeOK
<1>2. \A i \in DOMAIN mQueue : mQueue[i] \in BufferItem
  BY <1>1
<1>3. \A item \in BufferItem : item.mSlot \in Slot
  BY DEF BufferItem
<1>4. ASSUME mQueue # <<>>
      PROVE  /\ Len(mQueue) > 0 /\ 1 \in DOMAIN mQueue /\ Head(mQueue) = mQueue[1]
             /\ Len(mQueue) \in DOMAIN mQueue
  <2>1. Len(mQueue) # 0
    BY <1>1, <1>4, EmptySeq
  <2> QED
    BY <1>1, <1>4, <2>1
<1>5. Last(mQueue) = mQueue[Len(mQueue)]
  BY DEF Last
<1> QED
  BY <1>1, <1>2, <1>3, <1>4, <1>5

\* Lists stay a partition.
LEMMA ListsStep ==
    ASSUME SlotTypeOK, QueueTypeOK, SlotsOK, SlotStep
    PROVE  Lists'
<1> DEFINE B == ToSet(mFreeBuffers)
<1>0. /\ mFreeBuffers \in Seq(Slot) /\ Distinct(mFreeBuffers) /\ B \subseteq Slot
      /\ mFreeSlots \subseteq Slot
  BY WhereSlotsAre DEF SlotsOK, Lists, SlotTypeOK
<1>t. ASSUME NEW s \in Slot, FromFreeLists(s)
      PROVE  /\ Distinct(mFreeBuffers') /\ s \in mFreeSlots \cup B
             /\ mFreeSlots' = mFreeSlots \ {s} /\ ToSet(mFreeBuffers') = B \ {s}
  <2>1. CASE s \in mFreeSlots /\ mFreeSlots' = mFreeSlots \ {s} /\ UNCHANGED mFreeBuffers
    BY <1>0, <2>1 DEF SlotsOK, Lists
  <2>2. CASE /\ mFreeBuffers # <<>> /\ s = Head(mFreeBuffers)
             /\ mFreeBuffers' = Tail(mFreeBuffers) /\ UNCHANGED mFreeSlots
    <3>1. s \in B /\ ToSet(mFreeBuffers') = B \ {s} /\ Distinct(mFreeBuffers')
      BY <1>0, <2>2, ListTail
    <3> QED
      BY <2>2, <3>1 DEF SlotsOK, Lists
  <2> QED
    BY <1>t, <2>1, <2>2 DEF FromFreeLists
<1>f. ASSUME NEW s \in mActiveBuffers, Freed(s)
      PROVE  /\ Distinct(mFreeBuffers') /\ ToSet(mFreeBuffers') = B \cup {s}
             /\ mActiveBuffers' = mActiveBuffers \ {s}
  <2>1. s \in Slot /\ s \notin B
    BY DEF SlotsOK, Lists, SlotTypeOK
  <2> QED
    BY <1>0, <1>f, <2>1, ListAppend DEF Freed
<1>1. CASE Quiet \/ \E t \in Thread : Filled(t)
  <2>1. UNCHANGED listVars
    BY <1>1 DEF Quiet, Filled
  <2> QED
    BY <2>1 DEF listVars, SlotsOK, Lists
<1>2. ASSUME NEW s \in Slot, Taken(s) PROVE Lists'
  BY <1>2, <1>t DEF Taken, SlotsOK, Lists
<1>3. ASSUME NEW s \in Slot, Preallocated(s) PROVE Lists'
  <2>1. s \notin B
    BY <1>3 DEF Preallocated, SlotsOK, Lists
  <2>2. Distinct(mFreeBuffers') /\ ToSet(mFreeBuffers') = B \cup {s}
    BY <1>0, <1>3, <2>1, ListPrepend DEF Preallocated
  <2> QED
    BY <1>3, <2>2 DEF Preallocated, SlotsOK, Lists
<1>4. CASE HeadEmptied
  <2> DEFINE h == Head(mFreeBuffers)
  <2>1. h \in B /\ Distinct(mFreeBuffers') /\ ToSet(mFreeBuffers') = B \ {h}
    BY <1>0, <1>4, ListTail DEF HeadEmptied
  <2>2. mFreeSlots' = mFreeSlots \cup {h} /\ UNCHANGED <<mUnusedSlots, mActiveBuffers>>
    BY <1>4 DEF HeadEmptied, Emptied
  <2> HIDE DEF h
  <2> QED
    BY <2>1, <2>2 DEF SlotsOK, Lists
<1>5. ASSUME NEW s \in Slot, Detached(s) PROVE Lists'
  <2>1. s \in mActiveBuffers
    BY <1>5, WhereSlotsAre DEF Detached
  <2> QED
    BY <1>5, <2>1 DEF Detached, Emptied, SlotsOK, Lists
<1>6. CASE Discarded
  BY <1>6, EmptyList DEF Discarded, SlotsOK, Lists
<1>7. ASSUME NEW s \in Slot, Returned(s) PROVE Lists'
  <2>1. s \in mActiveBuffers
    BY <1>7, WhereSlotsAre DEF Returned
  <2>2. Freed(s) /\ UNCHANGED <<mFreeSlots, mUnusedSlots>>
    BY <1>7 DEF Returned
  <2> QED
    BY <1>f, <2>1, <2>2 DEF SlotsOK, Lists
<1>8. ASSUME NEW s \in Slot, NEW item, Appended(s, item) PROVE Lists'
  BY <1>8 DEF Appended, Queued, SlotsOK, Lists
<1>q. ASSUME mQueue # <<>>
      PROVE  /\ ~Head(mQueue).mIsStale => Head(mQueue).mSlot \in mActiveBuffers
             /\ ~Last(mQueue).mIsStale => Last(mQueue).mSlot \in mActiveBuffers
  <2>1. \A i \in DOMAIN mQueue : ~mQueue[i].mIsStale => mQueue[i].mSlot \in mActiveBuffers
    BY QueueElements, WhereSlotsAre DEF SlotsOK, QueuedOnce
  <2> QED
    BY <1>q, <2>1, QueueElements
<1>9. ASSUME NEW s \in Slot, NEW item, Replaced(s, item) PROVE Lists'
  <2> DEFINE r == Last(mQueue).mSlot
  <2>1. r \in mActiveBuffers /\ Freed(r) /\ UNCHANGED <<mFreeSlots, mUnusedSlots>>
    BY <1>9, <1>q DEF Replaced, Queued
  <2> HIDE DEF r
  <2> QED
    BY <1>f, <2>1 DEF SlotsOK, Lists
<1>10. CASE FrontStale \/ FrontAcquired
  BY <1>10 DEF FrontStale, FrontAcquired, FrontGone, SlotsOK, Lists
<1>11. CASE FrontDropped
  <2> DEFINE r == Head(mQueue).mSlot
  <2>1. r \in mActiveBuffers /\ Freed(r) /\ UNCHANGED <<mFreeSlots, mUnusedSlots>>
    BY <1>11, <1>q DEF FrontDropped, FrontGone
  <2> HIDE DEF r
  <2> QED
    BY <1>f, <2>1 DEF SlotsOK, Lists
<1>12. ASSUME NEW S \in SUBSET Slot, SlotsAdded(S) PROVE Lists'
  BY <1>12 DEF SlotsAdded, SlotsOK, Lists
<1>13. ASSUME NEW S \in SUBSET Slot, NEW k \in Nat, SlotsRemoved(S, k) PROVE Lists'
  <2>1. /\ k \in 0 .. Len(mFreeBuffers) /\ mFreeBuffers' = SubSeq(mFreeBuffers, 1, k)
        /\ S \subseteq mFreeSlots /\ mFreeSlots' = mFreeSlots \ S
        /\ mUnusedSlots' = mUnusedSlots \cup S \cup LastFree(k) /\ UNCHANGED mActiveBuffers
    BY <1>13 DEF SlotsRemoved
  <2>2. /\ ToSet(mFreeBuffers') = B \ LastFree(k) /\ LastFree(k) \subseteq B
        /\ Distinct(mFreeBuffers')
    BY <1>0, <2>1, ListFront DEF LastFree
  <2> QED
    BY <2>1, <2>2 DEF SlotsOK, Lists
<1>14. CASE AllFreed
  BY <1>14, EmptyList DEF AllFreed, SlotsOK, Lists
<1> QED
  BY <1>1, <1>2, <1>3, <1>4, <1>5, <1>6, <1>7, <1>8, <1>9, <1>10, <1>11, <1>12, <1>13,
     <1>14 DEF SlotStep

\* Every slot stays in one of the four states.
LEMMA FourStatesStep ==
    ASSUME SlotTypeOK, FourStates, SlotStep
    PROVE  FourStates'
<1>0. \A r \in Slot : Same(r) =>
          mSlots'[r].mBufferState \in {FREE, DEQUEUED, QUEUED, ACQUIRED}
  BY DEF FourStates, Same
<1>1. CASE Quiet \/ FrontStale
  BY <1>0, <1>1 DEF Quiet, FrontStale, FourStates
<1>2. CASE HeadEmptied \/ \E s \in Slot : Preallocated(s) \/ Detached(s)
  BY <1>0, <1>2 DEF HeadEmptied, Preallocated, Detached, Emptied, Others, FourStates
<1>3. CASE Discarded
  BY <1>0, <1>3 DEF Discarded, FourStates
<1>4. CASE AllFreed
  BY <1>0, <1>4 DEF AllFreed, FourStates
<1>5. CASE FrontAcquired
  BY <1>0, <1>5 DEF FrontAcquired, Others, FourStates
<1>6. CASE FrontDropped
  BY <1>0, <1>6 DEF FrontDropped, Freed, Others, FourStates
<1>7. ASSUME NEW t \in Thread, Filled(t) PROVE FourStates'
  BY <1>0, <1>7 DEF Filled, Others, FourStates
<1>8. ASSUME NEW s \in Slot, Taken(s) PROVE FourStates'
  BY <1>0, <1>8 DEF Taken, Others, FourStates
<1>9. ASSUME NEW s \in Slot, Returned(s) PROVE FourStates'
  BY <1>0, <1>9 DEF Returned, Freed, Others, FourStates
<1>10. ASSUME NEW s \in Slot, NEW item, Appended(s, item) PROVE FourStates'
  BY <1>0, <1>10 DEF Appended, Queued, Others, FourStates
<1>11. ASSUME NEW s \in Slot, NEW item, Replaced(s, item) PROVE FourStates'
  BY <1>0, <1>11 DEF Replaced, Queued, Freed, FourStates
<1>12. ASSUME NEW S \in SUBSET Slot, SlotsAdded(S) PROVE FourStates'
  BY <1>0, <1>12 DEF SlotsAdded, FourStates
<1>13. ASSUME NEW S \in SUBSET Slot, NEW k \in Nat, SlotsRemoved(S, k) PROVE FourStates'
  BY <1>0, <1>13 DEF SlotsRemoved, FourStates
<1> QED
  BY <1>1, <1>2, <1>3, <1>4, <1>5, <1>6, <1>7, <1>8, <1>9, <1>10, <1>11, <1>12, <1>13
     DEF SlotStep

\* A queued slot has its buffer; the slots of items that are not stale are queued.
LEMMA EndsOfQueue ==
    ASSUME SlotTypeOK, QueueTypeOK, SlotsOK, mQueue # <<>>
    PROVE  /\ ~Head(mQueue).mIsStale =>
                 /\ Head(mQueue).mSlot \in mActiveBuffers
                 /\ mSlots[Head(mQueue).mSlot].mBufferState = QUEUED
                 /\ mSlots[Head(mQueue).mSlot].mGraphicBuffer # NullBuffer
           /\ ~Last(mQueue).mIsStale =>
                 /\ Last(mQueue).mSlot \in mActiveBuffers
                 /\ mSlots[Last(mQueue).mSlot].mBufferState = QUEUED
                 /\ mSlots[Last(mQueue).mSlot].mGraphicBuffer # NullBuffer
<1>1. \A i \in DOMAIN mQueue : ~mQueue[i].mIsStale =>
          /\ mQueue[i].mSlot \in mActiveBuffers
          /\ mSlots[mQueue[i].mSlot].mBufferState = QUEUED
          /\ mSlots[mQueue[i].mSlot].mGraphicBuffer # NullBuffer
  BY QueueElements, WhereSlotsAre, StatesDiffer DEF SlotsOK, QueuedOnce, Contents
<1> QED
  BY <1>1, QueueElements

\* The slots keep what their lists promise.
LEMMA ContentsStep ==
    ASSUME SlotTypeOK, QueueTypeOK, SlotsOK, SlotStep
    PROVE  Contents'
<1> DEFINE B == ToSet(mFreeBuffers)
           Empty(r) == /\ mSlots'[r].mBufferState = FREE
                       /\ mSlots'[r].mGraphicBuffer = NullBuffer
           Ready(r) == /\ mSlots'[r].mBufferState = FREE
                       /\ mSlots'[r].mGraphicBuffer # NullBuffer
           Owned(r) == /\ mSlots'[r].mBufferState # FREE
                       /\ mSlots'[r].mGraphicBuffer = NullBuffer
                            => mSlots'[r].mBufferState = DEQUEUED
<1>0. /\ mFreeBuffers \in Seq(Slot) /\ Distinct(mFreeBuffers) /\ B \subseteq Slot
      /\ mFreeSlots \subseteq Slot /\ mUnusedSlots \subseteq Slot
      /\ mActiveBuffers \subseteq Slot
  BY WhereSlotsAre DEF SlotsOK, Lists, SlotTypeOK
<1>s. ASSUME NEW r \in Slot, Same(r)
      PROVE  /\ r \in mUnusedSlots \cup mFreeSlots => Empty(r)
             /\ r \in B => Ready(r)
             /\ r \in mActiveBuffers => Owned(r)
  BY <1>s DEF SlotsOK, Contents, Same
<1>l. \A r \in Slot : /\ r \in mActiveBuffers
                            => r \notin B /\ r \notin mFreeSlots /\ r \notin mUnusedSlots
                      /\ r \in B => r \notin mFreeSlots /\ r \notin mUnusedSlots
                      /\ r \in mFreeSlots => r \notin mUnusedSlots
  BY DEF SlotsOK, Lists
<1>g. /\ \A r \in mUnusedSlots' \cup mFreeSlots' : Empty(r)
      /\ \A r \in ToSet(mFreeBuffers)' : Ready(r)
      /\ \A r \in mActiveBuffers' : Owned(r)
      => Contents'
  BY DEF Contents
<1>t. ASSUME NEW s \in Slot, FromFreeLists(s)
      PROVE  /\ s \in mFreeSlots \cup B
             /\ mFreeSlots' = mFreeSlots \ {s} /\ ToSet(mFreeBuffers)' = B \ {s}
  <2>1. CASE s \in mFreeSlots /\ mFreeSlots' = mFreeSlots \ {s} /\ UNCHANGED mFreeBuffers
    BY <1>0, <1>l, <2>1
  <2>2. CASE /\ mFreeBuffers # <<>> /\ s = Head(mFreeBuffers)
             /\ mFreeBuffers' = Tail(mFreeBuffers) /\ UNCHANGED mFreeSlots
    <3>1. s \in B /\ ToSet(mFreeBuffers') = B \ {s}
      BY <1>0, <2>2, ListTail
    <3> QED
      BY <1>l, <2>2, <3>1
  <2> QED
    BY <1>t, <2>1, <2>2 DEF FromFreeLists
<1>f. ASSUME NEW s \in mActiveBuffers, Freed(s), mSlots[s].mGraphicBuffer # NullBuffer
      PROVE  /\ ToSet(mFreeBuffers)' = B \cup {s} /\ Ready(s)
             /\ mActiveBuffers' = mActiveBuffers \ {s}
  <2>1. s \in Slot /\ s \notin B
    BY <1>0, <1>l
  <2>2. mFreeBuffers' = Append(mFreeBuffers, s)
    BY <1>f DEF Freed
  <2>3. ToSet(Append(mFreeBuffers, s)) = B \cup {s}
    BY <1>0, <2>1, ListAppend
  <2> QED
    BY <1>f, <2>2, <2>3 DEF Freed
<1> HIDE DEF Empty, Ready, Owned, B
<1>1. CASE Quiet \/ FrontStale
  <2>1. (\A r \in Slot : Same(r)) /\ UNCHANGED <<listVars>>
    BY <1>1 DEF Quiet, FrontStale, FrontGone, listVars
  <2> QED
    BY <1>0, <1>g, <1>s, <2>1 DEF listVars, B
<1>2. ASSUME NEW t \in Thread, Filled(t) PROVE Contents'
  <2>1. /\ outSlot[t] \in mActiveBuffers /\ UNCHANGED listVars
        /\ \A r \in Slot \ {outSlot[t]} : Same(r)
    BY <1>2 DEF Filled, Others, SlotsOK, Allocations
  <2>2. Owned(outSlot[t])
    BY <1>2, <2>1 DEF Filled, Owned, SlotsOK, Contents
  <2> HIDE DEF Owned
  <2> QED
    BY <1>0, <1>g, <1>l, <1>s, <2>1, <2>2 DEF listVars, B
<1>3. ASSUME NEW s \in Slot, Taken(s) PROVE Contents'
  <2>1. /\ mActiveBuffers' = mActiveBuffers \cup {s} /\ UNCHANGED mUnusedSlots
        /\ FromFreeLists(s) /\ \A r \in Slot \ {s} : Same(r)
    BY <1>3 DEF Taken, Others
  <2>2. Owned(s)
    BY <1>3, StatesDiffer DEF Taken, Owned
  <2> QED
    BY <1>0, <1>g, <1>l, <1>s, <1>t, <2>1, <2>2
<1>4. ASSUME NEW s \in Slot, Preallocated(s) PROVE Contents'
  <2>1. s \in mFreeSlots /\ s \notin B
    BY <1>4, <1>l DEF Preallocated
  <2>2. ToSet(<<s>> \o mFreeBuffers) = B \cup {s}
    BY <1>0, <2>1, ListPrepend DEF B
  <2>3. /\ ToSet(mFreeBuffers)' = B \cup {s} /\ mFreeSlots' = mFreeSlots \ {s}
        /\ UNCHANGED <<mUnusedSlots, mActiveBuffers>>
        /\ \A r \in Slot \ {s} : Same(r)
    BY <1>4, <2>2 DEF Preallocated, Others
  <2>4. Ready(s)
    BY <1>4 DEF Preallocated, Ready
  <2> QED
    BY <1>0, <1>g, <1>l, <1>s, <2>1, <2>3, <2>4
<1>5. CASE HeadEmptied
  <2> DEFINE h == Head(mFreeBuffers)
  <2>1. h \in B /\ ToSet(Tail(mFreeBuffers)) = B \ {h}
    BY <1>0, <1>5, ListTail DEF HeadEmptied, B
  <2>2. /\ mFreeSlots' = mFreeSlots \cup {h} /\ UNCHANGED <<mUnusedSlots, mActiveBuffers>>
        /\ ToSet(mFreeBuffers)' = B \ {h} /\ \A r \in Slot \ {h} : Same(r)
    BY <1>5, <2>1 DEF HeadEmptied, Emptied, Others
  <2>3. Empty(h)
    BY <1>5 DEF HeadEmptied, Emptied, Empty
  <2> HIDE DEF h
  <2> QED
    BY <1>0, <1>g, <1>l, <1>s, <2>1, <2>2, <2>3
<1>6. ASSUME NEW s \in Slot, Detached(s) PROVE Contents'
  <2>1. s \in mActiveBuffers
    BY <1>6, WhereSlotsAre DEF Detached
  <2>2. /\ mFreeSlots' = mFreeSlots \cup {s} /\ mActiveBuffers' = mActiveBuffers \ {s}
        /\ UNCHANGED <<mUnusedSlots, mFreeBuffers>> /\ \A r \in Slot \ {s} : Same(r)
    BY <1>6 DEF Detached, Emptied, Others
  <2>3. Empty(s)
    BY <1>6 DEF Detached, Emptied, Empty
  <2> QED
    BY <1>0, <1>g, <1>l, <1>s, <2>1, <2>2, <2>3 DEF B
<1>7. CASE Discarded
  <2>1. /\ mFreeSlots' = mFreeSlots \cup B /\ ToSet(mFreeBuffers)' = {}
        /\ UNCHANGED <<mUnusedSlots, mActiveBuffers>>
        /\ (\A r \in Slot \ B : Same(r)) /\ \A r \in B : Empty(r)
    BY <1>7, EmptyList DEF Discarded, Empty, B
  <2> QED
    BY <1>0, <1>g, <1>l, <1>s, <2>1
<1>8. ASSUME NEW s \in Slot, Returned(s) PROVE Contents'
  <2>1. s \in mActiveBuffers /\ Freed(s) /\ mSlots[s].mGraphicBuffer # NullBuffer
    BY <1>8, WhereSlotsAre DEF Returned
  <2>2. UNCHANGED <<mFreeSlots, mUnusedSlots>> /\ \A r \in Slot \ {s} : Same(r)
    BY <1>8 DEF Returned, Others
  <2> QED
    BY <1>0, <1>f, <1>g, <1>l, <1>s, <2>1, <2>2
<1>o. ASSUME NEW s \in Slot, NEW item, Queued(s, item)
      PROVE  s \in mActiveBuffers /\ Owned(s)
  BY <1>o, WhereSlotsAre, StatesDiffer DEF Queued, Owned
<1>9. ASSUME NEW s \in Slot, NEW item, Appended(s, item) PROVE Contents'
  <2>1. Queued(s, item) /\ UNCHANGED listVars /\ \A r \in Slot \ {s} : Same(r)
    BY <1>9 DEF Appended, Queued, Others, listVars
  <2> QED
    BY <1>0, <1>g, <1>l, <1>o, <1>s, <2>1 DEF listVars, B
<1>10. ASSUME NEW s \in Slot, NEW item, Replaced(s, item) PROVE Contents'
  <2> DEFINE r == Last(mQueue).mSlot
  <2>1. /\ r \in mActiveBuffers /\ Freed(r) /\ mSlots[r].mGraphicBuffer # NullBuffer
        /\ mSlots[r].mBufferState = QUEUED
        /\ Queued(s, item) /\ \A x \in Slot \ {s, r} : Same(x)
    BY <1>10, EndsOfQueue DEF Replaced
  <2>2. r # s /\ UNCHANGED <<mFreeSlots, mUnusedSlots>>
    BY <2>1, StatesDiffer DEF Queued
  <2> HIDE DEF r
  <2> QED
    BY <1>0, <1>f, <1>g, <1>l, <1>o, <1>s, <2>1, <2>2
<1>11. CASE FrontAcquired
  <2> DEFINE r == Head(mQueue).mSlot
  <2>1. /\ r \in mActiveBuffers /\ mSlots[r].mGraphicBuffer # NullBuffer
        /\ UNCHANGED listVars /\ \A x \in Slot \ {r} : Same(x)
    BY <1>11, EndsOfQueue DEF FrontAcquired, FrontGone, Others, listVars
  <2>2. Owned(r)
    BY <1>11, <2>1, StatesDiffer DEF FrontAcquired, Owned
  <2> HIDE DEF r
  <2> QED
    BY <1>0, <1>g, <1>l, <1>s, <2>1, <2>2 DEF listVars, B
<1>12. CASE FrontDropped
  <2> DEFINE r == Head(mQueue).mSlot
  <2>1. /\ r \in mActiveBuffers /\ mSlots[r].mGraphicBuffer # NullBuffer /\ Freed(r)
        /\ UNCHANGED <<mFreeSlots, mUnusedSlots>> /\ \A x \in Slot \ {r} : Same(x)
    BY <1>12, EndsOfQueue DEF FrontDropped, FrontGone, Others
  <2> HIDE DEF r
  <2> QED
    BY <1>0, <1>f, <1>g, <1>l, <1>s, <2>1
<1>13. ASSUME NEW S \in SUBSET Slot, SlotsAdded(S) PROVE Contents'
  BY <1>0, <1>13, <1>g, <1>s DEF SlotsAdded, B
<1>14. ASSUME NEW S \in SUBSET Slot, NEW k \in Nat, SlotsRemoved(S, k) PROVE Contents'
  <2>1. /\ k \in 0 .. Len(mFreeBuffers) /\ mFreeBuffers' = SubSeq(mFreeBuffers, 1, k)
        /\ S \subseteq mFreeSlots /\ mFreeSlots' = mFreeSlots \ S
        /\ mUnusedSlots' = mUnusedSlots \cup S \cup LastFree(k) /\ UNCHANGED mActiveBuffers
        /\ \A r \in Slot \ (S \cup LastFree(k)) : Same(r)
        /\ \A r \in S \cup LastFree(k) : Empty(r)
    BY <1>14 DEF SlotsRemoved, Empty
  <2>2. /\ ToSet(SubSeq(mFreeBuffers, 1, k)) = B \ LastFree(k) /\ LastFree(k) \subseteq B
    BY <1>0, <2>1, ListFront DEF LastFree, B
  <2> QED
    BY <1>0, <1>g, <1>l, <1>s, <2>1, <2>2
<1>15. CASE AllFreed
  <2>1. /\ mFreeSlots' = mFreeSlots \cup B \cup mActiveBuffers /\ mActiveBuffers' = {}
        /\ UNCHANGED mUnusedSlots /\ mFreeBuffers' = <<>>
        /\ \A r \in Slot \ (mFreeSlots \cup B \cup mActiveBuffers) : Same(r)
        /\ \A r \in mFreeSlots \cup B \cup mActiveBuffers : Empty(r)
    BY <1>15 DEF AllFreed, Empty, B
  <2> QED
    BY <1>0, <1>g, <1>l, <1>s, <2>1, EmptyList
<1> QED
  BY <1>1, <1>2, <1>3, <1>4, <1>5, <1>6, <1>7, <1>8, <1>9, <1>10, <1>11, <1>12, <1>13,
     <1>14, <1>15 DEF SlotStep

\* The slots without a buffer that have an owner stay those that are allocated.
LEMMA AllocationsStep ==
    ASSUME SlotTypeOK, QueueTypeOK, SlotsOK, SlotStep
    PROVE  Allocations'
<1> DEFINE Bare(s) == s \in mActiveBuffers /\ mSlots[s].mGraphicBuffer = NullBuffer
           BareN(s) == s \in mActiveBuffers' /\ mSlots'[s].mGraphicBuffer = NullBuffer
<1>0. /\ mActiveBuffers \subseteq Slot
      /\ \A s \in mActiveBuffers :
            s \notin mFreeSlots /\ s \notin ToSet(mFreeBuffers) /\ s \notin mUnusedSlots
  BY DEF SlotsOK, Lists, SlotTypeOK
<1>1. /\ \A t \in Thread : pc[t] = "alloc" => Bare(outSlot[t])
      /\ \A t, u \in Thread :
            pc[t] = "alloc" /\ pc[u] = "alloc" /\ outSlot[t] = outSlot[u] => t = u
      /\ \A s \in Slot : Bare(s) => \E t \in Thread : pc[t] = "alloc" /\ outSlot[t] = s
  BY DEF SlotsOK, Allocations
<1>s. \A s \in mActiveBuffers' : s \in mActiveBuffers \/ s \in mFreeSlots \cup ToSet(mFreeBuffers)
  <2>1. \A s \in Slot : FromFreeLists(s) => s \in mFreeSlots \cup ToSet(mFreeBuffers)
    BY WhereSlotsAre DEF FromFreeLists
  <2> QED
    BY <2>1 DEF SlotStep, Quiet, HeadEmptied, Discarded, AllFreed, FrontStale,
       FrontAcquired, FrontDropped, Filled, Taken, Preallocated, Detached, Returned,
       Appended, Replaced, SlotsAdded, SlotsRemoved, Freed, Emptied, listVars
<1>g. ASSUME \A t \in Thread : pc'[t] = "alloc" => BareN(outSlot'[t]),
             \A t, u \in Thread :
                pc'[t] = "alloc" /\ pc'[u] = "alloc" /\ outSlot'[t] = outSlot'[u] => t = u,
             \A s \in Slot : BareN(s) => \E t \in Thread : pc'[t] = "alloc" /\ outSlot'[t] = s,
             mActiveBuffers' \subseteq Slot
      PROVE  Allocations'
  BY <1>g DEF Allocations
<1>a. mActiveBuffers' \subseteq Slot
  BY <1>s, WhereSlotsAre DEF SlotTypeOK
<1>k. ASSUME AllocatorsKept({}), \A s \in Slot : BareN(s) <=> Bare(s)
      PROVE  Allocations'
  <2>1. \A t \in Thread : (pc'[t] = "alloc" <=> pc[t] = "alloc") /\ outSlot'[t] = outSlot[t]
    BY <1>k DEF AllocatorsKept
  <2>2. \A t \in Thread : pc[t] = "alloc" => outSlot[t] \in Slot
    BY <1>0, <1>1
  <2> HIDE DEF Bare, BareN
  <2> QED
    BY <1>1, <1>a, <1>g, <1>k, <2>1, <2>2
<1>b. ASSUME NEW r \in Slot, Same(r), r \in mActiveBuffers' <=> r \in mActiveBuffers
      PROVE  BareN(r) <=> Bare(r)
  BY <1>b DEF Same
<1>c. ASSUME NEW r \in Slot, mSlots[r].mGraphicBuffer # NullBuffer \/ r \notin mActiveBuffers,
             mSlots'[r].mGraphicBuffer # NullBuffer \/ r \notin mActiveBuffers'
      PROVE  BareN(r) <=> Bare(r)
  BY <1>c
<1> HIDE DEF Bare, BareN
<1>2. CASE Quiet \/ FrontStale
  <2>1. AllocatorsKept({}) /\ mActiveBuffers' = mActiveBuffers /\ \A r \in Slot : Same(r)
    BY <1>2 DEF Quiet, FrontStale, FrontGone, listVars
  <2>2. \A r \in Slot : BareN(r) <=> Bare(r)
    BY <2>1, <1>b
  <2> QED
    BY <2>1, <2>2, <1>k
<1>3. ASSUME NEW s \in Slot, Preallocated(s) PROVE Allocations'
  <2>1. /\ s \notin mActiveBuffers /\ UNCHANGED mActiveBuffers /\ AllocatorsKept({})
        /\ \A r \in Slot \ {s} : Same(r)
    BY <1>0, <1>3 DEF Preallocated, Others
  <2>2. \A r \in Slot : BareN(r) <=> Bare(r)
    BY <2>1, <1>b, <1>c
  <2> QED
    BY <2>1, <2>2, <1>k
<1>4. CASE HeadEmptied
  <2> DEFINE h == Head(mFreeBuffers)
  <2>1. h \in Slot /\ h \notin mActiveBuffers /\ UNCHANGED mActiveBuffers
        /\ AllocatorsKept({}) /\ \A r \in Slot \ {h} : Same(r)
    BY <1>0, <1>4, WhereSlotsAre DEF HeadEmptied, Emptied, Others
  <2> HIDE DEF h
  <2>2. \A x \in Slot : BareN(x) <=> Bare(x)
    BY <2>1, <1>b, <1>c
  <2> QED
    BY <2>1, <2>2, <1>k
<1>5. ASSUME NEW s \in Slot, Detached(s) PROVE Allocations'
  <2>1. \A x \in Slot : BareN(x) <=> Bare(x)
    BY <1>5, <1>b, <1>c DEF Detached, Emptied, Others
  <2> QED
    BY <1>5, <2>1, <1>k DEF Detached, Emptied
<1>6. CASE Discarded
  <2>1. \A x \in Slot : BareN(x) <=> Bare(x)
    BY <1>0, <1>6, <1>b, <1>c DEF Discarded
  <2> QED
    BY <1>6, <2>1, <1>k DEF Discarded
<1>7. ASSUME NEW s \in Slot, Returned(s) PROVE Allocations'
  <2>1. \A x \in Slot : BareN(x) <=> Bare(x)
    BY <1>7, <1>b, <1>c DEF Returned, Freed, Others
  <2> QED
    BY <1>7, <2>1, <1>k DEF Returned
<1>8. ASSUME NEW s \in Slot, NEW item, Appended(s, item) PROVE Allocations'
  <2>1. \A x \in Slot : BareN(x) <=> Bare(x)
    BY <1>8, <1>b, <1>c DEF Appended, Queued, Others
  <2> QED
    BY <1>8, <2>1, <1>k DEF Appended, Queued
<1>9. ASSUME NEW s \in Slot, NEW item, Replaced(s, item) PROVE Allocations'
  <2> DEFINE r == Last(mQueue).mSlot
  <2>1. /\ r \in Slot /\ mActiveBuffers' = mActiveBuffers \ {r}
        /\ mSlots[r].mGraphicBuffer # NullBuffer
        /\ mSlots[s].mGraphicBuffer # NullBuffer /\ mSlots'[s].mGraphicBuffer # NullBuffer
        /\ AllocatorsKept({}) /\ \A x \in Slot \ {s, r} : Same(x)
    BY <1>0, <1>9, EndsOfQueue DEF Replaced, Queued, Freed
  <2> HIDE DEF r
  <2>2. \A x \in Slot : BareN(x) <=> Bare(x)
    BY <2>1, <1>b, <1>c
  <2> QED
    BY <2>1, <2>2, <1>k
<1>10. CASE FrontAcquired
  <2> DEFINE r == Head(mQueue).mSlot
  <2>1. /\ r \in Slot /\ mActiveBuffers' = mActiveBuffers
        /\ mSlots[r].mGraphicBuffer # NullBuffer /\ mSlots'[r].mGraphicBuffer # NullBuffer
        /\ AllocatorsKept({}) /\ \A x \in Slot \ {r} : Same(x)
    BY <1>0, <1>10, EndsOfQueue DEF FrontAcquired, FrontGone, Others
  <2> HIDE DEF r
  <2>2. \A x \in Slot : BareN(x) <=> Bare(x)
    BY <2>1, <1>b, <1>c
  <2> QED
    BY <2>1, <2>2, <1>k
<1>11. CASE FrontDropped
  <2> DEFINE r == Head(mQueue).mSlot
  <2>1. /\ r \in Slot /\ mActiveBuffers' = mActiveBuffers \ {r}
        /\ mSlots[r].mGraphicBuffer # NullBuffer
        /\ AllocatorsKept({}) /\ \A x \in Slot \ {r} : Same(x)
    BY <1>0, <1>11, EndsOfQueue DEF FrontDropped, FrontGone, Freed, Others
  <2> HIDE DEF r
  <2>2. \A x \in Slot : BareN(x) <=> Bare(x)
    BY <2>1, <1>b, <1>c
  <2> QED
    BY <2>1, <2>2, <1>k
<1>12. ASSUME NEW S \in SUBSET Slot, SlotsAdded(S) PROVE Allocations'
  <2>1. \A x \in Slot : BareN(x) <=> Bare(x)
    BY <1>12, <1>b DEF SlotsAdded
  <2> QED
    BY <1>12, <2>1, <1>k DEF SlotsAdded
<1>13. ASSUME NEW S \in SUBSET Slot, NEW k \in Nat, SlotsRemoved(S, k) PROVE Allocations'
  <2>1. LastFree(k) \subseteq ToSet(mFreeBuffers)
    BY <1>13, ListFront DEF LastFree, SlotsRemoved, SlotTypeOK, SlotsOK, Lists
  <2>2. \A x \in Slot : BareN(x) <=> Bare(x)
    BY <1>0, <1>13, <1>b, <1>c, <2>1 DEF SlotsRemoved
  <2> QED
    BY <1>13, <2>2, <1>k DEF SlotsRemoved
<1>14. CASE AllFreed
  <2>1. \A t \in Thread : pc'[t] # "alloc"
    BY <1>14 DEF AllFreed, AllocatorsKept
  <2> QED
    BY <1>14, <2>1 DEF AllFreed, Allocations
<1>15. ASSUME NEW t \in Thread, Filled(t) PROVE Allocations'
  <2> DEFINE o == outSlot[t]
  <2>1. /\ pc[t] = "alloc" /\ pc'[t] # "alloc" /\ o \in Slot /\ Bare(o) /\ ~BareN(o)
    BY <1>0, <1>1, <1>15 DEF Filled, Bare, BareN
  <2>2. \A u \in Thread : u # t =>
           (pc'[u] = "alloc" <=> pc[u] = "alloc") /\ outSlot'[u] = outSlot[u]
    BY <1>15 DEF Filled, AllocatorsKept
  <2>3. \A r \in Slot : r # o => (BareN(r) <=> Bare(r))
    BY <1>15, <1>b DEF Filled, Others, listVars
  <2>4. \A u \in Thread : pc[u] = "alloc" => outSlot[u] \in Slot
    BY <1>0, <1>1 DEF Bare
  <2>5. \A u \in Thread : pc'[u] = "alloc" => BareN(outSlot'[u])
    BY <1>1, <2>1, <2>2, <2>3, <2>4
  <2>6. \A s \in Slot : BareN(s) => \E u \in Thread : pc'[u] = "alloc" /\ outSlot'[u] = s
    BY <1>1, <2>1, <2>2, <2>3
  <2>7. \A u, v \in Thread :
           pc'[u] = "alloc" /\ pc'[v] = "alloc" /\ outSlot'[u] = outSlot'[v] => u = v
    BY <1>1, <2>1, <2>2
  <2> QED
    BY <1>a, <1>g, <2>5, <2>6, <2>7
<1>16. ASSUME NEW s \in Slot, Taken(s) PROVE Allocations'
  <2>0. /\ FromFreeLists(s) /\ \A r \in Slot \ {s} : Same(r)
        /\ mActiveBuffers' = mActiveBuffers \cup {s}
    BY <1>16 DEF Taken, Others
  <2>1. s \notin mActiveBuffers /\ ~Bare(s)
    BY <1>0, <2>0, WhereSlotsAre DEF FromFreeLists, Bare
  <2>2. \A r \in Slot : r # s => (BareN(r) <=> Bare(r))
    BY <2>0, <1>b
  <2>3. CASE AllocatorsKept({}) /\ mSlots'[s].mGraphicBuffer # NullBuffer
    <3>1. \A x \in Slot : BareN(x) <=> Bare(x)
      BY <1>c, <2>1, <2>2, <2>3
    <3> QED
      BY <1>k, <2>3, <3>1
  <2>4. ASSUME NEW t \in Thread, pc[t] # "alloc", pc'[t] = "alloc", outSlot'[t] = s,
               AllocatorsKept({t}), mSlots'[s].mGraphicBuffer = NullBuffer
        PROVE  Allocations'
    <3>1. BareN(s)
      BY <2>0, <2>4 DEF BareN
    <3>2. \A u \in Thread : u # t =>
             (pc'[u] = "alloc" <=> pc[u] = "alloc") /\ outSlot'[u] = outSlot[u]
      BY <2>4 DEF AllocatorsKept
    <3>3. \A u \in Thread : pc[u] = "alloc" => outSlot[u] \in Slot /\ outSlot[u] # s
      BY <1>0, <1>1, <2>1 DEF Bare
    <3>4. \A u \in Thread : pc'[u] = "alloc" => BareN(outSlot'[u])
      BY <1>1, <2>2, <2>4, <3>1, <3>2, <3>3
    <3>5. \A r \in Slot : BareN(r) => \E u \in Thread : pc'[u] = "alloc" /\ outSlot'[u] = r
      BY <1>1, <2>2, <2>4, <3>2
    <3>6. \A u, v \in Thread :
             pc'[u] = "alloc" /\ pc'[v] = "alloc" /\ outSlot'[u] = outSlot'[v] => u = v
      BY <1>1, <2>4, <3>2, <3>3
    <3> QED
      BY <1>a, <1>g, <3>4, <3>5, <3>6
  <2> QED
    BY <1>16, <2>3, <2>4 DEF Taken
<1> QED
  BY <1>2, <1>3, <1>4, <1>5, <1>6, <1>7, <1>8, <1>9, <1>10, <1>11, <1>12, <1>13,
     <1>14, <1>15, <1>16 DEF SlotStep

\* The two ways a queue gets shorter or longer, item by item.
LEMMA QueueChanges ==
    ASSUME QueueTypeOK
    PROVE  /\ mQueue # <<>> =>
                 /\ DOMAIN Tail(mQueue) = 1 .. Len(mQueue) - 1
                 /\ \A i \in 1 .. Len(mQueue) - 1 : Tail(mQueue)[i] = mQueue[i + 1]
           /\ \A item \in BufferItem :
                 /\ DOMAIN Append(mQueue, item) = 1 .. Len(mQueue) + 1
                 /\ \A i \in 1 .. Len(mQueue) : Append(mQueue, item)[i] = mQueue[i]
                 /\ Append(mQueue, item)[Len(mQueue) + 1] = item
           /\ mQueue # <<>> => \A item \in BufferItem :
                 /\ DOMAIN Append(Front(mQueue), item) = 1 .. Len(mQueue)
                 /\ \A i \in 1 .. Len(mQueue) - 1 : Append(Front(mQueue), item)[i] = mQueue[i]
                 /\ Append(Front(mQueue), item)[Len(mQueue)] = item
<1>0. mQueue \in Seq(BufferItem) /\ Len(mQueue) \in Nat
  BY DEF QueueTypeOK
<1>1. ASSUME mQueue # <<>> PROVE Len(mQueue) > 0
  BY <1>0, <1>1, EmptySeq
<1>2. ASSUME mQueue # <<>>
      PROVE  /\ DOMAIN Tail(mQueue) = 1 .. Len(mQueue) - 1
             /\ \A i \in 1 .. Len(mQueue) - 1 : Tail(mQueue)[i] = mQueue[i + 1]
  BY <1>0, <1>1, <1>2
<1>3. ASSUME NEW q \in Seq(BufferItem), NEW item \in BufferItem
      PROVE  /\ DOMAIN Append(q, item) = 1 .. Len(q) + 1
             /\ \A i \in 1 .. Len(q) : Append(q, item)[i] = q[i]
             /\ Append(q, item)[Len(q) + 1] = item
  BY <1>3
<1>4. ASSUME mQueue # <<>>
      PROVE  /\ Front(mQueue) \in Seq(BufferItem) /\ Len(Front(mQueue)) = Len(mQueue) - 1
             /\ \A i \in 1 .. Len(mQueue) - 1 : Front(mQueue)[i] = mQueue[i]
  <2> DEFINE n == Len(mQueue) - 1
  <2>1. n \in Nat /\ n <= Len(mQueue) /\ \A i \in 1 .. n : mQueue[i] \in BufferItem
    BY <1>0, <1>1, <1>4
  <2>2. Front(mQueue) = SubSeq(mQueue, 1, n)
    BY DEF Front
  <2> HIDE DEF n
  <2>3. SubSeq(mQueue, 1, n) \in Seq(BufferItem) /\ Len(SubSeq(mQueue, 1, n)) = n
    BY <1>0, <2>1
  <2>4. \A i \in 1 .. n : SubSeq(mQueue, 1, n)[i] = mQueue[i]
    BY <1>0, <2>1
  <2> QED
    BY <2>2, <2>3, <2>4 DEF n
<1>5. ASSUME mQueue # <<>>, NEW item \in BufferItem
      PROVE  /\ DOMAIN Append(Front(mQueue), item) = 1 .. Len(mQueue)
             /\ \A i \in 1 .. Len(mQueue) - 1 : Append(Front(mQueue), item)[i] = mQueue[i]
             /\ Append(Front(mQueue), item)[Len(mQueue)] = item
  <2> DEFINE q == Front(mQueue)
  <2>1. q \in Seq(BufferItem) /\ Len(q) = Len(mQueue) - 1
    BY <1>4, <1>5
  <2>2. \A i \in 1 .. Len(mQueue) - 1 : q[i] = mQueue[i]
    BY <1>4, <1>5
  <2> HIDE DEF q
  <2>3. /\ DOMAIN Append(q, item) = 1 .. (Len(mQueue) - 1) + 1
        /\ \A i \in 1 .. Len(mQueue) - 1 : Append(q, item)[i] = q[i]
        /\ Append(q, item)[(Len(mQueue) - 1) + 1] = item
    BY <1>3, <1>5, <2>1
  <2>4. (Len(mQueue) - 1) + 1 = Len(mQueue)
    BY <1>0
  <2> QED
    BY <2>2, <2>3, <2>4 DEF q
<1> QED
  BY <1>0, <1>2, <1>3, <1>5

\* The items that are not stale stay those of the queued slots.
LEMMA QueuedOnceStep ==
    ASSUME SlotTypeOK, QueueTypeOK, SlotsOK, SlotStep
    PROVE  QueuedOnce'
<1> DEFINE n == Len(mQueue)
           Live(i) == ~mQueue[i].mIsStale
           LiveN(i) == ~mQueue'[i].mIsStale
           Backs(r, item) == /\ mSlots[r].mBufferState = QUEUED
                             /\ mSlots[r].mGraphicBuffer = item.mGraphicBuffer
                             /\ mSlots[r].mFrameNumber = item.mFrameNumber
           BacksN(r, item) == /\ mSlots'[r].mBufferState = QUEUED
                              /\ mSlots'[r].mGraphicBuffer = item.mGraphicBuffer
                              /\ mSlots'[r].mFrameNumber = item.mFrameNumber
           QueuedN(r) == mSlots'[r].mBufferState = QUEUED
<1>0. n \in Nat /\ DOMAIN mQueue = 1 .. n /\ \A i \in 1 .. n : mQueue[i].mSlot \in Slot
  BY QueueElements
<1>1. /\ \A i \in 1 .. n : Live(i) => Backs(mQueue[i].mSlot, mQueue[i])
      /\ \A i, j \in 1 .. n :
            Live(i) /\ Live(j) /\ mQueue[i].mSlot = mQueue[j].mSlot => i = j
      /\ \A r \in Slot : mSlots[r].mBufferState = QUEUED =>
            \E i \in 1 .. n : mQueue[i].mSlot = r /\ Live(i)
  BY <1>0 DEF SlotsOK, QueuedOnce
<1>g. ASSUME NEW m \in Nat, DOMAIN mQueue' = 1 .. m,
             \A i \in 1 .. m : LiveN(i) => BacksN(mQueue'[i].mSlot, mQueue'[i]),
             \A i, j \in 1 .. m :
                LiveN(i) /\ LiveN(j) /\ mQueue'[i].mSlot = mQueue'[j].mSlot => i = j,
             \A r \in Slot : QueuedN(r) => \E i \in 1 .. m : mQueue'[i].mSlot = r /\ LiveN(i)
      PROVE  QueuedOnce'
  BY <1>g DEF QueuedOnce
<1>s. ASSUME NEW r \in Slot, Same(r)
      PROVE  /\ \A item : Backs(r, item) <=> BacksN(r, item)
             /\ QueuedN(r) <=> mSlots[r].mBufferState = QUEUED
  BY <1>s DEF Same
<1>w. /\ \A r \in mFreeSlots \cup mUnusedSlots \cup ToSet(mFreeBuffers) :
            mSlots[r].mBufferState # QUEUED
      /\ mFreeSlots \cup mUnusedSlots \cup ToSet(mFreeBuffers) \subseteq Slot
  BY WhereSlotsAre, StatesDiffer DEF SlotsOK, Contents, SlotTypeOK
\* The queue is as it was, and so are the queued slots.
<1>k. ASSUME UNCHANGED mQueue,
             \A r \in Slot : Same(r) \/ (mSlots[r].mBufferState # QUEUED /\ ~QueuedN(r))
      PROVE  QueuedOnce'
  <2>1. DOMAIN mQueue' = 1 .. n /\ \A i \in 1 .. n : mQueue'[i] = mQueue[i]
    BY <1>0, <1>k
  <2>2. \A i \in 1 .. n : LiveN(i) => BacksN(mQueue'[i].mSlot, mQueue'[i])
    BY <1>0, <1>1, <1>k, <1>s, <2>1
  <2>3. \A r \in Slot : QueuedN(r) => \E i \in 1 .. n : mQueue'[i].mSlot = r /\ LiveN(i)
    BY <1>1, <1>k, <1>s, <2>1
  <2>4. \A i, j \in 1 .. n :
           LiveN(i) /\ LiveN(j) /\ mQueue'[i].mSlot = mQueue'[j].mSlot => i = j
    BY <1>1, <2>1
  <2> HIDE DEF BacksN, QueuedN, LiveN
  <2> QED
    BY <1>0, <1>g, <2>1, <2>2, <2>3, <2>4
\* The first item is gone.
<1>t. ASSUME FrontGone,
             \/ Head(mQueue).mIsStale /\ \A r \in Slot : Same(r)
             \/ Others(Head(mQueue).mSlot) /\ ~Head(mQueue).mIsStale
                   /\ ~QueuedN(Head(mQueue).mSlot)
      PROVE  QueuedOnce'
  <2>0. n > 0 /\ Head(mQueue) = mQueue[1] /\ n - 1 \in Nat
    BY <1>0, <1>t, QueueElements DEF FrontGone
  <2>1. DOMAIN mQueue' = 1 .. n - 1 /\ \A i \in 1 .. n - 1 : mQueue'[i] = mQueue[i + 1]
    BY <1>t, QueueChanges DEF FrontGone
  <2>2. \A r \in Slot : Same(r) \/ (r = mQueue[1].mSlot /\ ~QueuedN(r) /\ Live(1))
    BY <1>t, <2>0 DEF Others
  <2>3. \A i \in 1 .. n - 1 : i + 1 \in 1 .. n /\ i + 1 # 1
    BY <1>0
  <2>4. ASSUME NEW i \in 1 .. n - 1, LiveN(i)
        PROVE  BacksN(mQueue'[i].mSlot, mQueue'[i])
    <3>1. mQueue'[i] = mQueue[i + 1] /\ i + 1 \in 1 .. n /\ i + 1 # 1 /\ Live(i + 1)
      BY <2>1, <2>3, <2>4
    <3>2. mQueue[i + 1].mSlot \in Slot /\ Same(mQueue[i + 1].mSlot)
      BY <1>0, <1>1, <2>0, <2>2, <3>1
    <3> QED
      BY <1>1, <1>s, <3>1, <3>2
  <2>5. ASSUME NEW i \in 1 .. n - 1, NEW j \in 1 .. n - 1, LiveN(i), LiveN(j),
               mQueue'[i].mSlot = mQueue'[j].mSlot
        PROVE  i = j
    <3>1. i + 1 \in 1 .. n /\ j + 1 \in 1 .. n /\ Live(i + 1) /\ Live(j + 1)
          /\ mQueue[i + 1].mSlot = mQueue[j + 1].mSlot
      BY <2>1, <2>3, <2>5
    <3>2. i + 1 = j + 1
      BY <1>1, <3>1
    <3> QED
      BY <1>0, <3>2
  <2>6. ASSUME NEW r \in Slot, QueuedN(r)
        PROVE  \E i \in 1 .. n - 1 : mQueue'[i].mSlot = r /\ LiveN(i)
    <3>1. Same(r)
      BY <2>2, <2>6
    <3>2. PICK i \in 1 .. n : mQueue[i].mSlot = r /\ Live(i)
      BY <1>1, <1>s, <2>6, <3>1
    <3>3. i # 1
      BY <1>t, <2>0, <2>6, <3>2
    <3>4. i - 1 \in 1 .. n - 1 /\ (i - 1) + 1 = i
      BY <1>0, <3>3
    <3>5. mQueue'[i - 1] = mQueue[i]
      BY <2>1, <3>4
    <3> QED
      BY <3>2, <3>4, <3>5
  <2> HIDE DEF BacksN, QueuedN, LiveN
  <2> QED
    BY <1>g, <2>0, <2>1, <2>4, <2>5, <2>6
\* An item is added after the first m; what was behind those is no longer queued.
<1>p. ASSUME NEW s \in Slot, NEW item \in BufferItem, Queued(s, item),
             NEW m \in Nat, m <= n, DOMAIN mQueue' = 1 .. m + 1,
             \A i \in 1 .. m : mQueue'[i] = mQueue[i], mQueue'[m + 1] = item,
             \A i \in m + 1 .. n : Live(i) => ~QueuedN(mQueue[i].mSlot),
             \A r \in Slot : \/ r = s \/ Same(r)
                             \/ \E i \in m + 1 .. n : Live(i) /\ mQueue[i].mSlot = r
      PROVE  QueuedOnce'
  <2>0. /\ item.mSlot = s /\ ~item.mIsStale /\ BacksN(s, item)
        /\ mSlots[s].mBufferState # QUEUED
    BY <1>p, StatesDiffer DEF Queued
  <2>1. \A i \in 1 .. m + 1 : i \in 1 .. m \/ i = m + 1
    BY <1>p
  <2>2. \A i \in 1 .. m : i \in 1 .. n /\ i \notin m + 1 .. n
    BY <1>0, <1>p
  <2>3. \A i \in 1 .. n : i \in 1 .. m \/ i \in m + 1 .. n
    BY <1>0, <1>p
  <2>4. ASSUME NEW i \in 1 .. m, Live(i)
        PROVE  mQueue[i].mSlot # s /\ BacksN(mQueue[i].mSlot, mQueue[i])
    <3>1. i \in 1 .. n /\ mQueue[i].mSlot \in Slot /\ mQueue[i].mSlot # s
      BY <1>0, <1>1, <2>0, <2>2, <2>4
    <3>2. ~\E j \in m + 1 .. n : Live(j) /\ mQueue[j].mSlot = mQueue[i].mSlot
      <4>1. ASSUME NEW j \in m + 1 .. n PROVE j \in 1 .. n /\ j # i
        BY <1>0, <1>p, <2>2
      <4> QED
        BY <1>1, <2>4, <3>1, <4>1
    <3>3. Same(mQueue[i].mSlot)
      BY <1>p, <3>1, <3>2
    <3> QED
      BY <1>1, <1>s, <2>4, <3>1, <3>3
  <2>5. \A i \in 1 .. m + 1 : LiveN(i) => BacksN(mQueue'[i].mSlot, mQueue'[i])
    BY <1>p, <2>0, <2>1, <2>4
  <2>6. \A i, j \in 1 .. m + 1 :
           LiveN(i) /\ LiveN(j) /\ mQueue'[i].mSlot = mQueue'[j].mSlot => i = j
    BY <1>1, <1>p, <2>0, <2>1, <2>2, <2>4
  <2>7. m + 1 \in 1 .. m + 1 /\ \A i \in 1 .. m : i \in 1 .. m + 1
    BY <1>p
  <2>8. ASSUME NEW r \in Slot, QueuedN(r)
        PROVE  \E i \in 1 .. m + 1 : mQueue'[i].mSlot = r /\ LiveN(i)
    <3>1. CASE r = s
      BY <1>p, <2>0, <2>7, <3>1
    <3>2. CASE Same(r)
      <4>1. PICK i \in 1 .. n : mQueue[i].mSlot = r /\ Live(i)
        BY <1>1, <1>s, <2>8, <3>2
      <4>2. i \in 1 .. m
        BY <1>p, <2>3, <2>8, <4>1
      <4> QED
        BY <1>p, <2>7, <4>1, <4>2
    <3> QED
      BY <1>p, <2>8, <3>1, <3>2
  <2> HIDE DEF BacksN, QueuedN, LiveN
  <2>9. m + 1 \in Nat
    BY <1>p
  <2> QED
    BY <1>g, <1>p, <2>5, <2>6, <2>8, <2>9
<1> HIDE DEF BacksN, Backs, Live, LiveN
<1>2. CASE Quiet
  BY <1>2, <1>k DEF Quiet
<1>3. CASE HeadEmptied
  <2>1. ~QueuedN(Head(mFreeBuffers)) /\ mSlots[Head(mFreeBuffers)].mBufferState # QUEUED
    BY <1>3, <1>w, WhereSlotsAre, StatesDiffer DEF HeadEmptied, Emptied
  <2> QED
    BY <1>3, <1>k, <2>1 DEF HeadEmptied, Emptied, Others
<1>4. CASE Discarded
  BY <1>4, <1>k, <1>w, StatesDiffer DEF Discarded
<1>5. CASE AllFreed
  <2>1. \A r \in Slot : ~QueuedN(r)
    <3>1. \A r \in Slot : r \in mUnusedSlots \/
             r \in mFreeSlots \cup ToSet(mFreeBuffers) \cup mActiveBuffers
      BY DEF SlotsOK, Lists
    <3>2. \A r \in mUnusedSlots : r \in Slot /\ r \notin
             mFreeSlots \cup ToSet(mFreeBuffers) \cup mActiveBuffers
      BY <1>w DEF SlotsOK, Lists
    <3> QED
      BY <1>5, <1>s, <1>w, <3>1, <3>2, StatesDiffer DEF AllFreed
  <2>2. DOMAIN mQueue' = 1 .. n
    BY <1>0, <1>5 DEF AllFreed, MarkedStale
  <2>3. \A i \in 1 .. n : ~LiveN(i)
    <3>1. \A i \in 1 .. n : mQueue[i] \in BufferItem
      BY <1>0, QueueElements
    <3>2. \A item \in BufferItem :
             [item EXCEPT !.mIsStale = TRUE, !.mAcquireCalled = FALSE].mIsStale
      BY DEF BufferItem
    <3> QED
      BY <1>0, <1>5, <3>1, <3>2 DEF AllFreed, MarkedStale, LiveN
  <2> QED
    BY <1>0, <1>g, <2>1, <2>2, <2>3
<1>6. CASE FrontStale
  BY <1>6, <1>t DEF FrontStale
<1>7. CASE FrontAcquired
  BY <1>7, <1>t, StatesDiffer DEF FrontAcquired
<1>8. CASE FrontDropped
  BY <1>8, <1>t, StatesDiffer DEF FrontDropped, Freed
<1>9. ASSUME NEW t \in Thread, Filled(t) PROVE QueuedOnce'
  <2>1. mSlots[outSlot[t]].mBufferState # QUEUED
    BY <1>9, StatesDiffer DEF Filled, SlotsOK, Allocations, Contents
  <2> QED
    BY <1>9, <1>k, <2>1 DEF Filled, Others
<1>10. ASSUME NEW s \in Slot, Taken(s) PROVE QueuedOnce'
  <2>1. mSlots[s].mBufferState # QUEUED /\ ~QueuedN(s)
    BY <1>10, <1>w, WhereSlotsAre, StatesDiffer DEF Taken, FromFreeLists
  <2> QED
    BY <1>10, <1>k, <2>1 DEF Taken, Others
<1>11. ASSUME NEW s \in Slot, Preallocated(s) PROVE QueuedOnce'
  <2>1. mSlots[s].mBufferState # QUEUED /\ ~QueuedN(s)
    BY <1>11, <1>w, StatesDiffer DEF Preallocated
  <2> QED
    BY <1>11, <1>k, <2>1 DEF Preallocated, Others
<1>12. ASSUME NEW s \in Slot, Detached(s) PROVE QueuedOnce'
  <2>1. mSlots[s].mBufferState # QUEUED /\ ~QueuedN(s)
    BY <1>12, StatesDiffer DEF Detached, Emptied
  <2> QED
    BY <1>12, <1>k, <2>1 DEF Detached, Emptied, Others
<1>13. ASSUME NEW s \in Slot, Returned(s) PROVE QueuedOnce'
  <2>1. mSlots[s].mBufferState # QUEUED /\ ~QueuedN(s)
    BY <1>13, StatesDiffer DEF Returned, Freed
  <2> QED
    BY <1>13, <1>k, <2>1 DEF Returned, Others
<1>14. ASSUME NEW s \in Slot, NEW item \in BufferItem, Appended(s, item) PROVE QueuedOnce'
  <2>1. Queued(s, item) /\ \A r \in Slot : r = s \/ Same(r)
    BY <1>14 DEF Appended, Others
  <2>2. CASE mQueue' = Append(mQueue, item)
    <3>1. /\ DOMAIN mQueue' = 1 .. n + 1 /\ \A i \in 1 .. n : mQueue'[i] = mQueue[i]
          /\ mQueue'[n + 1] = item
      BY <1>14, <2>2, QueueChanges
    <3>2. n + 1 .. n = {} /\ n <= n
      BY <1>0
    <3> HIDE DEF n
    <3> QED
      BY <1>0, <1>p, <2>1, <3>1, <3>2
  <2>3. CASE /\ mQueue # <<>> /\ Last(mQueue).mIsStale
             /\ mQueue' = Append(Front(mQueue), item)
    <3>0. n > 0 /\ mQueue[n].mIsStale /\ n - 1 \in Nat /\ n - 1 <= n /\ (n - 1) + 1 = n
      BY <1>0, <2>3, QueueElements
    <3>1. /\ DOMAIN mQueue' = 1 .. n /\ \A i \in 1 .. n - 1 : mQueue'[i] = mQueue[i]
          /\ mQueue'[n] = item
      BY <1>14, <2>3, QueueChanges
    <3>2. \A i \in (n - 1) + 1 .. n : ~Live(i)
      BY <3>0 DEF Live
    <3> HIDE DEF n
    <3> QED
      BY <1>p, <2>1, <3>0, <3>1, <3>2
  <2> QED
    BY <1>14, <2>2, <2>3 DEF Appended
<1>15. ASSUME NEW s \in Slot, NEW item \in BufferItem, Replaced(s, item) PROVE QueuedOnce'
  <2>0. /\ n > 0 /\ Last(mQueue) = mQueue[n] /\ ~mQueue[n].mIsStale /\ n - 1 \in Nat
        /\ n - 1 <= n /\ (n - 1) + 1 = n
    BY <1>0, <1>15, QueueElements DEF Replaced
  <2>1. /\ Queued(s, item) /\ ~QueuedN(mQueue[n].mSlot)
        /\ \A r \in Slot : r = s \/ Same(r) \/ r = mQueue[n].mSlot
    BY <1>15, <2>0, StatesDiffer DEF Replaced, Freed
  <2>2. /\ DOMAIN mQueue' = 1 .. n /\ \A i \in 1 .. n - 1 : mQueue'[i] = mQueue[i]
        /\ mQueue'[n] = item
    BY <1>15, QueueChanges DEF Replaced
  <2>3. (\A i \in (n - 1) + 1 .. n : i = n) /\ n \in (n - 1) + 1 .. n /\ Live(n)
    BY <2>0 DEF Live
  <2>4. /\ \A i \in (n - 1) + 1 .. n : Live(i) => ~QueuedN(mQueue[i].mSlot)
        /\ \A r \in Slot : \/ r = s \/ Same(r)
                           \/ \E i \in (n - 1) + 1 .. n : Live(i) /\ mQueue[i].mSlot = r
    BY <2>1, <2>3
  <2> HIDE DEF n, QueuedN
  <2> QED
    BY <1>p, <2>0, <2>1, <2>2, <2>4
<1>16. ASSUME NEW S \in SUBSET Slot, SlotsAdded(S) PROVE QueuedOnce'
  BY <1>16, <1>k DEF SlotsAdded
<1>17. ASSUME NEW S \in SUBSET Slot, NEW k \in Nat, SlotsRemoved(S, k) PROVE QueuedOnce'
  <2>1. LastFree(k) \subseteq ToSet(mFreeBuffers)
    BY <1>17, ListFront DEF LastFree, SlotsRemoved, SlotTypeOK, SlotsOK, Lists
  <2>2. \A r \in S \cup LastFree(k) : mSlots[r].mBufferState # QUEUED /\ ~QueuedN(r)
    BY <1>17, <1>w, <2>1, StatesDiffer DEF SlotsRemoved
  <2> QED
    BY <1>17, <1>k, <2>2 DEF SlotsRemoved
<1> QED
  BY <1>2, <1>3, <1>4, <1>5, <1>6, <1>7, <1>8, <1>9, <1>10, <1>11, <1>12, <1>13,
     <1>14, <1>15, <1>16, <1>17 DEF SlotStep

-----------------------------------------------------------------------------
(* Which call does what to the slots                                       *)

\* What a call can rely on while the consumer is there.
Before == TypeOK /\ NothingShared /\ SlotsOK

\* A thread that moves outside of its allocation, or is woken, keeps the
\* allocations.
LEMMA KeepAllocators ==
    ASSUME ThreadTypeOK, UNCHANGED outSlot
    PROVE  /\ UNCHANGED pc \/ pc' = Woken(pc) => AllocatorsKept({})
           /\ \A t \in Thread :
                 /\ \A where \in PC \ {"alloc"} : pc[t] # "alloc" /\ pc' = Goto(t, where)
                        => AllocatorsKept({})
                 /\ pc[t] # "alloc" /\ pc' = Woken(Goto(t, "callback")) => AllocatorsKept({})
<1>1. \A u \in Thread : Woken(pc)[u] = "alloc" <=> pc[u] = "alloc"
  BY DEF Woken
<1>2. ASSUME NEW t \in Thread, NEW where \in PC \ {"alloc"}, pc[t] # "alloc"
      PROVE  \A u \in Thread : Goto(t, where)[u] = "alloc" <=> pc[u] = "alloc"
  BY <1>2 DEF Goto, ThreadTypeOK
<1>3. ASSUME NEW t \in Thread, pc[t] # "alloc"
      PROVE  \A u \in Thread : Woken(Goto(t, "callback"))[u] = "alloc" <=> pc[u] = "alloc"
  BY <1>2, <1>3 DEF Woken, PC
<1> QED
  BY <1>1, <1>2, <1>3 DEF AllocatorsKept

\* Steps that leave slots and queue alone.
LEMMA QuietSlots ==
    ASSUME UNCHANGED <<slotVars, queueVars>>, AllocatorsKept({})
    PROVE  Quiet
<1>1. UNCHANGED <<mSlots, listVars, mQueue>>
  BY DEF slotVars, queueVars
<1> QED
  BY <1>1 DEF Quiet, Same

\* The steps of a thread that only move the thread.
Moves(t) ==
    \/ dequeueBuffer(t) \/ dequeueWaitsOrGivesUp(t) \/ dequeueDereferencesNull(t)
    \/ waitTimesOut(t) \/ spuriousWakeup(t) \/ allocateBuffers(t)
    \/ detachNextBufferBlocks(t) \/ attachBufferBlocks(t)
    \/ attachWaitsOrGivesUp(t) \/ queueBufferCallback(t)

\* They leave the slots alone.
LEMMA MovingSteps ==
    ASSUME TypeOK, NEW t \in Thread, Moves(t)
    PROVE  Quiet
<1> USE DEF Moves
<1>0. ThreadTypeOK
  BY DEF TypeOK
<1>1. UNCHANGED <<slotVars, queueVars, outSlot>> /\ pc[t] # "alloc"
  BY DEF dequeueBuffer, dequeueWaitsOrGivesUp, dequeueDereferencesNull, waitTimesOut,
         spuriousWakeup, allocateBuffers, detachNextBufferBlocks, attachBufferBlocks,
         attachWaitsOrGivesUp, queueBufferCallback, InDequeueLoop, InAttachLoop,
         waitForFreeSlotThenRelock, localVars, Woken
<1>2. \E where \in PC \ {"alloc"} : pc' = Goto(t, where)
  <2>1. CASE spuriousWakeup(t)
    <3>1. Woken(pc)[t] \in PC \ {"alloc"}
      BY <1>0, <1>1 DEF Woken, PC, ThreadTypeOK
    <3> QED
      BY <2>1, <3>1 DEF spuriousWakeup
  <2>2. CASE dequeueWaitsOrGivesUp(t)
    BY <2>2 DEF dequeueWaitsOrGivesUp, waitForFreeSlotThenRelock, PC
  <2>3. CASE attachWaitsOrGivesUp(t)
    BY <2>3 DEF attachWaitsOrGivesUp, waitForFreeSlotThenRelock, PC
  <2>4. CASE \/ dequeueBuffer(t) \/ dequeueDereferencesNull(t) \/ waitTimesOut(t)
             \/ detachNextBufferBlocks(t) \/ attachBufferBlocks(t) \/ queueBufferCallback(t)
    BY <2>4 DEF dequeueBuffer, dequeueDereferencesNull, waitTimesOut,
         detachNextBufferBlocks, attachBufferBlocks, queueBufferCallback, PC
  <2>5. CASE allocateBuffers(t)
    BY <2>5 DEF allocateBuffers, PC
  <2> QED
    BY <2>1, <2>2, <2>3, <2>4, <2>5
<1> QED
  BY <1>0, <1>1, <1>2, KeepAllocators, QuietSlots

\* The steps that change other members only.
Sets ==
    \/ \E s \in Slot : requestBuffer(s)
    \/ "allowAllocation" \in Ops /\ allowAllocation(~mAllowAllocation)
    \/ "setSharedBufferMode" \in Ops /\ ~mSharedBufferMode /\ setSharedBufferMode(TRUE)
    \/ mSharedBufferMode /\ setSharedBufferMode(FALSE)
    \/ setAutoRefresh(~mAutoRefresh)
    \/ \E byApp \in BOOLEAN : consumerConnect(byApp)
    \/ \E time \in Time, n \in 0 .. MaxFrames : acquireBufferTimed(time, n)
    \/ presentLater \/ acquireSharedBufferBlocks \/ acquireSharedOutOfRange
    \/ UNCHANGED vars

\* They leave the slots alone, too.
LEMMA SettingSteps ==
    ASSUME TypeOK, Sets
    PROVE  Quiet
<1> USE DEF Sets
<1>0. ThreadTypeOK
  BY DEF TypeOK
<1>1. UNCHANGED <<listVars, mQueue, pc, outSlot>>
  BY DEF allowAllocation, setSharedBufferMode, setAutoRefresh, consumerConnect,
         acquireBufferTimed, presentLater, acquireSharedBufferBlocks,
         acquireSharedOutOfRange, requestBuffer, vars, slotVars, queueVars, localVars
<1>2. \A r \in Slot : Same(r)
  <2>1. CASE UNCHANGED mSlots
    BY <2>1 DEF Same
  <2>2. CASE \E s \in Slot : requestBuffer(s)
    BY <2>2 DEF requestBuffer, Same, TypeOK, SlotTypeOK, BufferSlot
  <2> QED
    BY <2>1, <2>2 DEF allowAllocation, setSharedBufferMode, setAutoRefresh,
         consumerConnect, acquireBufferTimed, presentLater, acquireSharedBufferBlocks,
         acquireSharedOutOfRange, vars, slotVars
<1> QED
  BY <1>0, <1>1, <1>2, KeepAllocators DEF Quiet

\* Clearing slots empties them and leaves the others.
LEMMA ClearStep ==
    ASSUME SlotTypeOK, NEW S \in SUBSET Slot, clearBufferSlotLocked(S)
    PROVE  /\ \A r \in Slot \ S : Same(r)
           /\ \A r \in S : /\ mSlots'[r].mBufferState = FREE
                           /\ mSlots'[r].mGraphicBuffer = NullBuffer
  BY ClearedFields DEF clearBufferSlotLocked, Cleared, Same

\* A slot that is free again is put at the end of mFreeBuffers.
LEMMA ReturnStep ==
    ASSUME ~mSharedBufferMode, NEW slots \in [Slot -> BufferSlot],
           NEW s \in Slot, slots[s].mBufferState = FREE, ReturnToFreeBuffers(slots, s)
    PROVE  /\ mActiveBuffers' = mActiveBuffers \ {s}
           /\ mFreeBuffers' = Append(mFreeBuffers, s)
           /\ \A r \in Slot :
                 /\ mSlots'[r].mBufferState = slots[r].mBufferState
                 /\ mSlots'[r].mGraphicBuffer = slots[r].mGraphicBuffer
                 /\ mSlots'[r].mFrameNumber = slots[r].mFrameNumber
<1> DEFINE u == UnsharedIfFree(slots, s)
<1>1. u = [slots EXCEPT ![s].mBufferState.mShared = FALSE]
  BY StatePredicates DEF UnsharedIfFree
<1>2. [FREE EXCEPT !.mShared = FALSE] = FREE
  <2>1. FREE \in BufferState /\ FREE.mShared = FALSE
    BY DEF BufferState, FREE
  <2>2. \A b \in BufferState : b.mShared = FALSE => [b EXCEPT !.mShared = FALSE] = b
    BY DEF BufferState
  <2> QED
    BY <2>1, <2>2
<1>3. u[s].mBufferState = [slots[s].mBufferState EXCEPT !.mShared = FALSE]
  BY <1>1 DEF BufferSlot
<1>4. u[s].mBufferState = FREE
  BY <1>2, <1>3
<1>5. \A r \in Slot :
          /\ r # s => u[r] = slots[r]
          /\ u[r].mGraphicBuffer = slots[r].mGraphicBuffer
          /\ u[r].mFrameNumber = slots[r].mFrameNumber
  BY <1>1 DEF BufferSlot
<1>6. ~isShared(u[s].mBufferState)
  BY <1>4, StatePredicates
<1>7. mSlots' = u
  BY DEF ReturnToFreeBuffers
<1>8. mActiveBuffers' = mActiveBuffers \ {s} /\ mFreeBuffers' = Append(mFreeBuffers, s)
  BY <1>6 DEF ReturnToFreeBuffers
<1> HIDE DEF u
<1> QED
  BY <1>4, <1>5, <1>7, <1>8

\* The slot that waitForFreeSlotThenRelock finds is free and leaves its list.
LEMMA FoundSlot ==
    ASSUME Before, NEW caller \in {"dequeue", "attach"}, NEW s \in Slot, Finds(caller, s)
    PROVE  /\ mSlots[s] \in BufferSlot /\ mSlots[s].mBufferState = FREE
           /\ mSharedBufferSlot # s
           /\ TakeFromFreeLists(caller, s) => FromFreeLists(s)
           /\ caller = "dequeue" /\ ~mAllowAllocation =>
                 /\ mFreeBuffers # <<>> /\ s = Head(mFreeBuffers)
                 /\ mSlots[s].mGraphicBuffer # NullBuffer
<1>0. ~SharedSlotFound(s) /\ mSharedBufferSlot # s
  BY DEF Before, NothingShared, SharedSlotFound, Slot, INVALID_BUFFER_SLOT
<1>1. FreeBufferFound(caller, s) \/ FreeSlotFound(caller, s)
  BY <1>0 DEF Finds, SlotFound
<1>2. SlotTypeOK /\ QueueTypeOK /\ SlotsOK
  BY DEF Before, TypeOK
<1>3. ASSUME FreeSlotFound(caller, s)
      PROVE  s \in mFreeSlots /\ ~FreeBufferFound(caller, s)
  BY <1>3 DEF FreeSlotFound, FreeBufferFound, LowestOf
<1>4. ASSUME FreeBufferFound(caller, s)
      PROVE  mFreeBuffers # <<>> /\ s = Head(mFreeBuffers) /\ s \in ToSet(mFreeBuffers)
  BY <1>2, <1>4, WhereSlotsAre DEF FreeBufferFound
<1>5. mSlots[s].mBufferState = FREE
  BY <1>1, <1>3, <1>4 DEF Before, SlotsOK, Contents
<1>6. TakeFromFreeLists(caller, s) => FromFreeLists(s)
  BY <1>1, <1>3, <1>4 DEF TakeFromFreeLists, FromFreeLists
<1>7. ASSUME caller = "dequeue", ~mAllowAllocation
      PROVE  FreeBufferFound(caller, s) /\ mSlots[s].mGraphicBuffer # NullBuffer
  BY <1>1, <1>4, <1>7 DEF FreeSlotFound, Before, SlotsOK, Contents
<1> QED
  BY <1>0, <1>2, <1>4, <1>5, <1>6, <1>7 DEF SlotTypeOK

\* dequeueBuffer takes the slot it finds.
LEMMA DequeueTakes ==
    ASSUME Before, NEW t \in Thread, NEW s \in Slot, NEW reallocate \in BOOLEAN,
           dequeueTakesSlot(t, s, reallocate)
    PROVE  Taken(s) /\ mSlots'[s].mBufferState = DEQUEUED
<1> DEFINE becomesShared == mSharedBufferMode
                            /\ mSharedBufferSlot = INVALID_BUFFER_SLOT
           st == SharedIf(becomesShared, dequeue(mSlots[s].mBufferState))
           taken == [mSlots[s] EXCEPT !.mNeedsReallocation = FALSE, !.mBufferState = st]
           emptied == [taken EXCEPT !.mAcquireCalled = FALSE,
                                    !.mGraphicBuffer = NullBuffer,
                                    !.mRequestBufferCalled = FALSE]
<1>0. Finds("dequeue", s) /\ TakeFromFreeLists("dequeue", s)
  BY DEF dequeueTakesSlot
<1>1. /\ mSlots[s] \in BufferSlot /\ mSlots[s].mBufferState = FREE /\ mSharedBufferSlot # s
      /\ FromFreeLists(s)
  BY <1>0, FoundSlot
<1>2. st = DEQUEUED
  <2>1. becomesShared = FALSE
    BY DEF Before, NothingShared
  <2> QED
    BY <1>1, <2>1, Transitions
<1>3. /\ mActiveBuffers' = mActiveBuffers \cup {s} /\ UNCHANGED <<mUnusedSlots, mQueue>>
      /\ mSlots' = [mSlots EXCEPT ![s] = IF reallocate THEN emptied ELSE taken]
      /\ mSlots[s].mGraphicBuffer = NullBuffer => reallocate
      /\ pc' = Goto(t, IF reallocate THEN "alloc" ELSE "idle")
      /\ outSlot' = IF reallocate THEN [outSlot EXCEPT ![t] = s] ELSE outSlot
      /\ pc[t] # "alloc"
  BY <1>1 DEF dequeueTakesSlot, queueVars, InDequeueLoop
<1>4. DEQUEUED \in BufferState
  BY DEF DEQUEUED, BufferState
<1>5. taken \in BufferSlot
  BY <1>1, <1>2, <1>4, SlotUpdateType
<1>6. taken.mGraphicBuffer = mSlots[s].mGraphicBuffer /\ taken.mBufferState = DEQUEUED
  BY <1>1, <1>2, SlotUpdates
<1> HIDE DEF taken, st
<1>7. emptied.mGraphicBuffer = NullBuffer /\ emptied.mBufferState = DEQUEUED
  BY <1>5, <1>6, SlotUpdates
<1> HIDE DEF emptied
<1>8. mSlots' = [mSlots EXCEPT ![s] = mSlots'[s]] /\ Others(s)
  BY <1>3 DEF Before, TypeOK, SlotTypeOK, Others, Same
<1>9. mSlots'[s] = IF reallocate THEN emptied ELSE taken
  BY <1>3 DEF Before, TypeOK, SlotTypeOK
<1>10. mSlots'[s].mBufferState = DEQUEUED
  BY <1>6, <1>7, <1>9
<1>t. ThreadTypeOK
  BY DEF Before, TypeOK
<1>11. CASE reallocate
  <2>1. pc'[t] = "alloc" /\ outSlot'[t] = s /\ AllocatorsKept({t})
    BY <1>3, <1>11, <1>t DEF Goto, AllocatorsKept, ThreadTypeOK
  <2>2. mSlots'[s].mGraphicBuffer = NullBuffer
    BY <1>7, <1>9, <1>11
  <2> QED
    BY <1>1, <1>3, <1>8, <1>10, <2>1, <2>2 DEF Taken
<1>12. CASE ~reallocate
  <2>0. "idle" \in PC \ {"alloc"}
    BY DEF PC
  <2>1. AllocatorsKept({})
    BY <1>3, <1>12, <1>t, <2>0, KeepAllocators
  <2>2. mSlots'[s].mGraphicBuffer # NullBuffer
    BY <1>3, <1>6, <1>9, <1>12
  <2> QED
    BY <1>1, <1>3, <1>8, <1>10, <2>1, <2>2 DEF Taken
<1> QED
  BY <1>10, <1>11, <1>12

\* attachBuffer and the consumer's attachBuffer take the slot they find.
LEMMA AttachTakes ==
    ASSUME Before, NEW s \in Slot, NEW b \in Buffer,
           \/ \E t \in Thread : attachBuffer(t, s, b)
           \/ consumerAttachBuffer(s, b)
    PROVE  /\ Taken(s) /\ mSlots'[s].mGraphicBuffer = b
           /\ (\E t \in Thread : attachBuffer(t, s, b))
                 => mSlots'[s].mBufferState = DEQUEUED
           /\ consumerAttachBuffer(s, b) => mSlots'[s].mBufferState = ACQUIRED
<1>t. ThreadTypeOK /\ SlotTypeOK /\ QueueTypeOK /\ SlotsOK /\ b # NullBuffer
  BY BufferAssumption DEF Before, TypeOK
<1>1. ASSUME NEW t \in Thread, attachBuffer(t, s, b)
      PROVE  /\ Taken(s) /\ mSlots'[s].mGraphicBuffer = b
             /\ mSlots'[s].mBufferState = DEQUEUED
  <2> DEFINE st == dequeue(mSlots[s].mBufferState)
             u == [mSlots[s] EXCEPT !.mGraphicBuffer = b, !.mBufferState = st,
                                    !.mRequestBufferCalled = TRUE,
                                    !.mAcquireCalled = FALSE,
                                    !.mNeedsReallocation = FALSE]
  <2>0. Finds("attach", s) /\ TakeFromFreeLists("attach", s)
    BY <1>1 DEF attachBuffer
  <2>1. /\ mSlots[s] \in BufferSlot /\ mSlots[s].mBufferState = FREE /\ FromFreeLists(s)
    BY <2>0, FoundSlot
  <2>2. st = DEQUEUED
    BY <2>1, Transitions
  <2>3. u.mGraphicBuffer = b /\ u.mBufferState = DEQUEUED
    BY <2>1, <2>2, SlotUpdates
  <2>4. /\ mActiveBuffers' = mActiveBuffers \cup {s} /\ UNCHANGED <<mUnusedSlots, mQueue>>
        /\ mSlots' = [mSlots EXCEPT ![s] = u]
        /\ pc' = Goto(t, "idle") /\ UNCHANGED outSlot /\ pc[t] # "alloc"
    BY <1>1 DEF attachBuffer, InAttachLoop, queueVars, localVars
  <2> HIDE DEF u
  <2>5. mSlots'[s] = u /\ Others(s)
    BY <1>t, <2>4 DEF SlotTypeOK, Others, Same
  <2>6. "idle" \in PC \ {"alloc"}
    BY DEF PC
  <2>7. AllocatorsKept({})
    BY <1>t, <2>4, <2>6, KeepAllocators
  <2> QED
    BY <1>t, <2>1, <2>3, <2>4, <2>5, <2>7 DEF Taken
<1>2. ASSUME consumerAttachBuffer(s, b)
      PROVE  /\ Taken(s) /\ mSlots'[s].mGraphicBuffer = b
             /\ mSlots'[s].mBufferState = ACQUIRED
  <2> DEFINE st == acquireNotInQueue(mSlots[s].mBufferState)
             u == [mSlots[s] EXCEPT !.mGraphicBuffer = b, !.mBufferState = st,
                                    !.mNeedsReallocation = TRUE,
                                    !.mFrameNumber = 0,
                                    !.mAcquireCalled = FALSE]
  <2>1. FromFreeLists(s)
    BY <1>2 DEF consumerAttachBuffer, FromFreeLists, LowestOf
  <2>2. mSlots[s] \in BufferSlot /\ mSlots[s].mBufferState = FREE
    BY <1>t, <2>1, WhereSlotsAre DEF FromFreeLists, SlotsOK, Contents, SlotTypeOK
  <2>3. u.mGraphicBuffer = b /\ u.mBufferState = ACQUIRED
    BY <2>2, Transitions, SlotUpdates
  <2>4. /\ mActiveBuffers' = mActiveBuffers \cup {s} /\ UNCHANGED <<mUnusedSlots, mQueue>>
        /\ mSlots' = [mSlots EXCEPT ![s] = u] /\ UNCHANGED <<pc, outSlot>>
    BY <1>2 DEF consumerAttachBuffer, queueVars, localVars
  <2> HIDE DEF u
  <2>5. mSlots'[s] = u /\ Others(s)
    BY <1>t, <2>4 DEF SlotTypeOK, Others, Same
  <2>6. AllocatorsKept({})
    BY <1>t, <2>4, KeepAllocators
  <2> QED
    BY <1>t, <2>1, <2>3, <2>4, <2>5, <2>6 DEF Taken
<1>3. ASSUME NEW t \in Thread PROVE ~(attachBuffer(t, s, b) /\ consumerAttachBuffer(s, b))
  BY <1>1, <1>2, StatesDiffer
<1> QED
  BY <1>1, <1>2, <1>3

\* The free buffer that dequeueBuffer or detachNextBuffer give up is the first one.
LEMMA GiveUpFreeBuffer ==
    ASSUME Before, NEW t \in Thread,
           detachNextBuffer(t) \/ \E s \in Slot : dequeueRejectsBuffer(t, s)
    PROVE  Quiet \/ HeadEmptied
<1>t. ThreadTypeOK /\ SlotTypeOK /\ QueueTypeOK /\ SlotsOK
      /\ {"idle", "dequeueAgain"} \subseteq PC \ {"alloc"}
  BY DEF Before, TypeOK, PC
<1>1. ASSUME mFreeBuffers # <<>>, mFreeBuffers' = Tail(mFreeBuffers),
             mFreeSlots' = mFreeSlots \cup {Head(mFreeBuffers)},
             clearBufferSlotLocked({Head(mFreeBuffers)}),
             UNCHANGED <<mUnusedSlots, mActiveBuffers, mQueue>>, AllocatorsKept({})
      PROVE  HeadEmptied
  <2>1. {Head(mFreeBuffers)} \in SUBSET Slot
    BY <1>t, <1>1, WhereSlotsAre
  <2> QED
    BY <1>t, <1>1, <2>1, ClearStep DEF HeadEmptied, Emptied, Others
<1>2. CASE detachNextBuffer(t)
  <2>1. pc' = Goto(t, "idle") /\ pc[t] # "alloc" /\ UNCHANGED <<outSlot, queueVars>>
    BY <1>2 DEF detachNextBuffer, localVars
  <2>2. AllocatorsKept({})
    BY <1>t, <2>1, KeepAllocators
  <2>3. CASE mFreeBuffers = <<>>
    BY <1>2, <2>1, <2>2, <2>3, QuietSlots DEF detachNextBuffer
  <2>4. CASE mFreeBuffers # <<>>
    <3>1. /\ mFreeBuffers' = Tail(mFreeBuffers)
          /\ mFreeSlots' = mFreeSlots \cup {Head(mFreeBuffers)}
          /\ clearBufferSlotLocked({Head(mFreeBuffers)})
          /\ UNCHANGED <<mUnusedSlots, mActiveBuffers, mQueue>>
      BY <1>2, <2>1, <2>4 DEF detachNextBuffer, queueVars
    <3> QED
      BY <1>1, <2>2, <2>4, <3>1
  <2> QED
    BY <2>3, <2>4
<1>3. ASSUME NEW s \in Slot, dequeueRejectsBuffer(t, s) PROVE HeadEmptied
  <2>1. Finds("dequeue", s) /\ DereferencesBuffer(s)
    BY <1>3 DEF dequeueRejectsBuffer
  <2>2. mSharedBufferSlot # s
    BY <2>1, FoundSlot
  <2>3. mFreeBuffers # <<>> /\ s = Head(mFreeBuffers)
    BY <2>1, <2>2, FoundSlot DEF DereferencesBuffer
  <2>4. /\ mFreeBuffers' = Tail(mFreeBuffers) /\ mFreeSlots' = mFreeSlots \cup {s}
        /\ clearBufferSlotLocked({s}) /\ UNCHANGED <<mUnusedSlots, mActiveBuffers, mQueue>>
        /\ pc' = Goto(t, "dequeueAgain") /\ UNCHANGED outSlot /\ pc[t] # "alloc"
    BY <1>3, <2>2 DEF dequeueRejectsBuffer, queueVars, localVars, InDequeueLoop
  <2>5. AllocatorsKept({})
    BY <1>t, <2>4, KeepAllocators
  <2> QED
    BY <1>1, <2>3, <2>4, <2>5
<1> QED
  BY <1>2, <1>3

\* An allocation that ends while the consumer is there.
LEMMA AllocatedStep ==
    ASSUME Before, ~mIsAbandoned, NEW t \in Thread, NEW b \in Buffer,
           \/ dequeueAllocated(t, b)
           \/ \E retry \in BOOLEAN : allocateBuffersAllocated(t, b, retry)
    PROVE  Quiet \/ Filled(t) \/ \E s \in Slot : Preallocated(s)
<1>t. /\ ThreadTypeOK /\ SlotTypeOK /\ QueueTypeOK /\ SlotsOK
      /\ {"idle", "allocateBuffers"} \subseteq PC \ {"alloc"}
  BY DEF Before, TypeOK, PC
<1>b. b # NullBuffer
  BY BufferAssumption
<1>1. ASSUME dequeueAllocated(t, b) PROVE Filled(t)
  <2> DEFINE o == outSlot[t]
  <2>1. /\ pc[t] = "alloc" /\ pc' = Goto(t, "idle")
        /\ outSlot' = [outSlot EXCEPT ![t] = INVALID_BUFFER_SLOT]
        /\ UNCHANGED <<listVars, mQueue>>
        /\ mSlots' = [mSlots EXCEPT ![o].mGraphicBuffer = b]
    BY <1>1, <1>b DEF dequeueAllocated, listVars, queueVars
  <2>2. o \in Slot /\ mSlots \in [Slot -> BufferSlot]
    BY <1>t, <2>1 DEF ThreadTypeOK, SlotTypeOK
  <2>3. pc'[t] # "alloc" /\ AllocatorsKept({t})
    BY <1>t, <2>1 DEF Goto, AllocatorsKept, ThreadTypeOK
  <2> HIDE DEF o
  <2>4. /\ mSlots'[o].mBufferState = mSlots[o].mBufferState
        /\ mSlots'[o].mFrameNumber = mSlots[o].mFrameNumber
        /\ mSlots'[o].mGraphicBuffer = b
    BY <2>1, <2>2 DEF BufferSlot
  <2>5. Others(o)
    BY <2>1, <2>2 DEF Others, Same
  <2> QED
    BY <1>b, <2>1, <2>3, <2>4, <2>5 DEF Filled, o
<1>2. ASSUME NEW retry \in BOOLEAN, allocateBuffersAllocated(t, b, retry)
      PROVE  Quiet \/ \E s \in Slot : Preallocated(s)
  <2>1. /\ pc[t] # "alloc" /\ pc' = Goto(t, "allocateBuffers") /\ UNCHANGED outSlot
        /\ UNCHANGED <<mUnusedSlots, mActiveBuffers, mQueue>>
    BY <1>2, <1>b DEF allocateBuffersAllocated, localVars, queueVars
  <2>2. AllocatorsKept({})
    BY <1>t, <2>1, KeepAllocators
  <2>3. CASE UNCHANGED <<mSlots, mFreeSlots, mFreeBuffers>>
    BY <2>1, <2>2, <2>3 DEF Quiet, Same, listVars
  <2>4. ASSUME NEW s \in LowestOf(mFreeSlots),
               mSlots' = [Cleared(mSlots, {s}) EXCEPT ![s].mGraphicBuffer = b],
               mFreeBuffers' = <<s>> \o mFreeBuffers, mFreeSlots' = mFreeSlots \ {s}
        PROVE  s \in Slot /\ Preallocated(s)
    <3>1. s \in mFreeSlots /\ s \in Slot /\ mSlots \in [Slot -> BufferSlot]
      BY <1>t DEF LowestOf, SlotTypeOK
    <3>2. /\ Cleared(mSlots, {s}) \in [Slot -> BufferSlot]
          /\ Cleared(mSlots, {s})[s] = ClearedSlot
          /\ \A r \in Slot \ {s} : Cleared(mSlots, {s})[r] = mSlots[r]
      BY <3>1, ClearedType DEF Cleared
    <3> DEFINE c == Cleared(mSlots, {s})
    <3>3. mSlots' = [c EXCEPT ![s].mGraphicBuffer = b]
      BY <2>4
    <3> HIDE DEF c
    <3>4. mSlots'[s].mGraphicBuffer = b /\ mSlots'[s].mBufferState = c[s].mBufferState
      BY <3>1, <3>2, <3>3 DEF c, BufferSlot
    <3>5. \A r \in Slot \ {s} : mSlots'[r] = mSlots[r]
      BY <3>1, <3>2, <3>3 DEF c
    <3>6. Others(s) /\ mSlots'[s].mBufferState = FREE
      BY <3>2, <3>4, <3>5, ClearedFields DEF Others, Same, c
    <3> QED
      BY <1>b, <2>1, <2>2, <2>4, <3>1, <3>4, <3>6 DEF Preallocated
  <2> QED
    BY <1>2, <1>b, <2>3, <2>4 DEF allocateBuffersAllocated
<1> QED
  BY <1>1, <1>2

\* detachBuffer of both sides empties a slot of its owner.
LEMMA DetachStep ==
    ASSUME Before, NEW s \in Slot,
           \/ mSlots[s].mGraphicBuffer # NullBuffer /\ detachBuffer(s)
           \/ consumerDetachBuffer(s)
    PROVE  Detached(s)
<1>t. ThreadTypeOK /\ SlotTypeOK /\ QueueTypeOK /\ SlotsOK
  BY DEF Before, TypeOK
<1>1. mSlots[s].mBufferState \in {FREE, DEQUEUED, QUEUED, ACQUIRED}
  BY <1>t DEF SlotsOK, FourStates
<1>2. /\ mSlots[s].mBufferState \in {DEQUEUED, ACQUIRED}
      /\ mSlots[s].mGraphicBuffer # NullBuffer
  <2>1. CASE mSlots[s].mGraphicBuffer # NullBuffer /\ detachBuffer(s)
    BY <1>1, <2>1, StatePredicates DEF detachBuffer, OwnedByProducer
  <2>2. CASE consumerDetachBuffer(s)
    <3>1. mSlots[s].mBufferState = ACQUIRED
      BY <1>1, <2>2, StatePredicates DEF consumerDetachBuffer
    <3> QED
      BY <1>t, <3>1, WhereSlotsAre, StatesDiffer DEF SlotsOK, Contents
  <2> QED
    BY <2>1, <2>2
<1>3. /\ mActiveBuffers' = mActiveBuffers \ {s} /\ mFreeSlots' = mFreeSlots \cup {s}
      /\ clearBufferSlotLocked({s}) /\ UNCHANGED <<mUnusedSlots, mFreeBuffers, mQueue>>
      /\ pc' = Woken(pc) /\ UNCHANGED outSlot
  BY DEF detachBuffer, consumerDetachBuffer, queueVars, localVars
<1>4. AllocatorsKept({})
  BY <1>t, <1>3, KeepAllocators
<1>5. {s} \in SUBSET Slot
  OBVIOUS
<1> QED
  BY <1>t, <1>2, <1>3, <1>4, <1>5, ClearStep DEF Detached, Emptied, Others

\* cancelBuffer and releaseBuffer give a slot back with its buffer.
LEMMA GiveBackStep ==
    ASSUME Before, NEW s \in Slot,
           \/ mSlots[s].mGraphicBuffer # NullBuffer /\ cancelBuffer(s)
           \/ \E frameNumber \in 0 .. MaxFrames : releaseBuffer(s, frameNumber)
    PROVE  Returned(s)
<1>t. ThreadTypeOK /\ SlotTypeOK /\ QueueTypeOK /\ SlotsOK /\ ~mSharedBufferMode
  BY DEF Before, TypeOK, NothingShared
<1>1. mSlots[s].mBufferState \in {FREE, DEQUEUED, QUEUED, ACQUIRED}
  BY <1>t DEF SlotsOK, FourStates
<1>2. /\ mSlots[s].mBufferState \in {DEQUEUED, ACQUIRED}
      /\ mSlots[s].mGraphicBuffer # NullBuffer
      /\ ReturnToFreeBuffers([mSlots EXCEPT ![s].mBufferState = FREE], s)
  <2>1. CASE mSlots[s].mGraphicBuffer # NullBuffer /\ cancelBuffer(s)
    <3>1. mSlots[s].mBufferState = DEQUEUED /\ mSlots[s].mGraphicBuffer # NullBuffer
      BY <1>1, <2>1, StatePredicates DEF cancelBuffer, OwnedByProducer
    <3>2. cancel(mSlots[s].mBufferState) = FREE
      BY <3>1, Transitions
    <3> QED
      BY <1>t, <2>1, <3>1, <3>2 DEF cancelBuffer, SlotTypeOK
  <2>2. ASSUME NEW frameNumber, releaseBuffer(s, frameNumber)
        PROVE  /\ mSlots[s].mBufferState \in {DEQUEUED, ACQUIRED}
               /\ mSlots[s].mGraphicBuffer # NullBuffer
               /\ ReturnToFreeBuffers([mSlots EXCEPT ![s].mBufferState = FREE], s)
    <3>1. mSlots[s].mBufferState = ACQUIRED
      BY <1>1, <2>2, StatePredicates DEF releaseBuffer
    <3>2. release(mSlots[s].mBufferState) = FREE
      BY <3>1, Transitions
    <3>3. mSlots[s].mGraphicBuffer # NullBuffer
      BY <1>t, <3>1, WhereSlotsAre, StatesDiffer DEF SlotsOK, Contents
    <3> QED
      BY <1>t, <2>2, <3>1, <3>2, <3>3 DEF releaseBuffer, SlotTypeOK
  <2> QED
    BY <2>1, <2>2
<1>3. UNCHANGED <<mFreeSlots, mUnusedSlots, mQueue, outSlot>> /\ pc' = Woken(pc)
  BY DEF cancelBuffer, releaseBuffer, queueVars, localVars
<1>4. AllocatorsKept({})
  BY <1>t, <1>3, KeepAllocators
<1> DEFINE u == [mSlots EXCEPT ![s].mBufferState = FREE]
<1>5. u \in [Slot -> BufferSlot] /\ u[s].mBufferState = FREE
  <2>1. FREE \in BufferState
    BY DEF FREE, BufferState
  <2>2. mSlots \in [Slot -> BufferSlot]
    BY <1>t DEF SlotTypeOK
  <2>3. u \in [Slot -> BufferSlot]
    BY <2>1, <2>2, SlotStateType
  <2>4. u[s].mBufferState = FREE
    BY <2>2 DEF BufferSlot
  <2> QED
    BY <2>3, <2>4
<1>6. /\ u[s].mGraphicBuffer = mSlots[s].mGraphicBuffer
      /\ \A r \in Slot \ {s} : u[r] = mSlots[r]
  BY <1>t DEF SlotTypeOK, BufferSlot
<1> HIDE DEF u
<1>7. /\ mActiveBuffers' = mActiveBuffers \ {s} /\ mFreeBuffers' = Append(mFreeBuffers, s)
      /\ \A r \in Slot : /\ mSlots'[r].mBufferState = u[r].mBufferState
                         /\ mSlots'[r].mGraphicBuffer = u[r].mGraphicBuffer
                         /\ mSlots'[r].mFrameNumber = u[r].mFrameNumber
  <2>1. ReturnToFreeBuffers(u, s)
    BY <1>2 DEF u
  <2> QED
    BY <1>t, <1>5, <2>1, ReturnStep
<1> QED
  BY <1>2, <1>3, <1>4, <1>5, <1>6, <1>7 DEF Returned, Freed, Others, Same

\* A queued slot whose item is dropped or replaced is free again.
LEMMA FreeQueuedStep ==
    ASSUME ~mSharedBufferMode, NEW slots \in [Slot -> BufferSlot], NEW s \in Slot,
           slots[s].mBufferState = QUEUED,
           ReturnToFreeBuffers([slots EXCEPT ![s].mBufferState = freeQueued(@)], s)
    PROVE  /\ mActiveBuffers' = mActiveBuffers \ {s}
           /\ mFreeBuffers' = Append(mFreeBuffers, s)
           /\ mSlots'[s].mBufferState = FREE
           /\ mSlots'[s].mGraphicBuffer = slots[s].mGraphicBuffer
           /\ \A r \in Slot \ {s} :
                 /\ mSlots'[r].mBufferState = slots[r].mBufferState
                 /\ mSlots'[r].mGraphicBuffer = slots[r].mGraphicBuffer
                 /\ mSlots'[r].mFrameNumber = slots[r].mFrameNumber
<1>1. freeQueued(slots[s].mBufferState) = FREE /\ FREE \in BufferState
  BY Transitions DEF FREE, BufferState
<1> DEFINE u == [slots EXCEPT ![s].mBufferState = FREE]
<1>2. ReturnToFreeBuffers(u, s)
  BY <1>1
<1>3. u \in [Slot -> BufferSlot]
  BY <1>1, SlotStateType
<1>4. u[s].mBufferState = FREE
  BY DEF BufferSlot
<1>5. u[s].mGraphicBuffer = slots[s].mGraphicBuffer /\ \A r \in Slot \ {s} : u[r] = slots[r]
  BY DEF BufferSlot
<1> HIDE DEF u
<1> QED
  BY <1>2, <1>3, <1>4, <1>5, ReturnStep

\* queueBuffer hands its slot to the queue.
LEMMA QueueStep ==
    ASSUME Before, NEW t \in Thread, NEW s \in Slot, NEW timestamp \in Time,
           NEW isAuto \in BOOLEAN, queueBuffer(t, s, timestamp, isAuto)
    PROVE  \E item \in BufferItem : Appended(s, item) \/ Replaced(s, item)
<1> DEFINE becomesShared == mSharedBufferMode
                            /\ mSharedBufferSlot = INVALID_BUFFER_SLOT
           isSharedSlot == mSharedBufferMode
                           /\ (becomesShared \/ mSharedBufferSlot = s)
           st == SharedIf(becomesShared, queue(mSlots[s].mBufferState))
           n == mFrameCounter + 1
           queued == [mSlots[s] EXCEPT !.mFrameNumber = n, !.mBufferState = st]
           slots == [mSlots EXCEPT ![s] = queued]
           item == QueuedItem(s, isSharedSlot, timestamp, isAuto)
<1>t. /\ TypeOK /\ ThreadTypeOK /\ SlotTypeOK /\ QueueTypeOK /\ SlotsOK
      /\ ~mSharedBufferMode /\ isSharedSlot \in BOOLEAN
  BY DEF Before, TypeOK, NothingShared, SharedTypeOK
<1>1. mSlots[s].mBufferState = DEQUEUED /\ mSlots[s].mGraphicBuffer # NullBuffer
  <2>1. mSlots[s].mBufferState \in {FREE, DEQUEUED, QUEUED, ACQUIRED}
    BY <1>t DEF SlotsOK, FourStates
  <2> QED
    BY <2>1, StatePredicates DEF queueBuffer, OwnedByProducer
<1>2. st = QUEUED
  <2>1. becomesShared = FALSE
    BY <1>t
  <2> QED
    BY <1>1, <2>1, Transitions
<1>3. /\ EnqueueOrReplace(slots, item)
      /\ pc' = Woken(Goto(t, "callback")) /\ pc[t] # "alloc"
      /\ UNCHANGED <<mFreeSlots, mUnusedSlots, outSlot>>
  BY DEF queueBuffer
<1>4. item \in BufferItem
  BY <1>t, QueuedItemType
<1>5. /\ item.mSlot = s /\ ~item.mIsStale /\ item.mFrameNumber = n
      /\ item.mGraphicBuffer = mSlots[s].mGraphicBuffer
  BY DEF QueuedItem
<1>6. mSlots \in [Slot -> BufferSlot] /\ mSlots[s] \in BufferSlot /\ n \in Nat
      /\ QUEUED \in BufferState
  BY <1>t DEF SlotTypeOK, QueueTypeOK, QUEUED, BufferState
<1>7. queued \in BufferSlot
  BY <1>2, <1>6, SlotUpdateType
<1>8. /\ queued.mGraphicBuffer = mSlots[s].mGraphicBuffer /\ queued.mBufferState = QUEUED
      /\ queued.mFrameNumber = n
  BY <1>2, <1>6, SlotUpdates
<1>9. AllocatorsKept({})
  BY <1>t, <1>3, KeepAllocators
<1> HIDE DEF queued, item, st, n, isSharedSlot, becomesShared
<1>10. /\ slots \in [Slot -> BufferSlot] /\ slots[s] = queued
       /\ \A r \in Slot \ {s} : slots[r] = mSlots[r]
  BY <1>6, <1>7
<1> HIDE DEF slots
<1>11. ASSUME mSlots' = slots PROVE Queued(s, item) /\ Others(s)
  BY <1>1, <1>3, <1>5, <1>8, <1>9, <1>10, <1>11 DEF Queued, Others, Same
<1>12. CASE ~(mQueue # <<>> /\ Last(mQueue).mIsDroppable)
  <2>1. /\ mQueue' = Append(mQueue, item) /\ mSlots' = slots
        /\ UNCHANGED <<mActiveBuffers, mFreeBuffers>>
    BY <1>3, <1>12 DEF EnqueueOrReplace
  <2> QED
    BY <1>4, <1>11, <2>1 DEF Appended
<1>13. CASE mQueue # <<>> /\ Last(mQueue).mIsDroppable /\ Last(mQueue).mIsStale
  <2>1. /\ mQueue' = Append(Front(mQueue), item) /\ mSlots' = slots
        /\ UNCHANGED <<mActiveBuffers, mFreeBuffers>>
    BY <1>3, <1>13 DEF EnqueueOrReplace
  <2> QED
    BY <1>4, <1>11, <1>13, <2>1 DEF Appended
<1>14. CASE mQueue # <<>> /\ Last(mQueue).mIsDroppable /\ ~Last(mQueue).mIsStale
  <2> DEFINE r == Last(mQueue).mSlot
  <2>1. /\ mQueue' = Append(Front(mQueue), item)
        /\ ReturnToFreeBuffers([slots EXCEPT ![r].mBufferState = freeQueued(@)], r)
    BY <1>3, <1>14 DEF EnqueueOrReplace
  <2>2. r \in Slot /\ mSlots[r].mBufferState = QUEUED /\ r # s
    BY <1>1, <1>t, <1>14, EndsOfQueue, StatesDiffer DEF SlotTypeOK
  <2> HIDE DEF r
  <2>3. slots[r] = mSlots[r] /\ slots[r].mBufferState = QUEUED
    BY <1>10, <2>2
  <2>4. Freed(r) /\ \A x \in Slot \ {r} :
            /\ mSlots'[x].mBufferState = slots[x].mBufferState
            /\ mSlots'[x].mGraphicBuffer = slots[x].mGraphicBuffer
            /\ mSlots'[x].mFrameNumber = slots[x].mFrameNumber
    <3>1. ~mSharedBufferMode /\ slots \in [Slot -> BufferSlot]
      BY <1>t, <1>10
    <3>2. /\ mActiveBuffers' = mActiveBuffers \ {r}
          /\ mFreeBuffers' = Append(mFreeBuffers, r)
          /\ mSlots'[r].mBufferState = FREE
          /\ mSlots'[r].mGraphicBuffer = slots[r].mGraphicBuffer
          /\ \A x \in Slot \ {r} :
                /\ mSlots'[x].mBufferState = slots[x].mBufferState
                /\ mSlots'[x].mGraphicBuffer = slots[x].mGraphicBuffer
                /\ mSlots'[x].mFrameNumber = slots[x].mFrameNumber
      BY <2>1, <2>2, <2>3, <3>1, FreeQueuedStep
    <3> QED
      BY <2>3, <3>2 DEF Freed
  <2>5. Queued(s, item)
    BY <1>1, <1>3, <1>5, <1>8, <1>9, <1>10, <2>2, <2>4 DEF Queued
  <2>6. \A x \in Slot \ {s, r} : Same(x)
    BY <1>10, <2>4 DEF Same
  <2> QED
    BY <1>4, <1>14, <2>1, <2>4, <2>5, <2>6 DEF Replaced, r
<1> QED
  BY <1>12, <1>13, <1>14

\* acquireBuffer takes the front of the queue.
LEMMA AcquireStep ==
    ASSUME Before, mQueue # <<>>, AcquireFront
    PROVE  FrontStale \/ FrontAcquired
<1> DEFINE s == Head(mQueue).mSlot
           u == [mSlots[s] EXCEPT !.mAcquireCalled = TRUE,
                                  !.mBufferState = acquire(mSlots[s].mBufferState)]
<1>t. ThreadTypeOK /\ SlotTypeOK /\ QueueTypeOK /\ SlotsOK
  BY DEF Before, TypeOK
<1>1. /\ mQueue' = Tail(mQueue) /\ UNCHANGED <<listVars, outSlot>> /\ pc' = Woken(pc)
      /\ Head(mQueue).mIsStale => mSlots' = mSlots
      /\ ~Head(mQueue).mIsStale => mSlots' = [mSlots EXCEPT ![s] = u]
  BY DEF AcquireFront, localVars
<1>2. FrontGone /\ UNCHANGED <<mActiveBuffers, mFreeBuffers>>
  BY <1>t, <1>1, KeepAllocators DEF FrontGone, listVars
<1>3. CASE Head(mQueue).mIsStale
  BY <1>1, <1>2, <1>3 DEF FrontStale, Same
<1>4. CASE ~Head(mQueue).mIsStale
  <2>1. s \in Slot /\ mSlots[s].mBufferState = QUEUED
    BY <1>t, <1>4, EndsOfQueue DEF SlotTypeOK
  <2>2. mSlots[s] \in BufferSlot /\ acquire(mSlots[s].mBufferState) = ACQUIRED
    BY <1>t, <2>1, Transitions DEF SlotTypeOK
  <2>3. u.mGraphicBuffer = mSlots[s].mGraphicBuffer /\ u.mBufferState = ACQUIRED
    BY <2>2, SlotUpdates
  <2> HIDE DEF u, s
  <2>4. mSlots'[s] = u /\ Others(s)
    BY <1>t, <1>1, <1>4, <2>1 DEF SlotTypeOK, Others, Same
  <2> QED
    BY <1>2, <1>4, <2>3, <2>4 DEF FrontAcquired, s
<1> QED
  BY <1>3, <1>4

\* An item that is dropped leaves its slot free.
LEMMA DropStep ==
    ASSUME Before, dropFront
    PROVE  FrontStale \/ FrontDropped
<1> DEFINE s == Head(mQueue).mSlot
<1>t. ThreadTypeOK /\ SlotTypeOK /\ QueueTypeOK /\ SlotsOK /\ ~mSharedBufferMode
  BY DEF Before, TypeOK, NothingShared
<1>1. /\ mQueue' = Tail(mQueue) /\ UNCHANGED <<mFreeSlots, mUnusedSlots, pc, outSlot>>
      /\ Head(mQueue).mIsStale => UNCHANGED <<mSlots, mActiveBuffers, mFreeBuffers>>
      /\ ~Head(mQueue).mIsStale => ReturnToFreeBuffers(
             [mSlots EXCEPT ![s].mBufferState = freeQueued(@)], s)
  BY DEF dropFront, localVars
<1>2. mQueue # <<>>
  BY DEF dropFront, Before, TypeOK, ConsumerTypeOK
<1>3. FrontGone
  BY <1>t, <1>1, <1>2, KeepAllocators DEF FrontGone
<1>4. CASE Head(mQueue).mIsStale
  BY <1>1, <1>3, <1>4 DEF FrontStale, Same
<1>5. CASE ~Head(mQueue).mIsStale
  <2>1. s \in Slot /\ mSlots[s].mBufferState = QUEUED /\ mSlots \in [Slot -> BufferSlot]
    BY <1>t, <1>2, <1>5, EndsOfQueue DEF SlotTypeOK
  <2> HIDE DEF s
  <2>2. Freed(s) /\ Others(s)
    BY <1>t, <1>1, <1>5, <2>1, FreeQueuedStep DEF Freed, Others, Same
  <2> QED
    BY <1>3, <1>5, <2>2 DEF FrontDropped, s
<1> QED
  BY <1>4, <1>5

\* The free buffers are discarded.
LEMMA DiscardStep ==
    ASSUME Before, discardFreeBuffers
    PROVE  Discarded
<1>t. ThreadTypeOK /\ SlotTypeOK /\ ToSet(mFreeBuffers) \in SUBSET Slot
  BY FreeBufferSetType DEF Before, TypeOK
<1>1. /\ clearBufferSlotLocked(ToSet(mFreeBuffers))
      /\ mFreeSlots' = mFreeSlots \cup ToSet(mFreeBuffers) /\ mFreeBuffers' = <<>>
      /\ UNCHANGED <<mUnusedSlots, mActiveBuffers, mQueue, pc, outSlot>>
  BY DEF discardFreeBuffers, discardFreeBuffersLocked, queueVars, localVars
<1>2. AllocatorsKept({})
  BY <1>t, <1>1, KeepAllocators
<1> QED
  BY <1>t, <1>1, <1>2, ClearStep DEF Discarded

\* freeAllBuffersLocked empties all slots in play.
LEMMA FreeAllStep ==
    ASSUME SlotTypeOK, freeAllBuffersLocked
    PROVE  LET all == mFreeSlots \cup ToSet(mFreeBuffers) \cup mActiveBuffers IN
           /\ mFreeSlots' = all /\ mFreeBuffers' = <<>> /\ mActiveBuffers' = {}
           /\ UNCHANGED mUnusedSlots
           /\ \A r \in Slot \ all : Same(r)
           /\ \A r \in all : /\ mSlots'[r].mBufferState = FREE
                             /\ mSlots'[r].mGraphicBuffer = NullBuffer
<1> DEFINE all == mFreeSlots \cup ToSet(mFreeBuffers) \cup mActiveBuffers
<1>1. all \in SUBSET Slot
  BY FreeBufferSetType DEF SlotTypeOK
<1>2. clearBufferSlotLocked(all)
  BY DEF freeAllBuffersLocked
<1> QED
  BY <1>1, <1>2, ClearStep DEF freeAllBuffersLocked

\* The producer disconnects: the thread that is alone is not allocating.
LEMMA DisconnectStep ==
    ASSUME Before, PrivateCalls, AllocationKnown, "disconnect" \in Ops, disconnect
    PROVE  AllFreed
<1>t. ThreadTypeOK /\ SlotTypeOK
  BY DEF Before, TypeOK
<1>1. \A t \in Thread : pc[t] # "alloc"
  BY DEF AllocationKnown, disconnect
<1>2. /\ freeAllBuffersLocked /\ mQueue' = MarkedStale(mQueue)
      /\ pc' = Woken(pc) /\ UNCHANGED outSlot
  BY DEF disconnect, localVars
<1>3. AllocatorsKept({})
  BY <1>t, <1>2, KeepAllocators
<1> QED
  BY <1>t, <1>1, <1>2, <1>3, FreeAllStep DEF AllFreed

\* adjustAvailableSlotsLocked brings slots into play or takes them out.
LEMMA AdjustStep ==
    ASSUME Before, NEW delta \in Int, adjustAvailableSlotsLocked(delta),
           UNCHANGED <<mQueue, outSlot>>, UNCHANGED pc \/ pc' = Woken(pc)
    PROVE  \/ \E S \in SUBSET Slot : SlotsAdded(S)
           \/ \E S \in SUBSET Slot, k \in Nat : SlotsRemoved(S, k)
<1>t. ThreadTypeOK /\ SlotTypeOK
  BY DEF Before, TypeOK
<1>a. AllocatorsKept({})
  BY <1>t, KeepAllocators
<1>1. CASE delta >= 0 /\ MoreSlots(delta)
  BY <1>1, <1>a, <1>t DEF MoreSlots, SlotsAdded, Same, SlotTypeOK
<1>2. CASE delta < 0 /\ FewerSlots(-delta)
  <2> DEFINE n == -delta
             slots == {s \in mFreeSlots :
                         Cardinality({r \in mFreeSlots : r < s}) < n}
             missing == IF n > Cardinality(mFreeSlots)
                           THEN n - Cardinality(mFreeSlots) ELSE 0
             kept == Len(mFreeBuffers) - missing
             buffers == {mFreeBuffers[i] : i \in kept + 1 .. Len(mFreeBuffers)}
  <2>1. n \in Nat
    BY <1>2
  <2>2. Cardinality(mFreeSlots) \in Nat /\ Len(mFreeBuffers) \in Nat
    BY <1>t, FreeSlotsFinite DEF SlotTypeOK
  <2>3. n <= Cardinality(mFreeSlots) + Len(mFreeBuffers)
    BY <1>2 DEF FewerSlots
  <2>4. missing \in Nat /\ missing <= Len(mFreeBuffers)
    BY <2>1, <2>2, <2>3
  <2>5. kept \in Nat /\ kept <= Len(mFreeBuffers)
    BY <2>2, <2>4
  <2>6. /\ mFreeSlots' = mFreeSlots \ slots
        /\ mFreeBuffers' = SubSeq(mFreeBuffers, 1, kept)
        /\ mUnusedSlots' = mUnusedSlots \cup slots \cup buffers
        /\ clearBufferSlotLocked(slots \cup buffers)
        /\ UNCHANGED mActiveBuffers
    BY <1>2 DEF FewerSlots
  <2> HIDE DEF kept, missing, n
  <2>7. slots \subseteq mFreeSlots /\ slots \in SUBSET Slot /\ buffers \in SUBSET Slot
    BY <1>t, <2>2, <2>5 DEF SlotTypeOK
  <2>8. buffers = LastFree(kept)
    BY DEF LastFree
  <2>9. kept \in 0 .. Len(mFreeBuffers)
    BY <2>2, <2>5
  <2> HIDE DEF buffers, slots
  <2>10. SlotsRemoved(slots, kept)
    <3>1. slots \cup buffers \in SUBSET Slot
      BY <2>7
    <3>2. /\ \A r \in Slot \ (slots \cup buffers) : Same(r)
          /\ \A r \in slots \cup buffers :
                mSlots'[r].mBufferState = FREE /\ mSlots'[r].mGraphicBuffer = NullBuffer
      BY <1>t, <2>6, <3>1, ClearStep
    <3> QED
      BY <1>a, <2>6, <2>7, <2>8, <2>9, <3>2 DEF SlotsRemoved
  <2> QED
    BY <2>5, <2>7, <2>10
<1> QED
  BY <1>1, <1>2 DEF adjustAvailableSlotsLocked

-----------------------------------------------------------------------------
(* All the steps, by what they do to the slots                             *)

\* The calls that end in adjustAvailableSlotsLocked.
Limits ==
    \/ \E n \in 1 .. NUM_BUFFER_SLOTS :
          \/ "setMaxDequeuedBufferCount" \in Ops /\ setMaxDequeuedBufferCount(n)
          \/ "setMaxAcquiredBufferCount" \in Ops /\ setMaxAcquiredBufferCount(n)
          \/ "setMaxBufferCount" \in Ops /\ setMaxBufferCount(n)
    \/ setAsyncMode(~mAsyncMode)
    \/ \E timed \in BOOLEAN : setDequeueTimeout(timed)
    \/ \E api \in Api \cup {UnknownApi}, byApp \in ControlledByApp : connect(api, byApp)

\* Thread t takes slot s.
Takes(t, s) ==
    \/ \E reallocate \in BOOLEAN : dequeueTakesSlot(t, s, reallocate)
    \/ \E b \in Buffer : attachBuffer(t, s, b)

\* The allocation of buffer b ends.
Allocates(t, b) ==
    dequeueAllocated(t, b) \/ \E retry \in BOOLEAN : allocateBuffersAllocated(t, b, retry)

\* Thread t gives up a free buffer.
GivesUpFree(t) == detachNextBuffer(t) \/ \E s \in Slot : dequeueRejectsBuffer(t, s)

\* The owner of slot s keeps the buffer and gives up the slot.
Detaches(s) ==
    \/ mSlots[s].mGraphicBuffer # NullBuffer /\ detachBuffer(s)
    \/ consumerDetachBuffer(s)

\* The owner of slot s gives it back.
GivesBack(s) ==
    \/ mSlots[s].mGraphicBuffer # NullBuffer /\ cancelBuffer(s)
    \/ \E frameNumber \in 0 .. MaxFrames : releaseBuffer(s, frameNumber)

\* Thread t queues slot s.
Queues(t, s) ==
    \E timestamp \in Time, isAuto \in BOOLEAN : queueBuffer(t, s, timestamp, isAuto)

\* The consumer takes the front of the queue.
Acquires ==
    acquireBuffer \/ acquireAfterDropping

\* Every step of a BufferQueue whose allocator does not fail and whose clients
\* name no slot that is being allocated.
LEMMA AllSteps ==
    ASSUME ~AllocMayFail, "anySlot" \notin Ops, [Next]_vars
    PROVE  \/ Sets \/ Limits \/ Acquires \/ dropFront \/ acquireSharedBuffer
           \/ discardFreeBuffers
           \/ "disconnect" \in Ops /\ disconnect
           \/ "consumerDisconnect" \in Ops /\ consumerDisconnect
           \/ \E t \in Thread : \/ Moves(t) \/ GivesUpFree(t)
                                \/ \E s \in Slot : Takes(t, s) \/ Queues(t, s)
                                \/ \E b \in Buffer : Allocates(t, b)
           \/ \E s \in Slot : Detaches(s) \/ GivesBack(s) \/ queueBufferRejectsCrop(s)
           \/ /\ "consumerAttachBuffer" \in Ops
              /\ \E s \in Slot, b \in Buffer : consumerAttachBuffer(s, b)
<1> DEFINE Result ==
           \/ Sets \/ Limits \/ Acquires \/ dropFront \/ acquireSharedBuffer
           \/ discardFreeBuffers
           \/ "disconnect" \in Ops /\ disconnect
           \/ "consumerDisconnect" \in Ops /\ consumerDisconnect
           \/ \E t \in Thread : \/ Moves(t) \/ GivesUpFree(t)
                                \/ \E s \in Slot : Takes(t, s) \/ Queues(t, s)
                                \/ \E b \in Buffer : Allocates(t, b)
           \/ \E s \in Slot : Detaches(s) \/ GivesBack(s) \/ queueBufferRejectsCrop(s)
           \/ /\ "consumerAttachBuffer" \in Ops
              /\ \E s \in Slot, b \in Buffer : consumerAttachBuffer(s, b)
<1>0. /\ AllocatorResults \subseteq Buffer /\ FreshBuffers \subseteq Buffer
      /\ ControlledByApp \subseteq BOOLEAN /\ AutoTimestamp \subseteq BOOLEAN
  BY OpsAssumption DEF AllocatorResults, FreshBuffers
<1>1. ASSUME NEW t \in Thread, Dequeueing(t) PROVE Result
  <2>1. ASSUME NEW s \in Slot,
               \/ dequeueTakesSlot(t, s, mSlots[s].mGraphicBuffer = NullBuffer)
               \/ dequeueTakesSlot(t, s, TRUE)
        PROVE  Takes(t, s)
    <3>1. (mSlots[s].mGraphicBuffer = NullBuffer) \in BOOLEAN
      OBVIOUS
    <3> QED
      BY <2>1, <3>1 DEF Takes
  <2> QED
    BY <1>0, <1>1, <2>1 DEF Dequeueing, Moves, GivesUpFree, Allocates
<1>2. ASSUME NEW t \in Thread, Preallocating(t) \/ DetachingNext(t) PROVE Result
  BY <1>0, <1>2 DEF Preallocating, DetachingNext, Moves, Allocates, GivesUpFree
<1>3. ASSUME NEW t \in Thread, Attaching(t) \/ Queueing(t) PROVE Result
  BY <1>0, <1>3 DEF Attaching, Queueing, Moves, Takes, Queues, Named,
     queueBufferDereferencesNull
<1>4. ASSUME ProducerCall PROVE Result
  <2>1. ASSUME NEW s \in Slot, Named(s),
               \/ requestBuffer(s) \/ detachBuffer(s) \/ cancelBuffer(s)
               \/ queueBufferRejectsCrop(s)
        PROVE  Result
    BY <2>1 DEF Sets, Detaches, GivesBack, Named
  <2> QED
    BY <1>0, <1>4, <2>1 DEF ProducerCall, Sets, Limits
<1>5. ASSUME ConsumerCall PROVE Result
  <2>1. ASSUME \E s \in Slot : \/ \E frameNumber \in 0 .. MaxFrames : releaseBuffer(s, frameNumber)
                               \/ consumerDetachBuffer(s)
        PROVE  Result
    BY <2>1 DEF GivesBack, Detaches
  <2>2. ASSUME "consumerAttachBuffer" \in Ops,
               \E s \in Slot, b \in FreshBuffers : consumerAttachBuffer(s, b)
        PROVE  Result
    BY <1>0, <2>2
  <2>3. ASSUME \/ \E byApp \in ControlledByApp : consumerConnect(byApp)
               \/ \E expectedPresent \in Time, maxFrameNumber \in 0 .. MaxFrames :
                     acquireBufferTimed(expectedPresent, maxFrameNumber)
               \/ presentLater \/ acquireSharedBufferBlocks \/ acquireSharedOutOfRange
        PROVE  Result
    BY <1>0, <2>3 DEF Sets
  <2>4. ASSUME \/ /\ "setMaxBufferCount" \in Ops
                  /\ \E n \in 1 .. NUM_BUFFER_SLOTS : setMaxBufferCount(n)
               \/ /\ "setMaxAcquiredBufferCount" \in Ops
                  /\ \E n \in 1 .. NUM_BUFFER_SLOTS : setMaxAcquiredBufferCount(n)
        PROVE  Result
    BY <2>4 DEF Limits
  <2>5. ASSUME acquireBuffer \/ acquireAfterDropping PROVE Result
    BY <2>5 DEF Acquires
  <2> HIDE DEF Result
  <2>6. ASSUME \/ dropFront \/ acquireSharedBuffer \/ discardFreeBuffers
               \/ "consumerDisconnect" \in Ops /\ consumerDisconnect
        PROVE  Result
    BY <2>6 DEF Result
  <2> QED
    BY <1>5, <2>1, <2>2, <2>3, <2>4, <2>5, <2>6 DEF ConsumerCall
<1>6. ASSUME NEW t \in Thread, spuriousWakeup(t) PROVE Result
  BY <1>6 DEF Moves
<1>7. ASSUME UNCHANGED vars PROVE Result
  BY <1>7 DEF Sets
<1> HIDE DEF Result
<1>8. Result
  BY <1>1, <1>2, <1>3, <1>4, <1>5, <1>6, <1>7 DEF Next, ThreadStep
<1> QED
  BY <1>8 DEF Result

\* The calls that adjust the number of slots, and what they leave alone.
LEMMA LimitsStep ==
    ASSUME TypeOK, Limits
    PROVE  \E delta \in Int :
              /\ adjustAvailableSlotsLocked(delta)
              /\ UNCHANGED <<mQueue, outSlot, mIsAbandoned, mIsAllocating, sharedVars,
                             consumerVars>>
              /\ UNCHANGED pc \/ pc' = Woken(pc)
<1> DEFINE P(delta) ==
              /\ adjustAvailableSlotsLocked(delta)
              /\ UNCHANGED <<mQueue, outSlot, mIsAbandoned, mIsAllocating, sharedVars,
                             consumerVars>>
              /\ UNCHANGED pc \/ pc' = Woken(pc)
<1>t. /\ mMaxDequeuedBufferCount \in Int /\ mMaxAcquiredBufferCount \in Int
      /\ mMaxBufferCount \in Int /\ getMaxBufferCountLocked \in Int
      /\ \A async, cannotBlock \in BOOLEAN, n \in Int :
            getMaxBufferCount(async, cannotBlock, n) \in Int
      /\ 1 .. NUM_BUFFER_SLOTS \subseteq Int
      /\ mAsyncMode \in BOOLEAN /\ mDequeueBufferCannotBlock \in BOOLEAN
      /\ ControlledByApp \subseteq BOOLEAN
  BY CoreAssumption, LimitsAreInt, OpsAssumption DEF TypeOK, LimitTypeOK
<1>1. ASSUME NEW n \in 1 .. NUM_BUFFER_SLOTS, setMaxDequeuedBufferCount(n)
      PROVE  \E delta \in Int : P(delta)
  <2>1. n - mMaxDequeuedBufferCount \in Int
    BY <1>t
  <2>2. P(n - mMaxDequeuedBufferCount)
    BY <1>1 DEF setMaxDequeuedBufferCount, queueVars, localVars, connectionVars
  <2> QED
    BY <2>1, <2>2
<1>2. ASSUME NEW n \in 1 .. NUM_BUFFER_SLOTS, setMaxAcquiredBufferCount(n)
      PROVE  \E delta \in Int : P(delta)
  <2>1. n - mMaxAcquiredBufferCount \in Int
    BY <1>t
  <2>2. P(n - mMaxAcquiredBufferCount)
    BY <1>2 DEF setMaxAcquiredBufferCount, queueVars, localVars, connectionVars
  <2> QED
    BY <2>1, <2>2
<1>3. ASSUME NEW n \in 1 .. NUM_BUFFER_SLOTS, setMaxBufferCount(n)
      PROVE  \E delta \in Int : P(delta)
  <2> DEFINE d == getMaxBufferCount(mAsyncMode, mDequeueBufferCannotBlock, n)
                      - getMaxBufferCountLocked
  <2>1. d \in Int
    BY <1>t
  <2>2. P(d)
    BY <1>3 DEF setMaxBufferCount, queueVars, localVars, connectionVars
  <2> QED
    BY <2>1, <2>2
<1>4. ASSUME setAsyncMode(~mAsyncMode) PROVE \E delta \in Int : P(delta)
  <2> DEFINE d == getMaxBufferCount(~mAsyncMode, mDequeueBufferCannotBlock, mMaxBufferCount)
                      - getMaxBufferCountLocked
  <2>1. d \in Int
    BY CoreAssumption DEF getMaxBufferCount, getMaxBufferCountLocked, ExtraBuffer,
                          MAX_MAX_ACQUIRED_BUFFERS, TypeOK, LimitTypeOK
  <2>2. P(d)
    BY <1>4 DEF setAsyncMode, queueVars, localVars, connectionVars
  <2> QED
    BY <2>1, <2>2
<1>5. ASSUME NEW timed \in BOOLEAN, setDequeueTimeout(timed) PROVE \E delta \in Int : P(delta)
  <2> DEFINE d == getMaxBufferCount(mAsyncMode, FALSE, mMaxBufferCount)
                      - getMaxBufferCountLocked
  <2>1. d \in Int
    BY CoreAssumption DEF getMaxBufferCount, getMaxBufferCountLocked, ExtraBuffer,
                          MAX_MAX_ACQUIRED_BUFFERS, TypeOK, LimitTypeOK
  <2>2. P(d)
    BY <1>5 DEF setDequeueTimeout, queueVars, localVars, connectionVars
  <2> QED
    BY <2>1, <2>2
<1>6. ASSUME NEW api \in Api \cup {UnknownApi}, NEW byApp \in ControlledByApp,
             connect(api, byApp)
      PROVE  \E delta \in Int : P(delta)
  <2> DEFINE cannotBlock == ~mDequeueTimeout /\ mConsumerControlledByApp /\ byApp
             d == getMaxBufferCount(mAsyncMode, cannotBlock, mMaxBufferCount)
                      - getMaxBufferCountLocked
  <2>2. d \in Int
    BY CoreAssumption DEF getMaxBufferCount, getMaxBufferCountLocked, ExtraBuffer,
                          MAX_MAX_ACQUIRED_BUFFERS, TypeOK, LimitTypeOK
  <2>3. P(d)
    BY <1>6 DEF connect, localVars
  <2> QED
    BY <2>2, <2>3
<1> QED
  BY <1>1, <1>2, <1>3, <1>4, <1>5, <1>6 DEF Limits

\* The consumer disconnects in this step.
Leaves == "consumerDisconnect" \in Ops /\ consumerDisconnect

\* While the consumer is there, every step but its disconnection is a SlotStep.
LEMMA StepsAreSlotSteps ==
    ASSUME Before, PrivateCalls, AllocationKnown, ~mIsAbandoned, [Next]_vars,
           ~Leaves
    PROVE  SlotStep
<1>0. TypeOK /\ ~AllocMayFail /\ "anySlot" \notin Ops
  BY DEF Before, PrivateCalls
<1>1. CASE Sets \/ \E t \in Thread : Moves(t)
  BY <1>0, <1>1, SettingSteps, MovingSteps DEF SlotStep
<1>2. CASE Limits
  BY <1>0, <1>2, LimitsStep, AdjustStep DEF SlotStep
<1>3. CASE Acquires
  <2>1. mQueue # <<>> /\ AcquireFront
    BY <1>0, <1>3
       DEF Acquires, acquireBuffer, acquireAfterDropping, TypeOK, ConsumerTypeOK
  <2> QED
    BY <2>1, AcquireStep DEF SlotStep
<1>4. CASE dropFront
  BY <1>4, DropStep DEF SlotStep
<1>5. CASE discardFreeBuffers
  BY <1>5, DiscardStep DEF SlotStep
<1>6. CASE "disconnect" \in Ops /\ disconnect
  BY <1>6, DisconnectStep DEF SlotStep
<1>7. ASSUME NEW t \in Thread, GivesUpFree(t) PROVE SlotStep
  BY <1>7, GiveUpFreeBuffer DEF GivesUpFree, SlotStep
<1>8. ASSUME NEW t \in Thread, NEW s \in Slot, Takes(t, s) PROVE SlotStep
  BY <1>8, DequeueTakes, AttachTakes DEF Takes, SlotStep
<1>9. ASSUME NEW t \in Thread, NEW s \in Slot, Queues(t, s) PROVE SlotStep
  BY <1>9, QueueStep DEF Queues, SlotStep
<1>10. ASSUME NEW t \in Thread, NEW b \in Buffer, Allocates(t, b) PROVE SlotStep
  BY <1>10, AllocatedStep DEF Allocates, SlotStep
<1>11. ASSUME NEW s \in Slot, Detaches(s) \/ GivesBack(s) PROVE SlotStep
  BY <1>11, DetachStep, GiveBackStep DEF Detaches, GivesBack, SlotStep
<1>12. ASSUME NEW s \in Slot, NEW b \in Buffer, consumerAttachBuffer(s, b) PROVE SlotStep
  BY <1>12, AttachTakes DEF SlotStep
<1>13. ~acquireSharedBuffer /\ \A s \in Slot : ~queueBufferRejectsCrop(s)
  BY DEF Before, NothingShared, acquireSharedBuffer, sharedBufferAvailable,
         queueBufferRejectsCrop
<1> QED
  BY <1>0, <1>1, <1>2, <1>3, <1>4, <1>5, <1>6, <1>7, <1>8, <1>9, <1>10, <1>11, <1>12,
     <1>13, AllSteps DEF Leaves

\* Nothing is shared and nothing crashes: dequeueBuffer finds a free buffer when
\* it may not allocate.
LEMMA NothingSharedStep ==
    ASSUME TypeOK, PrivateCalls, SlotInv, [Next]_vars
    PROVE  NothingShared'
<1>0. /\ ~AllocMayFail /\ "anySlot" \notin Ops /\ NothingShared /\ mSharedBufferMode = FALSE
      /\ "setSharedBufferMode" \notin Ops
      /\ mSharedBufferSlot = INVALID_BUFFER_SLOT /\ pc \in [Thread -> PC]
  BY DEF PrivateCalls, SlotInv, NothingShared, TypeOK, ThreadTypeOK, SharedTypeOK
<1>1. \A t \in Thread : ~dequeueDereferencesNull(t)
  <2> SUFFICES ASSUME NEW t \in Thread, dequeueDereferencesNull(t) PROVE FALSE
    OBVIOUS
  <2>1. PICK s \in Slot : /\ Finds("dequeue", s) /\ DereferencesBuffer(s)
                          /\ mSlots[s].mGraphicBuffer = NullBuffer
    BY DEF dequeueDereferencesNull
  <2>2. Before
    BY <2>1 DEF Finds, Before, SlotInv, SlotsOK
  <2>3. mSharedBufferSlot # s
    BY <2>1, <2>2, FoundSlot
  <2> QED
    BY <2>1, <2>2, <2>3, FoundSlot DEF DereferencesBuffer
<1> DEFINE Private == ~mSharedBufferMode' /\ mSharedBufferSlot' = INVALID_BUFFER_SLOT
           Going == cpc' \in {"idle", "dropping"} /\ \A t \in Thread : pc'[t] # "crash"
<1>2. \A u \in Thread : Woken(pc)[u] # "crash"
  BY <1>0 DEF Woken, NothingShared
<1>3. \A t, u \in Thread, where \in PC \ {"crash"} :
          Goto(t, where)[u] # "crash" /\ Woken(Goto(t, where))[u] # "crash"
  BY <1>0 DEF Woken, Goto, NothingShared
<1>k. ASSUME UNCHANGED cpc,
             \/ UNCHANGED pc \/ pc' = Woken(pc)
             \/ \E t \in Thread, where \in PC \ {"crash"} :
                   pc' = Goto(t, where) \/ pc' = Woken(Goto(t, where))
      PROVE  Going
  BY <1>0, <1>2, <1>3, <1>k DEF NothingShared
<1>4. ASSUME NEW t \in Thread, Moves(t) PROVE Private /\ Going
  <2>1. UNCHANGED <<sharedVars, consumerVars>>
    BY <1>4 DEF Moves, dequeueBuffer, dequeueWaitsOrGivesUp, dequeueDereferencesNull,
       waitTimesOut, spuriousWakeup, allocateBuffers, detachNextBufferBlocks,
       attachBufferBlocks, attachWaitsOrGivesUp, queueBufferCallback,
       waitForFreeSlotThenRelock
  <2>2. \E where \in PC \ {"crash"} : pc' = Goto(t, where)
    <3>1. CASE spuriousWakeup(t)
      <4>1. Woken(pc)[t] \in PC \ {"crash"}
        BY <1>0, <1>2 DEF Woken, PC
      <4> QED
        BY <3>1, <4>1 DEF spuriousWakeup
    <3>2. CASE dequeueWaitsOrGivesUp(t)
      BY <3>2 DEF dequeueWaitsOrGivesUp, waitForFreeSlotThenRelock, PC
    <3>3. CASE attachWaitsOrGivesUp(t)
      BY <3>3 DEF attachWaitsOrGivesUp, waitForFreeSlotThenRelock, PC
    <3>4. CASE \/ dequeueBuffer(t) \/ waitTimesOut(t)
               \/ detachNextBufferBlocks(t) \/ attachBufferBlocks(t) \/ queueBufferCallback(t)
      BY <3>4 DEF dequeueBuffer, waitTimesOut,
           detachNextBufferBlocks, attachBufferBlocks, queueBufferCallback, PC
    <3>5. CASE allocateBuffers(t)
      BY <3>5 DEF allocateBuffers, PC
    <3> QED
      BY <1>1, <1>4, <3>1, <3>2, <3>3, <3>4, <3>5 DEF Moves
  <2> QED
    BY <1>0, <1>k, <2>1, <2>2 DEF sharedVars, consumerVars
<1>5. ASSUME Sets PROVE Private /\ Going
  <2>1. ~acquireSharedBufferBlocks /\ ~acquireSharedOutOfRange
    BY <1>0 DEF acquireSharedBufferBlocks, acquireSharedOutOfRange,
       sharedBufferAvailable, NothingShared
  <2>2. UNCHANGED <<mSharedBufferMode, mSharedBufferSlot, pc>>
    BY <1>0, <1>5, <2>1 DEF Sets, requestBuffer, allowAllocation, setAutoRefresh,
       consumerConnect, acquireBufferTimed, presentLater, vars, sharedVars
  <2>3. cpc' \in {"idle", "dropping"}
    BY <1>0, <1>5, <2>1 DEF Sets, requestBuffer, allowAllocation, setAutoRefresh,
       consumerConnect, acquireBufferTimed, presentLater, vars, consumerVars, NothingShared
  <2> QED
    BY <1>0, <2>2, <2>3 DEF NothingShared
<1>6. ASSUME Limits PROVE Private /\ Going
  BY <1>0, <1>6, <1>k, LimitsStep DEF sharedVars, consumerVars
<1>7. ASSUME Acquires PROVE Private /\ Going
  BY <1>0, <1>2, <1>7 DEF Acquires, acquireBuffer, acquireAfterDropping, AcquireFront, sharedVars
<1>8. ASSUME dropFront \/ discardFreeBuffers PROVE Private /\ Going
  BY <1>0, <1>8, <1>k DEF dropFront, discardFreeBuffers, sharedVars, consumerVars
<1>9. ASSUME disconnect \/ consumerDisconnect PROVE Private /\ Going
  BY <1>0, <1>9, <1>k DEF disconnect, consumerDisconnect, consumerVars
<1>p. {"idle", "alloc", "dequeueAgain", "allocateBuffers", "callback"} \subseteq PC \ {"crash"}
  BY DEF PC
<1>10. ASSUME NEW t \in Thread, GivesUpFree(t) PROVE Private /\ Going
  BY <1>0, <1>10, <1>k, <1>p DEF GivesUpFree, detachNextBuffer, dequeueRejectsBuffer,
     sharedVars, consumerVars
<1>11. ASSUME NEW t \in Thread, NEW s \in Slot, Takes(t, s) PROVE Private /\ Going
  <2>1. \E where \in PC \ {"crash"} : pc' = Goto(t, where)
    BY <1>11, <1>p DEF Takes, dequeueTakesSlot, attachBuffer
  <2>2. Private /\ UNCHANGED cpc
    BY <1>0, <1>11 DEF Takes, dequeueTakesSlot, attachBuffer, sharedVars, consumerVars
  <2> QED
    BY <1>k, <2>1, <2>2
<1>12. ASSUME NEW t \in Thread, NEW s \in Slot, Queues(t, s) PROVE Private /\ Going
  <2>1. pc' = Woken(Goto(t, "callback"))
    BY <1>12 DEF Queues, queueBuffer
  <2>2. Private /\ UNCHANGED cpc
    BY <1>0, <1>12 DEF Queues, queueBuffer, consumerVars
  <2> QED
    BY <1>k, <1>p, <2>1, <2>2
<1>13. ASSUME NEW t \in Thread, NEW b \in Buffer, Allocates(t, b) PROVE Private /\ Going
  <2>1. \E where \in PC \ {"crash"} : pc' = Goto(t, where)
    BY <1>13, <1>p DEF Allocates, dequeueAllocated, allocateBuffersAllocated
  <2>2. Private /\ UNCHANGED cpc
    BY <1>0, <1>13 DEF Allocates, dequeueAllocated, allocateBuffersAllocated, sharedVars,
       consumerVars
  <2> QED
    BY <1>k, <2>1, <2>2
<1>14. ASSUME NEW s \in Slot, Detaches(s) \/ GivesBack(s) PROVE Private /\ Going
  BY <1>0, <1>14, <1>k DEF Detaches, GivesBack, detachBuffer, consumerDetachBuffer,
     cancelBuffer, releaseBuffer, sharedVars, consumerVars
<1>15. ASSUME NEW s \in Slot, NEW b \in Buffer, consumerAttachBuffer(s, b)
       PROVE  Private /\ Going
  BY <1>0, <1>15, <1>k DEF consumerAttachBuffer, sharedVars, consumerVars
<1>16. ~acquireSharedBuffer /\ \A s \in Slot : ~queueBufferRejectsCrop(s)
  BY <1>0 DEF NothingShared, acquireSharedBuffer, sharedBufferAvailable,
         queueBufferRejectsCrop
<1> HIDE DEF Private, Going
<1>17. Private /\ Going
  BY <1>0, <1>4, <1>5, <1>6, <1>7, <1>8, <1>9, <1>10, <1>11, <1>12, <1>13, <1>14,
     <1>15, <1>16, AllSteps
<1> QED
  BY <1>17 DEF Private, Going, NothingShared


\* A thread that is alone keeps mIsAllocating set while it allocates.
LEMMA AllocationKnownStep ==
    ASSUME TypeOK, PrivateCalls, NothingShared, AllocationKnown, [Next]_vars
    PROVE  AllocationKnown'
<1> SUFFICES ASSUME "disconnect" \in Ops, NEW u \in Thread,
                    pc'[u] \in {"alloc", "allocateBuffersAlloc"}
             PROVE  mIsAllocating'
  BY DEF AllocationKnown
<1> DEFINE A(p) == p[u] \in {"alloc", "allocateBuffersAlloc"}
<1>0. /\ ~AllocMayFail /\ "anySlot" \notin Ops /\ (\A t \in Thread : t = u) /\ pc \in [Thread -> PC]
      /\ A(pc) => mIsAllocating
  BY DEF PrivateCalls, TypeOK, ThreadTypeOK, AllocationKnown
<1>1. /\ A(Woken(pc)) => A(pc)
      /\ \A where : Goto(u, where)[u] = where
      /\ ~A(Woken(Goto(u, "callback")))
  BY <1>0 DEF Woken, Goto, PC
<1>2. CASE UNCHANGED <<pc, mIsAllocating>> \/ (pc' = Woken(pc) /\ UNCHANGED mIsAllocating)
  BY <1>0, <1>1, <1>2
<1>3. ASSUME NEW where, where \notin {"alloc", "allocateBuffersAlloc"}, pc' = Goto(u, where)
      PROVE  FALSE
  BY <1>1, <1>3
<1>4. ASSUME NEW t \in Thread, Moves(t) PROVE mIsAllocating'
  <2>1. t = u
    BY <1>0
  <2>2. CASE allocateBuffers(t)
    BY <1>3, <2>1, <2>2 DEF allocateBuffers
  <2>3. CASE dequeueWaitsOrGivesUp(t)
    BY <1>3, <2>1, <2>3 DEF dequeueWaitsOrGivesUp, waitForFreeSlotThenRelock
  <2>4. CASE attachWaitsOrGivesUp(t)
    BY <1>3, <2>1, <2>4 DEF attachWaitsOrGivesUp, waitForFreeSlotThenRelock
  <2>5. CASE spuriousWakeup(t)
    <3>1. Woken(pc)[u] \notin {"alloc", "allocateBuffersAlloc"}
      BY <2>1, <2>5 DEF spuriousWakeup, Woken
    <3> QED
      BY <1>3, <2>1, <2>5, <3>1 DEF spuriousWakeup
  <2>6. CASE \/ dequeueBuffer(t) \/ waitTimesOut(t) \/ dequeueDereferencesNull(t)
             \/ detachNextBufferBlocks(t) \/ attachBufferBlocks(t) \/ queueBufferCallback(t)
    BY <1>3, <2>1, <2>6 DEF dequeueBuffer, waitTimesOut, dequeueDereferencesNull,
       detachNextBufferBlocks, attachBufferBlocks, queueBufferCallback
  <2> QED
    BY <1>4, <2>2, <2>3, <2>4, <2>5, <2>6 DEF Moves
<1>5. ASSUME Sets PROVE mIsAllocating'
  <2>1. UNCHANGED <<pc, mIsAllocating>>
    BY <1>5 DEF Sets, requestBuffer, allowAllocation, setAutoRefresh, setSharedBufferMode,
       consumerConnect, acquireBufferTimed, presentLater, acquireSharedBufferBlocks,
       acquireSharedOutOfRange, vars
  <2> QED
    BY <1>2, <2>1
<1>6. ASSUME Limits PROVE mIsAllocating'
  BY <1>2, <1>6, LimitsStep
<1>7. ASSUME Acquires \/ acquireSharedBuffer PROVE mIsAllocating'
  BY <1>2, <1>7 DEF Acquires, acquireBuffer, acquireAfterDropping, AcquireFront,
     acquireSharedBuffer
<1>8. ASSUME dropFront \/ discardFreeBuffers PROVE mIsAllocating'
  BY <1>2, <1>8 DEF dropFront, discardFreeBuffers
<1>9. ASSUME disconnect \/ consumerDisconnect PROVE mIsAllocating'
  BY <1>2, <1>9 DEF disconnect, consumerDisconnect
<1>10. ASSUME NEW t \in Thread, GivesUpFree(t) PROVE mIsAllocating'
  <2>1. t = u
    BY <1>0
  <2> QED
    BY <1>3, <1>10, <2>1 DEF GivesUpFree, detachNextBuffer, dequeueRejectsBuffer
<1>11. ASSUME NEW t \in Thread, NEW s \in Slot, Takes(t, s) PROVE mIsAllocating'
  <2>1. t = u
    BY <1>0
  <2>2. ASSUME NEW b, attachBuffer(t, s, b) PROVE mIsAllocating'
    BY <1>3, <2>1, <2>2 DEF attachBuffer
  <2>3. ASSUME NEW reallocate \in BOOLEAN, dequeueTakesSlot(t, s, reallocate)
        PROVE  mIsAllocating'
    <3>1. CASE reallocate
      BY <2>3, <3>1 DEF dequeueTakesSlot
    <3>2. CASE ~reallocate
      BY <1>3, <2>1, <2>3, <3>2 DEF dequeueTakesSlot
    <3> QED
      BY <3>1, <3>2
  <2> QED
    BY <1>11, <2>2, <2>3 DEF Takes
<1>12. ASSUME NEW t \in Thread, NEW s \in Slot, Queues(t, s) PROVE mIsAllocating'
  <2>1. t = u
    BY <1>0
  <2> QED
    BY <1>1, <1>12, <2>1 DEF Queues, queueBuffer
<1>13. ASSUME NEW t \in Thread, NEW b \in Buffer, Allocates(t, b) PROVE mIsAllocating'
  <2>1. t = u
    BY <1>0
  <2> QED
    BY <1>3, <1>13, <2>1 DEF Allocates, dequeueAllocated, allocateBuffersAllocated
<1>14. ASSUME NEW s \in Slot, Detaches(s) \/ GivesBack(s) PROVE mIsAllocating'
  BY <1>2, <1>14 DEF Detaches, GivesBack, detachBuffer, consumerDetachBuffer,
     cancelBuffer, releaseBuffer
<1>15. ASSUME NEW s \in Slot, NEW b \in Buffer, consumerAttachBuffer(s, b)
       PROVE  mIsAllocating'
  BY <1>2, <1>15 DEF consumerAttachBuffer
<1>16. ASSUME NEW s \in Slot, queueBufferRejectsCrop(s) PROVE mIsAllocating'
  BY <1>2, <1>16 DEF queueBufferRejectsCrop
<1> HIDE DEF A
<1> QED
  BY <1>0, <1>4, <1>5, <1>6, <1>7, <1>8, <1>9, <1>10, <1>11, <1>12, <1>13, <1>14,
     <1>15, <1>16, AllSteps

\* Only its disconnection makes the consumer leave, and it does not come back.
LEMMA AbandonedStep ==
    ASSUME TypeOK, ~AllocMayFail, "anySlot" \notin Ops, [Next]_vars, ~Leaves
    PROVE  UNCHANGED mIsAbandoned
<1>1. CASE \E t \in Thread : Moves(t) \/ GivesUpFree(t)
  BY <1>1 DEF Moves, dequeueBuffer, dequeueWaitsOrGivesUp, dequeueDereferencesNull,
       waitTimesOut, spuriousWakeup, allocateBuffers, detachNextBufferBlocks,
       attachBufferBlocks, attachWaitsOrGivesUp, queueBufferCallback, connectionVars,
       waitForFreeSlotThenRelock, GivesUpFree, detachNextBuffer, dequeueRejectsBuffer
<1>2. CASE Sets
  BY <1>2 DEF Sets, requestBuffer, allowAllocation, setAutoRefresh, setSharedBufferMode,
       consumerConnect, acquireBufferTimed, presentLater, acquireSharedBufferBlocks,
       acquireSharedOutOfRange, vars, connectionVars
<1>3. CASE Limits
  BY <1>3, LimitsStep
<1>4. CASE \/ Acquires \/ acquireSharedBuffer \/ dropFront \/ discardFreeBuffers \/ disconnect
  BY <1>4 DEF Acquires, acquireBuffer, acquireAfterDropping, AcquireFront,
     acquireSharedBuffer, dropFront, discardFreeBuffers, disconnect, connectionVars
<1>5. ASSUME NEW t \in Thread, NEW s \in Slot, Takes(t, s) \/ Queues(t, s)
      PROVE  UNCHANGED mIsAbandoned
  BY <1>5 DEF Takes, Queues, dequeueTakesSlot, attachBuffer, queueBuffer, connectionVars
<1>6. ASSUME NEW t \in Thread, NEW b \in Buffer, Allocates(t, b) PROVE UNCHANGED mIsAbandoned
  BY <1>6 DEF Allocates, dequeueAllocated, allocateBuffersAllocated, connectionVars
<1>7. ASSUME NEW s \in Slot, Detaches(s) \/ GivesBack(s) \/ queueBufferRejectsCrop(s)
      PROVE  UNCHANGED mIsAbandoned
  BY <1>7 DEF Detaches, GivesBack, detachBuffer, consumerDetachBuffer,
     cancelBuffer, releaseBuffer, queueBufferRejectsCrop, connectionVars
<1>8. ASSUME NEW s \in Slot, NEW b \in Buffer, consumerAttachBuffer(s, b)
      PROVE  UNCHANGED mIsAbandoned
  BY <1>8 DEF consumerAttachBuffer, connectionVars
<1> QED
  BY <1>1, <1>2, <1>3, <1>4, <1>5, <1>6, <1>7, <1>8, AllSteps DEF Leaves

\* A queue that the consumer has left stays empty.
LEMMA LeftEmptyStep ==
    ASSUME TypeOK, PrivateCalls, SlotInv, mIsAbandoned, [Next]_vars, ~Leaves
    PROVE  LeftEmpty'
<1>0. /\ ~AllocMayFail /\ "anySlot" \notin Ops /\ NothingShared /\ "consumerDisconnect" \in Ops /\ mQueue = <<>>
      /\ "consumerAttachBuffer" \notin Ops
      /\ (\A s \in Slot : mSlots[s].mBufferState = FREE) /\ SlotTypeOK
      /\ mSlots \in [Slot -> BufferSlot]
  BY DEF PrivateCalls, SlotInv, LeftEmpty, TypeOK, SlotTypeOK
<1> DEFINE Free == \A s \in Slot : mSlots'[s].mBufferState = FREE
<1>g. ASSUME Free, UNCHANGED mQueue PROVE LeftEmpty'
  BY <1>0, <1>g DEF LeftEmpty
<1>c. ASSUME NEW S \in SUBSET Slot, clearBufferSlotLocked(S) PROVE Free
  BY <1>0, <1>c, ClearStep DEF Same
<1>1. ASSUME NEW t \in Thread, Moves(t) PROVE LeftEmpty'
  BY <1>0, <1>1, <1>g, MovingSteps DEF Quiet, Same
<1>2. ASSUME Sets PROVE LeftEmpty'
  BY <1>0, <1>2, <1>g, SettingSteps DEF Quiet, Same
<1>3. ASSUME Limits PROVE LeftEmpty'
  <2>1. PICK delta \in Int : adjustAvailableSlotsLocked(delta) /\ UNCHANGED mQueue
    BY <1>3, LimitsStep
  <2>2. SlotTypeOK'
    BY <1>0, <2>1, AdjustType
  <2>3. CASE MoreSlots(delta)
    BY <1>0, <1>g, <2>1, <2>3 DEF MoreSlots
  <2>4. CASE FewerSlots(-delta)
    <3>1. PICK S : clearBufferSlotLocked(S)
      BY <2>4 DEF FewerSlots
    <3>2. Free
      BY <1>0, <3>1, ClearedFields DEF clearBufferSlotLocked, Cleared
    <3> QED
      BY <1>g, <2>1, <3>2
  <2> QED
    BY <2>1, <2>3, <2>4 DEF adjustAvailableSlotsLocked
<1>4. ~Acquires /\ ~dropFront /\ ~acquireSharedBuffer /\ ~disconnect
  BY <1>0 DEF Acquires, acquireBuffer, acquireAfterDropping, dropFront, TypeOK,
     ConsumerTypeOK, acquireSharedBuffer, NothingShared, sharedBufferAvailable,
     disconnect, Usable
<1>5. ASSUME discardFreeBuffers PROVE LeftEmpty'
  <2>1. ToSet(mFreeBuffers) \in SUBSET Slot
    BY <1>0, FreeBufferSetType
  <2> QED
    BY <1>5, <1>c, <1>g, <2>1 DEF discardFreeBuffers, discardFreeBuffersLocked, queueVars
<1>6. ASSUME NEW t \in Thread, GivesUpFree(t) PROVE LeftEmpty'
  <2>1. detachNextBuffer(t)
    BY <1>6 DEF GivesUpFree, dequeueRejectsBuffer, Finds
  <2>2. CASE mFreeBuffers = <<>>
    BY <1>0, <1>g, <2>1, <2>2 DEF detachNextBuffer, slotVars, queueVars
  <2>3. CASE mFreeBuffers # <<>>
    <3>1. clearBufferSlotLocked({Head(mFreeBuffers)}) /\ UNCHANGED mQueue
      BY <2>1, <2>3 DEF detachNextBuffer, queueVars
    <3>2. {Head(mFreeBuffers)} \in SUBSET Slot
      BY <1>0, <2>3 DEF SlotTypeOK
    <3> QED
      BY <1>c, <1>g, <3>1, <3>2
  <2> QED
    BY <2>2, <2>3
<1>7. ASSUME NEW t \in Thread, NEW s \in Slot PROVE ~Takes(t, s) /\ ~Queues(t, s)
  BY DEF Takes, Queues, dequeueTakesSlot, attachBuffer, queueBuffer, Finds, Usable
<1>8. ASSUME NEW t \in Thread, NEW b \in Buffer, Allocates(t, b) PROVE LeftEmpty'
  <2>1. CASE dequeueAllocated(t, b)
    <3>1. {outSlot[t]} \in SUBSET Slot
      BY <2>1 DEF dequeueAllocated, TypeOK, ThreadTypeOK
    <3> QED
      BY <1>c, <1>g, <2>1, <3>1 DEF dequeueAllocated, queueVars
  <2>2. ASSUME NEW retry \in BOOLEAN, allocateBuffersAllocated(t, b, retry)
        PROVE  LeftEmpty'
    <3>1. UNCHANGED mQueue
      BY <2>2 DEF allocateBuffersAllocated, queueVars
    <3>2. CASE UNCHANGED mSlots
      BY <1>0, <1>g, <3>1, <3>2
    <3>3. ASSUME NEW s \in LowestOf(mFreeSlots),
                 mSlots' = [Cleared(mSlots, {s}) EXCEPT ![s].mGraphicBuffer = b]
          PROVE  LeftEmpty'
      <4> DEFINE c == Cleared(mSlots, {s})
      <4>1. s \in Slot
        BY <1>0 DEF LowestOf, SlotTypeOK
      <4>2. c \in [Slot -> BufferSlot] /\ \A r \in Slot : c[r].mBufferState = FREE
        BY <1>0, <4>1, ClearedType, ClearedFields DEF Cleared
      <4>3. mSlots' = [c EXCEPT ![s].mGraphicBuffer = b]
        BY <3>3
      <4> HIDE DEF c
      <4>4. Free
        BY <4>1, <4>2, <4>3 DEF BufferSlot
      <4> QED
        BY <1>g, <3>1, <4>4
    <3> QED
      BY <2>2, <3>2, <3>3 DEF allocateBuffersAllocated
  <2> QED
    BY <1>8, <2>1, <2>2 DEF Allocates
<1>9. ASSUME NEW s \in Slot PROVE ~Detaches(s) /\ ~GivesBack(s) /\ ~queueBufferRejectsCrop(s)
  BY <1>0, StatePredicates DEF Detaches, GivesBack, detachBuffer, consumerDetachBuffer,
     cancelBuffer, releaseBuffer, queueBufferRejectsCrop, Usable
<1> HIDE DEF Free
<1> QED
  BY <1>0, <1>1, <1>2, <1>3, <1>4, <1>5, <1>6, <1>7, <1>8, <1>9, AllSteps DEF Leaves

\* The consumer leaves: whatever is in a slot is given up.
LEMMA LeavingStep ==
    ASSUME TypeOK, SlotInv, Leaves
    PROVE  mIsAbandoned' /\ LeftEmpty'
<1>1. /\ freeAllBuffersLocked /\ mIsAbandoned' /\ mQueue' = <<>> /\ SlotTypeOK
      /\ "consumerDisconnect" \in Ops
  BY DEF Leaves, consumerDisconnect, TypeOK
<1> DEFINE all == mFreeSlots \cup ToSet(mFreeBuffers) \cup mActiveBuffers
<1>2. /\ \A r \in all : mSlots'[r].mBufferState = FREE
      /\ \A r \in Slot \ all : mSlots'[r].mBufferState = mSlots[r].mBufferState
  BY <1>1, FreeAllStep DEF Same
<1>3. \A r \in Slot \ all : mSlots[r].mBufferState = FREE
  BY DEF SlotInv, LeftEmpty, Lists, Contents
<1> QED
  BY <1>1, <1>2, <1>3 DEF LeftEmpty

\* The constructor establishes SlotInv.
LEMMA SlotInvInit == Init => SlotInv
<1> SUFFICES ASSUME Init PROVE SlotInv
  OBVIOUS
<1>0. {0, 1} \subseteq Slot /\ TypeOK /\ ToSet(mFreeBuffers) = {} /\ Distinct(mFreeBuffers)
  BY CoreAssumption, InitType, EmptyList DEF Slot, Init
<1>1. NothingShared /\ AllocationKnown /\ LeftEmpty
  BY DEF Init, NothingShared, AllocationKnown, LeftEmpty
<1>2. \A s \in Slot : mSlots[s].mBufferState = FREE /\ mSlots[s].mGraphicBuffer = NullBuffer
  BY ClearedFields DEF Init
<1>3. FourStates /\ QueuedOnce
  BY <1>2, StatesDiffer DEF FourStates, QueuedOnce, Init
<1>4. Lists /\ Contents
  BY <1>0, <1>2 DEF Lists, Contents, Init
<1>5. Allocations
  BY DEF Allocations, Init
<1> QED
  BY <1>1, <1>3, <1>4, <1>5 DEF SlotInv

\* Every step preserves SlotInv.
LEMMA SlotInvStep ==
    ASSUME TypeOK, PrivateCalls, SlotInv, [Next]_vars
    PROVE  SlotInv'
<1>0. /\ ~AllocMayFail /\ "anySlot" \notin Ops /\ SlotTypeOK /\ QueueTypeOK /\ NothingShared /\ AllocationKnown
  BY DEF PrivateCalls, TypeOK, SlotInv
<1>1. NothingShared' /\ AllocationKnown'
  BY <1>0, NothingSharedStep, AllocationKnownStep
<1>2. CASE ~mIsAbandoned /\ ~Leaves
  <2>1. Before /\ SlotsOK
    BY <1>2 DEF Before, SlotInv, SlotsOK
  <2>2. SlotStep
    BY <1>0, <1>2, <2>1, StepsAreSlotSteps
  <2>3. FourStates' /\ QueuedOnce' /\ Lists' /\ Contents' /\ Allocations'
    BY <1>0, <2>1, <2>2, FourStatesStep, QueuedOnceStep, ListsStep, ContentsStep,
       AllocationsStep DEF SlotsOK
  <2>4. LeftEmpty'
    BY <1>0, <1>2, AbandonedStep DEF LeftEmpty
  <2> QED
    BY <1>1, <2>3, <2>4 DEF SlotInv
<1>3. CASE mIsAbandoned \/ Leaves
  <2>1. mIsAbandoned' /\ LeftEmpty'
    <3>1. CASE Leaves
      BY <3>1, LeavingStep
    <3>2. CASE mIsAbandoned /\ ~Leaves
      BY <1>0, <3>2, LeftEmptyStep, AbandonedStep
    <3> QED
      BY <1>3, <3>1, <3>2
  <2>2. mQueue' = <<>> /\ \A s \in Slot : mSlots'[s].mBufferState = FREE
    BY <2>1 DEF LeftEmpty
  <2>3. FourStates' /\ QueuedOnce'
    BY <2>2, StatesDiffer DEF FourStates, QueuedOnce
  <2> QED
    BY <1>1, <2>1, <2>3 DEF SlotInv
<1> QED
  BY <1>2, <1>3

\* SlotInv holds at every step of every behaviour of clients that keep to
\* PrivateCalls.
THEOREM SlotInvHolds == PrivateCalls => (Spec => []SlotInv)
<1> SUFFICES ASSUME PrivateCalls PROVE Spec => []SlotInv
  OBVIOUS
<1>1. TypeOK /\ SlotInv /\ [Next]_vars => SlotInv'
  BY SlotInvStep
<1> QED
  BY <1>1, SlotInvInit, TypeCorrect, PTL DEF Spec


-----------------------------------------------------------------------------
(* What SlotInv says                                                       *)

\* SlotInv is enough for what validateConsistencyLocked asserts of the slots.
LEMMA SlotInvConsistent ==
    ASSUME TypeOK, SlotInv
    PROVE  SlotsConsistent
<1>0. NothingShared /\ FourStates
  BY DEF SlotInv
<1>1. ASSUME ~mIsAbandoned PROVE Lists /\ Contents /\ Allocations
  BY <1>1 DEF SlotInv
<1>2. SlotPartition
  BY <1>1 DEF SlotPartition, Lists, Distinct, FreeBufferSet
<1>3. ListsMatchStates
  <2> SUFFICES ASSUME ~mIsAbandoned
               PROVE  /\ \A s \in mUnusedSlots \cup mFreeSlots : isFree(mSlots[s].mBufferState)
                      /\ \A s \in FreeBufferSet : /\ isFree(mSlots[s].mBufferState)
                                                  /\ mSlots[s].mGraphicBuffer # NullBuffer
                      /\ \A s \in mActiveBuffers :
                            /\ ~isFree(mSlots[s].mBufferState)
                            /\ \/ mSlots[s].mGraphicBuffer # NullBuffer
                               \/ \E t \in Thread : pc[t] = "alloc" /\ outSlot[t] = s
    BY DEF ListsMatchStates
  <2>1. Lists /\ Contents /\ Allocations
    BY <1>1
  <2>2. mActiveBuffers \subseteq Slot
    BY <2>1 DEF Lists
  <2>3. ASSUME NEW s \in mActiveBuffers
        PROVE  /\ ~isFree(mSlots[s].mBufferState)
               /\ \/ mSlots[s].mGraphicBuffer # NullBuffer
                  \/ \E t \in Thread : pc[t] = "alloc" /\ outSlot[t] = s
    <3>1. mSlots[s].mBufferState \in {DEQUEUED, QUEUED, ACQUIRED}
      BY <1>0, <2>1, <2>2 DEF FourStates, Contents
    <3> QED
      BY <2>1, <3>1, StatePredicates DEF Allocations
  <2>4. \A s \in mUnusedSlots \cup mFreeSlots : isFree(mSlots[s].mBufferState)
    BY <2>1, StatePredicates DEF Contents
  <2>5. \A s \in FreeBufferSet : /\ isFree(mSlots[s].mBufferState)
                                 /\ mSlots[s].mGraphicBuffer # NullBuffer
    BY <2>1, StatePredicates DEF Contents, FreeBufferSet
  <2> QED
    BY <2>3, <2>4, <2>5
<1>4. FreeSlotsAreEmpty
  BY <1>1 DEF FreeSlotsAreEmpty, Contents
<1>5. OneOwner
  BY <1>0 DEF FourStates, OneOwner, FREE, DEQUEUED, QUEUED, ACQUIRED
<1> QED
  BY <1>2, <1>3, <1>4, <1>5 DEF SlotsConsistent

\* SlotInv is enough for queue and slots to tell the same story.
LEMMA SlotInvQueueConsistent ==
    ASSUME TypeOK, SlotInv
    PROVE  QueueConsistent
<1>0. FourStates /\ QueuedOnce
  BY DEF SlotInv
<1>1. QueuedBufferInSlot
  BY <1>0 DEF QueuedBufferInSlot, QueuedOnce
<1>2. ASSUME NEW s \in Slot
      PROVE  LET items == {i \in DOMAIN mQueue : mQueue[i].mSlot = s /\ ~mQueue[i].mIsStale}
             IN /\ mSlots[s].mBufferState.mQueueCount = Cardinality(items)
                /\ \A i \in items : mQueue[i].mFrameNumber = mSlots[s].mFrameNumber
  <2> DEFINE items == {i \in DOMAIN mQueue : mQueue[i].mSlot = s /\ ~mQueue[i].mIsStale}
  <2>1. \A i \in items : mQueue[i].mFrameNumber = mSlots[s].mFrameNumber
    BY <1>0 DEF QueuedOnce
  <2>2. CASE mSlots[s].mBufferState = QUEUED
    <3>1. PICK i \in items : TRUE
      BY <1>0, <2>2 DEF QueuedOnce
    <3>2. \A j \in items : j = i
      BY <1>0, <3>1 DEF QueuedOnce
    <3>3. items = {i}
      BY <3>1, <3>2
    <3>4. Cardinality(items) = 1
      BY <3>3, FS_Singleton
    <3>5. mSlots[s].mBufferState.mQueueCount = 1
      BY <2>2 DEF QUEUED
    <3> QED
      BY <2>1, <3>4, <3>5
  <2>3. CASE mSlots[s].mBufferState # QUEUED
    <3>1. items = {}
      BY <1>0, <2>3 DEF QueuedOnce
    <3>2. Cardinality(items) = 0
      BY <3>1, FS_EmptySet
    <3>3. mSlots[s].mBufferState.mQueueCount = 0
      BY <1>0, <2>3 DEF FourStates, FREE, DEQUEUED, ACQUIRED
    <3> QED
      BY <2>1, <3>2, <3>3
  <2> QED
    BY <2>2, <2>3
<1>3. QueueMatchesSlots
  BY <1>2 DEF QueueMatchesSlots
<1> QED
  BY <1>1, <1>3 DEF QueueConsistent

\* Whatever order the calls of producer and consumer come in, lists, states and
\* contents of the slots agree whenever mMutex is free: what
\* BufferQueueCore::validateConsistencyLocked asserts never fails for clients
\* that share nothing.
THEOREM SlotsStayConsistent == PrivateCalls => (Spec => []SlotsConsistent)
<1> SUFFICES ASSUME PrivateCalls PROVE Spec => []SlotsConsistent
  OBVIOUS
<1>1. TypeOK /\ SlotInv => SlotsConsistent
  BY SlotInvConsistent
<1> QED
  BY <1>1, SlotInvHolds, TypeCorrect, PTL

\* The items of mQueue that are not stale and the slots in state QUEUED are the
\* same frames, with the same buffers and frame numbers.
THEOREM QueueStaysConsistent == PrivateCalls => (Spec => []QueueConsistent)
<1> SUFFICES ASSUME PrivateCalls PROVE Spec => []QueueConsistent
  OBVIOUS
<1>1. TypeOK /\ SlotInv => QueueConsistent
  BY SlotInvQueueConsistent
<1> QED
  BY <1>1, SlotInvHolds, TypeCorrect, PTL

\* A slot that is acquired before and after a step is the same in both.
LEMMA AcquiredStep ==
    ASSUME TypeOK, SlotsOK, SlotStep, NEW r \in Slot,
           mSlots[r].mBufferState = ACQUIRED, mSlots'[r].mBufferState = ACQUIRED
    PROVE  Same(r)
<1>0. ACQUIRED \notin {FREE, DEQUEUED, QUEUED} /\ SlotTypeOK /\ QueueTypeOK
  BY StatesDiffer DEF TypeOK
<1>a. mQueue # <<>> => 1 \in DOMAIN mQueue /\ Head(mQueue) = mQueue[1]
  BY <1>0, QueueElements
<1>1. CASE Quiet \/ FrontStale \/ \E S \in SUBSET Slot : SlotsAdded(S)
  BY <1>1 DEF Quiet, FrontStale, SlotsAdded
<1>2. CASE HeadEmptied \/ Discarded \/ AllFreed
  BY <1>0, <1>2 DEF HeadEmptied, Emptied, Others, Discarded, AllFreed
<1>3. CASE FrontAcquired
  <2>1. mSlots[Head(mQueue).mSlot].mBufferState = QUEUED
    BY <1>a, <1>3 DEF FrontAcquired, FrontGone, SlotsOK, QueuedOnce
  <2> QED
    BY <1>0, <1>3, <2>1 DEF FrontAcquired, Others
<1>4. CASE FrontDropped
  BY <1>0, <1>4 DEF FrontDropped, Freed, Others
<1>5. ASSUME NEW t \in Thread, Filled(t) PROVE Same(r)
  <2>1. mSlots[outSlot[t]].mBufferState = DEQUEUED
    BY <1>5 DEF Filled, SlotsOK, Allocations, Contents
  <2> QED
    BY <1>0, <1>5, <2>1 DEF Filled, Others
<1>6. ASSUME NEW s \in Slot, Taken(s) PROVE Same(r)
  <2>1. mSlots[s].mBufferState = FREE
    BY <1>0, <1>6, WhereSlotsAre DEF Taken, FromFreeLists, SlotsOK, Contents
  <2> QED
    BY <1>0, <1>6, <2>1 DEF Taken, Others
<1>7. ASSUME NEW s \in Slot, Preallocated(s) \/ Detached(s) \/ Returned(s) PROVE Same(r)
  BY <1>0, <1>7 DEF Preallocated, Detached, Emptied, Returned, Freed, Others
<1>8. ASSUME NEW s \in Slot, NEW item \in BufferItem, Appended(s, item) PROVE Same(r)
  BY <1>0, <1>8 DEF Appended, Queued, Others
<1>9. ASSUME NEW s \in Slot, NEW item \in BufferItem, Replaced(s, item) PROVE Same(r)
  BY <1>0, <1>9 DEF Replaced, Queued, Freed
<1>10. ASSUME NEW S \in SUBSET Slot, NEW k \in Nat, SlotsRemoved(S, k) PROVE Same(r)
  BY <1>0, <1>10 DEF SlotsRemoved
<1> QED
  BY <1>1, <1>2, <1>3, <1>4, <1>5, <1>6, <1>7, <1>8, <1>9, <1>10 DEF SlotStep

\* What the consumer has acquired stays as it is until the consumer gives it up.
THEOREM AcquiredStaysOwned == PrivateCalls => (Spec => ConsumerOwnsAcquired)
<1> SUFFICES ASSUME PrivateCalls PROVE Spec => ConsumerOwnsAcquired
  OBVIOUS
<1> DEFINE Kept(s) ==
        /\ isAcquired(mSlots[s].mBufferState) /\ ~mSlots[s].mBufferState.mShared
        /\ isAcquired(mSlots[s].mBufferState)'
        => /\ mSlots'[s].mGraphicBuffer = mSlots[s].mGraphicBuffer
           /\ mSlots'[s].mFrameNumber = mSlots[s].mFrameNumber
           /\ ~isDequeued(mSlots'[s].mBufferState)
<1>1. ASSUME TypeOK, SlotInv, TypeOK', SlotInv', [Next]_vars PROVE \A s \in Slot : Kept(s)
  <2> SUFFICES ASSUME NEW s \in Slot, isAcquired(mSlots[s].mBufferState),
                      isAcquired(mSlots'[s].mBufferState)
               PROVE  /\ mSlots'[s].mGraphicBuffer = mSlots[s].mGraphicBuffer
                      /\ mSlots'[s].mFrameNumber = mSlots[s].mFrameNumber
                      /\ ~isDequeued(mSlots'[s].mBufferState)
    BY DEF isAcquired
  <2>1. mSlots[s].mBufferState = ACQUIRED /\ mSlots'[s].mBufferState = ACQUIRED
    <3>1. /\ mSlots[s].mBufferState \in {FREE, DEQUEUED, QUEUED, ACQUIRED}
          /\ mSlots'[s].mBufferState \in {FREE, DEQUEUED, QUEUED, ACQUIRED}
      BY <1>1 DEF SlotInv, FourStates
    <3> QED
      BY <3>1, StatePredicates
  <2>2. ~mIsAbandoned /\ ~mIsAbandoned'
    BY <1>1, <2>1, StatesDiffer DEF SlotInv, LeftEmpty
  <2>3. ~Leaves
    BY <1>1, <2>2 DEF Leaves, consumerDisconnect
  <2>4. Before /\ SlotsOK /\ AllocationKnown
    BY <1>1, <2>2 DEF Before, SlotInv, SlotsOK
  <2>5. SlotStep
    BY <1>1, <2>2, <2>3, <2>4, StepsAreSlotSteps
  <2>6. Same(s)
    BY <1>1, <2>1, <2>4, <2>5, AcquiredStep
  <2> QED
    BY <2>1, <2>6, StatePredicates DEF Same
<1>2. TypeOK /\ SlotInv /\ TypeOK' /\ SlotInv' /\ [Next]_vars => [\A s \in Slot : Kept(s)]_vars
  BY <1>1
<1>3. Spec => [][\A s \in Slot : Kept(s)]_vars
  BY <1>2, SlotInvHolds, TypeCorrect, PTL DEF Spec
<1> QED
  BY <1>3 DEF ConsumerOwnsAcquired
=============================================================================
