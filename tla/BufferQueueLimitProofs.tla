----------------------- MODULE BufferQueueLimitProofs -----------------------
(***************************************************************************)
(* Proofs about BufferQueue: the limits on what producer and consumer      *)
(* hold, the number of slots in play, and the wake-ups of the threads that *)
(* wait for a slot.                                                        *)
(***************************************************************************)
EXTENDS BufferQueueSlotProofs

-----------------------------------------------------------------------------
(* How much the consumer holds                                             *)

\* The slots that the consumer holds.
Acquired == {s \in Slot : mSlots[s].mBufferState = ACQUIRED}

\* The set that acquiredCount counts.
LEMMA AcquiredIs ==
    ASSUME TypeOK, SlotInv
    PROVE  /\ acquiredCount = Cardinality(Acquired) /\ IsFiniteSet(Acquired)
           /\ mIsAbandoned => Acquired = {}
<1> DEFINE held == {s \in mActiveBuffers : isAcquired(mSlots[s].mBufferState)}
<1>1. mActiveBuffers \subseteq Slot /\ SlotTypeOK /\ QueueTypeOK /\ FourStates
  BY DEF TypeOK, SlotTypeOK, SlotInv
<1>2. \A s \in Slot : isAcquired(mSlots[s].mBufferState) <=> mSlots[s].mBufferState = ACQUIRED
  BY <1>1, StatePredicates DEF FourStates
<1>3. mIsAbandoned => Acquired = {} /\ held = {}
  BY <1>1, <1>2, StatesDiffer DEF SlotInv, LeftEmpty, Acquired
<1>4. ASSUME ~mIsAbandoned PROVE held = Acquired
  <2>1. SlotsOK
    BY <1>4 DEF SlotInv, SlotsOK
  <2>2. \A s \in Slot : mSlots[s].mBufferState = ACQUIRED => s \in mActiveBuffers
    BY <1>1, <2>1, WhereSlotsAre
  <2> QED
    BY <1>1, <1>2, <2>2 DEF Acquired
<1>5. held = Acquired
  BY <1>3, <1>4
<1>6. IsFiniteSet(Slot)
  BY CoreAssumption, FS_Interval DEF Slot
<1>7. IsFiniteSet(Acquired)
  BY <1>6, FS_Subset DEF Acquired
<1>8. acquiredCount = Cardinality(held)
  BY DEF acquiredCount
<1> QED
  BY <1>3, <1>5, <1>7, <1>8

\* The consumer holds a slot more only when it acquires or attaches one.
LEMMA AcquiredGrows ==
    ASSUME TypeOK, PrivateCalls, SlotInv, ~mIsAbandoned, ~Leaves, [Next]_vars
    PROVE  \/ Acquired' \subseteq Acquired
           \/ \E s \in Slot :
                 /\ Acquired' \subseteq Acquired \cup {s}
                 /\ Acquires \/ \E b \in Buffer : consumerAttachBuffer(s, b)
<1> DEFINE Got(r) == mSlots'[r].mBufferState = ACQUIRED
           Had(r) == mSlots[r].mBufferState = ACQUIRED
           Kept == Acquired' \subseteq Acquired
<1>0. /\ Before /\ AllocationKnown /\ ~AllocMayFail /\ "anySlot" \notin Ops
      /\ ACQUIRED \notin {FREE, DEQUEUED, QUEUED}
  BY StatesDiffer DEF Before, SlotInv, SlotsOK, PrivateCalls
<1>g. ASSUME \A r \in Slot : Got(r) => Had(r) PROVE Kept
  BY <1>g DEF Acquired
<1>h. ASSUME NEW s \in Slot, \A r \in Slot \ {s} : Got(r) => Had(r)
      PROVE  Acquired' \subseteq Acquired \cup {s}
  BY <1>h DEF Acquired
<1>1. ASSUME \/ Quiet \/ FrontStale \/ HeadEmptied \/ Discarded \/ AllFreed \/ FrontDropped
             \/ \E t \in Thread : Filled(t)
             \/ \E s \in Slot : Preallocated(s) \/ Detached(s) \/ Returned(s)
      PROVE  Kept
  <2>1. CASE Quiet \/ FrontStale
    BY <1>g, <2>1 DEF Quiet, FrontStale, Same
  <2>2. CASE HeadEmptied \/ Discarded \/ AllFreed
    BY <1>0, <1>g, <2>2 DEF HeadEmptied, Emptied, Others, Discarded, AllFreed, Same
  <2>3. CASE FrontDropped
    BY <1>0, <1>g, <2>3 DEF FrontDropped, Freed, Others, Same
  <2>4. ASSUME NEW t \in Thread, Filled(t) PROVE Kept
    BY <1>g, <2>4 DEF Filled, Others, Same
  <2>5. ASSUME NEW s \in Slot, Preallocated(s) \/ Detached(s) \/ Returned(s)
        PROVE  Kept
    BY <1>0, <1>g, <2>5 DEF Preallocated, Detached, Emptied, Returned, Freed, Others, Same
  <2> QED
    BY <1>1, <2>1, <2>2, <2>3, <2>4, <2>5
<1>2. ASSUME Limits PROVE Kept
  <2>1. \/ \E S \in SUBSET Slot : SlotsAdded(S)
        \/ \E S \in SUBSET Slot, k \in Nat : SlotsRemoved(S, k)
    BY <1>0, <1>2, LimitsStep, AdjustStep
  <2> QED
    BY <1>0, <1>g, <2>1 DEF SlotsAdded, SlotsRemoved, Same
<1>3. ASSUME Acquires
      PROVE  \/ Kept
             \/ \E s \in Slot : Acquired' \subseteq Acquired \cup {s}
  <2>1. mQueue # <<>> /\ AcquireFront /\ QueueTypeOK
    BY <1>3
       DEF Acquires, acquireBuffer, acquireAfterDropping, TypeOK, ConsumerTypeOK
  <2>2. FrontStale \/ FrontAcquired
    BY <1>0, <2>1, AcquireStep
  <2>3. Head(mQueue).mSlot \in Slot
    BY <2>1, QueueElements
  <2> QED
    BY <1>1, <1>h, <2>2, <2>3 DEF FrontAcquired, Others, Same
<1>4. ASSUME NEW t \in Thread, NEW s \in Slot, Takes(t, s) PROVE Kept
  <2>1. Others(s) /\ mSlots'[s].mBufferState = DEQUEUED
    <3>1. ASSUME NEW reallocate \in BOOLEAN, dequeueTakesSlot(t, s, reallocate)
          PROVE  Others(s) /\ mSlots'[s].mBufferState = DEQUEUED
      BY <1>0, <3>1, DequeueTakes DEF Taken
    <3>2. ASSUME NEW b \in Buffer, attachBuffer(t, s, b)
          PROVE  Others(s) /\ mSlots'[s].mBufferState = DEQUEUED
      BY <1>0, <3>2, AttachTakes DEF Taken
    <3> QED
      BY <1>4, <3>1, <3>2 DEF Takes
  <2> QED
    BY <1>0, <1>g, <2>1 DEF Others, Same
<1>5. ASSUME NEW t \in Thread, NEW s \in Slot, Queues(t, s) PROVE Kept
  <2>1. PICK item \in BufferItem : Appended(s, item) \/ Replaced(s, item)
    BY <1>0, <1>5, QueueStep DEF Queues
  <2>2. \A r \in Slot : Got(r) => Had(r)
    BY <1>0, <2>1 DEF Appended, Replaced, Queued, Freed, Others, Same
  <2> QED
    BY <1>g, <2>2
<1>6. ASSUME NEW s \in Slot, NEW b \in Buffer, consumerAttachBuffer(s, b)
      PROVE  Acquired' \subseteq Acquired \cup {s}
  BY <1>0, <1>6, <1>h, AttachTakes DEF Taken, Others, Same
<1>7. ASSUME \/ Sets \/ dropFront \/ discardFreeBuffers
             \/ "disconnect" \in Ops /\ disconnect
             \/ \E t \in Thread : \/ Moves(t) \/ GivesUpFree(t)
                                  \/ \E b \in Buffer : Allocates(t, b)
             \/ \E s \in Slot : Detaches(s) \/ GivesBack(s)
      PROVE  Kept
  <2>0. TypeOK
    OBVIOUS
  <2>1. CASE Sets \/ \E t \in Thread : Moves(t)
    BY <1>1, <2>1, SettingSteps, MovingSteps
  <2>2. CASE dropFront \/ discardFreeBuffers \/ ("disconnect" \in Ops /\ disconnect)
    BY <1>0, <1>1, <2>2, DropStep, DiscardStep, DisconnectStep
  <2>3. ASSUME NEW t \in Thread, GivesUpFree(t) PROVE Kept
    BY <1>0, <1>1, <2>3, GiveUpFreeBuffer DEF GivesUpFree
  <2>4. ASSUME NEW t \in Thread, NEW b \in Buffer, Allocates(t, b)
        PROVE  Kept
    BY <1>0, <1>1, <2>4, AllocatedStep DEF Allocates
  <2>5. ASSUME NEW s \in Slot, Detaches(s) \/ GivesBack(s) PROVE Kept
    <3>1. Detached(s) \/ Returned(s)
      BY <1>0, <2>5, DetachStep, GiveBackStep DEF Detaches, GivesBack
    <3> QED
      BY <1>1, <3>1
  <2> HIDE DEF Kept
  <2> QED
    BY <1>7, <2>1, <2>2, <2>3, <2>4, <2>5
<1>8. ~acquireSharedBuffer /\ \A s \in Slot : ~queueBufferRejectsCrop(s)
  BY <1>0 DEF Before, NothingShared, acquireSharedBuffer, sharedBufferAvailable,
     queueBufferRejectsCrop
<1> HIDE DEF Got, Had, Kept
<1> QED
  BY <1>0, <1>2, <1>3, <1>4, <1>5, <1>6, <1>7, <1>8, AllSteps DEF Leaves, Kept

\* The maximum changes only to a value that the consumer keeps to, and the drop
\* loop of acquireBuffer is entered only when one more buffer may be acquired.
LEMMA LimitAndLoop ==
    ASSUME TypeOK, ~AllocMayFail, "anySlot" \notin Ops, [Next]_vars
    PROVE  /\ \/ UNCHANGED mMaxAcquiredBufferCount
              \/ acquiredCount <= mMaxAcquiredBufferCount' /\ cpc # "dropping" /\ Limits
           /\ cpc' = "dropping" => cpc = "dropping" \/ MayAcquire
<1> DEFINE Kept == UNCHANGED <<mMaxAcquiredBufferCount, cpc>>
           Result ==
              /\ \/ UNCHANGED mMaxAcquiredBufferCount
                 \/ acquiredCount <= mMaxAcquiredBufferCount' /\ cpc # "dropping" /\ Limits
              /\ cpc' = "dropping" => cpc = "dropping" \/ MayAcquire
<1> SUFFICES Result
  OBVIOUS
<1>k. Kept => Result
  OBVIOUS
<1>1. CASE \E t \in Thread : Moves(t) \/ GivesUpFree(t)
  <2>1. Kept
    BY <1>1 DEF Moves, dequeueBuffer, dequeueWaitsOrGivesUp, dequeueDereferencesNull,
       waitTimesOut, spuriousWakeup, allocateBuffers, detachNextBufferBlocks,
       attachBufferBlocks, attachWaitsOrGivesUp, queueBufferCallback, limitVars,
       consumerVars, waitForFreeSlotThenRelock, GivesUpFree, detachNextBuffer,
       dequeueRejectsBuffer
  <2> QED
    BY <1>k, <2>1
<1>2. CASE Sets
  BY <1>2 DEF Sets, requestBuffer, allowAllocation, setAutoRefresh, setSharedBufferMode,
       consumerConnect, acquireBufferTimed, presentLater, acquireSharedBufferBlocks,
       acquireSharedOutOfRange, vars, limitVars, consumerVars
<1>3. CASE Limits
  <2>1. UNCHANGED cpc
    BY <1>3, LimitsStep DEF consumerVars
  <2>2. \/ UNCHANGED mMaxAcquiredBufferCount
        \/ acquiredCount <= mMaxAcquiredBufferCount' /\ cpc # "dropping"
    BY <1>3 DEF Limits, setMaxDequeuedBufferCount, setMaxAcquiredBufferCount,
         setMaxBufferCount, setAsyncMode, setDequeueTimeout, connect
  <2> QED
    BY <1>3, <2>1, <2>2
<1>4. CASE Acquires \/ acquireSharedBuffer
  BY <1>4 DEF Acquires, acquireBuffer, acquireAfterDropping, AcquireFront,
     acquireSharedBuffer, limitVars
<1>5. CASE dropFront \/ discardFreeBuffers \/ disconnect \/ consumerDisconnect
  <2>1. Kept
    BY <1>5 DEF dropFront, discardFreeBuffers, disconnect, consumerDisconnect, limitVars,
       consumerVars
  <2> QED
    BY <1>k, <2>1
<1>6. ASSUME NEW t \in Thread, NEW s \in Slot, Takes(t, s) \/ Queues(t, s) PROVE Result
  <2>1. Kept
    BY <1>6 DEF Takes, Queues, dequeueTakesSlot, attachBuffer, queueBuffer, limitVars,
       consumerVars
  <2> QED
    BY <1>k, <2>1
<1>7. ASSUME NEW t \in Thread, NEW b \in Buffer, Allocates(t, b) PROVE Result
  <2>1. Kept
    BY <1>7 DEF Allocates, dequeueAllocated, allocateBuffersAllocated, limitVars,
       consumerVars
  <2> QED
    BY <1>k, <2>1
<1>8. ASSUME NEW s \in Slot, Detaches(s) \/ GivesBack(s) \/ queueBufferRejectsCrop(s)
      PROVE  Result
  <2>1. Kept
    BY <1>8 DEF Detaches, GivesBack, detachBuffer, consumerDetachBuffer,
     cancelBuffer, releaseBuffer, queueBufferRejectsCrop, limitVars, consumerVars
  <2> QED
    BY <1>k, <2>1
<1>9. ASSUME NEW s \in Slot, NEW b \in Buffer, consumerAttachBuffer(s, b) PROVE Result
  <2>1. Kept
    BY <1>9 DEF consumerAttachBuffer, limitVars, consumerVars
  <2> QED
    BY <1>k, <2>1
<1> HIDE DEF Result, Kept
<1> QED
  BY <1>1, <1>2, <1>3, <1>4, <1>5, <1>6, <1>7, <1>8, <1>9, AllSteps

\* The consumer holds at most one buffer over its maximum, and in the drop loop
\* of acquireBuffer, where mMutex stays locked, it holds fewer.
AcquiredBound ==
    LET held == Cardinality(Acquired) IN
    /\ held <= mMaxAcquiredBufferCount + 1
    /\ cpc = "dropping" => held < mMaxAcquiredBufferCount + 1

\* Every step preserves AcquiredBound.
LEMMA AcquiredBoundStep ==
    ASSUME TypeOK, TypeOK', PrivateCalls, SlotInv, SlotInv', AcquiredBound, [Next]_vars
    PROVE  AcquiredBound'
<1> DEFINE held == Cardinality(Acquired)
           max == mMaxAcquiredBufferCount
<1>0. /\ held \in Nat /\ held' \in Nat /\ max \in Nat /\ max' \in Nat
      /\ acquiredCount = held /\ IsFiniteSet(Acquired) /\ IsFiniteSet(Acquired')
      /\ mIsAbandoned' => Acquired' = {}
  <2>1. IsFiniteSet(Acquired) /\ acquiredCount = held
    BY AcquiredIs
  <2>2. (IsFiniteSet(Acquired) /\ (mIsAbandoned => Acquired = {}))'
    BY AcquiredIs, PTL
  <2>3. max \in Nat /\ max' \in Nat
    BY CoreAssumption DEF TypeOK, LimitTypeOK, MAX_MAX_ACQUIRED_BUFFERS
  <2> QED
    BY <2>1, <2>2, <2>3, FS_CardinalityType
<1>t. PICK h \in Nat, h2 \in Nat, m \in Nat, m2 \in Nat :
          h = held /\ h2 = held' /\ m = max /\ m2 = max'
  BY <1>0
<1>1. CASE mIsAbandoned'
  <2>1. held' = 0
    BY <1>0, <1>1, FS_EmptySet
  <2>2. 0 <= m2 + 1 /\ 0 < m2 + 1
    OBVIOUS
  <2> QED
    BY <1>t, <2>1, <2>2 DEF AcquiredBound
<1>2. CASE ~mIsAbandoned'
  <2>0. ~Leaves
    BY <1>2 DEF Leaves, consumerDisconnect
  <2>1. ~mIsAbandoned /\ ~AllocMayFail /\ "anySlot" \notin Ops
    BY <1>2, <2>0, AbandonedStep DEF PrivateCalls
  <2>l. /\ max' = max \/ (held <= max' /\ cpc # "dropping" /\ Limits)
        /\ cpc' = "dropping" => cpc = "dropping" \/ held < max + 1
    BY <1>0, <2>1, LimitAndLoop DEF MayAcquire
  <2>b. held <= max + 1 /\ (cpc = "dropping" => held < max + 1)
    BY DEF AcquiredBound
  <2>2. CASE Acquired' \subseteq Acquired
    <3>1. held' <= held
      BY <1>0, <2>2, FS_Subset
    <3>t. h2 <= h
      BY <1>t, <3>1
    <3>e. (h <= m + 1 /\ m2 = m) \/ h <= m2
      BY <1>t, <2>l, <2>b
    <3>2. h2 <= m2 + 1
      BY <3>t, <3>e
    <3>3. ASSUME cpc' = "dropping" PROVE h2 < m2 + 1
      <4>1. CASE m2 = m
        <5>1. h < m + 1
          BY <1>t, <2>l, <2>b, <3>3
        <5> QED
          BY <3>t, <4>1, <5>1
      <4>2. CASE h <= m2
        BY <3>t, <4>2
      <4> QED
        BY <3>e, <4>1, <4>2
    <3> QED
      BY <1>t, <3>2, <3>3 DEF AcquiredBound
  <2>3. ASSUME NEW s \in Slot, Acquired' \subseteq Acquired \cup {s},
               Acquires \/ \E b \in Buffer : consumerAttachBuffer(s, b)
        PROVE  AcquiredBound'
    <3>1. held' <= held + 1
      <4>1. /\ IsFiniteSet(Acquired \cup {s})
            /\ Cardinality(Acquired \cup {s}) = held \/ Cardinality(Acquired \cup {s}) = held + 1
        BY <1>0, FS_AddElement
      <4>2. held' <= Cardinality(Acquired \cup {s})
        BY <2>3, <4>1, FS_Subset
      <4> QED
        BY <1>0, <4>1, <4>2
    <3>2. held < max + 1 /\ max' = max /\ cpc' # "dropping"
      <4>1. CASE acquireBuffer
        BY <1>0, <4>1 DEF acquireBuffer, AcquireFront, MayAcquire, limitVars
      <4>2. CASE acquireAfterDropping
        BY <2>b, <4>2 DEF acquireAfterDropping, AcquireFront, limitVars
      <4>3. ASSUME NEW b \in Buffer, consumerAttachBuffer(s, b)
            PROVE  held < max + 1 /\ max' = max /\ cpc' # "dropping"
        BY <1>0, <4>3 DEF consumerAttachBuffer, MayAcquire, limitVars, consumerVars
      <4> QED
        BY <2>3, <4>1, <4>2, <4>3 DEF Acquires
    <3>3. h2 <= h + 1 /\ h < m + 1 /\ m2 = m
      BY <1>t, <3>1, <3>2
    <3>4. h2 <= m2 + 1
      BY <3>3
    <3> QED
      BY <1>t, <3>2, <3>4 DEF AcquiredBound
  <2> QED
    BY <2>0, <2>1, <2>2, <2>3, AcquiredGrows
<1> QED
  BY <1>1, <1>2

\* The consumer never holds more than one buffer over its maximum: neither the
\* drop loop of acquireBuffer nor attachBuffer nor a lower maximum gets past the
\* check that acquireBuffer makes once, before it drops anything.
THEOREM ConsumerHoldsFew == PrivateCalls => (Spec => []AcquiredWithinLimit)
<1> SUFFICES ASSUME PrivateCalls PROVE Spec => []AcquiredWithinLimit
  OBVIOUS
<1>1. Init => AcquiredBound
  <2> SUFFICES ASSUME Init PROVE AcquiredBound
    OBVIOUS
  <2>1. Acquired = {}
    BY StatesDiffer, ClearedFields DEF Init, Acquired
  <2>2. Cardinality(Acquired) = 0
    BY <2>1, FS_EmptySet
  <2> QED
    BY <2>2 DEF Init, AcquiredBound
<1>2. /\ TypeOK /\ SlotInv /\ TypeOK' /\ SlotInv' /\ AcquiredBound /\ [Next]_vars
      => AcquiredBound'
  BY AcquiredBoundStep
<1>3. TypeOK /\ SlotInv /\ AcquiredBound => AcquiredWithinLimit
  BY AcquiredIs DEF AcquiredBound, AcquiredWithinLimit
<1> QED
  BY <1>1, <1>2, <1>3, SlotInvHolds, TypeCorrect, PTL DEF Spec

-----------------------------------------------------------------------------
(* How many slots are in play                                              *)

\* When two sets have as many members.
LEMMA SameSize ==
    ASSUME NEW S, NEW T, IsFiniteSet(S), NEW f \in [S -> T],
           \A x, y \in S : f[x] = f[y] => x = y, \A z \in T : \E x \in S : f[x] = z
    PROVE  IsFiniteSet(T) /\ Cardinality(T) = Cardinality(S)
<1>1. f \in Injection(S, T)
  BY DEF Injection, IsInjective
<1>2. f \in Surjection(S, T)
  BY DEF Surjection
<1>3. ExistsBijection(S, T)
  BY <1>1, <1>2 DEF ExistsBijection, Bijection
<1> QED
  BY <1>3, FS_Bijection

\* The n lowest members of a finite set of integers are n.
LEMMA LowestCount ==
    ASSUME NEW F \in SUBSET Int, IsFiniteSet(F), NEW n \in Nat, n <= Cardinality(F)
    PROVE  Cardinality({s \in F : Cardinality({r \in F : r < s}) < n}) = n
<1> DEFINE below(s) == {r \in F : r < s}
           c == Cardinality(F)
           rank == [s \in F |-> Cardinality(below(s))]
           low == {s \in F : rank[s] < n}
<1>0. c \in Nat
  BY FS_CardinalityType
<1>1. ASSUME NEW s \in F
      PROVE  IsFiniteSet(below(s)) /\ rank[s] \in 0 .. c - 1
  <2>1. IsFiniteSet(F \ {s}) /\ Cardinality(F \ {s}) = c - 1
    BY FS_RemoveElement
  <2>2. below(s) \in SUBSET (F \ {s})
    OBVIOUS
  <2>3. IsFiniteSet(below(s)) /\ Cardinality(below(s)) <= c - 1
    BY <2>1, <2>2, FS_Subset
  <2>4. Cardinality(below(s)) \in Nat
    BY <2>3, FS_CardinalityType
  <2> HIDE DEF below, c
  <2> QED
    BY <1>0, <2>3, <2>4
<1>2. ASSUME NEW s \in F, NEW t \in F, s < t
      PROVE  rank[s] < rank[t]
  <2>1. IsFiniteSet(below(s)) /\ IsFiniteSet(below(t))
    BY <1>1
  <2>2. Cardinality(below(s) \cup {s}) = Cardinality(below(s)) + 1
    <3>1. s \notin below(s)
      OBVIOUS
    <3> QED
      BY <2>1, <3>1, FS_AddElement
  <2>3. below(s) \cup {s} \in SUBSET below(t)
    <3>1. \A r \in F : r < s => r < t
      BY <1>2
    <3> QED
      BY <1>2, <3>1
  <2>4. Cardinality(below(s) \cup {s}) <= Cardinality(below(t))
    BY <2>1, <2>3, FS_Subset
  <2>5. Cardinality(below(s)) \in Nat /\ Cardinality(below(t)) \in Nat
    BY <2>1, FS_CardinalityType
  <2> HIDE DEF below
  <2> QED
    BY <2>2, <2>4, <2>5
<1>3. rank \in Injection(F, 0 .. c - 1)
  <2>1. rank \in [F -> 0 .. c - 1]
    <3> HIDE DEF c
    <3> QED
      BY <1>1
  <2>2. \A s, t \in F : rank[s] = rank[t] => s = t
    <3> SUFFICES ASSUME NEW s \in F, NEW t \in F, s # t PROVE rank[s] # rank[t]
      OBVIOUS
    <3>1. rank[s] \in Int /\ rank[t] \in Int
      BY <1>1
    <3>2. s < t \/ t < s
      OBVIOUS
    <3>3. rank[s] < rank[t] \/ rank[t] < rank[s]
      BY <1>2, <3>2
    <3> HIDE DEF rank
    <3> QED
      BY <3>1, <3>3
  <2> HIDE DEF rank
  <2> QED
    BY <2>1, <2>2 DEF Injection, IsInjective
<1>4. IsFiniteSet(0 .. c - 1) /\ Cardinality(0 .. c - 1) = c
  <2> HIDE DEF c
  <2> QED
    BY <1>0, FS_Interval
<1>5. rank \in Surjection(F, 0 .. c - 1)
  <2> HIDE DEF rank
  <2> QED
    BY <1>3, <1>4, FS_Injection
<1>6. \A i \in 0 .. c - 1 : \E s \in F : rank[s] = i
  <2> HIDE DEF rank, c
  <2> QED
    BY <1>5 DEF Surjection
<1>7. \A s, t \in F : rank[s] = rank[t] => s = t
  <2> HIDE DEF c
  <2>1. DOMAIN rank = F
    OBVIOUS
  <2> HIDE DEF rank
  <2> QED
    BY <1>3, <2>1 DEF Injection, IsInjective
<1>8. \A s \in F : rank[s] \in 0 .. c - 1
  BY <1>1
<1> HIDE DEF rank
<1>9. IsFiniteSet(low)
  BY FS_Subset
<1>10. Cardinality(0 .. n - 1) = Cardinality(low)
  <2> DEFINE f == [s \in low |-> rank[s]]
  <2>1. f \in [low -> 0 .. n - 1]
    <3>1. \A s \in low : rank[s] \in 0 .. n - 1
      BY <1>0, <1>8
    <3> QED
      BY <3>1
  <2>2. \A s, t \in low : f[s] = f[t] => s = t
    BY <1>7
  <2>3. \A i \in 0 .. n - 1 : \E s \in low : f[s] = i
    <3> SUFFICES ASSUME NEW i \in 0 .. n - 1 PROVE \E s \in low : f[s] = i
      OBVIOUS
    <3>1. i \in 0 .. c - 1 /\ i < n
      BY <1>0
    <3>2. PICK s \in F : rank[s] = i
      BY <1>6, <3>1
    <3> QED
      BY <3>1, <3>2
  <2> HIDE DEF f, low
  <2> QED
    BY <1>9, <2>1, <2>2, <2>3, SameSize
<1>12. Cardinality(0 .. n - 1) = n
  BY FS_Interval
<1>11. low = {s \in F : Cardinality({r \in F : r < s}) < n}
  BY DEF rank
<1> QED
  BY <1>10, <1>11, <1>12

\* The last items of a list without repetitions.
LEMMA LastCount ==
    ASSUME NEW q \in Seq(Slot), Distinct(q), NEW k \in 0 .. Len(q)
    PROVE  LET last == {q[i] : i \in k + 1 .. Len(q)} IN
           IsFiniteSet(last) /\ Cardinality(last) = Len(q) - k
<1> DEFINE I == k + 1 .. Len(q)
           last == {q[i] : i \in I}
           f == [i \in I |-> q[i]]
<1>0. Len(q) \in Nat /\ DOMAIN q = 1 .. Len(q) /\ I \subseteq DOMAIN q
  OBVIOUS
<1>1. \A i, j \in I : q[i] = q[j] => i = j
  BY <1>0 DEF Distinct, IsInjective
<1>2. f \in [I -> last] /\ (\A x \in last : \E i \in I : f[i] = x)
  OBVIOUS
<1>3. \A i, j \in I : f[i] = f[j] => i = j
  BY <1>1
<1>5. IsFiniteSet(I) /\ Cardinality(I) = Len(q) - k
  <2>1. k + 1 \in Int /\ Len(q) \in Int /\ k <= Len(q) /\ k \in Int
    BY <1>0
  <2> DEFINE a == k + 1
             b == Len(q)
  <2>2. IsFiniteSet(a .. b) /\ Cardinality(a .. b) = IF a > b THEN 0 ELSE b - a + 1
    <3> HIDE DEF a, b
    <3>1. a \in Int /\ b \in Int
      BY <2>1 DEF a, b
    <3> QED
      BY <3>1, FS_Interval
  <2> QED
    BY <2>1, <2>2
<1> HIDE DEF f, I
<1>6. IsFiniteSet(last) /\ Cardinality(last) = Len(q) - k
  <2> HIDE DEF last
  <2> QED
    BY <1>2, <1>3, <1>5, SameSize
<1> QED
  BY <1>6 DEF I

\* adjustAvailableSlotsLocked puts as many slots into play as it is told, or
\* takes them out of play.
LEMMA AdjustCount ==
    ASSUME SlotTypeOK, Lists, NEW delta \in Int, adjustAvailableSlotsLocked(delta)
    PROVE  Cardinality(Slot \ mUnusedSlots') = Cardinality(Slot \ mUnusedSlots) + delta
<1> DEFINE in == Slot \ mUnusedSlots
           B == ToSet(mFreeBuffers)
<1>0. /\ IsFiniteSet(Slot) /\ Slot \subseteq Int /\ mUnusedSlots \subseteq Slot
      /\ mFreeSlots \subseteq Slot
  <2>1. IsFiniteSet(Slot)
    BY CoreAssumption, FS_Interval DEF Slot
  <2>2. Slot \subseteq Int
    BY DEF Slot
  <2> QED
    BY <2>1, <2>2 DEF SlotTypeOK
<1>1. IsFiniteSet(in) /\ IsFiniteSet(mUnusedSlots) /\ IsFiniteSet(mFreeSlots)
  BY <1>0, FS_Subset
<1>2. Cardinality(in) \in Nat /\ Cardinality(mFreeSlots) \in Nat
  BY <1>1, FS_CardinalityType
<1>3. CASE delta >= 0 /\ MoreSlots(delta)
  <2>1. PICK S \in SUBSET mUnusedSlots :
            Cardinality(S) = delta /\ mUnusedSlots' = mUnusedSlots \ S
    BY <1>3 DEF MoreSlots
  <2>2. Slot \ mUnusedSlots' = in \cup S /\ in \cap S = {}
    BY <1>0, <2>1
  <2>3. IsFiniteSet(S)
    BY <1>1, FS_Subset
  <2>4. Cardinality(in \cup S) = Cardinality(in) + Cardinality(S) - Cardinality({})
    <3> HIDE DEF in
    <3> QED
      BY <1>1, <2>2, <2>3, FS_Union
  <2>5. Cardinality({}) = 0
    BY FS_EmptySet
  <2> HIDE DEF in
  <2>6. Cardinality(in \cup S) = Cardinality(in) + delta
    BY <1>2, <2>1, <2>4, <2>5
  <2> QED
    BY <2>2, <2>6 DEF in
<1>4. CASE delta < 0 /\ FewerSlots(-delta)
  <2> DEFINE n == -delta
             slots == {s \in mFreeSlots : Cardinality({r \in mFreeSlots : r < s}) < n}
             missing == IF n > Cardinality(mFreeSlots)
                           THEN n - Cardinality(mFreeSlots) ELSE 0
             kept == Len(mFreeBuffers) - missing
             buffers == {mFreeBuffers[i] : i \in kept + 1 .. Len(mFreeBuffers)}
  <2>1. /\ n \in Nat /\ n <= Cardinality(mFreeSlots) + Len(mFreeBuffers)
        /\ mUnusedSlots' = mUnusedSlots \cup slots \cup buffers
    BY <1>4 DEF FewerSlots
  <2>2. /\ mFreeBuffers \in Seq(Slot) /\ Distinct(mFreeBuffers) /\ Len(mFreeBuffers) \in Nat
        /\ mFreeSlots \cap B = {} /\ mUnusedSlots \cap B = {}
        /\ mUnusedSlots \cap mFreeSlots = {} /\ B \subseteq Slot
    BY DEF SlotTypeOK, Lists
  <2>3. kept \in 0 .. Len(mFreeBuffers) /\ missing \in Nat
    BY <1>2, <2>1, <2>2
  <2>4. slots \subseteq mFreeSlots /\ IsFiniteSet(slots)
    BY <1>1, FS_Subset
  <2>5. buffers \subseteq B /\ IsFiniteSet(buffers) /\ Cardinality(buffers) = missing
    <3>1. \A i \in kept + 1 .. Len(mFreeBuffers) : mFreeBuffers[i] \in B
      BY <2>2, <2>3 DEF ToSet
    <3>2. IsFiniteSet(buffers) /\ Cardinality(buffers) = Len(mFreeBuffers) - kept
      <4> HIDE DEF kept
      <4> QED
        BY <2>2, <2>3, LastCount
    <3>3. Len(mFreeBuffers) - kept = missing
      <4> HIDE DEF missing
      <4> QED
        BY <2>2, <2>3
    <3> QED
      BY <3>1, <3>2, <3>3
  <2>6. Cardinality(slots) + missing = n
    <3>1. CASE n <= Cardinality(mFreeSlots)
      <4>1. Cardinality(slots) = n
        BY <1>0, <1>1, <2>1, <3>1, LowestCount
      <4> HIDE DEF slots, n
      <4> QED
        BY <1>2, <2>1, <3>1, <4>1
    <3>2. CASE n > Cardinality(mFreeSlots)
      <4>1. slots = mFreeSlots
        <5> SUFFICES ASSUME NEW s \in mFreeSlots
                     PROVE  Cardinality({r \in mFreeSlots : r < s}) < n
          OBVIOUS
        <5> DEFINE below == {r \in mFreeSlots : r < s}
        <5>1. Cardinality(below) <= Cardinality(mFreeSlots) /\ IsFiniteSet(below)
          BY <1>1, FS_Subset
        <5>2. Cardinality(below) \in Nat
          BY <5>1, FS_CardinalityType
        <5> HIDE DEF below, n
        <5>3. Cardinality(below) < n
          BY <1>2, <2>1, <3>2, <5>1, <5>2
        <5> QED
          BY <5>3 DEF below
      <4> HIDE DEF slots, n
      <4> QED
        BY <1>2, <2>1, <3>2, <4>1
    <3> QED
      BY <1>2, <2>1, <3>1, <3>2
  <2> DEFINE out == slots \cup buffers
  <2> HIDE DEF slots, missing, kept, buffers
  <2>7. IsFiniteSet(out) /\ Cardinality(out) = n
    <3>1. slots \cap buffers = {}
      BY <2>2, <2>4, <2>5
    <3>2. IsFiniteSet(out) /\ Cardinality(out)
              = Cardinality(slots) + Cardinality(buffers) - Cardinality({})
      BY <2>4, <2>5, <3>1, FS_Union
    <3>3. Cardinality({}) = 0 /\ Cardinality(slots) \in Nat
      BY <2>4, FS_EmptySet, FS_CardinalityType
    <3> HIDE DEF out, n
    <3> QED
      BY <2>1, <2>3, <2>5, <2>6, <3>2, <3>3
  <2>8. out \subseteq in /\ Slot \ mUnusedSlots' = in \ out
    BY <1>0, <2>1, <2>2, <2>4, <2>5
  <2> HIDE DEF in, out
  <2>9. in \cap out = out
    BY <2>8
  <2>10. Cardinality(in \ out) = Cardinality(in) - Cardinality(out)
    BY <1>1, <2>9, FS_Difference
  <2> QED
    BY <1>2, <2>7, <2>8, <2>10 DEF in, n
<1> QED
  BY <1>3, <1>4 DEF adjustAvailableSlotsLocked

\* Calls for which the slots in play can be counted.  setMaxDequeuedBufferCount
\* and setMaxAcquiredBufferCount rely on a sum of the limits that
\* mMaxBufferCount does not cut short; setMaxBufferCount and the connection of
\* a producer that must not block do not see to that.
CheckedLimits ==
    \/ {"setMaxDequeuedBufferCount", "setMaxAcquiredBufferCount"} \cap Ops = {}
    \/ "setMaxBufferCount" \notin Ops /\ TRUE \notin ControlledByApp

\* What the producer and the consumer are entitled to, together.
Entitled ==
    mMaxAcquiredBufferCount + mMaxDequeuedBufferCount
        + ExtraBuffer(mAsyncMode, mDequeueBufferCannotBlock)

\* mMaxBufferCount does not cut the sum short.
Fits ==
    {"setMaxDequeuedBufferCount", "setMaxAcquiredBufferCount"} \cap Ops # {}
        => Entitled <= mMaxBufferCount

\* What AllocatedSlotCount speaks of.
inPlayVars == <<mUnusedSlots, mMaxAcquiredBufferCount, mMaxDequeuedBufferCount,
                mMaxBufferCount, mAsyncMode, mDequeueBufferCannotBlock>>

\* No other step changes the limits or the number of slots in play.
LEMMA OtherSteps ==
    ASSUME TypeOK, ~AllocMayFail, "anySlot" \notin Ops, [Next]_vars, ~Limits
    PROVE  UNCHANGED inPlayVars
<1> USE DEF inPlayVars, limitVars
<1>1. CASE \E t \in Thread : Moves(t) \/ GivesUpFree(t)
  BY <1>1 DEF Moves, dequeueBuffer, dequeueWaitsOrGivesUp, dequeueDereferencesNull,
       waitTimesOut, spuriousWakeup, allocateBuffers, detachNextBufferBlocks,
       attachBufferBlocks, attachWaitsOrGivesUp, queueBufferCallback, slotVars, listVars,
       waitForFreeSlotThenRelock, GivesUpFree, detachNextBuffer, dequeueRejectsBuffer
<1>2. CASE Sets
  BY <1>2 DEF Sets, requestBuffer, allowAllocation, setAutoRefresh, setSharedBufferMode,
       consumerConnect, acquireBufferTimed, presentLater, acquireSharedBufferBlocks,
       acquireSharedOutOfRange, vars, slotVars, listVars
<1>4. CASE Acquires \/ acquireSharedBuffer \/ dropFront \/ discardFreeBuffers
  BY <1>4 DEF Acquires, acquireBuffer, acquireAfterDropping, AcquireFront,
     acquireSharedBuffer, dropFront, discardFreeBuffers, discardFreeBuffersLocked,
     listVars
<1>5. CASE disconnect \/ consumerDisconnect
  BY <1>5 DEF disconnect, consumerDisconnect, freeAllBuffersLocked
<1>6. ASSUME NEW t \in Thread, NEW s \in Slot, Takes(t, s) \/ Queues(t, s)
      PROVE  UNCHANGED inPlayVars
  BY <1>6 DEF Takes, Queues, dequeueTakesSlot, attachBuffer, queueBuffer
<1>7. ASSUME NEW t \in Thread, NEW b \in Buffer, Allocates(t, b)
      PROVE  UNCHANGED inPlayVars
  BY <1>7 DEF Allocates, dequeueAllocated, allocateBuffersAllocated, listVars, slotVars
<1>8. ASSUME NEW s \in Slot, Detaches(s) \/ GivesBack(s) \/ queueBufferRejectsCrop(s)
      PROVE  UNCHANGED inPlayVars
  BY <1>8 DEF Detaches, GivesBack, detachBuffer, consumerDetachBuffer,
     cancelBuffer, releaseBuffer, queueBufferRejectsCrop, listVars
<1>9. ASSUME NEW s \in Slot, NEW b \in Buffer, consumerAttachBuffer(s, b)
      PROVE  UNCHANGED inPlayVars
  BY <1>9 DEF consumerAttachBuffer
<1> HIDE DEF inPlayVars, limitVars
<1> QED
  BY <1>1, <1>2, <1>4, <1>5, <1>6, <1>7, <1>8, <1>9, AllSteps

\* The calls that change a limit adjust the slots by what the limit changes, and
\* keep the sum of the limits where it counts.
LEMMA LimitsCount ==
    ASSUME TypeOK, TypeOK', CheckedLimits, Fits, Limits
    PROVE  /\ Fits'
           /\ \E delta \in Int : /\ adjustAvailableSlotsLocked(delta)
                                 /\ getMaxBufferCountLocked' = getMaxBufferCountLocked + delta
<1> DEFINE Sums == {"setMaxDequeuedBufferCount", "setMaxAcquiredBufferCount"} \cap Ops # {}
           gm == getMaxBufferCountLocked
           G(d) == adjustAvailableSlotsLocked(d) /\ gm' = gm + d
<1>1. PICK a \in Int, a2 \in Int, d \in Int, d2 \in Int, m \in Int, m2 \in Int :
          /\ a = mMaxAcquiredBufferCount /\ a2 = mMaxAcquiredBufferCount'
          /\ d = mMaxDequeuedBufferCount /\ d2 = mMaxDequeuedBufferCount'
          /\ m = mMaxBufferCount /\ m2 = mMaxBufferCount'
  BY DEF TypeOK, LimitTypeOK
<1>2. PICK e \in {0, 1}, e2 \in {0, 1} :
          /\ e = ExtraBuffer(mAsyncMode, mDequeueBufferCannotBlock)
          /\ e2 = ExtraBuffer(mAsyncMode', mDequeueBufferCannotBlock')
  BY DEF ExtraBuffer
<1>3. PICK g \in Int, g2 \in Int :
          /\ g = (IF m < a + d + e THEN m ELSE a + d + e) /\ g = gm
          /\ g2 = (IF m2 < a2 + d2 + e2 THEN m2 ELSE a2 + d2 + e2) /\ g2 = gm'
  BY <1>1, <1>2 DEF getMaxBufferCountLocked, getMaxBufferCount
<1>4. Sums => a + d + e <= m
  BY <1>1, <1>2 DEF Fits, Entitled
<1>5. ASSUME Sums => a2 + d2 + e2 <= m2 PROVE Fits'
  BY <1>1, <1>2, <1>5 DEF Fits, Entitled
<1>6. ASSUME adjustAvailableSlotsLocked(g2 - g) PROVE \E delta \in Int : G(delta)
  <2>1. g2 - g \in Int /\ g2 = g + (g2 - g)
    OBVIOUS
  <2> QED
    BY <1>3, <1>6, <2>1
<1>7. ASSUME NEW n \in 1 .. NUM_BUFFER_SLOTS,
             "setMaxDequeuedBufferCount" \in Ops, setMaxDequeuedBufferCount(n)
      PROVE  Fits' /\ \E delta \in Int : G(delta)
  <2>1. d2 = n /\ e2 = e /\ a2 = a /\ m2 = m /\ adjustAvailableSlotsLocked(n - d)
        /\ a + e + n <= m
    BY <1>1, <1>2, <1>7 DEF setMaxDequeuedBufferCount, getMinUndequeuedBufferCountLocked
  <2>2. Sums
    BY <1>7
  <2>3. a2 + d2 + e2 <= m2 /\ g2 - g = n - d
    BY <1>3, <1>4, <2>1, <2>2
  <2> QED
    BY <1>5, <1>6, <2>1, <2>3
<1>8. ASSUME NEW n \in 1 .. NUM_BUFFER_SLOTS,
             "setMaxAcquiredBufferCount" \in Ops, setMaxAcquiredBufferCount(n)
      PROVE  Fits' /\ \E delta \in Int : G(delta)
  <2>1. a2 = n /\ e2 = e /\ d2 = d /\ m2 = m /\ adjustAvailableSlotsLocked(n - a)
        /\ n + d + e <= m
    BY <1>1, <1>2, <1>8 DEF setMaxAcquiredBufferCount
  <2>2. Sums
    BY <1>8
  <2>3. a2 + d2 + e2 <= m2 /\ g2 - g = n - a
    BY <1>3, <1>4, <2>1, <2>2
  <2> QED
    BY <1>5, <1>6, <2>1, <2>3
<1>9. ASSUME NEW n \in 1 .. NUM_BUFFER_SLOTS, "setMaxBufferCount" \in Ops, setMaxBufferCount(n)
      PROVE  Fits' /\ \E delta \in Int : G(delta)
  <2>1. ~Sums
    BY <1>9 DEF CheckedLimits
  <2>2. adjustAvailableSlotsLocked(g2 - g)
    <3>1. gm' = getMaxBufferCount(mAsyncMode, mDequeueBufferCannotBlock, n)
      BY <1>9 DEF setMaxBufferCount, getMaxBufferCountLocked, getMaxBufferCount
    <3> QED
      BY <1>3, <1>9, <3>1 DEF setMaxBufferCount
  <2> QED
    BY <1>5, <1>6, <2>1, <2>2
<1>10. ASSUME setAsyncMode(~mAsyncMode) PROVE Fits' /\ \E delta \in Int : G(delta)
  <2>1. a2 + d2 + e2 <= m2
    BY <1>1, <1>2, <1>10 DEF setAsyncMode
  <2>2. adjustAvailableSlotsLocked(g2 - g)
    <3>1. gm' = getMaxBufferCount(~mAsyncMode, mDequeueBufferCannotBlock, mMaxBufferCount)
      BY <1>10 DEF setAsyncMode, getMaxBufferCountLocked, getMaxBufferCount
    <3> QED
      BY <1>3, <1>10, <3>1 DEF setAsyncMode
  <2> QED
    BY <1>5, <1>6, <2>1, <2>2
<1>11. ASSUME NEW timed \in BOOLEAN, setDequeueTimeout(timed)
       PROVE  Fits' /\ \E delta \in Int : G(delta)
  <2>1. e2 <= e
    BY <1>2, <1>11 DEF setDequeueTimeout, ExtraBuffer
  <2>2. a2 = a /\ d2 = d /\ m2 = m
    BY <1>1, <1>11 DEF setDequeueTimeout
  <2>3. Sums => a2 + d2 + e2 <= m2
    BY <1>4, <2>1, <2>2
  <2>4. adjustAvailableSlotsLocked(g2 - g)
    <3>1. gm' = getMaxBufferCount(mAsyncMode, FALSE, mMaxBufferCount)
      BY <1>11 DEF setDequeueTimeout, getMaxBufferCountLocked, getMaxBufferCount
    <3> QED
      BY <1>3, <1>11, <3>1 DEF setDequeueTimeout
  <2> QED
    BY <1>5, <1>6, <2>3, <2>4
<1>12. ASSUME NEW api \in Api \cup {UnknownApi}, NEW byApp \in ControlledByApp,
              connect(api, byApp)
       PROVE  Fits' /\ \E delta \in Int : G(delta)
  <2> DEFINE cannotBlock == ~mDequeueTimeout /\ mConsumerControlledByApp /\ byApp
  <2>1. a2 = a /\ d2 = d /\ m2 = m
    BY <1>1, <1>12 DEF connect
  <2>2. Sums => a2 + d2 + e2 <= m2
    <3> SUFFICES ASSUME Sums PROVE a2 + d2 + e2 <= m2
      OBVIOUS
    <3>1. byApp = FALSE
      BY OpsAssumption DEF CheckedLimits
    <3>2. mDequeueBufferCannotBlock' = FALSE /\ UNCHANGED mAsyncMode
      BY <1>12, <3>1 DEF connect
    <3>3. e2 <= e
      BY <1>2, <3>2 DEF ExtraBuffer
    <3> QED
      BY <1>4, <2>1, <3>3
  <2>3. adjustAvailableSlotsLocked(g2 - g)
    <3>1. gm' = getMaxBufferCount(mAsyncMode, cannotBlock, mMaxBufferCount)
      BY <1>12 DEF connect, getMaxBufferCountLocked, getMaxBufferCount
    <3> QED
      BY <1>3, <1>12, <3>1 DEF connect
  <2> QED
    BY <1>5, <1>6, <2>2, <2>3
<1> HIDE DEF G, Sums
<1>13. Fits' /\ \E delta \in Int : G(delta)
  BY <1>7, <1>8, <1>9, <1>10, <1>11, <1>12 DEF Limits
<1> QED
  BY <1>13 DEF G

\* Every step keeps the count.
LEMMA InPlayStep ==
    ASSUME TypeOK, TypeOK', PrivateCalls, CheckedLimits, SlotInv, Fits, AllocatedSlotCount,
           [Next]_vars
    PROVE  Fits' /\ AllocatedSlotCount'
<1>0. ~AllocMayFail /\ "anySlot" \notin Ops /\ SlotTypeOK
  BY DEF PrivateCalls, TypeOK
<1>1. CASE Limits
  <2>1. Fits'
    BY <1>1, LimitsCount
  <2>2. PICK delta \in Int : /\ adjustAvailableSlotsLocked(delta)
                             /\ getMaxBufferCountLocked' = getMaxBufferCountLocked + delta
    BY <1>1, LimitsCount
  <2>3. UNCHANGED mIsAbandoned
    BY <1>1, LimitsStep
  <2>4. ASSUME ~mIsAbandoned
        PROVE  Cardinality(Slot \ mUnusedSlots') = getMaxBufferCountLocked'
    <3>1. Lists
      BY <2>4 DEF SlotInv
    <3>2. Cardinality(Slot \ mUnusedSlots') = Cardinality(Slot \ mUnusedSlots) + delta
      BY <1>0, <2>2, <3>1, AdjustCount
    <3> QED
      BY <2>2, <2>4, <3>2 DEF AllocatedSlotCount
  <2> QED
    BY <2>1, <2>3, <2>4 DEF AllocatedSlotCount
<1>2. CASE ~Limits
  <2>1. UNCHANGED inPlayVars
    BY <1>0, <1>2, OtherSteps
  <2>2. Fits'
    BY <2>1 DEF inPlayVars, Fits, Entitled
  <2>3. mIsAbandoned => mIsAbandoned'
    <3>1. CASE Leaves
      BY <3>1 DEF Leaves, consumerDisconnect
    <3>2. CASE ~Leaves
      BY <1>0, <3>2, AbandonedStep
    <3> QED
      BY <3>1, <3>2
  <2> QED
    BY <2>1, <2>2, <2>3
       DEF inPlayVars, AllocatedSlotCount, getMaxBufferCountLocked, getMaxBufferCount
<1> QED
  BY <1>1, <1>2

\* As many slots are in play as the limits promise, after any sequence of calls
\* that change the limits: slots are neither lost nor made up.
THEOREM SlotsCounted == PrivateCalls /\ CheckedLimits => (Spec => []AllocatedSlotCount)
<1> SUFFICES ASSUME PrivateCalls, CheckedLimits PROVE Spec => []AllocatedSlotCount
  OBVIOUS
<1>1. Init => Fits /\ AllocatedSlotCount
  <2> SUFFICES ASSUME Init PROVE Fits /\ AllocatedSlotCount
    OBVIOUS
  <2>1. Slot \ mUnusedSlots = {0} \cup {1}
    BY CoreAssumption DEF Init, Slot
  <2>2. Cardinality({0} \cup {1}) = 2
    <3>1. \A x : IsFiniteSet({x}) /\ Cardinality({x}) = 1
      BY FS_Singleton
    <3>2. IsFiniteSet({0}) /\ Cardinality({0}) = 1
      BY <3>1
    <3>3. 1 \notin {0}
      OBVIOUS
    <3> QED
      BY <3>2, <3>3, FS_AddElement
  <2>3. getMaxBufferCountLocked = 2 /\ Entitled = 2 /\ mMaxBufferCount >= 2
    BY CoreAssumption
       DEF Init, getMaxBufferCountLocked, getMaxBufferCount, ExtraBuffer, Entitled
  <2>4. Fits
    BY <2>3, CoreAssumption DEF Fits, Init
  <2> QED
    BY <2>1, <2>2, <2>3, <2>4 DEF AllocatedSlotCount
<1>2. /\ TypeOK /\ TypeOK' /\ SlotInv /\ Fits /\ AllocatedSlotCount /\ [Next]_vars
      => Fits' /\ AllocatedSlotCount'
  BY InPlayStep
<1> QED
  BY <1>1, <1>2, SlotInvHolds, TypeCorrect, PTL DEF Spec

-----------------------------------------------------------------------------
(* Wake-ups                                                                *)

\* Clients that make none of the changes the code does not announce: those of
\* allowAllocation and setMaxAcquiredBufferCount, and what setMaxBufferCount
\* and connect change while a thread that was in a call when its producer
\* disconnected is asleep.
AnnouncedCalls ==
    /\ "allowAllocation" \notin Ops /\ "setMaxAcquiredBufferCount" \notin Ops
    /\ \/ "disconnect" \notin Ops
       \/ TRUE \notin ControlledByApp /\ "setMaxBufferCount" \notin Ops

\* Where a thread is asleep, or on its way there.
Asleep == {"dequeueWait", "dequeueTimedWait", "attachWait", "attachTimedWait"}
InWaitLoop == Asleep \cup {"dequeue", "attach", "attachBlocked"}

Sleeping == \E t \in Thread : pc[t] \in Asleep

\* The slots that the producer holds.
Dequeued == {s \in Slot : mSlots[s].mBufferState = DEQUEUED}

\* MustWait, for either caller, in terms of what SlotInv knows.
MustSleep ==
    /\ ~mIsAbandoned
    /\ mBufferHasBeenQueued => Cardinality(Dequeued) < mMaxDequeuedBufferCount
    /\ \/ Len(mQueue) > getMaxBufferCountLocked
       \/ mFreeSlots = {} /\ mFreeBuffers = <<>>
    /\ mDequeueBufferCannotBlock \/ mAsyncMode
          => Cardinality(Acquired) > mMaxAcquiredBufferCount

\* The parts of the invariant about the wake-ups.  dequeueBuffer never forbids
\* itself to allocate, and so never drops a buffer and looks for another.
AlwaysAllocates == mAllowAllocation /\ \A t \in Thread : pc[t] # "dequeueAgain"

\* A thread that waits belongs to a producer that is connected.
WaitsConnected ==
    "disconnect" \notin Ops =>
        \A t \in Thread : pc[t] \in InWaitLoop => mConnectedApi # NO_CONNECTED_API

\* Only connect with both sides controlled by an app forbids to block.
BlocksUnlessAsync == TRUE \notin ControlledByApp => ~mDequeueBufferCannotBlock

\* acquireBuffer has dropped a frame for one that it will return; it wakes the
\* sleeping threads when it does.
WillWake == cpc = "dropping" /\ bufferIsDue /\ consumerIsReady

\* While a thread sleeps it must sleep, or will be woken before mMutex is free.
WakeInv ==
    /\ AlwaysAllocates /\ WaitsConnected /\ BlocksUnlessAsync
    /\ Sleeping => MustSleep \/ WillWake

-----------------------------------------------------------------------------
(* When a thread must sleep                                                *)

\* A set of slots that is not empty has a lowest member.
LEMMA LowestExists ==
    ASSUME NEW F \in SUBSET Slot, F # {}
    PROVE  LowestOf(F) # {}
<1> DEFINE below(s) == {r \in F : r < s}
           low == {s \in F : Cardinality(below(s)) < 1}
<1>1. IsFiniteSet(Slot) /\ F \subseteq Int
  BY CoreAssumption, FS_Interval DEF Slot
<1>2. IsFiniteSet(F)
  BY <1>1, FS_Subset
<1>3. Cardinality(F) \in Nat /\ Cardinality(F) # 0
  BY <1>2, FS_CardinalityType, FS_EmptySet
<1>4. Cardinality(low) = 1
  <2>1. 1 \in Nat /\ 1 <= Cardinality(F)
    BY <1>3
  <2>2. \A n \in Nat : n <= Cardinality(F) =>
           Cardinality({s \in F : Cardinality({r \in F : r < s}) < n}) = n
    BY <1>1, <1>2, LowestCount
  <2> QED
    BY <2>1, <2>2
<1>5. low # {}
  <2> HIDE DEF low
  <2> QED
    BY <1>4, FS_EmptySet
<1>6. PICK s \in F : Cardinality(below(s)) < 1
  BY <1>5
<1>7. IsFiniteSet(below(s))
  BY <1>2, FS_Subset
<1>8. Cardinality(below(s)) = 0
  <2>1. Cardinality(below(s)) \in Nat
    BY <1>7, FS_CardinalityType
  <2> QED
    BY <1>6, <2>1
<1>9. below(s) = {}
  BY <1>7, <1>8, FS_EmptySet
<1>10. \A r \in F : s <= r
  BY <1>1, <1>9
<1> QED
  BY <1>10 DEF LowestOf

\* The set that dequeuedCount counts.
LEMMA DequeuedIs ==
    ASSUME TypeOK, SlotInv, ~mIsAbandoned
    PROVE  dequeuedCount = Cardinality(Dequeued)
<1> DEFINE held == {s \in mActiveBuffers : isDequeued(mSlots[s].mBufferState)}
<1>1. mActiveBuffers \subseteq Slot /\ SlotTypeOK /\ QueueTypeOK /\ FourStates /\ SlotsOK
  BY DEF TypeOK, SlotTypeOK, SlotInv, SlotsOK
<1>2. \A s \in Slot : isDequeued(mSlots[s].mBufferState) <=> mSlots[s].mBufferState = DEQUEUED
  BY <1>1, StatePredicates DEF FourStates
<1>3. \A s \in Slot : mSlots[s].mBufferState = DEQUEUED => s \in mActiveBuffers
  BY <1>1, WhereSlotsAre
<1>4. held = Dequeued
  BY <1>1, <1>2, <1>3 DEF Dequeued
<1> QED
  BY <1>4 DEF dequeuedCount

\* The slots of either owner can be counted.
LEMMA OwnedFinite ==
    /\ IsFiniteSet(Dequeued) /\ Cardinality(Dequeued) \in Nat
    /\ IsFiniteSet(Acquired) /\ Cardinality(Acquired) \in Nat
<1>1. IsFiniteSet(Slot)
  BY CoreAssumption, FS_Interval DEF Slot
<1>2. IsFiniteSet(Dequeued) /\ IsFiniteSet(Acquired)
  BY <1>1, FS_Subset DEF Dequeued, Acquired
<1> QED
  BY <1>2, FS_CardinalityType

\* Nothing is found exactly when too much is queued or both free lists are empty.
LEMMA NothingFound ==
    ASSUME TypeOK, SlotInv, ~mIsAbandoned, mAllowAllocation,
           NEW caller \in {"dequeue", "attach"}
    PROVE  NoSlotFound(caller) <=> \/ Len(mQueue) > getMaxBufferCountLocked
                                   \/ mFreeSlots = {} /\ mFreeBuffers = <<>>
<1>1. /\ SlotTypeOK /\ QueueTypeOK /\ SlotsOK /\ ~mSharedBufferMode
      /\ mFreeSlots \subseteq Slot
  BY DEF TypeOK, SlotTypeOK, SlotInv, SlotsOK, NothingShared
<1>2. mFreeSlots # {} => \E s \in Slot : s \in LowestOf(mFreeSlots)
  BY <1>1, LowestExists DEF LowestOf
<1>3. mFreeBuffers # <<>> => Head(mFreeBuffers) \in Slot
  BY <1>1, WhereSlotsAre
<1>4. LowestOf({}) = {}
  BY DEF LowestOf
<1>5. CASE Len(mQueue) > getMaxBufferCountLocked
  BY <1>5 DEF NoSlotFound, SlotFound, tooManyBuffers
<1>6. CASE ~(Len(mQueue) > getMaxBufferCountLocked) /\ mFreeSlots = {} /\ mFreeBuffers = <<>>
  BY <1>1, <1>4, <1>6
     DEF NoSlotFound, SlotFound, SharedSlotFound, FreeBufferFound, FreeSlotFound
<1>7. CASE ~(Len(mQueue) > getMaxBufferCountLocked) /\ mFreeBuffers # <<>> /\
           (caller = "dequeue" \/ mFreeSlots = {})
  BY <1>1, <1>3, <1>7 DEF NoSlotFound, SlotFound, tooManyBuffers, FreeBufferFound
<1>8. CASE ~(Len(mQueue) > getMaxBufferCountLocked) /\ mFreeSlots # {} /\
           (caller = "attach" \/ mFreeBuffers = <<>>)
  BY <1>1, <1>2, <1>8 DEF NoSlotFound, SlotFound, tooManyBuffers, FreeSlotFound
<1> QED
  BY <1>5, <1>6, <1>7, <1>8

\* Both callers of waitForFreeSlotThenRelock wait under the same condition.
LEMMA MustWaitIs ==
    ASSUME TypeOK, SlotInv, mAllowAllocation, NEW caller \in {"dequeue", "attach"}
    PROVE  MustWait(caller) <=> MustSleep
<1>1. CASE mIsAbandoned
  BY <1>1 DEF MustWait, MustSleep
<1>2. CASE ~mIsAbandoned
  <2>1. dequeuedCount = Cardinality(Dequeued) /\ acquiredCount = Cardinality(Acquired)
    BY <1>2, DequeuedIs, AcquiredIs
  <2>2. PICK d \in Nat, a \in Nat, md \in Nat, ma \in Nat :
            /\ d = Cardinality(Dequeued) /\ a = Cardinality(Acquired)
            /\ md = mMaxDequeuedBufferCount /\ ma = mMaxAcquiredBufferCount
    BY OwnedFinite, CoreAssumption DEF TypeOK, LimitTypeOK, MAX_MAX_ACQUIRED_BUFFERS
  <2>3. ~(d >= md) <=> d < md
    OBVIOUS
  <2>4. ~(a <= ma) <=> a > ma
    OBVIOUS
  <2>5. ~tooManyDequeued <=> (mBufferHasBeenQueued => d < md)
    BY <2>1, <2>2, <2>3 DEF tooManyDequeued
  <2>6. ~mayNotBlock <=> (mDequeueBufferCannotBlock \/ mAsyncMode => a > ma)
    BY <2>1, <2>2, <2>4 DEF mayNotBlock
  <2> QED
    BY <1>2, <2>2, <2>5, <2>6, NothingFound DEF MustWait, MustSleep
<1> QED
  BY <1>1, <1>2

\* A thread that finds a slot need not sleep.
LEMMA FoundIsAwake ==
    ASSUME TypeOK, SlotInv, mAllowAllocation, NEW caller \in {"dequeue", "attach"},
           NEW s \in Slot, Finds(caller, s)
    PROVE  ~MustSleep
  BY MustWaitIs DEF MustWait, NoSlotFound, Finds

\* The number of buffers is a number.
LEMMA MaxBufferCountInt == ASSUME TypeOK PROVE getMaxBufferCountLocked \in Int
  BY CoreAssumption DEF getMaxBufferCount, getMaxBufferCountLocked, ExtraBuffer,
     MAX_MAX_ACQUIRED_BUFFERS, TypeOK, LimitTypeOK

\* When it stays true that a thread must sleep.
LEMMA StillAsleep ==
    ASSUME TypeOK, TypeOK', MustSleep,
           UNCHANGED <<mIsAbandoned, mMaxDequeuedBufferCount, mMaxAcquiredBufferCount>>,
           mBufferHasBeenQueued' => mBufferHasBeenQueued,
           Dequeued' \subseteq Dequeued, Acquired \subseteq Acquired',
           Len(mQueue') = Len(mQueue), getMaxBufferCountLocked' <= getMaxBufferCountLocked,
           mFreeSlots = {} /\ mFreeBuffers = <<>> => mFreeSlots' = {} /\ mFreeBuffers' = <<>>,
           mDequeueBufferCannotBlock' \/ mAsyncMode' => mDequeueBufferCannotBlock \/ mAsyncMode
    PROVE  MustSleep'
<1>1. /\ IsFiniteSet(Dequeued) /\ Cardinality(Dequeued) \in Nat
      /\ IsFiniteSet(Acquired) /\ Cardinality(Acquired) \in Nat
  BY OwnedFinite
<1>2. /\ IsFiniteSet(Dequeued') /\ Cardinality(Dequeued') \in Nat
      /\ IsFiniteSet(Acquired') /\ Cardinality(Acquired') \in Nat
  <2>1. (/\ IsFiniteSet(Dequeued) /\ Cardinality(Dequeued) \in Nat
         /\ IsFiniteSet(Acquired) /\ Cardinality(Acquired) \in Nat)'
    BY OwnedFinite, PTL
  <2> QED
    BY <2>1
<1>3. Cardinality(Dequeued') <= Cardinality(Dequeued)
  BY <1>1, FS_Subset
<1>4. Cardinality(Acquired) <= Cardinality(Acquired')
  BY <1>2, FS_Subset
<1>5. PICK d \in Nat, d2 \in Nat, a \in Nat, a2 \in Nat, md \in Int, ma \in Int,
           g \in Int, g2 \in Int, n \in Int :
          /\ d = Cardinality(Dequeued) /\ d2 = Cardinality(Dequeued')
          /\ a = Cardinality(Acquired) /\ a2 = Cardinality(Acquired')
          /\ md = mMaxDequeuedBufferCount /\ md = mMaxDequeuedBufferCount'
          /\ ma = mMaxAcquiredBufferCount /\ ma = mMaxAcquiredBufferCount'
          /\ g = getMaxBufferCountLocked /\ g2 = getMaxBufferCountLocked'
          /\ n = Len(mQueue) /\ n = Len(mQueue')
  <2>1. getMaxBufferCountLocked \in Int
    BY MaxBufferCountInt
  <2>2. getMaxBufferCountLocked' \in Int
    <3>1. (getMaxBufferCountLocked \in Int)'
      BY MaxBufferCountInt, PTL
    <3> QED
      BY <3>1
  <2>3. /\ mMaxDequeuedBufferCount \in Int /\ mMaxAcquiredBufferCount \in Int
        /\ Len(mQueue) \in Int
    BY DEF TypeOK, LimitTypeOK, QueueTypeOK
  <2> QED
    BY <1>1, <1>2, <2>1, <2>2, <2>3
<1>6. d2 <= d /\ a <= a2 /\ g2 <= g
  BY <1>3, <1>4, <1>5
<1>7. /\ d < md => d2 < md
      /\ a > ma => a2 > ma
      /\ n > g => n > g2
  BY <1>6
<1>8. /\ ~mIsAbandoned'
      /\ mBufferHasBeenQueued' => d2 < md
      /\ n > g2 \/ (mFreeSlots' = {} /\ mFreeBuffers' = <<>>)
      /\ mDequeueBufferCannotBlock' \/ mAsyncMode' => a2 > ma
  BY <1>5, <1>7 DEF MustSleep
<1> QED
  BY <1>5, <1>8 DEF MustSleep

-----------------------------------------------------------------------------
(* What the steps do to the threads that wait                              *)

\* What a broadcast and a move of one thread do to the threads that wait.
LEMMA WhereThreadsGo ==
    ASSUME TypeOK, AlwaysAllocates
    PROVE  /\ pc' = Woken(pc) \/ (\E t \in Thread : pc' = Woken(Goto(t, "callback"))) =>
                 \A u \in Thread : /\ pc'[u] \notin Asleep /\ pc'[u] # "dequeueAgain"
                                   /\ pc'[u] \in InWaitLoop => pc[u] \in InWaitLoop
           /\ \A t \in Thread, where \in PC : pc' = Goto(t, where) =>
                 pc'[t] = where /\ \A u \in Thread : u # t => pc'[u] = pc[u]
<1>1. pc \in [Thread -> PC] /\ \A u \in Thread : pc[u] # "dequeueAgain"
  BY DEF TypeOK, ThreadTypeOK, AlwaysAllocates
<1>2. \A t \in Thread, where \in PC :
          /\ Goto(t, where)[t] = where
          /\ \A u \in Thread : u # t => Goto(t, where)[u] = pc[u]
  BY <1>1 DEF Goto
<1>3. \A u \in Thread : /\ Woken(pc)[u] \notin Asleep /\ Woken(pc)[u] # "dequeueAgain"
                        /\ Woken(pc)[u] \in InWaitLoop => pc[u] \in InWaitLoop
  BY <1>1 DEF Woken, Asleep, InWaitLoop
<1>4. ASSUME NEW t \in Thread, NEW u \in Thread
      PROVE  LET where == Woken(Goto(t, "callback")) IN
             /\ where[u] \notin Asleep /\ where[u] # "dequeueAgain"
             /\ where[u] \in InWaitLoop => pc[u] \in InWaitLoop
  <2>1. CASE u = t
    BY <1>2, <2>1 DEF Woken, Asleep, InWaitLoop, PC
  <2>2. CASE u # t
    <3>1. Goto(t, "callback")[u] = pc[u]
      BY <1>2, <2>2 DEF PC
    <3> QED
      BY <1>1, <3>1 DEF Woken, Asleep, InWaitLoop
  <2> QED
    BY <2>1, <2>2
<1> QED
  BY <1>2, <1>3, <1>4

\* The steps that end with a broadcast of mDequeueCondition.
Wakes ==
    \/ pc' = Woken(pc)
    \/ \E t \in Thread : pc' = Woken(Goto(t, "callback"))

\* The parts of WakeInv that are not about the slots.
Waiting == AlwaysAllocates /\ WaitsConnected /\ BlocksUnlessAsync

\* When a step keeps those parts.
LEMMA StillWaiting ==
    ASSUME TypeOK, Waiting, mAllowAllocation', UNCHANGED mConnectedApi,
           mDequeueBufferCannotBlock' => mDequeueBufferCannotBlock,
           \/ UNCHANGED pc \/ Wakes
           \/ \E t \in Thread, where \in PC \ {"dequeueAgain"} :
                 /\ pc' = Goto(t, where)
                 /\ where \in InWaitLoop => pc[t] \in InWaitLoop \/ Usable
    PROVE  Waiting'
<1>1. BlocksUnlessAsync'
  BY DEF Waiting, BlocksUnlessAsync
<1>2. \A u \in Thread : /\ pc'[u] # "dequeueAgain"
                        /\ pc'[u] \in InWaitLoop => pc[u] \in InWaitLoop \/ Usable
  <2>1. CASE UNCHANGED pc
    BY <2>1 DEF Waiting, AlwaysAllocates
  <2>2. CASE Wakes
    BY <2>2, WhereThreadsGo DEF Wakes, Waiting
  <2>3. ASSUME NEW t \in Thread, NEW where \in PC \ {"dequeueAgain"}, pc' = Goto(t, where),
               where \in InWaitLoop => pc[t] \in InWaitLoop \/ Usable
        PROVE  \A u \in Thread : /\ pc'[u] # "dequeueAgain"
                                 /\ pc'[u] \in InWaitLoop => pc[u] \in InWaitLoop \/ Usable
    <3>1. pc'[t] = where /\ \A u \in Thread : u # t => pc'[u] = pc[u]
      BY <2>3, WhereThreadsGo DEF Waiting
    <3> QED
      BY <2>3, <3>1 DEF Waiting, AlwaysAllocates
  <2> QED
    BY <2>1, <2>2, <2>3
<1>3. AlwaysAllocates'
  BY <1>2 DEF AlwaysAllocates
<1>4. WaitsConnected'
  BY <1>2 DEF WaitsConnected, Waiting, Usable
<1> QED
  BY <1>1, <1>3, <1>4 DEF Waiting

\* A dequeueBuffer that may allocate rejects no buffer and finds no NULL.
LEMMA NeverRejects ==
    ASSUME NothingShared, AlwaysAllocates, NEW t \in Thread
    PROVE  /\ ~dequeueDereferencesNull(t) /\ ~(\E s \in Slot : dequeueRejectsBuffer(t, s))
           /\ InDequeueLoop(t) => pc[t] = "dequeue" /\ MutexFree
<1>1. \A s \in Slot : ~DereferencesBuffer(s)
  BY DEF DereferencesBuffer, NothingShared, AlwaysAllocates, Slot, INVALID_BUFFER_SLOT
<1> QED
  BY <1>1 DEF dequeueDereferencesNull, dequeueRejectsBuffer, InDequeueLoop, AlwaysAllocates

\* The members that decide whether a thread must sleep, besides the slots.
sleepVars == <<mIsAbandoned, mConnectedApi, mBufferHasBeenQueued, mMaxAcquiredBufferCount,
               mMaxDequeuedBufferCount, mMaxBufferCount, mAsyncMode,
               mDequeueBufferCannotBlock, mAllowAllocation>>

\* The steps of a thread that leave these members alone.
LEMMA ThreadsWait ==
    ASSUME TypeOK, NothingShared, Waiting, NEW t \in Thread,
           Moves(t) \/ GivesUpFree(t) \/ \E b \in Buffer : Allocates(t, b)
    PROVE  /\ UNCHANGED sleepVars
           /\ \E where \in PC \ {"dequeueAgain"} :
                 /\ pc' = Goto(t, where)
                 /\ where \in InWaitLoop => pc[t] \in InWaitLoop \/ Usable
                 /\ where \in Asleep => /\ MustWait("dequeue") \/ MustWait("attach")
                                        /\ UNCHANGED <<slotVars, queueVars>>
           /\ UNCHANGED cpc /\ (cpc = "dropping" => queueBufferCallback(t))
<1> DEFINE P(where) == /\ pc' = Goto(t, where)
                       /\ where \in InWaitLoop => pc[t] \in InWaitLoop \/ Usable
                       /\ where \in Asleep => /\ MustWait("dequeue") \/ MustWait("attach")
                                              /\ UNCHANGED <<slotVars, queueVars>>
           Result == /\ UNCHANGED sleepVars /\ UNCHANGED cpc
                     /\ \E where \in PC \ {"dequeueAgain"} : P(where)
                     /\ cpc = "dropping" => queueBufferCallback(t)
<1> SUFFICES Result
  OBVIOUS
<1>0. /\ ~dequeueDereferencesNull(t) /\ ~(\E s \in Slot : dequeueRejectsBuffer(t, s))
      /\ InDequeueLoop(t) => pc[t] = "dequeue" /\ MutexFree
  BY NeverRejects DEF Waiting
<1>v. /\ MutexFree => cpc # "dropping"
      /\ UNCHANGED <<connectionVars, limitVars, queueVars, consumerVars>>
            => UNCHANGED sleepVars /\ UNCHANGED cpc
  BY DEF MutexFree, sleepVars, connectionVars, limitVars, queueVars, consumerVars
<1>p. \A w \in {"idle", "dequeue", "attachBlocked", "allocateBuffersAlloc", "allocateBuffers",
                "detachNextBlocked", "dequeueWait", "dequeueTimedWait", "attachWait",
                "attachTimedWait", "attach"} : w \in PC \ {"dequeueAgain"}
  BY DEF PC
<1>q. \A w \in {"idle", "allocateBuffersAlloc", "allocateBuffers", "detachNextBlocked"} :
          w \notin InWaitLoop /\ w \notin Asleep
  BY DEF InWaitLoop, Asleep
<1>1. CASE \/ waitTimesOut(t) \/ detachNextBufferBlocks(t) \/ detachNextBuffer(t)
           \/ queueBufferCallback(t) \/ \E b \in Buffer : dequeueAllocated(t, b)
  <2>1. UNCHANGED <<connectionVars, limitVars, queueVars, consumerVars>>
    BY <1>1 DEF waitTimesOut, detachNextBufferBlocks, detachNextBuffer, queueBufferCallback,
       dequeueAllocated
  <2>2. \E w \in {"idle", "detachNextBlocked"} : pc' = Goto(t, w)
    BY <1>1 DEF waitTimesOut, detachNextBufferBlocks, detachNextBuffer, queueBufferCallback,
       dequeueAllocated
  <2>3. MutexFree \/ queueBufferCallback(t)
    BY <1>1 DEF waitTimesOut, detachNextBufferBlocks, detachNextBuffer, dequeueAllocated
  <2> QED
    BY <1>v, <1>p, <1>q, <2>1, <2>2, <2>3
<1>2. CASE \/ allocateBuffers(t)
           \/ \E b \in Buffer, retry \in BOOLEAN : allocateBuffersAllocated(t, b, retry)
  <2>1. UNCHANGED <<connectionVars, limitVars, queueVars, consumerVars>> /\ MutexFree
    BY <1>2 DEF allocateBuffers, allocateBuffersAllocated
  <2>2. \E w \in {"idle", "allocateBuffersAlloc", "allocateBuffers"} : pc' = Goto(t, w)
    BY <1>2 DEF allocateBuffers, allocateBuffersAllocated
  <2> QED
    BY <1>v, <1>p, <1>q, <2>1, <2>2
<1>3. CASE dequeueBuffer(t) \/ attachBufferBlocks(t)
  <2>1. UNCHANGED <<connectionVars, limitVars, queueVars, consumerVars>> /\ MutexFree /\ Usable
    BY <1>3 DEF dequeueBuffer, attachBufferBlocks
  <2>2. \E w \in {"dequeue", "attachBlocked"} : pc' = Goto(t, w)
    BY <1>3 DEF dequeueBuffer, attachBufferBlocks
  <2>3. "dequeue" \notin Asleep /\ "attachBlocked" \notin Asleep
    BY DEF Asleep
  <2> QED
    BY <1>v, <1>p, <2>1, <2>2, <2>3
<1>4. CASE spuriousWakeup(t)
  <2>1. UNCHANGED <<connectionVars, limitVars, queueVars, consumerVars>> /\ MutexFree
    BY <1>4 DEF spuriousWakeup
  <2>2. /\ pc' = Goto(t, Woken(pc)[t]) /\ Woken(pc)[t] \in {"dequeue", "attach"}
        /\ pc[t] \in Asleep
    BY <1>4 DEF spuriousWakeup, Woken, Asleep
  <2>3. /\ "dequeue" \notin Asleep /\ "attach" \notin Asleep
        /\ Asleep \subseteq InWaitLoop
    BY DEF Asleep, InWaitLoop
  <2> QED
    BY <1>v, <1>p, <2>1, <2>2, <2>3
<1>5. ASSUME NEW caller \in {"dequeue", "attach"}, waitForFreeSlotThenRelock(t, caller),
             MutexFree, pc[t] \in InWaitLoop \/ Usable
      PROVE  Result
  <2>1. UNCHANGED <<connectionVars, limitVars, queueVars, consumerVars, slotVars>>
    BY <1>5 DEF waitForFreeSlotThenRelock
  <2>2. \/ pc' = Goto(t, "idle")
        \/ /\ MustWait(caller)
           /\ \E w \in {"dequeueTimedWait", "dequeueWait", "attachTimedWait", "attachWait"} :
                 pc' = Goto(t, w)
    BY <1>5 DEF waitForFreeSlotThenRelock
  <2> QED
    BY <1>v, <1>p, <1>q, <1>5, <2>1, <2>2
<1>6. CASE dequeueWaitsOrGivesUp(t)
  <2>1. waitForFreeSlotThenRelock(t, "dequeue") /\ MutexFree /\ pc[t] \in InWaitLoop
    BY <1>0, <1>6 DEF dequeueWaitsOrGivesUp, InWaitLoop
  <2> QED
    BY <1>5, <2>1
<1>7. CASE attachWaitsOrGivesUp(t)
  <2>1. /\ waitForFreeSlotThenRelock(t, "attach") /\ MutexFree
        /\ pc[t] \in InWaitLoop \/ Usable
    BY <1>7 DEF attachWaitsOrGivesUp, InAttachLoop, InWaitLoop
  <2> QED
    BY <1>5, <2>1
<1> HIDE DEF Result
<1> QED
  BY <1>0, <1>1, <1>2, <1>3, <1>4, <1>6, <1>7 DEF Moves, GivesUpFree, Allocates

\* Every step keeps the parts of WakeInv that are not about the slots.
LEMMA WaitingStep ==
    ASSUME TypeOK, PrivateCalls, AnnouncedCalls, SlotInv, Waiting, [Next]_vars
    PROVE  Waiting'
<1>0. NothingShared /\ ~AllocMayFail /\ "anySlot" \notin Ops /\ mAllowAllocation
  BY DEF SlotInv, PrivateCalls, Waiting, AlwaysAllocates
<1>1. ASSUME NEW t \in Thread, Moves(t) \/ GivesUpFree(t) \/ \E b \in Buffer : Allocates(t, b)
      PROVE  Waiting'
  <2>1. /\ UNCHANGED sleepVars
        /\ \E where \in PC \ {"dequeueAgain"} :
              /\ pc' = Goto(t, where)
              /\ where \in InWaitLoop => pc[t] \in InWaitLoop \/ Usable
    BY <1>0, <1>1, ThreadsWait
  <2>2. UNCHANGED <<mAllowAllocation, mConnectedApi, mDequeueBufferCannotBlock>>
    BY <2>1 DEF sleepVars
  <2> QED
    BY <1>0, <2>1, <2>2, StillWaiting
<1>2. ASSUME NEW t \in Thread, NEW s \in Slot, Takes(t, s) PROVE Waiting'
  <2>1. UNCHANGED <<mAllowAllocation, mConnectedApi, mDequeueBufferCannotBlock>>
    BY <1>2 DEF Takes, dequeueTakesSlot, attachBuffer, connectionVars, limitVars
  <2>2. \E where \in {"alloc", "idle"} : pc' = Goto(t, where)
    BY <1>2 DEF Takes, dequeueTakesSlot, attachBuffer
  <2>3. \A where \in {"alloc", "idle"} : where \in PC \ {"dequeueAgain"} /\ where \notin InWaitLoop
    BY DEF PC, InWaitLoop, Asleep
  <2> QED
    BY <1>0, <2>1, <2>2, <2>3, StillWaiting
<1>3. CASE \/ \E t \in Thread, s \in Slot : Queues(t, s)
           \/ \E s \in Slot : Detaches(s) \/ GivesBack(s)
           \/ Acquires \/ consumerDisconnect
  <2>1. Wakes
    BY <1>3 DEF Wakes, Queues, queueBuffer, Detaches, detachBuffer, consumerDetachBuffer,
       GivesBack, cancelBuffer, releaseBuffer, Acquires, acquireBuffer,
       acquireAfterDropping, AcquireFront, consumerDisconnect
  <2>2. UNCHANGED <<mAllowAllocation, mConnectedApi, mDequeueBufferCannotBlock>>
    BY <1>3 DEF Queues, queueBuffer, Detaches, detachBuffer, consumerDetachBuffer,
       GivesBack, cancelBuffer, releaseBuffer, Acquires, acquireBuffer,
       acquireAfterDropping, AcquireFront, consumerDisconnect, connectionVars, limitVars
  <2> QED
    BY <1>0, <2>1, <2>2, StillWaiting
<1>4. CASE "disconnect" \in Ops /\ disconnect
  <2>1. pc' = Woken(pc) /\ UNCHANGED <<mAllowAllocation, mDequeueBufferCannotBlock>>
    BY <1>4 DEF disconnect, limitVars
  <2>2. \A u \in Thread : pc'[u] # "dequeueAgain"
    BY <2>1, WhereThreadsGo DEF Waiting
  <2> QED
    BY <1>0, <1>4, <2>1, <2>2
       DEF Waiting, AlwaysAllocates, WaitsConnected, BlocksUnlessAsync
<1>5. CASE \/ Sets \/ dropFront \/ discardFreeBuffers
           \/ \E s \in Slot, b \in Buffer : consumerAttachBuffer(s, b)
  <2>1. UNCHANGED <<pc, mAllowAllocation, mConnectedApi, mDequeueBufferCannotBlock>>
    <3>1. CASE Sets
      BY <3>1 DEF AnnouncedCalls, Sets, requestBuffer, allowAllocation,
         setAutoRefresh, setSharedBufferMode, consumerConnect, acquireBufferTimed,
         presentLater, acquireSharedBufferBlocks, acquireSharedOutOfRange, vars,
         connectionVars, limitVars
    <3>2. CASE dropFront \/ discardFreeBuffers
      BY <3>2 DEF dropFront, discardFreeBuffers, connectionVars, limitVars
    <3>3. CASE \E s \in Slot, b \in Buffer : consumerAttachBuffer(s, b)
      BY <3>3 DEF consumerAttachBuffer, connectionVars, limitVars
    <3> QED
      BY <1>5, <3>1, <3>2, <3>3
  <2> QED
    BY <1>0, <2>1, StillWaiting
<1>6. CASE Limits
  <2>1. ASSUME NEW n \in 1 .. NUM_BUFFER_SLOTS,
               \/ setMaxDequeuedBufferCount(n) \/ setMaxAcquiredBufferCount(n)
               \/ setMaxBufferCount(n)
        PROVE  Waiting'
    <3>1. /\ UNCHANGED <<mAllowAllocation, mConnectedApi, mDequeueBufferCannotBlock>>
          /\ UNCHANGED pc \/ Wakes
      BY <2>1 DEF setMaxDequeuedBufferCount, setMaxAcquiredBufferCount, setMaxBufferCount,
         connectionVars, Wakes
    <3> QED
      BY <1>0, <3>1, StillWaiting
  <2>2. CASE setAsyncMode(~mAsyncMode)
    <3>1. Wakes /\ UNCHANGED <<mAllowAllocation, mConnectedApi, mDequeueBufferCannotBlock>>
      BY <2>2 DEF setAsyncMode, connectionVars, Wakes
    <3> QED
      BY <1>0, <3>1, StillWaiting
  <2>3. ASSUME NEW timed \in BOOLEAN, setDequeueTimeout(timed) PROVE Waiting'
    <3>1. /\ UNCHANGED <<pc, mAllowAllocation, mConnectedApi>>
          /\ mDequeueBufferCannotBlock' => mDequeueBufferCannotBlock
      BY <2>3 DEF setDequeueTimeout, connectionVars
    <3> QED
      BY <1>0, <3>1, StillWaiting
  <2>4. ASSUME NEW api \in Api \cup {UnknownApi}, NEW byApp \in ControlledByApp,
               connect(api, byApp)
        PROVE  Waiting'
    <3>1. /\ UNCHANGED pc /\ mAllowAllocation' /\ mConnectedApi = NO_CONNECTED_API
          /\ mDequeueBufferCannotBlock' => byApp
      BY <2>4 DEF connect
    <3>2. TRUE \notin ControlledByApp => ~byApp
      BY OpsAssumption
    <3> QED
      BY <3>1, <3>2 DEF Waiting, AlwaysAllocates, WaitsConnected, BlocksUnlessAsync
  <2> QED
    BY <1>6, <2>1, <2>2, <2>3, <2>4 DEF Limits
<1>7. ~acquireSharedBuffer /\ \A s \in Slot : ~queueBufferRejectsCrop(s)
  BY <1>0 DEF NothingShared, acquireSharedBuffer, sharedBufferAvailable,
     queueBufferRejectsCrop
<1> QED
  BY <1>0, <1>1, <1>2, <1>3, <1>4, <1>5, <1>6, <1>7, AllSteps

\* The steps that leave the sleeping threads with no slot to find.
LEMMA NothingForSleepers ==
    ASSUME Before, TypeOK', MustSleep, UNCHANGED sleepVars,
           \/ Quiet \/ HeadEmptied \/ Discarded \/ \E t \in Thread : Filled(t)
           \/ \E s \in Slot : \/ Preallocated(s)
                              \/ Taken(s) /\ mSlots'[s].mBufferState = ACQUIRED
    PROVE  MustSleep'
<1>0. /\ TypeOK /\ SlotTypeOK /\ QueueTypeOK /\ SlotsOK
      /\ FREE \notin {DEQUEUED, ACQUIRED} /\ DEQUEUED # ACQUIRED
  BY StatesDiffer DEF Before, TypeOK
<1>1. UNCHANGED mQueue
  BY DEF Quiet, HeadEmptied, Emptied, Discarded, Filled, Preallocated, Taken
<1>2. getMaxBufferCountLocked' = getMaxBufferCountLocked
  BY DEF sleepVars, getMaxBufferCountLocked, getMaxBufferCount
<1> DEFINE Owned == Dequeued' \subseteq Dequeued /\ Acquired \subseteq Acquired'
           NoneFree == mFreeSlots = {} /\ mFreeBuffers = <<>>
           Result == Owned /\ (NoneFree => NoneFree')
<1>c. \A s \in mFreeSlots \cup ToSet(mFreeBuffers) : mSlots[s].mBufferState = FREE
  BY <1>0 DEF SlotsOK, Contents
<1>3. Result
  <2>1. CASE Quiet
    BY <2>1 DEF Quiet, Same, Dequeued, Acquired, listVars
  <2>2. CASE HeadEmptied
    <3>1. mFreeBuffers # <<>> /\ mSlots[Head(mFreeBuffers)].mBufferState = FREE
      BY <1>0, <1>c, <2>2, WhereSlotsAre DEF HeadEmptied
    <3>2. Owned
      BY <1>0, <2>2, <3>1 DEF HeadEmptied, Emptied, Others, Same, Dequeued, Acquired
    <3> QED
      BY <3>1, <3>2
  <2>3. CASE Discarded
    <3>1. Owned
      BY <1>0, <1>c, <2>3 DEF Discarded, Same, Dequeued, Acquired
    <3>2. NoneFree => NoneFree'
      BY <2>3, EmptyList DEF Discarded
    <3> QED
      BY <3>1, <3>2
  <2>4. ASSUME NEW t \in Thread, Filled(t) PROVE Result
    BY <2>4 DEF Filled, Others, Same, Dequeued, Acquired, listVars
  <2>5. ASSUME NEW s \in Slot, Preallocated(s) PROVE Result
    <3>1. s \in mFreeSlots /\ mSlots[s].mBufferState = FREE
      BY <1>c, <2>5 DEF Preallocated
    <3>2. Owned
      BY <1>0, <2>5, <3>1 DEF Preallocated, Others, Same, Dequeued, Acquired
    <3> QED
      BY <3>1, <3>2
  <2>6. ASSUME NEW s \in Slot, Taken(s), mSlots'[s].mBufferState = ACQUIRED PROVE Result
    <3>1. Owned
      BY <1>0, <2>6 DEF Taken, Others, Same, Dequeued, Acquired
    <3>2. ~NoneFree
      BY <2>6 DEF Taken, FromFreeLists
    <3> QED
      BY <3>1, <3>2
  <2> HIDE DEF Result
  <2> QED
    BY <2>1, <2>2, <2>3, <2>4, <2>5, <2>6
<1>4. /\ UNCHANGED <<mIsAbandoned, mMaxDequeuedBufferCount, mMaxAcquiredBufferCount,
                     mBufferHasBeenQueued, mDequeueBufferCannotBlock, mAsyncMode>>
  BY DEF sleepVars
<1>5. getMaxBufferCountLocked' <= getMaxBufferCountLocked
  <2>1. getMaxBufferCountLocked \in Int
    BY <1>0, MaxBufferCountInt
  <2> QED
    BY <1>2, <2>1
<1> QED
  BY <1>0, <1>1, <1>3, <1>4, <1>5, StillAsleep

\* No slot comes into play when the number of slots does not grow.
LEMMA AdjustDown ==
    ASSUME Before, NEW delta \in Int, delta <= 0, adjustAvailableSlotsLocked(delta),
           UNCHANGED <<mQueue, outSlot, pc>>
    PROVE  /\ Dequeued' \subseteq Dequeued /\ Acquired \subseteq Acquired'
           /\ mFreeSlots = {} /\ mFreeBuffers = <<>> => mFreeSlots' = {} /\ mFreeBuffers' = <<>>
<1>0. /\ SlotTypeOK /\ SlotsOK /\ FREE \notin {DEQUEUED, ACQUIRED}
  BY StatesDiffer DEF Before, TypeOK
<1>1. Dequeued' \subseteq Dequeued /\ Acquired \subseteq Acquired'
  <2>1. CASE \E S \in SUBSET Slot : SlotsAdded(S)
    BY <2>1 DEF SlotsAdded, Same, Dequeued, Acquired
  <2>2. ASSUME NEW S \in SUBSET Slot, NEW k \in Nat, SlotsRemoved(S, k)
        PROVE  Dequeued' \subseteq Dequeued /\ Acquired \subseteq Acquired'
    <3>1. S \subseteq mFreeSlots /\ LastFree(k) \subseteq ToSet(mFreeBuffers)
      BY <1>0, <2>2, ListFront DEF SlotsRemoved, LastFree, SlotTypeOK, SlotsOK, Lists
    <3>2. \A r \in S \cup LastFree(k) :
              mSlots[r].mBufferState = FREE /\ mSlots'[r].mBufferState = FREE
      BY <1>0, <2>2, <3>1 DEF SlotsRemoved, SlotsOK, Contents
    <3>3. \A r \in Slot \ (S \cup LastFree(k)) : Same(r)
      BY <2>2 DEF SlotsRemoved
    <3> QED
      BY <1>0, <3>2, <3>3 DEF Same, Dequeued, Acquired
  <2> QED
    BY <2>1, <2>2, AdjustStep
<1>2. ASSUME mFreeSlots = {}, mFreeBuffers = <<>>
      PROVE  mFreeSlots' = {} /\ mFreeBuffers' = <<>>
  <2>1. CASE delta < 0
    <3>1. -delta <= Cardinality(mFreeSlots) + Len(mFreeBuffers)
      BY <2>1 DEF adjustAvailableSlotsLocked, FewerSlots
    <3>2. Cardinality(mFreeSlots) = 0 /\ Len(mFreeBuffers) = 0
      BY <1>2, FS_EmptySet
    <3> QED
      BY <2>1, <3>1, <3>2
  <2>2. CASE delta = 0
    <3>1. PICK S \in SUBSET mUnusedSlots :
              /\ Cardinality(S) = 0 /\ mFreeSlots' = mFreeSlots \cup S
              /\ UNCHANGED mFreeBuffers
      BY <2>2 DEF adjustAvailableSlotsLocked, MoreSlots
    <3>2. IsFiniteSet(Slot)
      BY CoreAssumption, FS_Interval DEF Slot
    <3>3. S \subseteq Slot
      BY <1>0 DEF SlotTypeOK
    <3>4. IsFiniteSet(S)
      BY <3>2, <3>3, FS_Subset
    <3>5. S = {}
      BY <3>1, <3>4, FS_EmptySet
    <3> QED
      BY <1>2, <3>1, <3>5
  <2> QED
    BY <2>1, <2>2
<1> QED
  BY <1>1, <1>2

\* A call that changes the limits wakes the sleeping threads or gives them nothing.
LEMMA LimitsAndSleepers ==
    ASSUME Before, TypeOK', AnnouncedCalls, Waiting, Sleeping, MustSleep, Limits
    PROVE  MustSleep' \/ Wakes
<1>0. TypeOK
  BY DEF Before
<1>1. "disconnect" \notin Ops => mConnectedApi # NO_CONNECTED_API
  BY DEF Sleeping, Asleep, InWaitLoop, Waiting, WaitsConnected
<1>2. ASSUME NEW n \in 1 .. NUM_BUFFER_SLOTS, "setMaxBufferCount" \in Ops, setMaxBufferCount(n)
      PROVE  FALSE
  BY <1>1, <1>2 DEF setMaxBufferCount, AnnouncedCalls
<1>3. ASSUME (\E n \in 1 .. NUM_BUFFER_SLOTS : setMaxDequeuedBufferCount(n))
                 \/ setAsyncMode(~mAsyncMode)
      PROVE  Wakes
  BY <1>3 DEF setMaxDequeuedBufferCount, setAsyncMode, Wakes
<1>4. ASSUME UNCHANGED <<mIsAbandoned, mMaxDequeuedBufferCount, mMaxAcquiredBufferCount,
                         mMaxBufferCount, mAsyncMode, mQueue, outSlot, pc>>,
             mBufferHasBeenQueued' => mBufferHasBeenQueued,
             mDequeueBufferCannotBlock' = FALSE,
             adjustAvailableSlotsLocked(getMaxBufferCount(mAsyncMode, FALSE, mMaxBufferCount)
                                            - getMaxBufferCountLocked)
      PROVE  MustSleep'
  <2>1. PICK g \in Int, g2 \in Int :
            g = getMaxBufferCountLocked /\ g2 = getMaxBufferCountLocked'
    <3>1. (getMaxBufferCountLocked \in Int)'
      BY MaxBufferCountInt, PTL
    <3> QED
      BY <1>0, <3>1, MaxBufferCountInt
  <2>2. g2 = getMaxBufferCount(mAsyncMode, FALSE, mMaxBufferCount)
    BY <1>4, <2>1 DEF getMaxBufferCountLocked, getMaxBufferCount
  <2>3. g2 <= g
    <3>1. PICK e \in {0, 1}, e2 \in {0, 1} :
              /\ e = ExtraBuffer(mAsyncMode, mDequeueBufferCannotBlock)
              /\ e2 = ExtraBuffer(mAsyncMode, FALSE)
      BY DEF ExtraBuffer
    <3>2. e2 <= e
      BY <3>1 DEF ExtraBuffer
    <3>3. PICK c \in Int, m \in Int :
              c = mMaxAcquiredBufferCount + mMaxDequeuedBufferCount /\ m = mMaxBufferCount
      BY <1>0 DEF TypeOK, LimitTypeOK
    <3>4. /\ g = (IF m < c + e THEN m ELSE c + e)
          /\ g2 = (IF m < c + e2 THEN m ELSE c + e2)
      BY <2>1, <2>2, <3>1, <3>3 DEF getMaxBufferCountLocked, getMaxBufferCount
    <3> QED
      BY <3>2, <3>4
  <2>4. g2 - g \in Int /\ g2 - g <= 0
    BY <2>3
  <2>5. adjustAvailableSlotsLocked(g2 - g)
    BY <1>4, <2>1, <2>2
  <2>6. /\ Dequeued' \subseteq Dequeued /\ Acquired \subseteq Acquired'
        /\ mFreeSlots = {} /\ mFreeBuffers = <<>> => mFreeSlots' = {} /\ mFreeBuffers' = <<>>
    BY <1>4, <2>4, <2>5, AdjustDown
  <2>7. getMaxBufferCountLocked' <= getMaxBufferCountLocked
    BY <2>1, <2>3
  <2>8. Len(mQueue') = Len(mQueue)
    BY <1>4
  <2>9. mDequeueBufferCannotBlock' \/ mAsyncMode' => mDequeueBufferCannotBlock \/ mAsyncMode
    BY <1>4
  <2> QED
    BY <1>0, <1>4, <2>6, <2>7, <2>8, <2>9, StillAsleep
<1>5. ASSUME NEW timed \in BOOLEAN, setDequeueTimeout(timed) PROVE MustSleep'
  BY <1>4, <1>5 DEF setDequeueTimeout, queueVars, connectionVars, localVars
<1>6. ASSUME NEW api \in Api \cup {UnknownApi}, NEW byApp \in ControlledByApp,
             connect(api, byApp)
      PROVE  MustSleep'
  <2>1. "disconnect" \in Ops
    BY <1>1, <1>6 DEF connect
  <2>2. byApp = FALSE
    BY <2>1, OpsAssumption DEF AnnouncedCalls
  <2>3. /\ mDequeueBufferCannotBlock' = FALSE
        /\ adjustAvailableSlotsLocked(getMaxBufferCount(mAsyncMode, FALSE, mMaxBufferCount)
                                          - getMaxBufferCountLocked)
    <3> DEFINE cannotBlock == ~mDequeueTimeout /\ mConsumerControlledByApp /\ byApp
    <3>1. /\ mDequeueBufferCannotBlock' = cannotBlock
          /\ adjustAvailableSlotsLocked(
                 getMaxBufferCount(mAsyncMode, cannotBlock, mMaxBufferCount)
                     - getMaxBufferCountLocked)
      BY <1>6 DEF connect
    <3>2. cannotBlock = FALSE
      BY <2>2
    <3> HIDE DEF cannotBlock
    <3> QED
      BY <3>1, <3>2
  <2>4. /\ UNCHANGED <<mIsAbandoned, mMaxDequeuedBufferCount, mMaxAcquiredBufferCount,
                       mMaxBufferCount, mAsyncMode, mQueue, outSlot, pc>>
        /\ mBufferHasBeenQueued' => mBufferHasBeenQueued
    BY <1>6 DEF connect, localVars
  <2> QED
    BY <1>4, <2>3, <2>4
<1>7. "setMaxAcquiredBufferCount" \notin Ops
  BY DEF AnnouncedCalls
<1> QED
  BY <1>2, <1>3, <1>5, <1>6, <1>7 DEF Limits

\* Once a frame was dropped, acquireBuffer returns the frame that made it drop it.
LEMMA DropsForOne ==
    ASSUME TypeOK, dropFront
    PROVE  WillWake'
<1>1. /\ mQueue \in Seq(BufferItem) /\ Len(mQueue) > 1 /\ mQueue' = Tail(mQueue)
      /\ UNCHANGED <<cpc, acquireArgs>> /\ cpc = "dropping" /\ DropsFront
  BY DEF dropFront, DropsFront, TypeOK, QueueTypeOK, consumerVars
<1>2. Head(mQueue') = mQueue[2] /\ mQueue[2] \in BufferItem
  BY <1>1
<1>3. /\ mQueue[2].mTimestamp <= acquireArgs.expectedPresent
      /\ \/ acquireArgs.maxFrameNumber = 0
         \/ mQueue[2].mFrameNumber <= acquireArgs.maxFrameNumber
  BY <1>1 DEF DropsFront
<1>4. acquireArgs.maxFrameNumber \in Nat
  BY DEF TypeOK, ConsumerTypeOK
<1>5. bufferIsDue'
  BY <1>1, <1>2, <1>3 DEF bufferIsDue
<1>6. consumerIsReady'
  BY <1>1, <1>2, <1>3, <1>4 DEF consumerIsReady
<1> QED
  BY <1>1, <1>5, <1>6 DEF WillWake

\* While acquireBuffer is in its drop loop nobody else gets mMutex.
LEMMA LoopKeepsMutex ==
    ASSUME TypeOK, PrivateCalls, SlotInv, Waiting, WillWake, [Next]_vars
    PROVE  WillWake' \/ Wakes
<1>0. /\ cpc = "dropping" /\ ~MutexFree /\ NothingShared /\ ~AllocMayFail /\ "anySlot" \notin Ops
      /\ bufferIsDue /\ consumerIsReady
  BY DEF WillWake, MutexFree, SlotInv, PrivateCalls
<1>k. ASSUME UNCHANGED <<mQueue, cpc, acquireArgs>> PROVE WillWake'
  BY <1>k DEF WillWake, bufferIsDue, consumerIsReady
<1>1. ASSUME NEW t \in Thread, Moves(t) \/ GivesUpFree(t) \/ \E b \in Buffer : Allocates(t, b)
      PROVE  WillWake'
  <2>1. queueBufferCallback(t)
    BY <1>0, <1>1, ThreadsWait
  <2> QED
    BY <1>k, <2>1 DEF queueBufferCallback, queueVars, consumerVars
<1>2. ASSUME NEW t \in Thread, NEW s \in Slot, Takes(t, s) \/ Queues(t, s) PROVE FALSE
  <2>1. InDequeueLoop(t) => MutexFree
    BY <1>0, NeverRejects DEF Waiting
  <2> QED
    BY <1>0, <1>2, <2>1 DEF Takes, Queues, dequeueTakesSlot, attachBuffer, InAttachLoop,
       queueBuffer
<1>3. ASSUME \/ \E s \in Slot : Detaches(s) \/ GivesBack(s) \/ queueBufferRejectsCrop(s)
             \/ disconnect \/ consumerDisconnect \/ discardFreeBuffers \/ Limits
             \/ \E s \in Slot, b \in Buffer : consumerAttachBuffer(s, b)
      PROVE  FALSE
  <2>1. CASE Limits
    BY <1>0, <2>1 DEF Limits, setMaxDequeuedBufferCount, setMaxAcquiredBufferCount,
       setMaxBufferCount, setAsyncMode, setDequeueTimeout, connect
  <2> QED
    BY <1>0, <1>3, <2>1 DEF Detaches, GivesBack, detachBuffer, consumerDetachBuffer,
       cancelBuffer, releaseBuffer, queueBufferRejectsCrop, disconnect, consumerDisconnect,
       discardFreeBuffers, consumerAttachBuffer
<1>4. CASE dropFront
  BY <1>4, DropsForOne
<1>5. CASE Acquires
  BY <1>5 DEF Acquires, acquireBuffer, acquireAfterDropping, AcquireFront, Wakes
<1>6. CASE Sets
  <2>1. UNCHANGED vars
    BY <1>0, <1>6 DEF Sets, requestBuffer, allowAllocation, setAutoRefresh,
       setSharedBufferMode, consumerConnect, acquireBufferTimed, presentLater,
       acquireSharedBufferBlocks, acquireSharedOutOfRange
  <2> QED
    BY <1>k, <2>1 DEF vars, queueVars, consumerVars
<1>7. ~acquireSharedBuffer
  BY <1>0 DEF acquireSharedBuffer
<1> QED
  BY <1>0, <1>1, <1>2, <1>3, <1>4, <1>5, <1>6, <1>7, AllSteps

\* A step that wakes nobody leaves the sleeping threads with nothing to find.
LEMMA SleepersStep ==
    ASSUME TypeOK, TypeOK', PrivateCalls, AnnouncedCalls, SlotInv, Waiting, Sleeping,
           MustSleep, [Next]_vars
    PROVE  MustSleep' \/ WillWake' \/ Wakes
<1>0. /\ NothingShared /\ ~AllocMayFail /\ "anySlot" \notin Ops /\ ~mIsAbandoned /\ mAllowAllocation
      /\ Before
  BY DEF SlotInv, SlotsOK, Before, PrivateCalls, MustSleep, Waiting, AlwaysAllocates
<1>1. ASSUME NEW t \in Thread, Moves(t) \/ GivesUpFree(t) \/ \E b \in Buffer : Allocates(t, b)
      PROVE  MustSleep'
  <2>1. UNCHANGED sleepVars
    BY <1>0, <1>1, ThreadsWait
  <2>2. CASE Moves(t)
    BY <1>0, <2>1, <2>2, MovingSteps, NothingForSleepers
  <2>3. CASE GivesUpFree(t)
    <3>1. Quiet \/ HeadEmptied
      BY <1>0, <2>3, GiveUpFreeBuffer DEF GivesUpFree
    <3> QED
      BY <1>0, <2>1, <3>1, NothingForSleepers
  <2>4. ASSUME NEW b \in Buffer, Allocates(t, b) PROVE MustSleep'
    <3>1. Quiet \/ Filled(t) \/ \E s \in Slot : Preallocated(s)
      BY <1>0, <2>4, AllocatedStep DEF Allocates
    <3> QED
      BY <1>0, <2>1, <3>1, NothingForSleepers
  <2> QED
    BY <1>1, <2>2, <2>3, <2>4
<1>2. ASSUME NEW t \in Thread, NEW s \in Slot, Takes(t, s) PROVE FALSE
  <2>1. Finds("dequeue", s) \/ Finds("attach", s)
    BY <1>2 DEF Takes, dequeueTakesSlot, attachBuffer
  <2> QED
    BY <1>0, <2>1, FoundIsAwake
<1>3. ASSUME \/ \E t \in Thread, s \in Slot : Queues(t, s)
             \/ \E s \in Slot : Detaches(s) \/ GivesBack(s)
             \/ Acquires \/ consumerDisconnect \/ disconnect
      PROVE  Wakes
  BY <1>3 DEF Wakes, Queues, queueBuffer, Detaches, detachBuffer, consumerDetachBuffer,
     GivesBack, cancelBuffer, releaseBuffer, Acquires, acquireBuffer,
     acquireAfterDropping, AcquireFront, consumerDisconnect, disconnect
<1>4. ASSUME Sets PROVE MustSleep'
  <2>1. UNCHANGED sleepVars
    BY <1>4 DEF AnnouncedCalls, Sets, requestBuffer, allowAllocation,
         setAutoRefresh, setSharedBufferMode, consumerConnect, acquireBufferTimed,
         presentLater, acquireSharedBufferBlocks, acquireSharedOutOfRange, vars,
         connectionVars, limitVars, queueVars, sleepVars
  <2> QED
    BY <1>0, <1>4, <2>1, SettingSteps, NothingForSleepers
<1>5. ASSUME discardFreeBuffers PROVE MustSleep'
  <2>1. UNCHANGED sleepVars
    BY <1>5 DEF discardFreeBuffers, connectionVars, limitVars, queueVars, sleepVars
  <2> QED
    BY <1>0, <1>5, <2>1, DiscardStep, NothingForSleepers
<1>6. ASSUME NEW s \in Slot, NEW b \in Buffer, consumerAttachBuffer(s, b) PROVE MustSleep'
  <2>1. UNCHANGED sleepVars
    BY <1>6 DEF consumerAttachBuffer, connectionVars, limitVars, queueVars, sleepVars
  <2> QED
    BY <1>0, <1>6, <2>1, AttachTakes, NothingForSleepers
<1>7. ASSUME Limits PROVE MustSleep' \/ Wakes
  BY <1>0, <1>7, LimitsAndSleepers
<1>8. ASSUME dropFront PROVE WillWake'
  BY <1>8, DropsForOne
<1>9. ~acquireSharedBuffer /\ \A s \in Slot : ~queueBufferRejectsCrop(s)
  BY <1>0 DEF NothingShared, acquireSharedBuffer, sharedBufferAvailable,
     queueBufferRejectsCrop
<1> QED
  BY <1>0, <1>1, <1>2, <1>3, <1>4, <1>5, <1>6, <1>7, <1>8, <1>9, AllSteps

\* A thread falls asleep only when it must.
LEMMA FallsAsleep ==
    ASSUME TypeOK, PrivateCalls, SlotInv, Waiting, ~Sleeping, Sleeping', [Next]_vars
    PROVE  MustSleep'
<1>0. NothingShared /\ ~AllocMayFail /\ "anySlot" \notin Ops /\ mAllowAllocation /\ AlwaysAllocates
  BY DEF SlotInv, PrivateCalls, Waiting, AlwaysAllocates
<1>1. PICK u \in Thread : pc'[u] \in Asleep /\ pc[u] \notin Asleep
  BY DEF Sleeping
<1>2. ~UNCHANGED pc /\ ~Wakes
  BY <1>0, <1>1, WhereThreadsGo DEF Wakes
<1>3. ASSUME NEW t \in Thread, Moves(t) \/ GivesUpFree(t) \/ \E b \in Buffer : Allocates(t, b)
      PROVE  MustSleep'
  <2>1. PICK where \in PC \ {"dequeueAgain"} :
            /\ pc' = Goto(t, where)
            /\ where \in Asleep => /\ MustWait("dequeue") \/ MustWait("attach")
                                   /\ UNCHANGED <<slotVars, queueVars>>
    BY <1>0, <1>3, ThreadsWait
  <2>2. where \in Asleep
    BY <1>0, <1>1, <2>1, WhereThreadsGo
  <2>3. MustSleep /\ UNCHANGED <<slotVars, queueVars>>
    BY <1>0, <2>1, <2>2, MustWaitIs
  <2>4. UNCHANGED sleepVars
    BY <1>0, <1>3, ThreadsWait
  <2>5. /\ UNCHANGED <<Dequeued, Acquired, mQueue, mFreeSlots, mFreeBuffers>>
        /\ getMaxBufferCountLocked' = getMaxBufferCountLocked
    BY <2>3, <2>4 DEF slotVars, listVars, queueVars, sleepVars, Dequeued, Acquired,
       getMaxBufferCountLocked, getMaxBufferCount
  <2> QED
    BY <2>3, <2>4, <2>5 DEF MustSleep, sleepVars
<1>4. ASSUME NEW t \in Thread, NEW s \in Slot, Takes(t, s) PROVE FALSE
  <2>1. \E where \in {"alloc", "idle"} : pc' = Goto(t, where)
    BY <1>4 DEF Takes, dequeueTakesSlot, attachBuffer
  <2>2. \A where \in {"alloc", "idle"} : where \in PC /\ where \notin Asleep
    BY DEF PC, Asleep
  <2> QED
    BY <1>0, <1>1, <2>1, <2>2, WhereThreadsGo
<1>5. UNCHANGED pc \/ Wakes
      \/ \E t \in Thread : \/ Moves(t) \/ GivesUpFree(t)
                           \/ \E s \in Slot : Takes(t, s)
                           \/ \E b \in Buffer : Allocates(t, b)
  <2>1. CASE Sets
    BY <2>1 DEF Sets, requestBuffer, allowAllocation, setAutoRefresh, setSharedBufferMode,
       consumerConnect, acquireBufferTimed, presentLater, acquireSharedBufferBlocks,
       acquireSharedOutOfRange, vars
  <2>2. CASE Limits
    BY <2>2, LimitsStep DEF Wakes
  <2>3. CASE Acquires \/ acquireSharedBuffer \/ dropFront \/ discardFreeBuffers
    BY <2>3 DEF Acquires, acquireBuffer, acquireAfterDropping, AcquireFront, Wakes,
       acquireSharedBuffer, dropFront, discardFreeBuffers
  <2>4. CASE disconnect \/ consumerDisconnect
    BY <2>4 DEF disconnect, consumerDisconnect, Wakes
  <2>5. ASSUME NEW t \in Thread, NEW s \in Slot, Queues(t, s) PROVE Wakes
    BY <2>5 DEF Queues, queueBuffer, Wakes
  <2>6. ASSUME NEW s \in Slot, Detaches(s) \/ GivesBack(s) \/ queueBufferRejectsCrop(s)
        PROVE  UNCHANGED pc \/ Wakes
    BY <2>6 DEF Detaches, GivesBack, detachBuffer, consumerDetachBuffer, cancelBuffer,
       releaseBuffer, queueBufferRejectsCrop, Wakes
  <2>7. ASSUME NEW s \in Slot, NEW b \in Buffer, consumerAttachBuffer(s, b)
        PROVE  UNCHANGED pc
    BY <2>7 DEF consumerAttachBuffer
  <2> QED
    BY <1>0, <2>1, <2>2, <2>3, <2>4, <2>5, <2>6, <2>7, AllSteps
<1> QED
  BY <1>2, <1>3, <1>4, <1>5

\* Every step preserves WakeInv.
LEMMA WakeInvStep ==
    ASSUME TypeOK, TypeOK', PrivateCalls, AnnouncedCalls, SlotInv, WakeInv, [Next]_vars
    PROVE  WakeInv'
<1>0. Waiting /\ AlwaysAllocates /\ (Sleeping => MustSleep \/ WillWake)
  BY DEF WakeInv, Waiting
<1>1. Waiting'
  BY <1>0, WaitingStep
<1>2. ASSUME Sleeping' PROVE MustSleep' \/ WillWake'
  <2>1. ~Wakes
    BY <1>0, <1>2, WhereThreadsGo DEF Wakes, Sleeping
  <2>2. CASE ~Sleeping
    BY <1>0, <1>2, <2>2, FallsAsleep
  <2>3. CASE Sleeping /\ MustSleep
    BY <1>0, <2>1, <2>3, SleepersStep
  <2>4. CASE WillWake
    BY <1>0, <2>1, <2>4, LoopKeepsMutex
  <2> QED
    BY <1>0, <2>2, <2>3, <2>4
<1> QED
  BY <1>1, <1>2 DEF WakeInv, Waiting

\* No thread sleeps on mDequeueCondition although it could go on: every change
\* that makes a slot available to it, or makes its call fail, is followed by a
\* broadcast before mMutex is free.  The frames that acquireBuffer drops are
\* announced by the frame it returns.
THEOREM SleepersAreWoken == PrivateCalls /\ AnnouncedCalls => (Spec => []NoMissedWakeup)
<1> SUFFICES ASSUME PrivateCalls, AnnouncedCalls PROVE Spec => []NoMissedWakeup
  OBVIOUS
<1>1. Init => WakeInv
  BY DEF Init, WakeInv, AlwaysAllocates, WaitsConnected, BlocksUnlessAsync, Sleeping,
     InWaitLoop, Asleep
<1>2. TypeOK /\ TypeOK' /\ SlotInv /\ WakeInv /\ [Next]_vars => WakeInv'
  BY WakeInvStep
<1>3. TypeOK /\ SlotInv /\ WakeInv => NoMissedWakeup
  <2> SUFFICES ASSUME TypeOK, SlotInv, WakeInv, MutexFree, NEW t \in Thread, pc[t] \in Asleep
               PROVE  MustWait("dequeue") /\ MustWait("attach")
    BY DEF NoMissedWakeup, Asleep
  <2>1. MustSleep
    BY DEF WakeInv, Sleeping, WillWake, MutexFree
  <2> QED
    BY <2>1, MustWaitIs DEF WakeInv, AlwaysAllocates
<1> QED
  BY <1>1, <1>2, <1>3, SlotInvHolds, TypeCorrect, PTL DEF Spec
=============================================================================
