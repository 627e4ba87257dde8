------------------------------- MODULE Layer -------------------------------
(***************************************************************************)
(* A layer of SurfaceFlinger, Layer.cpp and BufferLayer.cpp: the states    *)
(* its clients set, those that wait for a frame of another layer, the sync *)
(* points the two layers share, and the frames that are latched.           *)
(*                                                                         *)
(* A state is its version, the number of changes that led to it, and       *)
(* whether it hides the layer.  Children, geometry and resizing are left   *)
(* out.                                                                    *)
(***************************************************************************)
EXTENDS Naturals, Sequences, SequencesExt

CONSTANTS Layers,    \* the layers, which are numbered from back to front
          BufferLayers, \* those that are BufferLayers and get frames
          MaxFrame   \* bound: frames that each of them gets

ASSUME LayerAssumption ==
    /\ Layers \subseteq Nat \ {0} /\ Layers # {}
    /\ BufferLayers \subseteq Layers /\ MaxFrame \in Nat

\* The null barrierLayer.
NoLayer == 0

VARIABLES
    \* [current, drawing, pending, remote] of each layer: mCurrentState,
    \* mDrawingState, mPendingStates, mRemoteSyncPoints
    layer,
    \* All SyncPoints ever made.  The lists name them by their index; those in
    \* the list of a layer's local points are in the order of their index
    mLocalSyncPoints, syncPoint,
    \* Layers with eTransactionNeeded in their mTransactionFlags
    mTransactionFlags,
    \* Frames: the queue of the layer's BufferQueue, SurfaceFlinger's shadow copy
    \* of it, the frames that were queued as droppable, the last frame received,
    \* the last one whose acquire fence has signaled, the last latched frame, and
    \* whether it waits for composition
    mQueue, mQueueItems, droppable, mLastFrameNumberReceived, signaled,
    mCurrentFrameNumber, mRefreshPending,
    \* "live"; "removing", gone from SurfaceFlinger's current state; "removed",
    \* gone from its drawing state; "dead", destroyed
    life

stateVars == <<layer, mLocalSyncPoints, syncPoint, mTransactionFlags, life>>
frameVars == <<mQueue, mQueueItems, droppable, mLastFrameNumberReceived, signaled,
               mCurrentFrameNumber, mRefreshPending>>

Version == Nat
PendingState == [version : Version, hidden : BOOLEAN,
                 barrierLayer : Layers \cup {NoLayer}, frameNumber : Nat]

LayerTypeOK ==
    /\ layer \in [Layers ->
            [current : [version : Version, hidden : BOOLEAN, modified : BOOLEAN],
             drawing : [version : Version, hidden : BOOLEAN],
             pending : Seq(PendingState), remote : Seq(DOMAIN syncPoint)]]
    /\ mLocalSyncPoints \in [Layers -> SUBSET DOMAIN syncPoint]
    /\ syncPoint \in Seq([of : Layers, by : Layers, frameNumber : Nat,
                          available : BOOLEAN, applied : BOOLEAN])
    /\ mTransactionFlags \subseteq Layers
    /\ mQueue \in [Layers -> Seq(1 .. MaxFrame)]
    /\ mQueueItems \in [Layers -> Seq(1 .. MaxFrame)]
    /\ droppable \in [Layers -> SUBSET (1 .. MaxFrame)]
    /\ mLastFrameNumberReceived \in [Layers -> 0 .. MaxFrame]
    /\ signaled \in [Layers -> 0 .. MaxFrame]
    /\ mCurrentFrameNumber \in [Layers -> 0 .. MaxFrame]
    /\ mRefreshPending \subseteq Layers
    /\ life \in [Layers -> {"live", "removing", "removed", "dead"}]

LayerInit ==
    /\ layer = [l \in Layers |->
            [current |-> [version |-> 0, hidden |-> FALSE, modified |-> FALSE],
             drawing |-> [version |-> 0, hidden |-> FALSE],
             pending |-> <<>>, remote |-> <<>>]]
    /\ mLocalSyncPoints = [l \in Layers |-> {}]
    /\ syncPoint = <<>> /\ mTransactionFlags = {}
    /\ mQueue = [l \in Layers |-> <<>>] /\ mQueueItems = [l \in Layers |-> <<>>]
    /\ droppable = [l \in Layers |-> {}]
    /\ mLastFrameNumberReceived = [l \in Layers |-> 0]
    /\ signaled = [l \in Layers |-> 0]
    /\ mCurrentFrameNumber = [l \in Layers |-> 0]
    /\ mRefreshPending = {} /\ life = [l \in Layers |-> "live"]

-----------------------------------------------------------------------------
(* The frames of a layer                                                   *)

getHeadFrameNumber(l) ==
    IF mQueueItems[l] # <<>> THEN Head(mQueueItems[l]) ELSE mCurrentFrameNumber[l]

\* A droppable frame is taken with its fence pending: it might be replaced again
\* and again before its fence signals.
headFenceHasSignaled(l) ==
    mQueueItems[l] # <<>> =>
        Head(mQueueItems[l]) \in droppable[l] \/ Head(mQueueItems[l]) <= signaled[l]

\* The acquire fence of the next frame signals.
fenceSignals(l) ==
    /\ signaled[l] < mLastFrameNumberReceived[l]
    /\ signaled' = [signaled EXCEPT ![l] = @ + 1]
    /\ UNCHANGED <<stateVars, mQueue, mQueueItems, droppable,
                   mLastFrameNumberReceived, mCurrentFrameNumber, mRefreshPending>>

NewFrame(l) == mLastFrameNumberReceived[l] + 1

\* The producer's queueBuffer works until the layer is removed from the drawing
\* state.  Its callback comes with it: updateTexImage takes no frame for which
\* the callback has not run.
Receives(l, isDroppable) ==
    /\ l \in BufferLayers /\ life[l] \in {"live", "removing"}
    /\ NewFrame(l) <= MaxFrame
    /\ mLastFrameNumberReceived' = [mLastFrameNumberReceived EXCEPT ![l] = NewFrame(l)]
    /\ droppable' = [droppable EXCEPT ![l] = IF isDroppable THEN @ \cup {NewFrame(l)}
                                                            ELSE @]
    /\ UNCHANGED <<stateVars, signaled, mCurrentFrameNumber, mRefreshPending>>

\* A droppable frame at the end of the queue is replaced.
Replaces(l) == mQueue[l] # <<>> /\ Last(mQueue[l]) \in droppable[l]

onFrameAvailable(l, isDroppable) ==
    /\ Receives(l, isDroppable)
    /\ ~Replaces(l)
    /\ mQueue' = [mQueue EXCEPT ![l] = Append(@, NewFrame(l))]
    /\ mQueueItems' = [mQueueItems EXCEPT ![l] = Append(@, NewFrame(l))]

\* Faulty variant: the replaced frame stays in the shadow copy.
onFrameReplacedKeepsItem(l, isDroppable) ==
    /\ Receives(l, isDroppable)
    /\ Replaces(l)
    /\ mQueue' = [mQueue EXCEPT ![l] = Append(Front(@), NewFrame(l))]
    /\ UNCHANGED mQueueItems

\* mQueueItems is not empty when mQueue is not (ShadowHoldsQueue).
onFrameReplaced(l, isDroppable) ==
    /\ Receives(l, isDroppable)
    /\ Replaces(l) /\ mQueueItems[l] # <<>>
    /\ mQueue' = [mQueue EXCEPT ![l] = Append(Front(@), NewFrame(l))]
    /\ mQueueItems' = [mQueueItems EXCEPT ![l] = Append(Front(@), NewFrame(l))]

-----------------------------------------------------------------------------
(* Sync points                                                             *)

SetAvailable(points, which) ==
    [i \in DOMAIN points |->
        [points[i] EXCEPT !.available = @ \/ i \in which]]

SetApplied(points, which) ==
    [i \in DOMAIN points |->
        [points[i] EXCEPT !.applied = @ \/ i \in which]]

\* Faulty variant: the head of the queue is taken for the frame that is waited
\* for.
ReachedAnyFrame(l) == {i \in mLocalSyncPoints[l] : mQueueItems[l] # <<>>}

\* The points of l that notifyAvailableFrames makes available.
ReachedPoints(l) ==
    {i \in mLocalSyncPoints[l] :
        /\ syncPoint[i].frameNumber <= getHeadFrameNumber(l)
        /\ headFenceHasSignaled(l)}

\* Faulty variant: every point whose frame has come is looked at.
AllMatchingPoints(l) ==
    {p \in mLocalSyncPoints[l] :
        syncPoint[p].frameNumber <= getHeadFrameNumber(l)}

\* The points that allTransactionsSignaled looks at: those before the first one
\* whose frame is not at the head yet.
MatchingPoints(l) ==
    {p \in mLocalSyncPoints[l] :
        \A q \in mLocalSyncPoints[l] :
            q <= p => syncPoint[q].frameNumber <= getHeadFrameNumber(l)}

\* allTransactionsSignaled tells at most one more layer that its frame is here,
\* and the frame may be latched when every layer has applied its transaction.
allTransactionsSignaled(l) ==
    \A p \in MatchingPoints(l) :
        syncPoint[p].available /\ syncPoint[p].applied

NotifiedPoint(l) ==
    LET unavailable == {p \in MatchingPoints(l) : ~syncPoint[p].available}
    IN  {p \in unavailable : \A q \in unavailable : p <= q}

-----------------------------------------------------------------------------
(* Changes made by clients, with mStateLock held                           *)

\* pushPendingState without a barrier.
pushPendingState(s) ==
    IF ~s.current.modified THEN s
    ELSE [s EXCEPT !.pending = Append(@,
            [version |-> s.current.version, hidden |-> s.current.hidden,
             barrierLayer |-> NoLayer, frameNumber |-> 0])]

\* A setter that changes the state, such as setPosition or setFlags.
Changed(s, hide) ==
    [s EXCEPT !.current = [version |-> @.version + 1, hidden |-> @.hidden \/ hide,
                           modified |-> TRUE]]

\* Does the barrier layer exist, and is the frame still to be latched?
BarrierHolds(barrier, frame) ==
    life[barrier] # "dead" /\ frame > mCurrentFrameNumber[barrier]

\* Faulty variant: a barrier whose frame was missed stays in the state.
deferTransactionKeepsBarrier(l, s, barrier, frame) ==
    LET holds == BarrierHolds(barrier, frame)
        point == Len(syncPoint) + 1
        state == [version |-> s.current.version, hidden |-> s.current.hidden,
                  barrierLayer |-> barrier,
                  frameNumber |-> frame]
    IN
    /\ layer' = [layer EXCEPT ![l] =
            [current |-> [s.current EXCEPT !.modified = FALSE],
             drawing |-> s.drawing,
             pending |-> Append(s.pending, state),
             remote |-> IF holds THEN Append(s.remote, point) ELSE s.remote]]
    /\ IF holds
          THEN /\ syncPoint' = Append(syncPoint,
                        [of |-> barrier, by |-> l, frameNumber |-> frame,
                         available |-> FALSE, applied |-> FALSE])
               /\ mLocalSyncPoints' =
                        [mLocalSyncPoints EXCEPT ![barrier] = @ \cup {point}]
          ELSE UNCHANGED <<syncPoint, mLocalSyncPoints>>

\* deferTransactionUntil: the state goes to the end of mPendingStates with its
\* barrier, and the two layers share a new point.
deferTransactionUntil(l, s, barrier, frame) ==
    LET holds == BarrierHolds(barrier, frame)
        point == Len(syncPoint) + 1
        state == [version |-> s.current.version, hidden |-> s.current.hidden,
                  barrierLayer |-> IF holds THEN barrier ELSE NoLayer,
                  frameNumber |-> frame]
    IN
    /\ layer' = [layer EXCEPT ![l] =
            [current |-> [s.current EXCEPT !.modified = FALSE],
             drawing |-> s.drawing,
             pending |-> Append(s.pending, state),
             remote |-> IF holds THEN Append(s.remote, point) ELSE s.remote]]
    /\ IF holds
          THEN /\ syncPoint' = Append(syncPoint,
                        [of |-> barrier, by |-> l, frameNumber |-> frame,
                         available |-> FALSE, applied |-> FALSE])
               /\ mLocalSyncPoints' =
                        [mLocalSyncPoints EXCEPT ![barrier] = @ \cup {point}]
          ELSE UNCHANGED <<syncPoint, mLocalSyncPoints>>

-----------------------------------------------------------------------------
(* The transaction of a layer, on the main thread with mStateLock held     *)

\* One turn of applyPendingStates; commit is the state popped last.
Popped(s) == [pending |-> Tail(s.pending), remote |-> s.remote,
              commit |-> <<Head(s.pending)>>, applied |-> s.applied]

Disposed(s) == [pending |-> s.pending, remote |-> Tail(s.remote),
                commit |-> s.commit, applied |-> s.applied \cup {Head(s.remote)}]

\* Faulty variant: a state without a barrier does not wait for its turn.
ApplyNextOutOfTurn(s) ==
    IF \E i \in DOMAIN s.pending : s.pending[i].barrierLayer = NoLayer
    THEN LET i == CHOOSE i \in DOMAIN s.pending :
                        s.pending[i].barrierLayer = NoLayer
         IN  [s EXCEPT !.pending = RemoveAt(@, i), !.commit = <<s.pending[i]>>]
    ELSE IF s.pending = <<>> \/ ~syncPoint[Head(s.remote)].available THEN s
    ELSE Disposed(Popped(s))

ApplyNext(s) ==
    IF s.pending = <<>> THEN s
    ELSE IF Head(s.pending).barrierLayer = NoLayer \/ s.remote = <<>> THEN Popped(s)
    ELSE IF syncPoint[Head(s.remote)].frameNumber # Head(s.pending).frameNumber
         THEN Disposed(s)
    ELSE IF syncPoint[Head(s.remote)].available THEN Disposed(Popped(s))
    ELSE s

\* The same; the set makes TLC evaluate s once.
NextTurn(s) == CHOOSE r \in {ApplyNext(t) : t \in {s}} : TRUE

applyPendingStates(s) ==
    LET turns == Len(s.pending) + Len(s.remote)
        after[n \in 0 .. turns] ==
            IF n = 0 THEN [pending |-> s.pending, remote |-> s.remote,
                           commit |-> <<>>, applied |-> {}]
                     ELSE NextTurn(after[n - 1])
    IN  after[turns]

\* Does the layer have to come back for the states that are left?
NeedsTransaction(r) == r.pending # <<>>

\* doTransaction.  A layer that is now hidden lets everyone go who waits for
\* its frames.
doTransaction(l) ==
    LET pushed == pushPendingState(layer[l])
        r == applyPendingStates(pushed)
        commit == Head(r.commit)
        hides == r.commit # <<>> /\ commit.hidden
        applied == SetApplied(syncPoint, r.applied)
    IN
    /\ layer' = [layer EXCEPT ![l] =
            [current |-> [pushed.current EXCEPT !.modified = FALSE],
             drawing |-> IF r.commit = <<>> THEN pushed.drawing
                         ELSE [version |-> commit.version, hidden |-> commit.hidden],
             pending |-> r.pending, remote |-> r.remote]]
    /\ syncPoint' = IF hides THEN SetAvailable(applied, mLocalSyncPoints[l])
                             ELSE applied
    /\ mLocalSyncPoints' = [mLocalSyncPoints EXCEPT ![l] = IF hides THEN {} ELSE @]
    /\ mTransactionFlags' = IF NeedsTransaction(r) THEN mTransactionFlags \cup {l}
                                                   ELSE mTransactionFlags \ {l}

\* Faulty variant: the points of a destroyed layer stay as they are.
destroyLayerKeepsPoints(l) ==
    /\ life[l] = "removed"
    /\ life' = [life EXCEPT ![l] = "dead"]
    /\ UNCHANGED <<layer, mLocalSyncPoints, syncPoint, mTransactionFlags, frameVars>>

\* ~Layer, when the last reference is gone: the lists of visible layers and of
\* layers with queued frames decide when.
destroyLayer(l) ==
    /\ life[l] = "removed"
    /\ life' = [life EXCEPT ![l] = "dead"]
    /\ syncPoint' = SetAvailable(SetApplied(syncPoint, Range(layer[l].remote)),
                                 mLocalSyncPoints[l])
    /\ UNCHANGED <<layer, mLocalSyncPoints, mTransactionFlags, frameVars>>

-----------------------------------------------------------------------------
(* latchBuffer, on the main thread without mStateLock                      *)

\* The points that are done with once frame is latched.
Erased(l, frame) ==
    {p \in mLocalSyncPoints[l] :
        /\ syncPoint[p].available /\ syncPoint[p].applied
        /\ syncPoint[p].frameNumber <= frame}

\* updateTexImage took the i-th frame of the queue; those before it were dropped
\* by acquireBuffer.  The items up to it leave the shadow copy.
latchFrame(l, i) ==
    LET frame == mQueue[l][i] IN
    /\ mQueue' = [mQueue EXCEPT ![l] = SubSeq(@, i + 1, Len(@))]
    /\ \E j \in DOMAIN mQueueItems[l] :
          /\ mQueueItems[l][j] = frame
          /\ mQueueItems' = [mQueueItems EXCEPT ![l] = SubSeq(@, j + 1, Len(@))]
    /\ mCurrentFrameNumber' = [mCurrentFrameNumber EXCEPT ![l] = frame]
    /\ mRefreshPending' = mRefreshPending \cup {l}
    /\ mLocalSyncPoints' = [mLocalSyncPoints EXCEPT ![l] = @ \ Erased(l, frame)]
    /\ UNCHANGED <<layer, syncPoint, mTransactionFlags, life, droppable,
                   mLastFrameNumberReceived, signaled>>

\* BUFFER_REJECTED: the frame has not the size that was asked for.  Only one item
\* leaves the shadow copy, also when acquireBuffer has dropped frames before it.
rejectFrame(l, i) ==
    /\ mQueueItems[l] # <<>>
    /\ mQueue' = [mQueue EXCEPT ![l] = SubSeq(@, i + 1, Len(@))]
    /\ mQueueItems' = [mQueueItems EXCEPT ![l] = Tail(@)]
    /\ UNCHANGED <<stateVars, droppable, mLastFrameNumberReceived, signaled,
                   mCurrentFrameNumber, mRefreshPending>>

\* NO_BUFFER_AVAILABLE counts as success: the frame that was latched last, if
\* there is one, is composed again.
latchNothing(l) ==
    /\ mQueue[l] = <<>>
    /\ IF mCurrentFrameNumber[l] = 0
          THEN UNCHANGED <<mRefreshPending, mLocalSyncPoints>>
          ELSE /\ mRefreshPending' = mRefreshPending \cup {l}
               /\ mLocalSyncPoints' = [mLocalSyncPoints EXCEPT ![l] =
                                            @ \ Erased(l, mCurrentFrameNumber[l])]
    /\ UNCHANGED <<layer, syncPoint, mTransactionFlags, life, mQueue, mQueueItems,
                   droppable, mLastFrameNumberReceived, signaled,
                   mCurrentFrameNumber>>
=============================================================================
