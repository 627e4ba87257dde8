---------------------------- MODULE Transactions ----------------------------
(***************************************************************************)
(* Transactions of SurfaceFlinger: binder threads in setTransactionState,  *)
(* the MessageQueue, and the main thread, which applies the transactions,  *)
(* latches frames and composes.  SurfaceFlinger.cpp, MessageQueue.cpp.     *)
(***************************************************************************)
EXTENDS Layer

CONSTANTS Thread,    \* binder threads
          What,      \* what the calls do to a layer
          Mode,      \* "async", "sync" or "anim": the flags of the calls
          MaxCalls   \* bound: calls of setTransactionState

ASSUME TransactionsAssumption ==
    /\ What \subseteq {"none", "change", "hide", "destroy", "defer", "deferChange"}
    /\ Mode \subseteq {"async", "sync", "anim"}
    /\ MaxCalls \in Nat

VARIABLES
    \* SurfaceFlinger's own mTransactionFlags, under no lock
    transactionFlags,
    \* Under mStateLock, which the main thread holds while it traverses the
    \* layers
    mTransactionPending, mAnimTransactionPending,
    \* The binder threads: what each is doing, its call, and the version of
    \* the layer it made
    threadState, call, made, calls,
    \* Was mTransactionPending last cleared by a timeout?  For the properties
    timedOut,
    \* MessageQueue: was a vsync requested, and the messages in the looper,
    \* which are the bits of mEventMask
    vsyncRequested, messages,
    \* The main thread: where it is, the layers it still has to visit, and the
    \* locals of onMessageReceived and handlePageFlip
    pc, todo, refreshNeeded, frameQueued,
    mLayersWithQueuedFrames,
    \* Is the fence of the last frame presented still pending?
    presentPending

flagVars == <<transactionFlags, vsyncRequested>>
pendingVars == <<mTransactionPending, mAnimTransactionPending>>
threadVars == <<threadState, call, made, calls, timedOut>>
mainVars == <<pc, todo, refreshNeeded, frameQueued, mLayersWithQueuedFrames,
              presentPending>>
vars == <<stateVars, frameVars, flagVars, pendingVars, threadVars, messages,
          mainVars>>

Call ==
    [layer : {Min(Layers)}, what : What \cap {"none"}, mode : Mode,
     barrier : {NoLayer}, frame : {0}]
    \cup [layer : Layers, what : What \cap {"change", "hide", "destroy"},
          mode : Mode, barrier : {NoLayer}, frame : {0}]
    \cup [layer : Layers, what : What \cap {"defer", "deferChange"}, mode : Mode,
          barrier : BufferLayers, frame : 1 .. MaxFrame]

NoCall == [layer |-> NoLayer, what |-> "none", mode |-> "async",
           barrier |-> NoLayer, frame |-> 0]

TypeOK ==
    /\ LayerTypeOK
    /\ transactionFlags \subseteq {"transaction", "traversal"}
    /\ mTransactionPending \in BOOLEAN /\ mAnimTransactionPending \in BOOLEAN
    /\ threadState \in [Thread -> {"idle", "animWait", "wait", "animNotified",
                                   "notified"}]
    /\ call \in [Thread -> Call \cup {NoCall}] /\ made \in [Thread -> Version]
    /\ calls \in 0 .. MaxCalls /\ timedOut \in BOOLEAN
    /\ vsyncRequested \in BOOLEAN
    /\ messages \in Seq({"INVALIDATE", "REFRESH"}) /\ IsInjective(messages)
    /\ pc \in {"idle", "transaction", "traverse", "pageFlip", "latch", "update"}
    /\ todo \subseteq Layers /\ refreshNeeded \in BOOLEAN /\ frameQueued \in BOOLEAN
    /\ mLayersWithQueuedFrames \subseteq Layers /\ presentPending \in BOOLEAN

Init ==
    /\ LayerInit
    /\ transactionFlags = {} /\ vsyncRequested = FALSE
    /\ mTransactionPending = FALSE /\ mAnimTransactionPending = FALSE
    /\ threadState = [t \in Thread |-> "idle"]
    /\ call = [t \in Thread |-> NoCall] /\ made = [t \in Thread |-> 0]
    /\ calls = 0 /\ timedOut = FALSE /\ messages = <<>>
    /\ pc = "idle" /\ todo = {} /\ refreshNeeded = FALSE /\ frameQueued = FALSE
    /\ mLayersWithQueuedFrames = {} /\ presentPending = FALSE

StateLockFree == pc # "traverse"

\* The layers of the state that is being drawn.
DrawingLayers == {l \in Layers : life[l] \in {"live", "removing"}}

\* Layers are visited from back to front.
NextLayer == Min(todo)

-----------------------------------------------------------------------------
(* setTransactionFlags and MessageQueue                                    *)

\* Does setTransactionFlags(flags) wake the server?
Wakes(old, flags) == flags # {} /\ old \cap flags = {}

setTransactionFlags(flags) ==
    /\ transactionFlags' = transactionFlags \cup flags
    /\ vsyncRequested' = (vsyncRequested \/ Wakes(transactionFlags, flags))

\* signalTransaction and signalLayerUpdate: MessageQueue::invalidate asks the
\* EventThread for the next vsync.
signalLayerUpdate == vsyncRequested' = TRUE

\* Faulty variant: mEventMask is not looked at.
DispatchedAgain(message) == Append(messages, message)

\* dispatchInvalidate and dispatchRefresh: at most one message of each kind.
Dispatched(message) ==
    IF message \in Range(messages) THEN messages ELSE Append(messages, message)

\* The EventThread answers the request, and the main thread reads the event
\* from the tube between two messages.
eventReceiver ==
    /\ pc = "idle" /\ vsyncRequested
    /\ vsyncRequested' = FALSE
    /\ messages' = Dispatched("INVALIDATE")
    /\ UNCHANGED <<stateVars, frameVars, transactionFlags, pendingVars, threadVars,
                   mainVars>>

-----------------------------------------------------------------------------
(* Binder threads in setTransactionState                                   *)

\* setClientStateLocked and setDestroyStateLocked for the one layer of the
\* call; a layer that is removed is left alone.
ClientState(c) ==
    LET l == c.layer IN
    IF c.what = "none" \/ life[l] # "live" THEN UNCHANGED stateVars
    ELSE /\ CASE c.what \in {"change", "hide"} ->
                  /\ layer' = [layer EXCEPT ![l] = Changed(@, c.what = "hide")]
                  /\ mTransactionFlags' = mTransactionFlags \cup {l}
                  /\ UNCHANGED <<mLocalSyncPoints, syncPoint, life>>
              [] c.what = "destroy" ->
                  /\ life' = [life EXCEPT ![l] = "removing"]
                  /\ UNCHANGED <<layer, mLocalSyncPoints, syncPoint, mTransactionFlags>>
              [] c.what \in {"defer", "deferChange"} ->
                  LET pushed == pushPendingState(layer[l])
                      s == IF c.what = "defer" THEN pushed ELSE Changed(pushed, FALSE)
                  IN  /\ deferTransactionUntil(l, s, c.barrier, c.frame)
                      /\ mTransactionFlags' =
                            IF c.what = "defer" /\ life[c.barrier] = "dead"
                               THEN mTransactionFlags ELSE mTransactionFlags \cup {l}
                      /\ UNCHANGED life

\* The flags that these functions return, those they set themselves, and the
\* one that is forced for an empty call.
ReturnedFlags(c) ==
    IF c.layer # NoLayer /\ life[c.layer] = "live"
            /\ c.what \in {"change", "hide", "deferChange"}
       THEN {"traversal"}
    ELSE IF c.mode # "async" THEN {"transaction"}
    ELSE {}

OwnFlags(c) ==
    IF life[c.layer] # "live" THEN {}
    ELSE IF c.what = "destroy" THEN {"transaction"}
    ELSE IF c.what \in {"defer", "deferChange"} /\ life[c.barrier] # "dead"
         THEN {"traversal"}
    ELSE {}

\* The second half of setTransactionState.  Every caller that changed something
\* waits while mTransactionPending is set, not only a synchronous one.
applyCall(t, c) ==
    /\ ClientState(c)
    /\ transactionFlags' = transactionFlags \cup OwnFlags(c) \cup ReturnedFlags(c)
    /\ vsyncRequested' =
            \/ vsyncRequested
            \/ Wakes(transactionFlags, OwnFlags(c))
            \/ Wakes(transactionFlags \cup OwnFlags(c), ReturnedFlags(c))
    /\ IF ReturnedFlags(c) = {}
          THEN UNCHANGED pendingVars
          ELSE /\ mTransactionPending' = (mTransactionPending \/ c.mode = "sync")
               /\ mAnimTransactionPending' =
                        (mAnimTransactionPending \/ c.mode = "anim")
    /\ LET waits == ReturnedFlags(c) # {} /\ mTransactionPending' IN
       /\ threadState' = [threadState EXCEPT ![t] = IF waits THEN "wait" ELSE "idle"]
       /\ call' = [call EXCEPT ![t] = IF waits THEN c ELSE NoCall]
       /\ made' = [made EXCEPT ![t] =
                      IF waits THEN layer'[c.layer].current.version ELSE 0]

setTransactionState(t, c) ==
    /\ StateLockFree
    /\ threadState[t] = "idle" /\ calls < MaxCalls
    /\ calls' = calls + 1
    /\ IF c.mode = "anim" /\ mAnimTransactionPending
          THEN /\ threadState' = [threadState EXCEPT ![t] = "animWait"]
               /\ call' = [call EXCEPT ![t] = c]
               /\ UNCHANGED <<stateVars, flagVars, pendingVars, made>>
          ELSE applyCall(t, c)
    /\ UNCHANGED <<frameVars, timedOut, messages, mainVars>>

\* The waits end, also for no reason: the flag is looked at again.
animWaitReturns(t) ==
    /\ StateLockFree
    /\ threadState[t] \in {"animWait", "animNotified"}
    /\ IF mAnimTransactionPending
          THEN /\ threadState' = [threadState EXCEPT ![t] = "animWait"]
               /\ UNCHANGED <<stateVars, flagVars, pendingVars, call, made>>
          ELSE applyCall(t, call[t])
    /\ UNCHANGED <<frameVars, calls, timedOut, messages, mainVars>>

\* After five seconds mAnimTransactionPending is cleared, and then set again
\* for this call.
animWaitTimesOut(t) ==
    /\ StateLockFree
    /\ threadState[t] \in {"animWait", "animNotified"}
    /\ applyCall(t, call[t])
    /\ UNCHANGED <<frameVars, calls, timedOut, messages, mainVars>>

leaves(t) ==
    /\ threadState' = [threadState EXCEPT ![t] = "idle"]
    /\ call' = [call EXCEPT ![t] = NoCall] /\ made' = [made EXCEPT ![t] = 0]

\* Faulty variant: the flag is not looked at again.
waitReturnsUnchecked(t) ==
    /\ StateLockFree
    /\ threadState[t] \in {"wait", "notified"}
    /\ leaves(t)
    /\ UNCHANGED <<stateVars, frameVars, flagVars, pendingVars, calls, timedOut,
                   messages, mainVars>>

waitReturns(t) ==
    /\ StateLockFree
    /\ threadState[t] \in {"wait", "notified"}
    /\ IF mTransactionPending
          THEN /\ threadState' = [threadState EXCEPT ![t] = "wait"]
               /\ UNCHANGED <<call, made>>
          ELSE leaves(t)
    /\ UNCHANGED <<stateVars, frameVars, flagVars, pendingVars, calls, timedOut,
                   messages, mainVars>>

\* After five seconds mTransactionPending, which other threads wait for too, is
\* cleared; nobody is told.
waitTimesOut(t) ==
    /\ StateLockFree
    /\ threadState[t] \in {"wait", "notified"}
    /\ mTransactionPending' = FALSE /\ timedOut' = TRUE
    /\ leaves(t)
    /\ UNCHANGED <<stateVars, frameVars, flagVars, mAnimTransactionPending, calls,
                   messages, mainVars>>

-----------------------------------------------------------------------------
(* The main thread                                                         *)

\* onMessageReceived(INVALIDATE) when the last frame is not on the screen yet:
\* try again at the next vsync.
frameMissed ==
    /\ pc = "idle" /\ messages # <<>> /\ Head(messages) = "INVALIDATE"
    /\ presentPending
    /\ messages' = Tail(messages)
    /\ signalLayerUpdate
    /\ UNCHANGED <<stateVars, frameVars, transactionFlags, pendingVars, threadVars,
                   mainVars>>

invalidate ==
    /\ pc = "idle" /\ messages # <<>> /\ Head(messages) = "INVALIDATE"
    /\ ~presentPending
    /\ messages' = Tail(messages)
    /\ pc' = "transaction" /\ refreshNeeded' = FALSE
    /\ UNCHANGED <<stateVars, frameVars, flagVars, pendingVars, threadVars,
                   todo, frameQueued, mLayersWithQueuedFrames, presentPending>>

\* handleMessageTransaction, handleTransaction and the beginning of
\* handleTransactionLocked: all flags are taken, and the layers learn which of
\* their frames have come.
handleTransaction ==
    /\ pc = "transaction"
    /\ IF transactionFlags = {}
          THEN /\ pc' = "pageFlip"
               /\ UNCHANGED <<syncPoint, transactionFlags, todo, refreshNeeded>>
          ELSE LET live == {l \in Layers : life[l] = "live"} IN
               /\ pc' = "traverse" /\ refreshNeeded' = TRUE
               /\ transactionFlags' = {}
               /\ syncPoint' = SetAvailable(syncPoint,
                                            UNION {ReachedPoints(l) : l \in live})
               /\ todo' = IF "traversal" \in transactionFlags
                             THEN live ELSE {}
    /\ UNCHANGED <<layer, mLocalSyncPoints, mTransactionFlags, life, frameVars,
                   vsyncRequested, pendingVars, threadVars, messages, frameQueued,
                   mLayersWithQueuedFrames, presentPending>>

\* The traversal of handleTransactionLocked: layers that need it do their
\* transaction.
traverseLayer ==
    LET l == NextLayer IN
    /\ pc = "traverse" /\ todo # {}
    /\ todo' = todo \ {l}
    /\ IF l \in mTransactionFlags
          THEN /\ doTransaction(l)
               /\ IF layer'[l].pending # <<>> THEN setTransactionFlags({"traversal"})
                                               ELSE UNCHANGED flagVars
          ELSE UNCHANGED <<layer, mLocalSyncPoints, syncPoint, mTransactionFlags,
                           flagVars>>
    /\ UNCHANGED <<life, frameVars, pendingVars, threadVars, messages, pc,
                   refreshNeeded, frameQueued, mLayersWithQueuedFrames,
                   presentPending>>

\* mTransactionCV.broadcast.
broadcast ==
    threadState' = [t \in Thread |->
        CASE threadState[t] = "wait" -> "notified"
          [] threadState[t] = "animWait" -> "animNotified"
          [] OTHER -> threadState[t]]

\* Faulty variant: the waiting threads are not woken.
commitTransactionSilently ==
    /\ pc = "traverse" /\ todo = {}
    /\ pc' = "pageFlip"
    /\ life' = [l \in Layers |-> IF life[l] = "removing" THEN "removed" ELSE life[l]]
    /\ mTransactionPending' = FALSE /\ mAnimTransactionPending' = FALSE
    /\ timedOut' = FALSE
    /\ UNCHANGED <<layer, mLocalSyncPoints, syncPoint, mTransactionFlags, frameVars,
                   flagVars, threadState, call, made, calls, messages, todo, refreshNeeded,
                   frameQueued, mLayersWithQueuedFrames, presentPending>>

\* commitTransaction: removed layers leave the drawing state, and waiting
\* threads are woken.
commitTransaction ==
    /\ pc = "traverse" /\ todo = {}
    /\ pc' = "pageFlip"
    /\ life' = [l \in Layers |-> IF life[l] = "removing" THEN "removed" ELSE life[l]]
    /\ mTransactionPending' = FALSE /\ mAnimTransactionPending' = FALSE
    /\ timedOut' = FALSE
    /\ broadcast
    /\ UNCHANGED <<layer, mLocalSyncPoints, syncPoint, mTransactionFlags, frameVars,
                   flagVars, call, made, calls, messages, todo, refreshNeeded,
                   frameQueued, mLayersWithQueuedFrames, presentPending>>

\* handlePageFlip collects the layers with frames.  Those of an earlier pass
\* that led to no composition are still in the list; a second entry of the same
\* layer is not kept apart.
gatherLayers ==
    LET queued == {l \in DrawingLayers : mQueueItems[l] # <<>>} IN
    /\ pc = "pageFlip"
    /\ pc' = "latch"
    /\ frameQueued' = (queued # {})
    /\ mLayersWithQueuedFrames' = mLayersWithQueuedFrames \cup queued
    /\ todo' = mLayersWithQueuedFrames \cup queued
    /\ UNCHANGED <<stateVars, frameVars, flagVars, pendingVars, threadVars,
                   messages, refreshNeeded, presentPending>>

\* latchBuffer as far as updateTexImage: nothing to latch, the last frame is not
\* composed yet, or a fence or a transaction is waited for.
latchBuffer ==
    LET l == NextLayer
        skips == mQueueItems[l] = <<>> \/ l \in mRefreshPending
        tries == ~skips /\ headFenceHasSignaled(l)
    IN
    /\ pc = "latch" /\ todo # {}
    /\ IF tries /\ allTransactionsSignaled(l)
          THEN pc' = "update" /\ UNCHANGED <<todo, vsyncRequested>>
          ELSE /\ todo' = todo \ {l}
               /\ IF skips THEN UNCHANGED vsyncRequested ELSE signalLayerUpdate
               /\ UNCHANGED pc
    /\ syncPoint' = SetAvailable(syncPoint, IF tries THEN NotifiedPoint(l) ELSE {})
    /\ UNCHANGED <<layer, mLocalSyncPoints, mTransactionFlags, life, frameVars,
                   transactionFlags, pendingVars, threadVars, messages,
                   refreshNeeded, frameQueued, mLayersWithQueuedFrames,
                   presentPending>>

\* updateTexImage and the rest of latchBuffer.  The queue of a removed layer is
\* abandoned: updateTexImage fails.
updateTexImage(l) ==
    /\ pc = "update" /\ l = NextLayer
    /\ pc' = "latch" /\ todo' = todo \ {l}
    /\ IF l \notin DrawingLayers
          THEN UNCHANGED <<stateVars, frameVars, vsyncRequested>>
          ELSE \/ \E i \in DOMAIN mQueue[l] :
                     /\ latchFrame(l, i)
                     /\ IF mQueueItems'[l] # <<>> THEN signalLayerUpdate
                                                  ELSE UNCHANGED vsyncRequested
               \/ /\ (\E i \in DOMAIN mQueue[l] : rejectFrame(l, i)) \/ latchNothing(l)
                  /\ UNCHANGED vsyncRequested
    /\ UNCHANGED <<transactionFlags, pendingVars, threadVars, messages,
                   refreshNeeded, frameQueued, mLayersWithQueuedFrames,
                   presentPending>>

\* updateTexImage returns PRESENT_LATER: the frame is not due, or its callback
\* has not run yet.
presentLater ==
    /\ pc = "update" /\ NextLayer \in DrawingLayers
    /\ pc' = "latch" /\ todo' = todo \ {NextLayer}
    /\ signalLayerUpdate
    /\ UNCHANGED <<stateVars, frameVars, transactionFlags, pendingVars, threadVars,
                   messages, refreshNeeded, frameQueued, mLayersWithQueuedFrames,
                   presentPending>>

\* Faulty variant: a frame that was not latched is not tried again.
SignalsNever(newDataLatched) == FALSE

\* Is there a frame left to try at the next vsync?
SignalsAgain(newDataLatched) ==
    frameQueued /\ (mLayersWithQueuedFrames = {} \/ ~newDataLatched)

\* The end of handlePageFlip, and signalRefresh if there is something new.
pageFlipDone ==
    LET newDataLatched == mLayersWithQueuedFrames \cap mRefreshPending # {} IN
    /\ pc = "latch" /\ todo = {}
    /\ pc' = "idle"
    /\ IF SignalsAgain(newDataLatched) THEN signalLayerUpdate
                                       ELSE UNCHANGED vsyncRequested
    /\ messages' = IF refreshNeeded \/ newDataLatched THEN Dispatched("REFRESH")
                                                      ELSE messages
    /\ refreshNeeded' = FALSE /\ frameQueued' = FALSE
    /\ UNCHANGED <<stateVars, frameVars, transactionFlags, pendingVars, threadVars,
                   todo, mLayersWithQueuedFrames, presentPending>>

\* handleMessageRefresh with preComposition.
handleMessageRefresh ==
    /\ pc = "idle" /\ messages # <<>> /\ Head(messages) = "REFRESH"
    /\ messages' = Tail(messages)
    /\ mRefreshPending' = mRefreshPending \ DrawingLayers
    /\ IF \E l \in DrawingLayers : mQueueItems[l] # <<>>
          THEN signalLayerUpdate ELSE UNCHANGED vsyncRequested
    /\ mLayersWithQueuedFrames' = {}
    /\ presentPending' = TRUE
    /\ UNCHANGED <<stateVars, mQueue, mQueueItems, droppable,
                   mLastFrameNumberReceived, signaled, mCurrentFrameNumber,
                   transactionFlags, pendingVars, threadVars, pc, todo,
                   refreshNeeded, frameQueued>>

\* The frame is on the screen.
presentFenceSignals ==
    /\ presentPending
    /\ presentPending' = FALSE
    /\ UNCHANGED <<stateVars, frameVars, flagVars, pendingVars, threadVars,
                   messages, pc, todo, refreshNeeded, frameQueued,
                   mLayersWithQueuedFrames>>

-----------------------------------------------------------------------------
MainThread ==
    \/ eventReceiver \/ frameMissed \/ invalidate \/ handleTransaction
    \/ traverseLayer \/ commitTransaction \/ gatherLayers \/ latchBuffer
    \/ (\E l \in Layers : updateTexImage(l)) \/ presentLater
    \/ pageFlipDone \/ handleMessageRefresh

\* The producer of a layer, and its fences.
QueueFrame(l) ==
    /\ \E isDroppable \in BOOLEAN :
          \/ onFrameAvailable(l, isDroppable) /\ signalLayerUpdate
          \/ onFrameReplaced(l, isDroppable) /\ UNCHANGED vsyncRequested
    /\ UNCHANGED <<transactionFlags, pendingVars, threadVars, messages, mainVars>>

Fence(l) ==
    /\ fenceSignals(l)
    /\ UNCHANGED <<flagVars, pendingVars, threadVars, messages, mainVars>>

\* The list of layers with queued frames holds references.
Destroy(l) ==
    /\ l \notin mLayersWithQueuedFrames
    /\ destroyLayer(l)
    /\ UNCHANGED <<flagVars, pendingVars, threadVars, messages, mainVars>>

Wakeup(t) == animWaitReturns(t) \/ waitReturns(t)

Next ==
    \/ MainThread \/ presentFenceSignals
    \/ \E l \in Layers : QueueFrame(l) \/ Fence(l) \/ Destroy(l)
    \/ \E t \in Thread :
          \/ \E c \in Call : setTransactionState(t, c)
          \/ Wakeup(t) \/ animWaitTimesOut(t) \/ waitTimesOut(t)

Spec == Init /\ [][Next]_vars

\* Threads that can go on do so, and a notified thread gets mStateLock; the
\* five-second timeouts are not needed.  The EventThread answers (RequestAnswered
\* of Vsync), fences signal, producers queue their frames, and a frame is not
\* put off with PRESENT_LATER for ever.
Notified(t) == threadState[t] \in {"notified", "animNotified"} /\ Wakeup(t)

FairSpec ==
    /\ Spec
    /\ WF_vars(MainThread) /\ WF_vars(presentFenceSignals)
    /\ \A l \in BufferLayers : /\ WF_vars(QueueFrame(l)) /\ WF_vars(Fence(l))
                              /\ SF_vars(updateTexImage(l))
    /\ WF_vars(\E l \in Layers : Destroy(l))
    /\ \A t \in Thread : SF_vars(Notified(t))

-----------------------------------------------------------------------------
(* Properties                                                              *)

Awake == vsyncRequested \/ "INVALIDATE" \in Range(messages)

\* No transaction is forgotten: while transaction flags are set, an INVALIDATE
\* is on its way or the main thread is about to take them
\* (setTransactionFlags, onMessageReceived).
FlagsWakeServer == transactionFlags # {} => Awake \/ pc = "transaction"

\* No frame is forgotten: between two messages, a layer with a queued frame has
\* an INVALIDATE on its way, or a REFRESH that will ask for one (latchBuffer,
\* handlePageFlip, preComposition).
FramesWakeServer ==
    pc = "idle" /\ (\E l \in DrawingLayers : mQueueItems[l] # <<>>)
        => Awake \/ "REFRESH" \in Range(messages)

\* A layer whose last changes are not drawn is looked at in the next traversal.
ChangesAreRevisited ==
    \A l \in Layers :
        /\ life[l] = "live" /\ StateLockFree
        /\ layer[l].current.version > layer[l].drawing.version
        => l \in mTransactionFlags /\ "traversal" \in transactionFlags

\* Nothing that waits for the main thread is forgotten, whichever of the calls,
\* messages and traversals between it and the drawing come in between: flags
\* and frames have an INVALIDATE on its way, undrawn changes have their flags.
WorkWakesServer == FlagsWakeServer /\ FramesWakeServer /\ ChangesAreRevisited

\* at[i] is the place, among the states that wait, of the state that waits for
\* the i-th point.
MatchedAt(points, pending, remote, at) ==
    /\ \A i, j \in DOMAIN remote : i < j => at[i] < at[j]
    /\ \A k \in DOMAIN pending :
          pending[k].barrierLayer # NoLayer <=> \E i \in DOMAIN remote : at[i] = k
    /\ \A i \in DOMAIN remote :
          /\ points[remote[i]].frameNumber = pending[at[i]].frameNumber
          /\ points[remote[i]].of = pending[at[i]].barrierLayer

Matched(points, pending, remote) ==
    \E at \in [DOMAIN remote -> DOMAIN pending] :
        MatchedAt(points, pending, remote, at)

\* "No local sync point found", "Unexpected sync point frame number found":
\* applyPendingStates never gets there, because the states with a barrier and
\* the points of a layer are in the same order.
PointsMatchStates ==
    \A l \in Layers : Matched(syncPoint, layer[l].pending, layer[l].remote)

\* A deferred transaction does not come early: a point becomes available when
\* its frame, or a later one, is there with a fence that has signaled or is
\* droppable ("grab this buffer anyway", headFenceHasSignaled), when the frame is
\* latched already, or when it will never be shown; and the transaction is applied
\* after that, or its layer is gone.
NotEarly ==
    \A i \in DOMAIN syncPoint :
        LET p == syncPoint[i] IN
        /\ p.available => \/ p.frameNumber <= signaled[p.of]
                          \/ \E frame \in droppable[p.of] : p.frameNumber <= frame
                          \/ p.frameNumber <= mCurrentFrameNumber[p.of]
                          \/ layer[p.of].drawing.hidden \/ life[p.of] = "dead"
        /\ p.applied => p.available \/ life[p.by] = "dead"

\* The states of a layer are drawn in the order in which they were set, deferred
\* or not: one without barrier waits behind an older one that waits for its frame
\* (applyPendingStates; UndeferredAtOnce below is what two tests say of this).
DrawnInOrder ==
    [][\A l \in Layers :
          layer'[l].drawing.version >= layer[l].drawing.version]_vars

\* A caller that waited and met no timeout finds its change drawn, or queued
\* behind a barrier (setTransactionState, commitTransaction).
ReturnsCommitted ==
    [][\A t \in Thread :
          /\ threadState[t] \in {"wait", "notified"} /\ threadState'[t] = "idle"
          /\ ~timedOut'
          => LET s == layer[call[t].layer] IN
             \/ s.drawing.version >= made[t] \/ life[call[t].layer] # "live"
             \/ s.pending # <<>> /\ Head(s.pending).barrierLayer # NoLayer]_vars

\* Every call returns, without the help of its timeout.
CallReturns == \A t \in Thread : threadState[t] # "idle" ~> threadState[t] = "idle"

\* The frames in the BufferQueue are the last items of its shadow copy, through
\* drops, rejections and replacements: the loop in latchBuffer that removes the
\* items of dropped frames finds the frame it looks for, and onFrameReplaced never
\* finds an empty queue.
ShadowHoldsQueue ==
    \A l \in Layers :
        LET extra == Len(mQueueItems[l]) - Len(mQueue[l]) IN
        /\ extra >= 0
        /\ \A i \in DOMAIN mQueue[l] : mQueue[l][i] = mQueueItems[l][i + extra]

\* "If the buffer has been rejected, remove it from the shadow queue"
\* (latchBuffer): the shadow copy holds no frame that has left the BufferQueue.
\* Not so after a drop: one item goes for the dropped frames and the rejected one.
ShadowMatchesQueue ==
    \A l \in DrawingLayers : Len(mQueueItems[l]) = Len(mQueue[l])

\* Frames and transactions wait for each other, but not for ever: every frame in
\* the BufferQueue of a layer is latched, rejected or dropped.
FramesLatched ==
    \A l \in BufferLayers :
        mQueue[l] # <<>> ~> mQueue[l] = <<>> \/ l \notin DrawingLayers

\* Every change is drawn in the end, also when its barrier layer is removed or
\* hidden.  The one exception: after a rejected frame the barrier waits for a
\* frame that does not come.
LastFrameRejected(l) ==
    mQueue[l] = <<>> /\ getHeadFrameNumber(l) < mLastFrameNumberReceived[l]

ChangesDrawn ==
    \A l \in Layers :
        layer[l].current.version > layer[l].drawing.version
            ~> \/ layer[l].current.version = layer[l].drawing.version
               \/ life[l] # "live" \/ \E b \in Layers : LastFrameRejected(b)

\* "should show up immediately since it's not deferred" (SFFakeHwc_test.cpp and
\* Transaction_test.cpp): the commit leaves no state behind that has no barrier.
\* Not so in the code: applyPendingStates stops at the first state whose frame is
\* not available.
UndeferredAtOnce ==
    pc = "traverse" /\ todo = {}
        => \A l \in Layers : life[l] = "live" =>
              \A i \in DOMAIN layer[l].pending :
                  layer[l].pending[i].barrierLayer # NoLayer
=============================================================================
