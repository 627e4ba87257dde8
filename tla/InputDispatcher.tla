-------------------------- MODULE InputDispatcher --------------------------
(***************************************************************************)
(* The InputDispatcher, InputDispatcher.cpp: key events from the devices   *)
(* and from injectInputEvent, dispatched by one thread to the focused      *)
(* window, whose application must finish an event before it gets the next  *)
(* key.                                                                    *)
(*                                                                         *)
(* The thread holds mLock but for pollOnce and for the calls to the policy *)
(* that its commands make; everything else happens in those two windows.   *)
(* Time is not counted: a timer that is set may be due at any later look   *)
(* at it, and is due when pollOnce ends because of it.  Motion events, key *)
(* repeats, monitors and the commands that only tell the policy of user    *)
(* activity are left out.                                                  *)
(***************************************************************************)
EXTENDS InputChannel, FiniteSets, TLC

CONSTANTS App,       \* the applications that may be focused
          NoApp,     \* no application is
          NoWindow,  \* no window has the focus
          MaxKeys,   \* bound: key events of the devices
          MaxCalls,  \* bound: calls that change windows, focus or mode
          MaxDelays  \* bound: times the policy puts off a key or an ANR

ASSUME DispatcherAssumption ==
    /\ NoApp \notin App /\ NoWindow \notin Window
    /\ IsFiniteSet(Window) /\ "none" \notin KeyCode
    /\ MaxKeys \in Nat /\ MaxCalls \in Nat /\ MaxDelays \in Nat

VARIABLES
    mInboundQueue, mPendingEvent, mCommandQueue,
    connection, \* the Connection of each window
    mFocusedWindowHandle,
    paused,   \* the focused window is paused (InputWindowInfo::paused)
    mFocusedApplicationHandle, mDispatchEnabled, mDispatchFrozen,
    \* INPUT_TARGET_WAIT_CAUSE_APPLICATION_NOT_READY and the answer to its ANR
    mInputTargetWaitCause, mInputTargetWaitTimeoutExpired,
    \* The thread: [pc, timeout, command, hangup]
    dispatcher,
    woken,    \* Looper::wake was called
    injection, \* each call of injectInputEvent
    sNextSeq, keys, held, calls, delays

focusVars == <<mFocusedWindowHandle, paused, mFocusedApplicationHandle,
               mDispatchEnabled, mDispatchFrozen>>
waitVars == <<mInputTargetWaitCause, mInputTargetWaitTimeoutExpired>>
queueVars == <<mInboundQueue, mPendingEvent>>
worldVars == <<connection, mCommandQueue, injection, sNextSeq, pipe>>
boundVars == <<keys, held, calls, delays>>
peerVars == <<received, down, signals, open>>
vars == <<focusVars, waitVars, queueVars, worldVars, boundVars, peerVars,
          dispatcher, woken>>

NoEvent == [type |-> "none"]
KeyEntry == [type : {"key"}, key : Key, action : {"DOWN", "UP"},
             passToUser : BOOLEAN, intercept : {"UNKNOWN", "CONTINUE", "SKIP", "LATER"},
             injector : Injector \cup {NoInjector}]

\* What getFallbackKey returns: "none" for -1.
FallbackCode == Fallbacks \cup {AKEYCODE_UNKNOWN, "none"}

NoCommand == [type |-> "none"]
Command ==
    [type : {"intercept"}] \cup
    [type : {"anr"}, window : Window \cup {NoWindow}] \cup
    [type : {"broken"}, window : Window] \cup
    [type : {"finished"}, window : Window, seq : Nat, handled : BOOLEAN] \cup
    \* doDispatchCycleFinished in the middle of its call to the policy
    [type : {"cancelFallback", "askFallback"}, window : Window,
     entry : DispatchEntry, fallback : FallbackCode]

\* A Connection, with the InputState in it; "NONE" before it is registered.
Connection ==
    [status : {"NONE", "NORMAL", "BROKEN", "ZOMBIE"}, blocked : BOOLEAN,
     outboundQueue : Seq(DispatchEntry), waitQueue : Seq(DispatchEntry),
     mKeyMementos : Seq([key : KeyCode, fallback : BOOLEAN]),
     mFallbackKeys : [Key -> FallbackCode]]

\* A call of injectInputEvent and its InjectionState.
InjectionState ==
    [pc : {"idle", "checkResult", "awaitResult", "checkFinished", "awaitFinished",
           "returned"},
     mode : {"NONE", "WAIT_FOR_RESULT", "WAIT_FOR_FINISHED"},
     result : {"PENDING", "SUCCEEDED", "FAILED", "PERMISSION_DENIED", "TIMED_OUT"},
     pending : Nat]

\* The members keep their types; the socket never holds more than fits, and the
\* count of foreground dispatches never goes below 0.
TypeOK ==
    /\ ChannelTypeOK
    /\ mInboundQueue \in Seq(KeyEntry)
    /\ mPendingEvent \in KeyEntry \cup {NoEvent}
    /\ mCommandQueue \in Seq(Command)
    /\ connection \in [Window -> Connection]
    /\ mFocusedWindowHandle \in Window \cup {NoWindow}
    /\ mFocusedApplicationHandle \in App \cup {NoApp}
    /\ {paused, mDispatchEnabled, mDispatchFrozen, woken,
        mInputTargetWaitTimeoutExpired} \subseteq BOOLEAN
    /\ mInputTargetWaitCause \in {"NONE", "APPLICATION_NOT_READY"}
    /\ dispatcher \in [pc : {"poll", "commands", "policy"},
                       timeout : {"now", "timer", "never"},
                       command : Command \cup {NoCommand},
                       hangup : Window \cup {NoWindow}]
    /\ injection \in [Injector -> InjectionState]
    /\ sNextSeq \in Nat \ {0} /\ keys \in 0 .. MaxKeys /\ held \subseteq Key
    /\ calls \in 0 .. MaxCalls /\ delays \in 0 .. MaxDelays

\* The dispatcher is running and dispatches; any windows are registered, any
\* of them has the focus.
Init ==
    /\ ChannelInit
    /\ mInboundQueue = <<>> /\ mPendingEvent = NoEvent /\ mCommandQueue = <<>>
    /\ \E registered \in SUBSET Window : connection = [w \in Window |->
          [status |-> IF w \in registered THEN "NORMAL" ELSE "NONE",
           blocked |-> FALSE, outboundQueue |-> <<>>, waitQueue |-> <<>>,
           mKeyMementos |-> <<>>, mFallbackKeys |-> [k \in Key |-> "none"]]]
    /\ mFocusedWindowHandle \in Window \cup {NoWindow} /\ paused = FALSE
    /\ mFocusedApplicationHandle \in App
    /\ mDispatchEnabled = TRUE /\ mDispatchFrozen = FALSE
    /\ mInputTargetWaitCause = "NONE" /\ mInputTargetWaitTimeoutExpired = FALSE
    /\ dispatcher = [pc |-> "poll", timeout |-> "now", command |-> NoCommand,
                     hangup |-> NoWindow]
    /\ woken = FALSE
    /\ injection = [i \in Injector |->
          [pc |-> "idle", mode |-> "NONE", result |-> "PENDING", pending |-> 0]]
    /\ sNextSeq = 1 /\ keys = 0 /\ held = {} /\ calls = 0 /\ delays = 0
-----------------------------------------------------------------------------
(* What the calls under mLock change together.                              *)

World == [connection |-> connection, commands |-> mCommandQueue,
          injection |-> injection, seq |-> sNextSeq, pipe |-> pipe]

\* The world becomes what a call makes of it.  Here and below the new world is
\* bound by a quantifier, so that TLC computes it once.
Becomes(next) == \E s \in {next} :
    /\ connection' = s.connection /\ mCommandQueue' = s.commands
    /\ injection' = s.injection /\ sNextSeq' = s.seq /\ pipe' = s.pipe

postCommandLocked(s, command) == [s EXCEPT !.commands = Append(@, command)]

\* The broadcasts of the two conditions: their sleepers look again.
WokenFrom(injections, pc, next) ==
    [i \in Injector |-> IF injections[i].pc = pc
                        THEN [injections[i] EXCEPT !.pc = next] ELSE injections[i]]

\* Faulty variant: without the broadcast.
setInjectionResultSilently(s, i, result) ==
    IF i = NoInjector THEN s ELSE [s EXCEPT !.injection[i].result = result]

setInjectionResultLocked(s, i, result) ==
    IF i = NoInjector THEN s ELSE
    [s EXCEPT !.injection =
        WokenFrom([@ EXCEPT ![i].result = result], "awaitResult", "checkResult")]

\* A call that changes the connection of one window.
WithConnection(s, w, c) == [s EXCEPT !.connection[w] = c]

incrementPendingForegroundDispatchesLocked(s, e) ==
    IF e.foreground /\ e.injector # NoInjector
    THEN [s EXCEPT !.injection[e.injector].pending = @ + 1] ELSE s

\* releaseDispatchEntryLocked, with decrementPendingForegroundDispatchesLocked.
releaseDispatchEntryLocked(s, e) ==
    IF e.foreground /\ e.injector # NoInjector
    THEN LET left == [s.injection EXCEPT ![e.injector].pending = @ - 1]
         IN [s EXCEPT !.injection =
               IF left[e.injector].pending = 0
               THEN WokenFrom(left, "awaitFinished", "checkFinished") ELSE left]
    ELSE s

\* The queues of a connection whose dispatch cycle is aborted.
AbortedConnection(c) ==
    [c EXCEPT !.outboundQueue = <<>>, !.waitQueue = <<>>,
              !.status = IF @ = "NORMAL" THEN "BROKEN" ELSE @]

\* onDispatchCycleBrokenLocked, for a connection that was not broken before.
NotifiesBroken(s, w, notify) ==
    IF s.connection[w].status = "NORMAL" /\ notify
    THEN Append(s.commands, [type |-> "broken", window |-> w]) ELSE s.commands

\* Faulty variant: the queues are emptied and their entries not released.
abortWithoutReleasing(s, w, notify) ==
    [WithConnection(s, w, AbortedConnection(s.connection[w]))
        EXCEPT !.commands = NotifiesBroken(s, w, notify)]

\* The dispatches of an injected event that are queued for a window.
Dispatches(s, w, i) ==
    {<<w, e.seq>> : e \in
        {x \in ToSet(s.connection[w].outboundQueue \o s.connection[w].waitQueue) :
            x.foreground /\ x.injector = i}}

\* drainDispatchQueueLocked of both queues: every entry is released.
drainDispatchQueues(s, w) ==
    LET left == [i \in Injector |-> [s.injection[i] EXCEPT
                    !.pending = @ - Cardinality(Dispatches(s, w, i))]]
    IN IF \E i \in Injector : Dispatches(s, w, i) # {} /\ left[i].pending = 0
       THEN WokenFrom(left, "awaitFinished", "checkFinished") ELSE left

abortBrokenDispatchCycleLocked(s, w, notify) ==
    [connection |-> [s.connection EXCEPT ![w] = AbortedConnection(@)],
     commands |-> NotifiesBroken(s, w, notify),
     injection |-> drainDispatchQueues(s, w), seq |-> s.seq, pipe |-> s.pipe]

\* Publishes what fits into the socket.
startDispatchCycleLocked(s, w) ==
    LET c == s.connection[w]
        room == PipeSize - Len(s.pipe[w])
        n == IF Len(c.outboundQueue) < room THEN Len(c.outboundQueue) ELSE room
        published == SubSeq(c.outboundQueue, 1, n)
        rest == SubSeq(c.outboundQueue, n + 1, Len(c.outboundQueue))
        waits == c.waitQueue \o published
    IN IF c.status # "NORMAL" \/ c.outboundQueue = <<>> THEN s
       ELSE IF w \notin open \/ (rest # <<>> /\ waits = <<>>)
         THEN abortBrokenDispatchCycleLocked(s, w, TRUE)
         ELSE [WithConnection(s, w, [c EXCEPT !.outboundQueue = rest,
                                              !.waitQueue = waits,
                                              !.blocked = @ \/ rest # <<>>])
                  EXCEPT !.pipe[w] = @ \o published]

\* findKeyMemento, at most one.
findKeyMemento(c, key) ==
    {n \in DOMAIN c.mKeyMementos : c.mKeyMementos[n].key = key}

\* InputState::trackKey, which lets every key pass.
trackKey(c, e) ==
    LET found == findKeyMemento(c, e.key)
        others == IF found = {} THEN c.mKeyMementos
                  ELSE RemoveAt(c.mKeyMementos, CHOOSE n \in found : TRUE)
    IN IF e.action = "DOWN"
       THEN [c EXCEPT !.mKeyMementos =
                Append(others, [key |-> e.key, fallback |-> e.fallback])]
       ELSE [c EXCEPT !.mKeyMementos = others,
                !.mFallbackKeys = [k \in Key |->
                    IF e.fallback /\ @[k] = e.key THEN "none" ELSE @[k]]]

\* The entry, which has the next sequence number, joins the outbound queue.
enqueueDispatchEntryLocked(s, w, e) ==
    LET c == trackKey(s.connection[w], e)
    IN [WithConnection(incrementPendingForegroundDispatchesLocked(s, e), w,
                       [c EXCEPT !.outboundQueue = Append(@, e)])
           EXCEPT !.seq = @ + 1]

\* prepareDispatchCycleLocked and enqueueDispatchEntriesLocked of a key event.
prepareDispatchCycleLocked(s, w, ev) ==
    LET queued == enqueueDispatchEntryLocked(s, w,
            [seq |-> s.seq, key |-> ev.key, action |-> ev.action,
             foreground |-> TRUE, fallback |-> FALSE, injector |-> ev.injector])
    IN IF s.connection[w].status # "NORMAL" THEN s
       ELSE IF s.connection[w].outboundQueue = <<>>
         THEN startDispatchCycleLocked(queued, w) ELSE queued

\* InputState::synthesizeCancelationEvents with shouldCancelKey: every key, or
\* the fallback of that code.
CanceledKeys(c, fallbackKeyCode) ==
    LET found == {n \in findKeyMemento(c, fallbackKeyCode) :
                     c.mKeyMementos[n].fallback}
    IN IF fallbackKeyCode = "none" THEN c.mKeyMementos
       ELSE IF found = {} THEN <<>>
       ELSE <<c.mKeyMementos[CHOOSE n \in found : TRUE]>>

\* The cancelation event of a key is queued.
Cancel(s, w, memento) ==
    enqueueDispatchEntryLocked(s, w,
        [seq |-> s.seq, key |-> memento.key, action |-> "UP", foreground |-> FALSE,
         fallback |-> memento.fallback, injector |-> NoInjector])

\* The same; the set makes TLC evaluate s once.
NextCancel(s, w, memento) == CHOOSE r \in {Cancel(t, w, memento) : t \in {s}} : TRUE

\* The loop over the cancelation events.
CancelEach(s, w, canceled) ==
    LET after[n \in 0 .. Len(canceled)] ==
            IF n = 0 THEN s ELSE NextCancel(after[n - 1], w, canceled[n])
    IN after[Len(canceled)]

synthesizeCancelationEventsForConnectionLocked(s, w, fallbackKeyCode) ==
    LET canceled == CanceledKeys(s.connection[w], fallbackKeyCode)
    IN IF s.connection[w].status = "BROKEN" \/ canceled = <<>> THEN s
       ELSE startDispatchCycleLocked(CancelEach(s, w, canceled), w)

\* mConnectionsByFd.
Registered(s) == {w \in Window : s.connection[w].status \in {"NORMAL", "BROKEN"}}

\* One connection of the loop; the set makes TLC evaluate s once.
NextConnection(s, w) ==
    CHOOSE r \in {synthesizeCancelationEventsForConnectionLocked(t, w, "none") :
                      t \in {s}} : TRUE

\* order is that of mConnectionsByFd.
synthesizeCancelationEventsForAllConnectionsLocked(s, order) ==
    LET after[n \in 0 .. Len(order)] ==
            IF n = 0 THEN s ELSE NextConnection(after[n - 1], order[n])
    IN after[Len(order)]

unregisterInputChannelLocked(s, w, notify) ==
    LET aborted == abortBrokenDispatchCycleLocked(s, w, notify)
    IN IF w \in Registered(s)
       THEN [aborted EXCEPT !.connection[w].status = "ZOMBIE"] ELSE s

\* Faulty variant: nobody tells the injector.
releaseInboundEventSilently(s, events) == s

\* releaseInboundEventLocked of some events: an injected event without a result
\* has failed.
releaseInboundEventLocked(s, events) ==
    LET failed == {i \in Injector : s.injection[i].result = "PENDING"
                                       /\ \E ev \in events : ev.injector = i}
        marked == [i \in Injector |-> IF i \in failed
                      THEN [s.injection[i] EXCEPT !.result = "FAILED"]
                      ELSE s.injection[i]]
    IN IF failed = {} THEN s
       ELSE [s EXCEPT !.injection = WokenFrom(marked, "awaitResult", "checkResult")]
-----------------------------------------------------------------------------
(* dispatchOnce.  pollOnce returns because of a wake, at once because work  *)
(* was done, or because the timer that was set is due.                      *)

Unlocked == dispatcher.pc \in {"poll", "policy"}

Polled(due) ==
    /\ dispatcher.pc = "poll"
    /\ woken \/ dispatcher.timeout = "now" \/ (dispatcher.timeout = "timer" /\ due)
    /\ woken' = FALSE

\* Commands run next, if there are any, and pollOnce then does not wait.
PollsNext(next, timeout) == \E s \in {next} :
    /\ Becomes(s)
    /\ dispatcher' = IF s.commands # <<>>
                     THEN [dispatcher EXCEPT !.pc = "commands", !.timeout = "now"]
                     ELSE [dispatcher EXCEPT !.pc = "poll", !.timeout = timeout]

\* dispatchOnceInnerLocked is left out when commands are waiting.
dispatchOnceRunsCommands ==
    /\ Polled(TRUE) /\ mCommandQueue # <<>>
    /\ PollsNext(World, "now")
    /\ UNCHANGED <<focusVars, waitVars, queueVars, boundVars, peerVars>>

Inner(due) == mCommandQueue = <<>> /\ Polled(due)

\* Frozen, or nothing to do.
dispatchIdles ==
    /\ Inner(TRUE)
    /\ mDispatchFrozen \/ (mPendingEvent = NoEvent /\ mInboundQueue = <<>>)
    /\ PollsNext(World, "never")
    /\ UNCHANGED <<focusVars, waitVars, queueVars, boundVars, peerVars>>

\* The event to dispatch, and what is queued behind it.
HasEvent == ~mDispatchFrozen /\ (mPendingEvent # NoEvent \/ mInboundQueue # <<>>)
NextEvent == IF mPendingEvent # NoEvent THEN mPendingEvent ELSE Head(mInboundQueue)
QueuedBehind == IF mPendingEvent # NoEvent THEN mInboundQueue ELSE Tail(mInboundQueue)

\* resetANRTimeoutsLocked comes with a new event.
WaitCause == IF mPendingEvent # NoEvent THEN mInputTargetWaitCause ELSE "NONE"

\* The event stays pending.
Pends(ev, s, timeout) ==
    /\ mPendingEvent' = ev /\ mInboundQueue' = QueuedBehind
    /\ PollsNext(s, timeout)
    /\ UNCHANGED <<focusVars, boundVars, peerVars>>

\* The event is done: releasePendingEventLocked, and no wait in pollOnce.
Done(s) ==
    /\ mPendingEvent' = NoEvent /\ mInboundQueue' = QueuedBehind
    /\ mInputTargetWaitCause' = "NONE"
    /\ PollsNext(releaseInboundEventLocked(s, {NextEvent}), "now")
    /\ UNCHANGED <<mInputTargetWaitTimeoutExpired, focusVars, boundVars, peerVars>>

\* dispatchKeyLocked: the policy has asked to try again later, and it is early.
dispatchKeyTriesLater ==
    /\ Inner(FALSE) /\ HasEvent /\ NextEvent.intercept = "LATER"
    /\ Pends(NextEvent, World, "timer")
    /\ UNCHANGED waitVars

\* dispatchKeyLocked lets the policy intercept the key first.
dispatchKeyAsksPolicy ==
    /\ HasEvent /\ NextEvent.passToUser
    /\ \/ Inner(FALSE) /\ NextEvent.intercept = "UNKNOWN"
       \/ Inner(TRUE) /\ NextEvent.intercept \in {"UNKNOWN", "LATER"}
    /\ Pends([NextEvent EXCEPT !.intercept = "UNKNOWN"],
             postCommandLocked(World, [type |-> "intercept"]), "now")
    /\ mInputTargetWaitCause' = WaitCause
    /\ UNCHANGED mInputTargetWaitTimeoutExpired

\* The key has been shown to the policy, or is not meant for the user.
Intercepted == NextEvent.intercept \in {"CONTINUE", "SKIP"} \/ ~NextEvent.passToUser

\* dropReason; late stands for an app switch that is overdue, a stale event and
\* a touch into another application, which depend on times and on other events.
DropReason(late) ==
    IF ~NextEvent.passToUser THEN "POLICY"
    ELSE IF ~mDispatchEnabled THEN "DISABLED"
    ELSE IF late THEN "LATE"
    ELSE IF NextEvent.intercept = "SKIP" THEN "POLICY" ELSE "NOT_DROPPED"

\* dispatchKeyLocked with a reason to drop, and dropInboundEventLocked.
dispatchKeyDrops(late) ==
    /\ Inner(TRUE) /\ HasEvent /\ Intercepted
    /\ DropReason(late) # "NOT_DROPPED"
    /\ \E order \in SetToSeqs(Registered(World)) :
          Done(synthesizeCancelationEventsForAllConnectionsLocked(
                  setInjectionResultLocked(World, NextEvent.injector,
                      IF DropReason(late) = "POLICY" THEN "SUCCEEDED" ELSE "FAILED"),
                  order))

FindsTarget(due) ==
    Inner(due) /\ HasEvent /\ Intercepted /\ DropReason(FALSE) = "NOT_DROPPED"

\* findFocusedWindowTargetsLocked: nothing has the focus, or the injector may
\* not inject into the focused window.
dispatchKeyFails ==
    /\ FindsTarget(TRUE)
    /\ \/ /\ mFocusedWindowHandle = NoWindow /\ mFocusedApplicationHandle = NoApp
          /\ Done(setInjectionResultLocked(World, NextEvent.injector, "FAILED"))
       \/ /\ mFocusedWindowHandle # NoWindow /\ NextEvent.injector # NoInjector
          /\ Done(setInjectionResultLocked(World, NextEvent.injector,
                                           "PERMISSION_DENIED"))

\* checkWindowReadyForMoreInputLocked of the focused window, for a key.
checkWindowReadyForMoreInputLocked ==
    LET c == connection[mFocusedWindowHandle]
    IN /\ ~paused /\ c.status = "NORMAL" /\ ~c.blocked
       /\ c.outboundQueue = <<>> /\ c.waitQueue = <<>>

TargetNotReady ==
    IF mFocusedWindowHandle = NoWindow THEN mFocusedApplicationHandle # NoApp
    ELSE ~checkWindowReadyForMoreInputLocked

\* handleTargetsNotReadyLocked: a wait begins, or goes on.
handleTargetsNotReady ==
    /\ \/ FindsTarget(TRUE) /\ WaitCause = "NONE"
       \/ FindsTarget(FALSE) /\ ~mInputTargetWaitTimeoutExpired
    /\ TargetNotReady
    /\ mInputTargetWaitCause' = "APPLICATION_NOT_READY"
    /\ mInputTargetWaitTimeoutExpired' = FALSE
    /\ Pends(NextEvent, World, "timer")

\* handleTargetsNotReadyLocked: the wait was too long, the policy is told.
onANRLocked ==
    /\ FindsTarget(TRUE) /\ TargetNotReady
    /\ WaitCause # "NONE" /\ ~mInputTargetWaitTimeoutExpired
    /\ Pends(NextEvent, postCommandLocked(World,
                [type |-> "anr", window |-> mFocusedWindowHandle]), "now")
    /\ UNCHANGED waitVars

\* handleTargetsNotReadyLocked: the policy gave up.
targetTimesOut ==
    /\ FindsTarget(TRUE) /\ TargetNotReady
    /\ WaitCause # "NONE" /\ mInputTargetWaitTimeoutExpired
    /\ Done(setInjectionResultLocked(World, NextEvent.injector, "TIMED_OUT"))

\* dispatchKeyLocked has found the focused window: dispatchEventLocked.
dispatchKey ==
    /\ FindsTarget(TRUE)
    /\ mFocusedWindowHandle # NoWindow /\ checkWindowReadyForMoreInputLocked
    /\ Done(prepareDispatchCycleLocked(
              setInjectionResultLocked(World, NextEvent.injector, "SUCCEEDED"),
              mFocusedWindowHandle, NextEvent))

dispatchOnce ==
    \/ dispatchOnceRunsCommands \/ dispatchIdles
    \/ dispatchKeyTriesLater \/ dispatchKeyAsksPolicy
    \/ \E late \in BOOLEAN : dispatchKeyDrops(late)
    \/ dispatchKeyFails \/ handleTargetsNotReady \/ onANRLocked
    \/ targetTimesOut \/ dispatchKey
-----------------------------------------------------------------------------
(* runCommandsLockedInterruptible: the commands in turn, with mLock let go  *)
(* where they call the policy.  Then pollOnce: it returns at once, after    *)
(* dispatchOnce and after a callback alike.                                 *)

\* The socket of a channel that is unregistered no longer matters.
ForgetsChannel(w) ==
    /\ open' = open \ {w}
    /\ received' = [received EXCEPT ![w] = <<>>]
    /\ down' = [down EXCEPT ![w] = {}]
    /\ signals' = [signals EXCEPT ![w] = <<>>]

Unregistered(s, w, notify) ==
    [unregisterInputChannelLocked(s, w, notify) EXCEPT !.pipe[w] = <<>>]

\* A command is over.  After the last one handleReceiveCallback unregisters the
\* channel whose other end was closed.
CommandEnds(next) == \E s \in {next} :
    LET w == dispatcher.hangup
        polls == [dispatcher EXCEPT !.pc = "poll", !.command = NoCommand,
                                    !.hangup = NoWindow]
        runs == [dispatcher EXCEPT !.pc = "commands", !.command = NoCommand]
    IN \/ /\ s.commands # <<>>
          /\ Becomes(s) /\ dispatcher' = runs
          /\ UNCHANGED peerVars
       \/ /\ s.commands = <<>> /\ w = NoWindow
          /\ Becomes(s) /\ dispatcher' = polls
          /\ UNCHANGED peerVars
       \/ /\ s.commands = <<>> /\ w # NoWindow
          /\ Becomes(Unregistered(s, w, TRUE)) /\ ForgetsChannel(w)
          /\ dispatcher' = polls

AsksPolicy(next, command) == \E s \in {next} :
    /\ Becomes(s)
    /\ dispatcher' = [dispatcher EXCEPT !.pc = "policy", !.command = command]
    /\ UNCHANGED peerVars

unchangedByCommand == UNCHANGED <<focusVars, queueVars, keys, held, calls, woken>>

FirstCommand == Head(mCommandQueue)
Dequeued == [World EXCEPT !.commands = Tail(@)]

\* doInterceptKeyBeforeDispatching and doNotifyANR call the policy first.
commandCallsPolicy ==
    /\ dispatcher.pc = "commands"
    /\ FirstCommand.type \in {"intercept", "anr"}
    /\ AsksPolicy(Dequeued, FirstCommand)
    /\ unchangedByCommand /\ UNCHANGED <<waitVars, delays>>

\* The answer of interceptKeyBeforeDispatching.  The event may be gone.
doInterceptKeyBeforeDispatching(result) ==
    /\ dispatcher.pc = "policy" /\ dispatcher.command.type = "intercept"
    /\ result = "LATER" => delays < MaxDelays
    /\ delays' = IF result = "LATER" THEN delays + 1 ELSE delays
    /\ mPendingEvent' = IF mPendingEvent = NoEvent THEN NoEvent
                        ELSE [mPendingEvent EXCEPT !.intercept = result]
    /\ CommandEnds(World)
    /\ UNCHANGED <<focusVars, waitVars, mInboundQueue, keys, held, calls, woken>>

\* The answer of notifyANR: resumeAfterTargetsNotReadyTimeoutLocked.
doNotifyANR(newTimeout) ==
    /\ dispatcher.pc = "policy" /\ dispatcher.command.type = "anr"
    /\ LET w == dispatcher.command.window
       IN \/ /\ newTimeout /\ delays < MaxDelays
             /\ delays' = delays + 1
             /\ CommandEnds(World)
             /\ UNCHANGED waitVars
          \/ /\ ~newTimeout
             /\ mInputTargetWaitTimeoutExpired' = TRUE
             /\ CommandEnds(IF w # NoWindow /\ connection[w].status = "NORMAL"
                            THEN synthesizeCancelationEventsForConnectionLocked(
                                     World, w, "none")
                            ELSE World)
             /\ UNCHANGED <<mInputTargetWaitCause, delays>>
    /\ unchangedByCommand

\* doNotifyInputChannelBroken: the policy is called for a channel that has not
\* been unregistered since.
doNotifyInputChannelBroken ==
    /\ \/ /\ dispatcher.pc = "commands" /\ FirstCommand.type = "broken"
          /\ IF connection[FirstCommand.window].status # "ZOMBIE"
             THEN AsksPolicy(Dequeued, FirstCommand) ELSE CommandEnds(Dequeued)
       \/ /\ dispatcher.pc = "policy" /\ dispatcher.command.type = "broken"
          /\ CommandEnds(World)
    /\ unchangedByCommand /\ UNCHANGED <<waitVars, delays>>

\* findWaitQueueEntry, at most one.
findWaitQueueEntry(s, w, seq) ==
    {n \in DOMAIN s.connection[w].waitQueue : s.connection[w].waitQueue[n].seq = seq}

setFallbackKey(s, w, key, code) ==
    [s EXCEPT !.connection[w].mFallbackKeys[key] = code]

\* Faulty variant: the oldest entry leaves the wait queue.
finishOldestEntry(s, w, entry, again) ==
    LET taken == [s EXCEPT !.connection[w].waitQueue = Tail(@)]
    IN IF findWaitQueueEntry(s, w, entry.seq) = {} THEN s
       ELSE startDispatchCycleLocked(releaseDispatchEntryLocked(taken, entry), w)

\* Faulty variant: the entry is not looked for again after the policy's call.
finishEntryUnchecked(s, w, entry, again) ==
    LET taken == [s EXCEPT !.connection[w].waitQueue =
                      SelectSeq(@, LAMBDA e : e.seq # entry.seq)]
    IN startDispatchCycleLocked(releaseDispatchEntryLocked(taken, entry), w)

\* The entry leaves the wait queue, to be sent again as another key ...
SendAgain(s, w, n, again) ==
    LET c == s.connection[w]
    IN WithConnection(s, w, [c EXCEPT !.outboundQueue = <<again>> \o @,
                                      !.waitQueue = RemoveAt(@, n)])

\* ... or to be released.
Release(s, w, n, entry) ==
    LET c == s.connection[w]
    IN WithConnection(releaseDispatchEntryLocked(s, entry), w,
                      [c EXCEPT !.waitQueue = RemoveAt(@, n)])

\* The end of doDispatchCycleFinished: the entry leaves the wait queue if it is
\* still there, and the next cycle starts.
finishEntry(s, w, entry, again) ==
    LET found == findWaitQueueEntry(s, w, entry.seq)
        n == CHOOSE m \in found : TRUE
    IN startDispatchCycleLocked(
          IF found = {} THEN s
          ELSE IF again.fallback # entry.fallback /\ s.connection[w].status = "NORMAL"
               THEN SendAgain(s, w, n, again) ELSE Release(s, w, n, entry), w)

\* doDispatchCycleFinished, and afterKeyEventLockedInterruptible up to its call
\* to the policy, for an entry that is in the wait queue.
AfterKeyEvent(s, w, entry, handled) ==
    LET fallback == s.connection[w].mFallbackKeys[entry.key]
        s1 == IF entry.action = "UP" THEN setFallbackKey(s, w, entry.key, "none") ELSE s
        ask(type) == AsksPolicy(s1, [type |-> type, window |-> w, entry |-> entry,
                                     fallback |-> fallback])
        known == handled \/ ~entry.foreground
    IN IF fallback = "none" /\ (known \/ entry.action = "UP")
          THEN CommandEnds(finishEntry(s1, w, entry, entry))
          ELSE ask(IF known THEN "cancelFallback" ELSE "askFallback")

doDispatchCycleFinished ==
    /\ dispatcher.pc = "commands" /\ FirstCommand.type = "finished"
    /\ LET w == FirstCommand.window
           found == findWaitQueueEntry(World, w, FirstCommand.seq)
           entry == connection[w].waitQueue[CHOOSE n \in found : TRUE]
       IN IF found = {} THEN CommandEnds(Dequeued)
          ELSE IF entry.fallback
               THEN CommandEnds(finishEntry(Dequeued, w, entry, entry))
               ELSE AfterKeyEvent(Dequeued, w, entry, FirstCommand.handled)
    /\ unchangedByCommand /\ UNCHANGED <<waitVars, delays>>

\* The policy was told that the fallback is canceled: the fallback key is
\* canceled too.
cancelsFallback ==
    /\ dispatcher.pc = "policy" /\ dispatcher.command.type = "cancelFallback"
    /\ LET w == dispatcher.command.window
           entry == dispatcher.command.entry
           fallback == dispatcher.command.fallback
           canceled == IF fallback = AKEYCODE_UNKNOWN THEN World
                       ELSE synthesizeCancelationEventsForConnectionLocked(
                                World, w, fallback)
       IN CommandEnds(finishEntry(setFallbackKey(canceled, w, entry.key, "none"),
                                  w, entry, entry))
    /\ unchangedByCommand /\ UNCHANGED <<waitVars, delays>>

\* The policy has answered an unhandled key, with a fallback or without.
asksFallback(answer) ==
    /\ dispatcher.pc = "policy" /\ dispatcher.command.type = "askFallback"
    /\ LET w == dispatcher.command.window
           entry == dispatcher.command.entry
           initialDown == entry.action = "DOWN"
           latched == IF initialDown THEN answer ELSE dispatcher.command.fallback
           changed == latched # AKEYCODE_UNKNOWN /\ answer # latched
           kept == IF initialDown THEN setFallbackKey(World, w, entry.key, latched)
                   ELSE World
           canceled == synthesizeCancelationEventsForConnectionLocked(World, w, latched)
           again == [entry EXCEPT !.key = latched, !.fallback = TRUE]
       IN CommandEnds(
            CASE connection[w].status # "NORMAL" ->
                   finishEntry(setFallbackKey(World, w, entry.key, "none"), w, entry, entry)
              [] connection[w].status = "NORMAL" /\ changed ->
                   finishEntry(canceled, w, entry, entry)
              [] OTHER -> finishEntry(kept, w, entry,
                              IF answer # AKEYCODE_UNKNOWN THEN again ELSE entry))
    /\ unchangedByCommand /\ UNCHANGED <<waitVars, delays>>

\* The finished signals of a channel as commands, in order.
FinishedCommands(w) ==
    [n \in DOMAIN signals[w] |-> [type |-> "finished", window |-> w,
        seq |-> signals[w][n].seq, handled |-> signals[w][n].handled]]

\* Faulty variant: inputPublisherBlocked stays set.
handleReceiveCallbackKeepsBlocked(w) ==
    /\ dispatcher.pc = "poll" /\ w \in Registered(World) /\ signals[w] # <<>>
    /\ mCommandQueue' = mCommandQueue \o
          (IF connection[w].status = "NORMAL" THEN FinishedCommands(w) ELSE <<>>)
    /\ signals' = [signals EXCEPT ![w] = <<>>]
    /\ dispatcher' = [dispatcher EXCEPT
          !.pc = IF mCommandQueue' # <<>> THEN "commands" ELSE "poll",
          !.timeout = "now",
          !.hangup = IF w \in open \/ mCommandQueue' = <<>> THEN NoWindow ELSE w]
    /\ UNCHANGED <<connection, injection, sNextSeq, pipe, received, down, open,
                   focusVars, waitVars, queueVars, boundVars, woken>>

\* handleReceiveCallback with signals to read: finishDispatchCycleLocked for
\* each of them.  A closed end is noticed when the commands have run.
handleReceiveCallback(w) ==
    /\ dispatcher.pc = "poll" /\ w \in Registered(World) /\ signals[w] # <<>>
    /\ connection' = [connection EXCEPT ![w].blocked = FALSE]
    /\ mCommandQueue' = mCommandQueue \o
          (IF connection[w].status = "NORMAL" THEN FinishedCommands(w) ELSE <<>>)
    /\ signals' = [signals EXCEPT ![w] = <<>>]
    /\ dispatcher' = [dispatcher EXCEPT
          !.pc = IF mCommandQueue' # <<>> THEN "commands" ELSE "poll",
          !.timeout = "now",
          !.hangup = IF w \in open \/ mCommandQueue' = <<>> THEN NoWindow ELSE w]
    /\ UNCHANGED <<injection, sNextSeq, pipe, received, down, open, focusVars,
                   waitVars, queueVars, boundVars, woken>>

\* handleReceiveCallback with a hangup: signals that were not read are lost.
handleHangup(w) ==
    /\ dispatcher.pc = "poll" /\ w \in Registered(World) /\ w \notin open
    /\ LET s == Unregistered(World, w, TRUE)
       IN /\ Becomes(s)
          /\ dispatcher' = [dispatcher EXCEPT !.timeout = "now"]
    /\ ForgetsChannel(w)
    /\ UNCHANGED <<focusVars, waitVars, queueVars, boundVars, woken>>

runCommand ==
    \/ commandCallsPolicy \/ doNotifyInputChannelBroken \/ doDispatchCycleFinished
policyAnswers ==
    \/ \E result \in {"CONTINUE", "SKIP", "LATER"} :
          doInterceptKeyBeforeDispatching(result)
    \/ \E newTimeout \in BOOLEAN : doNotifyANR(newTimeout)
    \/ cancelsFallback
    \/ \E answer \in Fallbacks \cup {AKEYCODE_UNKNOWN} : asksFallback(answer)
pollCallback == \E w \in Window : handleReceiveCallback(w) \/ handleHangup(w)
-----------------------------------------------------------------------------
(* The calls of other threads, each under mLock; the wake that follows the  *)
(* unlock is part of the step.                                              *)

\* Faulty variant: whether the queue is empty is asked too late.
enqueueInboundEventUnnoticed(ev) ==
    /\ mInboundQueue' = Append(mInboundQueue, ev)
    /\ woken' = (woken \/ mInboundQueue' = <<>>)

\* enqueueInboundEventLocked wakes the thread for the first event.
enqueueInboundEventLocked(ev) ==
    /\ mInboundQueue' = Append(mInboundQueue, ev)
    /\ woken' = (woken \/ mInboundQueue = <<>>)

KeyEvent(k, action, passToUser, i) ==
    [type |-> "key", key |-> k, action |-> action, passToUser |-> passToUser,
     intercept |-> "UNKNOWN", injector |-> i]

\* notifyKey: a key of a device goes down or up.  passToUser is the decision of
\* interceptKeyBeforeQueueing.  An input filter that consumes the event leaves
\* nothing to do.
notifyKey(k, passToUser) ==
    /\ Unlocked /\ keys < MaxKeys
    /\ keys' = keys + 1
    /\ held' = IF k \in held THEN held \ {k} ELSE held \cup {k}
    /\ enqueueInboundEventLocked(
          KeyEvent(k, IF k \in held THEN "UP" ELSE "DOWN", passToUser, NoInjector))
    /\ UNCHANGED <<mPendingEvent, worldVars, focusVars, waitVars, peerVars, calls,
                   delays, dispatcher>>

\* injectInputEvent up to its wait.
injectInputEvent(i, k, action, passToUser, mode) ==
    /\ Unlocked /\ injection[i].pc = "idle"
    /\ enqueueInboundEventLocked(KeyEvent(k, action, passToUser, i))
    /\ injection' = [injection EXCEPT ![i].mode = mode,
          ![i].pc = IF mode = "NONE" THEN "returned" ELSE "checkResult"]
    /\ UNCHANGED <<mPendingEvent, connection, mCommandQueue, sNextSeq, pipe,
                   focusVars, waitVars, peerVars, boundVars, dispatcher>>

unchangedByInjector ==
    UNCHANGED <<connection, mCommandQueue, sNextSeq, pipe, queueVars, focusVars,
                waitVars, peerVars, boundVars, dispatcher, woken>>

\* The loops of injectInputEvent: return, wait, or go on to the second wait.
injectionChecks(i) ==
    /\ Unlocked
    /\ LET j == injection[i]
           waits == j.result = "SUCCEEDED" /\ j.mode = "WAIT_FOR_FINISHED"
       IN \/ /\ j.pc = "checkResult"
             /\ injection' = [injection EXCEPT ![i].pc =
                   CASE j.result = "PENDING" -> "awaitResult"
                     [] waits /\ j.pending # 0 -> "awaitFinished"
                     [] OTHER -> "returned"]
          \/ /\ j.pc = "checkFinished"
             /\ injection' = [injection EXCEPT ![i].pc =
                   IF j.pending # 0 THEN "awaitFinished" ELSE "returned"]
    /\ unchangedByInjector

\* injectInputEvent runs into its timeout.
injectionTimesOut(i) ==
    /\ Unlocked /\ injection[i].pc \in {"awaitResult", "awaitFinished"}
    /\ injection' = [injection EXCEPT ![i].pc = "returned"]
    /\ unchangedByInjector

Calls == Unlocked /\ calls < MaxCalls /\ calls' = calls + 1

\* Faulty variant: the window that loses the focus keeps its keys.
setInputWindowsWithoutCanceling(focus, pause) ==
    /\ Calls /\ <<focus, pause>> # <<mFocusedWindowHandle, paused>>
    /\ mFocusedWindowHandle' = focus /\ paused' = (pause /\ focus # NoWindow)
    /\ woken' = TRUE
    /\ UNCHANGED <<mFocusedApplicationHandle, mDispatchEnabled, mDispatchFrozen,
                   worldVars, waitVars, queueVars, peerVars, keys, held, delays,
                   dispatcher>>

\* setInputWindows moves the focus, or pauses or resumes the focused window.
setInputWindows(focus, pause) ==
    /\ Calls /\ <<focus, pause>> # <<mFocusedWindowHandle, paused>>
    /\ mFocusedWindowHandle' = focus /\ paused' = (pause /\ focus # NoWindow)
    /\ Becomes(IF mFocusedWindowHandle # focus /\ mFocusedWindowHandle \in Registered(World)
               THEN synthesizeCancelationEventsForConnectionLocked(
                        World, mFocusedWindowHandle, "none")
               ELSE World)
    /\ woken' = TRUE
    /\ UNCHANGED <<mFocusedApplicationHandle, mDispatchEnabled, mDispatchFrozen,
                   waitVars, queueVars, peerVars, keys, held, delays, dispatcher>>

setFocusedApplication(app) ==
    /\ Calls /\ app # mFocusedApplicationHandle
    /\ mFocusedApplicationHandle' = app
    /\ mInputTargetWaitCause' = IF mFocusedApplicationHandle # NoApp THEN "NONE"
                                ELSE mInputTargetWaitCause
    /\ woken' = TRUE
    /\ UNCHANGED <<mFocusedWindowHandle, paused, mDispatchEnabled, mDispatchFrozen,
                   mInputTargetWaitTimeoutExpired, worldVars, queueVars, peerVars,
                   keys, held, delays, dispatcher>>

\* resetAndDropEverythingLocked, with releasePendingEventLocked and
\* drainInboundQueueLocked.
resetAndDropEverythingLocked ==
    LET dropped == ({mPendingEvent} \ {NoEvent}) \cup ToSet(mInboundQueue)
    IN /\ \E order \in SetToSeqs(Registered(World)) :
             Becomes(releaseInboundEventLocked(
                 synthesizeCancelationEventsForAllConnectionsLocked(World, order),
                 dropped))
       /\ mPendingEvent' = NoEvent /\ mInboundQueue' = <<>>
       /\ mInputTargetWaitCause' = "NONE"

setInputDispatchMode(enabled, frozen) ==
    /\ Calls /\ <<enabled, frozen>> # <<mDispatchEnabled, mDispatchFrozen>>
    /\ mDispatchEnabled' = enabled /\ mDispatchFrozen' = frozen
    /\ \/ /\ mDispatchEnabled /\ ~enabled
          /\ resetAndDropEverythingLocked
       \/ /\ ~(mDispatchEnabled /\ ~enabled)
          /\ mInputTargetWaitCause' = IF mDispatchFrozen /\ ~frozen THEN "NONE"
                                      ELSE mInputTargetWaitCause
          /\ UNCHANGED <<worldVars, queueVars>>
    /\ woken' = TRUE
    /\ UNCHANGED <<mFocusedWindowHandle, paused, mFocusedApplicationHandle,
                   mInputTargetWaitTimeoutExpired, peerVars, keys, held, delays,
                   dispatcher>>

\* A filter is put in or taken out; who asks it is notifyKey.
setInputFilterEnabled ==
    /\ Calls
    /\ resetAndDropEverythingLocked
    /\ woken' = TRUE
    /\ UNCHANGED <<mInputTargetWaitTimeoutExpired, focusVars, peerVars, keys, held,
                   delays, dispatcher>>

registerInputChannel(w) ==
    /\ Calls /\ connection[w].status = "NONE"
    /\ connection' = [connection EXCEPT ![w].status = "NORMAL"]
    /\ woken' = TRUE
    /\ UNCHANGED <<mCommandQueue, injection, sNextSeq, pipe, focusVars, waitVars,
                   queueVars, peerVars, keys, held, delays, dispatcher>>

unregisterInputChannel(w) ==
    /\ Calls /\ w \in Registered(World)
    /\ Becomes(Unregistered(World, w, FALSE)) /\ ForgetsChannel(w)
    /\ woken' = TRUE
    /\ UNCHANGED <<focusVars, waitVars, queueVars, keys, held, delays, dispatcher>>

\* An application acts on a registered channel.
applicationActs(w) ==
    /\ connection[w].status # "NONE"
    /\ \/ consume(w)
       \/ \E i \in DOMAIN received[w], handled \in BOOLEAN :
             sendFinishedSignal(w, i, handled)
    /\ UNCHANGED <<connection, mCommandQueue, injection, sNextSeq, queueVars,
                   focusVars, waitVars, boundVars, dispatcher, woken>>

applicationCloses(w) ==
    /\ connection[w].status # "NONE" /\ calls < MaxCalls /\ calls' = calls + 1
    /\ closeChannel(w)
    /\ UNCHANGED <<connection, mCommandQueue, injection, sNextSeq, queueVars,
                   focusVars, waitVars, keys, held, delays, dispatcher, woken>>

Next ==
    \/ dispatchOnce \/ runCommand \/ policyAnswers \/ pollCallback
    \/ \E k \in Key, passToUser \in BOOLEAN : notifyKey(k, passToUser)
    \/ \E i \in Injector, k \in Key, action \in {"DOWN", "UP"},
          passToUser \in BOOLEAN, mode \in {"NONE", "WAIT_FOR_RESULT", "WAIT_FOR_FINISHED"} :
             injectInputEvent(i, k, action, passToUser, mode)
    \/ \E i \in Injector : injectionChecks(i) \/ injectionTimesOut(i)
    \/ \E focus \in Window \cup {NoWindow}, pause \in BOOLEAN : setInputWindows(focus, pause)
    \/ \E app \in App \cup {NoApp} : setFocusedApplication(app)
    \/ \E enabled, frozen \in BOOLEAN : setInputDispatchMode(enabled, frozen)
    \/ setInputFilterEnabled
    \/ \E w \in Window : \/ registerInputChannel(w) \/ unregisterInputChannel(w)
                         \/ applicationActs(w) \/ applicationCloses(w)

Spec == Init /\ [][Next]_vars

\* The dispatcher's thread runs, timers come and the policy answers; a thread
\* in injectInputEvent runs when it is not asleep.  Nothing is assumed of the
\* applications, and nobody is made to call.
FairSpec ==
    /\ Spec
    /\ WF_vars(dispatchOnce \/ runCommand \/ policyAnswers \/ pollCallback)
    /\ \A i \in Injector : WF_vars(injectionChecks(i))
-----------------------------------------------------------------------------
(* Properties.                                                              *)

\* What an application will take to be down once it has read everything that is
\* on its way.
AppView(w) == KeysAfter(down[w], pipe[w] \o connection[w].outboundQueue)

Live(w) == connection[w].status = "NORMAL" /\ w \in open

\* When the focus leaves a window, the cancelation events of setInputWindows
\* reach its application behind whatever is still queued for it, blocked or
\* not: no key of a device or an injector stays down there, whether the events
\* were sent, are waiting for room, or were dropped in between.
NoKeyLeftDown ==
    \A w \in Window : Live(w) /\ w # mFocusedWindowHandle
                         => AppView(w) \cap Key = {}

\* Nor does a key that doDispatchCycleFinished sent in place of one that was
\* not handled.
FallbacksReleased ==
    \A w \in Window :
        Live(w) /\ w # mFocusedWindowHandle
           /\ connection[w].outboundQueue = <<>> /\ connection[w].waitQueue = <<>>
        => down[w] \cap Fallbacks = {}

Seqs(s) == {s[n].seq : n \in DOMAIN s}

\* The sequence numbers in the finished commands of a window.
FinishSeqs(commands, w) ==
    {commands[n].seq : n \in {m \in DOMAIN commands :
        commands[m].type = "finished" /\ commands[m].window = w}}

InPolicy(w) ==
    IF dispatcher.command.type \in {"askFallback", "cancelFallback"}
          /\ dispatcher.command.window = w
    THEN {dispatcher.command.entry.seq} ELSE {}

\* Between the two ends of a channel nothing is lost or answered twice: each
\* entry of the wait queue is in exactly one place, the socket, the application,
\* a finished signal, a command or doDispatchCycleFinished's call to the policy.
\* It is why "pipe full" with an empty wait queue, which startDispatchCycleLocked
\* calls unexpected, does not occur.
WaitQueueMatchesApp ==
    \A w \in Window : Live(w) =>
        LET parts == <<Seqs(pipe[w]), Seqs(received[w]), Seqs(signals[w]),
                       FinishSeqs(mCommandQueue, w), InPolicy(w)>>
        IN /\ UNION ToSet(parts) = Seqs(connection[w].waitQueue)
           /\ \A m, n \in DOMAIN parts : m # n => parts[m] \cap parts[n] = {}

\* inputPublisherBlocked and a nonempty outbound queue are undone by nothing but
\* a finished signal, so that something must be left for the application to
\* finish; else the window never gets an event again.
BlockedIsReleased ==
    \A w \in Window :
        Live(w) /\ (connection[w].blocked \/ connection[w].outboundQueue # <<>>)
        => connection[w].waitQueue # <<>>

Foreground(s, i) == UNION {Dispatches(s, w, i) : w \in Window}

\* pendingForegroundDispatches counts the entries of the injected event in all
\* queues, also when a channel breaks, is unregistered, or an entry is sent again
\* as a fallback key.
DispatchesCounted ==
    \A i \in Injector : injection[i].pending = Cardinality(Foreground(World, i))

\* Whoever gives the dispatcher's thread something to do wakes it: it does not
\* sleep in pollOnce without a timer while a command or an event is waiting.
IdleHasNoWork ==
    dispatcher.pc = "poll" /\ dispatcher.timeout = "never" /\ ~woken =>
        /\ mCommandQueue = <<>>
        /\ mDispatchFrozen \/ (mPendingEvent = NoEvent /\ mInboundQueue = <<>>)

\* An injected event gets a result though no application ever responds: the
\* policy's answer to an ANR, a drop or a reset settles it, unless dispatching is
\* frozen.
ResultKnown ==
    \A i \in Injector :
        injection[i].pc \in {"checkResult", "awaitResult"} ~>
            (\/ injection[i].result # "PENDING" \/ injection[i].pc = "returned"
             \/ mDispatchFrozen)

\* Each application in the end reads and finishes what it is sent.
ApplicationsRespond == \A w \in Window : WF_vars(applicationActs(w))

\* If the applications respond, injectInputEvent returns in every mode, without
\* the help of its timeout: no broadcast of the two conditions is missing.
InjectionReturns ==
    ApplicationsRespond =>
        \A i \in Injector : injection[i].pc # "idle" ~>
            (injection[i].pc = "returned" \/ mDispatchFrozen)
=============================================================================
