------------------------------- MODULE Vsync -------------------------------
(***************************************************************************)
(* The vsync pipeline of SurfaceFlinger: the EventThread of the            *)
(* applications, DispSync, and the control of the hardware vsync, with     *)
(* their threads: main, hwbinder, EventControlThread, DispSync,            *)
(* EventThread, and the binder threads of the clients.                     *)
(***************************************************************************)
EXTENDS EventThread, HardwareVsync

vars == <<eventThreadVars, hardwareVars, modelVars, listenerVars>>

Init == DispSyncInit /\ EventThreadInit /\ HardwareVsyncInit

\* The main thread calls into EventThread.
screenStep ==
    /\ todo # <<>> /\ todo' = Tail(todo)
    /\ \/ Doing("onScreenAcquired") /\ onScreenAcquired
       \/ Doing("onScreenReleased") /\ onScreenReleased
    /\ UNCHANGED <<flagVars, powerMode, mComposerSequenceId, mStateLock,
                   powerChanges, presents, onVsync, controlVars, vsyncEnabled,
                   modelVars, listenerVars>>

MainThread ==
    \/ /\ \/ mainStep \/ hwcSetPowerMode \/ newComposer \/ unlockState
       /\ UNCHANGED <<eventThreadVars, listenerVars>>
    \/ screenStep

MainMessages ==
    \/ /\ \/ \E mode \in Modes : setPowerModeInternal(mode)
          \/ postComposition
          \/ \E vr \in BOOLEAN : updateVrFlinger(vr)
       /\ UNCHANGED <<eventThreadVars, listenerVars>>
    \/ /\ todo = <<>> /\ onHotplugReceived
       /\ UNCHANGED <<hardwareVars, modelVars, listenerVars>>

HwbinderThread ==
    /\ onVsyncIgnored \/ onVsyncSampled \/ onVsyncReturns
    /\ UNCHANGED <<eventThreadVars, listenerVars>>

ControlThread ==
    /\ eventControlCalls \/ eventControlWakes
    /\ UNCHANGED <<eventThreadVars, listenerVars>>

Hardware ==
    /\ hardwareVsync
    /\ UNCHANGED <<eventThreadVars, listenerVars>>

DispSyncGathers ==
    /\ gatherCallbackInvocations
    /\ UNCHANGED <<eventThreadVars, hardwareVars, modelVars>>

DispSyncFires ==
    /\ fireCallbackInvocations
    /\ onVSyncEvent
    /\ UNCHANGED <<hardwareVars, modelVars>>

\* requestNextVsync holds EventThread::mMutex while it resyncs.
requestAndResync(c) ==
    /\ requestNextVsync(c)
    /\ resyncWithRateLimit
    /\ UNCHANGED <<mainVars, onVsync, controlVars, vsyncEnabled, listenerVars>>

Client(c) ==
    \/ requestAndResync(c)
    \/ /\ \/ createEventConnection(c)
          \/ \E rate \in Rate \cup {0} : setVsyncRate(c, rate)
          \/ receive(c) \/ closeTube(c) \/ dropReference(c)
       /\ UNCHANGED <<hardwareVars, modelVars, listenerVars>>

\* threadMain and its wait.
EventLoop ==
    /\ DispatchVSync \/ DispatchOther
    /\ UNCHANGED <<hardwareVars, modelVars>>

WaitEnds ==
    /\ WaitReturns \/ WaitTimesOut
    /\ UNCHANGED <<hardwareVars, modelVars, listenerVars>>

Next ==
    \/ MainThread \/ MainMessages \/ HwbinderThread \/ ControlThread \/ Hardware
    \/ DispSyncGathers \/ DispSyncFires \/ EventLoop \/ WaitEnds
    \/ \E c \in Connection : Client(c)

Spec == Init /\ [][Next]_vars

\* Threads that can go on do so; a notified thread gets its mutex, and
\* mStateLock is not kept from EventControlThread by the interrupts for ever.  A
\* timed wait times out: the clients' calls are bounded, and wakeups without a
\* reason do not come faster than its 16 ms or 1 s for ever.  The DispSync thread
\* calls its listeners once a period.  Nothing is asked of the clients or the
\* user.  Hardware that works delivers interrupts while they are enabled, not all
\* of them rejected.
Notified ==
    /\ pc \in {"notified", "timedNotified"} /\ WaitReturns
    /\ UNCHANGED <<hardwareVars, modelVars, listenerVars>>

TimesOut ==
    /\ pc = "timedWait" /\ WaitTimesOut
    /\ UNCHANGED <<hardwareVars, modelVars, listenerVars>>

Sampled ==
    /\ onVsyncSampled
    /\ UNCHANGED <<eventThreadVars, listenerVars>>

FairSpec ==
    /\ Spec
    /\ WF_vars(MainThread) /\ WF_vars(HwbinderThread) /\ SF_vars(ControlThread)
    /\ WF_vars(DispSyncGathers) /\ SF_vars(DispSyncFires)
    /\ WF_vars(EventLoop) /\ WF_vars(Notified) /\ SF_vars(TimesOut)
    /\ WF_vars(Hardware) /\ SF_vars(Sampled)

-----------------------------------------------------------------------------
(* Properties                                                              *)

TypeOK == DispSyncTypeOK /\ EventThreadTypeOK /\ HardwareVsyncTypeOK

Interested == {c \in mDisplayEventConnections \cap referenced : count[c] >= 0}

\* threadMain never sleeps without a timeout while there is something for it to
\* do: an event, or a connection that waits for vsync (waitForEventLocked).
SleepsOnlyWhenIdle ==
    pc = "wait" => /\ ~mVSyncEvent.timestamp /\ mPendingEvents = <<>>
                   /\ Interested = {}

\* While threadMain waits for vsync with the screen on, the listener of
\* DispSync is registered: vsync comes from the display and not from the
\* timeout.
WaitsForARealVsync ==
    pc = "timedWait" /\ ~mUseSoftwareVSync => mVsyncEnabled /\ mEventListeners

\* Between two messages of the main thread, the three records of whether the
\* display is on agree, whatever sequence of power modes and composers led
\* there: the power mode, mHWVsyncAvailable, and EventThread's
\* mUseSoftwareVSync.
ScreenStateAgrees ==
    todo = <<>> => /\ mHWVsyncAvailable <=> powerMode \in {"DOZE", "NORMAL"}
                   /\ mUseSoftwareVSync <=> ~mHWVsyncAvailable

\* onVsyncReceived decides in one section of mHWVsyncLock and acts in another:
\* it never enables the vsync of a display that became unavailable in between.
EnabledOnlyWhenAvailable == mPrimaryHWVsyncEnabled => mHWVsyncAvailable

\* Every requestNextVsync is answered, whatever the screen and the hardware do:
\* the client finds a vsync event in its tube, unless it went away or changed
\* its mind.
RequestAnswered ==
    \A c \in Connection :
        c \in asked ~> \/ c \notin asked \cap receiving
                       \/ \E i \in DOMAIN tube[c] : tube[c][i] = "vsync"

\* When nobody is interested any more, the listener is removed, so that the
\* DispSync thread sleeps (it can when the period is known).
StopsWhenUnwanted ==
    mEventListeners /\ periodKnown ~> ~mEventListeners \/ Interested # {}

\* The interrupt does not stay on: when the model has been synchronised, and
\* also when nothing is presented any more, working hardware is told to stop.
InterruptEnds == vsyncEnabled ~> ~vsyncEnabled

\* "This resynchronization process should be performed whenever the display is
\* turned on" (DispSync.h): when hardware vsync is enabled, the hardware is
\* told, or it is disabled again.  No run checks it: it fails when the display
\* goes off and on before EventControlThread looks (eventControlWakes,
\* hwcSetPowerMode).
ResyncReachesHardware ==
    mPrimaryHWVsyncEnabled ~> vsyncEnabled \/ ~mPrimaryHWVsyncEnabled
=============================================================================
