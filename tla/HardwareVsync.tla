--------------------------- MODULE HardwareVsync ---------------------------
(***************************************************************************)
(* Who turns the vsync interrupt of the primary display on and off: the    *)
(* hardware vsync functions and the power modes of SurfaceFlinger,         *)
(* EventControlThread, and HWComposer's record of what the hardware was    *)
(* told.  The device has the sync framework (hasSyncFramework).            *)
(*                                                                         *)
(* A function that SurfaceFlinger calls for its effect on these variables  *)
(* is an operator that primes the flinger variables and those of DispSync; *)
(* Vsync makes actions of them.                                            *)
(***************************************************************************)
EXTENDS DispSync, Sequences

CONSTANTS HardwareWorks,    \* does the driver deliver interrupts at all?
          Modes,            \* the power modes that are asked for
          MaxPowerChanges, MaxPresents, MaxComposers  \* bounds

PowerMode == {"OFF", "DOZE", "DOZE_SUSPEND", "NORMAL"}

ASSUME HardwareVsyncAssumption ==
    /\ HardwareWorks \in BOOLEAN
    /\ Modes \subseteq PowerMode
    /\ {MaxPowerChanges, MaxPresents, MaxComposers} \subseteq Nat

VARIABLES
    mPrimaryHWVsyncEnabled, mHWVsyncAvailable,      \* under mHWVsyncLock
    powerMode,              \* DisplayDevice::mPowerMode of the primary display
    mComposerSequenceId,
    todo,                   \* what the main thread still has to do, in order
    mStateLock,             \* who holds it
    onVsync,                \* the hwbinder thread
    requested,              \* EventControlThread::mVsyncEnabled
    currentVsyncEnabled, ectState,  \* EventControlThread::threadMain
    vsyncEnabled,           \* HWComposer::DisplayData::vsyncEnabled
    powerChanges, presents

flagVars == <<mPrimaryHWVsyncEnabled, mHWVsyncAvailable, requested>>
mainVars == <<powerMode, mComposerSequenceId, todo, mStateLock,
              powerChanges, presents>>
controlVars == <<currentVsyncEnabled, ectState>>
hardwareVars == <<flagVars, mainVars, onVsync, controlVars, vsyncEnabled>>

Idle == [state |-> "idle"]
Step == {"onScreenAcquired", "onScreenReleased", "resyncToHardwareVsync",
         "enableHardwareVsync", "disableHardwareVsync", "makeUnavailable",
         "setPowerMode", "newComposer", "unlock"}

HardwareVsyncTypeOK ==
    /\ {mPrimaryHWVsyncEnabled, mHWVsyncAvailable, requested,
        currentVsyncEnabled, vsyncEnabled} \subseteq BOOLEAN
    /\ powerMode \in PowerMode
    /\ mComposerSequenceId \in 0 .. MaxComposers
    /\ todo \in Seq(Step)
    /\ mStateLock \in {"free", "main", "hwbinder"}
    /\ onVsync \in {Idle}
          \cup [state : {"called"}, sequenceId : 0 .. MaxComposers]
          \cup [state : {"sampled"}, needsHwVsync : BOOLEAN]
    /\ ectState \in {"calling", "waiting"}
    /\ powerChanges \in 0 .. MaxPowerChanges /\ presents \in 0 .. MaxPresents

\* Faulty variant: leaving DOZE_SUSPEND does not resync.
PowerStepsForgetSuspend(from, to) ==
    CASE from = "OFF" ->
            <<"setPowerMode", "onScreenAcquired", "resyncToHardwareVsync">>
      [] to = "OFF" ->
            <<"makeUnavailable", "onScreenReleased", "setPowerMode">>
      [] to = "DOZE_SUSPEND" ->
            <<"makeUnavailable", "onScreenReleased", "setPowerMode">>
      [] OTHER -> <<"setPowerMode">>

\* The calls of setPowerModeInternal for the primary display.
PowerSteps(from, to) ==
    LET on == <<"setPowerMode", "onScreenAcquired", "resyncToHardwareVsync">>
        off == <<"makeUnavailable", "onScreenReleased", "setPowerMode">>
    IN IF from = to
          THEN <<>>
          ELSE CASE from = "OFF" /\ to # "DOZE_SUSPEND" -> on
                 [] to = "OFF" /\ from # "DOZE_SUSPEND" -> off
                 [] from = "DOZE_SUSPEND" /\ to \in {"DOZE", "NORMAL"} -> on
                 [] to = "DOZE_SUSPEND" /\ from # "OFF" -> off
                 [] OTHER -> <<"setPowerMode">>

\* init() ends with initializeDisplays: the first message that the main thread
\* handles switches the display on, from OFF to NORMAL.
HardwareVsyncInit ==
    /\ mPrimaryHWVsyncEnabled = FALSE /\ mHWVsyncAvailable = FALSE /\ requested = FALSE
    /\ powerMode = "NORMAL"
    /\ mComposerSequenceId = 0
    /\ todo = PowerSteps("OFF", "NORMAL")
    /\ mStateLock = "free"
    /\ onVsync = Idle
    /\ currentVsyncEnabled = FALSE /\ ectState = "calling"
    /\ vsyncEnabled = FALSE
    /\ powerChanges = 0 /\ presents = 0

-----------------------------------------------------------------------------
(* The functions that hold mHWVsyncLock                                    *)

\* EventControlThread::setVsyncEnabled, called with mHWVsyncLock held.
setVsyncEnabled(enabled) == requested' = enabled

\* Faulty variant: switched on although the display is not available.
enableWhenUnavailable ==
    /\ beginResync
    /\ setVsyncEnabled(TRUE)
    /\ mPrimaryHWVsyncEnabled' = TRUE
    /\ UNCHANGED <<mHWVsyncAvailable, periodKnown, mNumResyncSamplesSincePresent,
                   mError>>

enableHardwareVsync ==
    IF ~mPrimaryHWVsyncEnabled /\ mHWVsyncAvailable
       THEN /\ beginResync
            /\ setVsyncEnabled(TRUE)
            /\ mPrimaryHWVsyncEnabled' = TRUE
            /\ UNCHANGED <<mHWVsyncAvailable, periodKnown,
                           mNumResyncSamplesSincePresent, mError>>
       ELSE UNCHANGED <<flagVars, modelVars>>

resyncToHardwareVsync(makeAvailable) ==
    IF makeAvailable \/ mHWVsyncAvailable
       THEN /\ mHWVsyncAvailable' = TRUE
            /\ resetAndSetPeriod
            /\ mPrimaryHWVsyncEnabled' = TRUE
            /\ IF mPrimaryHWVsyncEnabled THEN UNCHANGED requested
                                         ELSE setVsyncEnabled(TRUE)
       ELSE UNCHANGED <<flagVars, modelVars>>

disableHardwareVsync(makeUnavailable) ==
    /\ mPrimaryHWVsyncEnabled' = FALSE
    /\ IF mPrimaryHWVsyncEnabled THEN setVsyncEnabled(FALSE)
                                 ELSE UNCHANGED requested
    /\ mHWVsyncAvailable' = (mHWVsyncAvailable /\ ~makeUnavailable)
    /\ UNCHANGED modelVars

\* The rate limit is a matter of time: either the last attempt is recent or not.
resyncWithRateLimit ==
    \/ resyncToHardwareVsync(FALSE)
    \/ UNCHANGED <<flagVars, modelVars>>

-----------------------------------------------------------------------------
(* onVsyncReceived, on the hwbinder thread                                 *)

\* The hardware has made the call, which waits for mStateLock.
hardwareVsync ==
    /\ HardwareWorks
    /\ vsyncEnabled
    /\ onVsync = Idle
    /\ onVsync' = [state |-> "called", sequenceId |-> mComposerSequenceId]
    /\ UNCHANGED <<flagVars, mainVars, controlVars, vsyncEnabled, modelVars>>

\* From a previous composer, or rejected by HWComposer::onVsync (a duplicate).
onVsyncIgnored ==
    /\ onVsync.state = "called"
    /\ mStateLock = "free"
    /\ onVsync' = Idle
    /\ UNCHANGED <<flagVars, mainVars, controlVars, vsyncEnabled, modelVars>>

\* The first section under mHWVsyncLock.
onVsyncSampled ==
    /\ onVsync.state = "called"
    /\ mStateLock = "free"
    /\ onVsync.sequenceId = mComposerSequenceId
    /\ mStateLock' = "hwbinder"
    /\ \E needsHwVsync \in BOOLEAN :
          /\ onVsync' = [state |-> "sampled", needsHwVsync |-> needsHwVsync]
          /\ IF mPrimaryHWVsyncEnabled
                THEN addResyncSample(needsHwVsync)
                ELSE ~needsHwVsync /\ UNCHANGED modelVars
    /\ UNCHANGED <<flagVars, powerMode, mComposerSequenceId, todo, powerChanges,
                   presents, controlVars, vsyncEnabled>>

\* The second section acts on what the first one found.
onVsyncReturns ==
    /\ onVsync.state = "sampled"
    /\ mStateLock' = "free"
    /\ onVsync' = Idle
    /\ IF onVsync.needsHwVsync THEN enableHardwareVsync
                               ELSE disableHardwareVsync(FALSE)
    /\ UNCHANGED <<powerMode, mComposerSequenceId, todo, powerChanges, presents,
                   controlVars, vsyncEnabled>>

-----------------------------------------------------------------------------
(* EventControlThread::threadMain                                          *)

\* Faulty variant: the request is read once more after the call.
eventControlCallsThenReads ==
    /\ ectState = "calling"
    /\ mStateLock = "free"
    /\ vsyncEnabled' = currentVsyncEnabled
    /\ currentVsyncEnabled' = requested
    /\ ectState' = "waiting"
    /\ UNCHANGED <<flagVars, mainVars, onVsync, modelVars>>

\* mSetVSyncEnabled calls SurfaceFlinger::setVsyncEnabled, under mStateLock.
eventControlCalls ==
    /\ ectState = "calling"
    /\ mStateLock = "free"
    /\ vsyncEnabled' = currentVsyncEnabled
    /\ ectState' = "waiting"
    /\ UNCHANGED <<flagVars, mainVars, onVsync, currentVsyncEnabled, modelVars>>

\* The wait ends when the request differs from what was last called.
eventControlWakes ==
    /\ ectState = "waiting"
    /\ requested # currentVsyncEnabled
    /\ currentVsyncEnabled' = requested
    /\ ectState' = "calling"
    /\ UNCHANGED <<flagVars, mainVars, onVsync, vsyncEnabled, modelVars>>

-----------------------------------------------------------------------------
(* The main thread                                                         *)

\* A MessageSetPowerMode; hw->setPowerMode comes before the calls.
setPowerModeInternal(mode) ==
    /\ todo = <<>> /\ powerChanges < MaxPowerChanges
    /\ mode # powerMode
    /\ powerMode' = mode
    /\ todo' = PowerSteps(powerMode, mode)
    /\ powerChanges' = powerChanges + 1
    /\ UNCHANGED <<flagVars, mComposerSequenceId, mStateLock, presents, onVsync,
                   controlVars, vsyncEnabled, modelVars>>

\* postComposition: the present fence is added, then vsync enabled or disabled.
postComposition ==
    /\ todo = <<>> /\ presents < MaxPresents
    /\ presents' = presents + 1
    /\ \E needsHwVsync \in BOOLEAN :
          /\ addPresentFence(needsHwVsync)
          /\ todo' = IF needsHwVsync THEN <<"enableHardwareVsync">>
                                     ELSE <<"disableHardwareVsync">>
    /\ UNCHANGED <<flagVars, powerMode, mComposerSequenceId, mStateLock,
                   powerChanges, onVsync, controlVars, vsyncEnabled>>

\* updateVrFlinger, from one composer to another: under mStateLock the display
\* is taken from the old one; the display of the new one is off, and gets the
\* power mode of the old one before anyone could read it.
updateVrFlinger(vrFlingerRequestsDisplay) ==
    /\ todo = <<>> /\ mStateLock = "free"
    /\ mComposerSequenceId < MaxComposers
    /\ mStateLock' = "main"
    /\ todo' = <<"makeUnavailable", "newComposer">>
               \o (IF vrFlingerRequestsDisplay
                      THEN <<>> ELSE <<"enableHardwareVsync">>)
               \o PowerSteps("OFF", powerMode) \o <<"unlock">>
    /\ UNCHANGED <<flagVars, powerMode, mComposerSequenceId, powerChanges,
                   presents, onVsync, controlVars, vsyncEnabled, modelVars>>

Doing(step) == todo # <<>> /\ Head(todo) = step

\* HWComposer::setPowerMode: switching the display off also switches its vsync
\* off, under HWComposer's own lock, and EventControlThread is not told.
hwcSetPowerMode ==
    /\ Doing("setPowerMode")
    /\ todo' = Tail(todo)
    /\ vsyncEnabled' = (vsyncEnabled /\ powerMode # "OFF")
    /\ UNCHANGED <<flagVars, powerMode, mComposerSequenceId, mStateLock,
                   powerChanges, presents, onVsync, controlVars, modelVars>>

\* A new HWComposer believes that the vsync of its display is off.
newComposer ==
    /\ Doing("newComposer")
    /\ todo' = Tail(todo)
    /\ vsyncEnabled' = FALSE
    /\ mComposerSequenceId' = mComposerSequenceId + 1
    /\ UNCHANGED <<flagVars, powerMode, mStateLock, powerChanges, presents,
                   onVsync, controlVars, modelVars>>

unlockState ==
    /\ Doing("unlock")
    /\ todo' = Tail(todo)
    /\ mStateLock' = "free"
    /\ UNCHANGED <<flagVars, powerMode, mComposerSequenceId, powerChanges,
                   presents, onVsync, controlVars, vsyncEnabled, modelVars>>

\* The calls of the functions that hold mHWVsyncLock.
mainStep ==
    /\ todo # <<>> /\ todo' = Tail(todo)
    /\ \/ Doing("resyncToHardwareVsync") /\ resyncToHardwareVsync(TRUE)
       \/ Doing("enableHardwareVsync") /\ enableHardwareVsync
       \/ Doing("disableHardwareVsync") /\ disableHardwareVsync(FALSE)
       \/ Doing("makeUnavailable") /\ disableHardwareVsync(TRUE)
    /\ UNCHANGED <<powerMode, mComposerSequenceId, mStateLock, powerChanges,
                   presents, onVsync, controlVars, vsyncEnabled>>
=============================================================================
