------------------------------ MODULE DispSync ------------------------------
(***************************************************************************)
(* The software model of the display's vsync,                              *)
(* services/surfaceflinger/DispSync.cpp, with the one listener that        *)
(* DispSyncSource registers for an EventThread.                            *)
(*                                                                         *)
(* Times are left out: of the model it matters whether a period is known,  *)
(* whether enough samples were taken since the last resync (mModelUpdated) *)
(* and in which of the three ranges that kErrorThreshold tells apart the   *)
(* error lies.  What a present fence does to the error is arbitrary.       *)
(***************************************************************************)
EXTENDS Integers

CONSTANTS MIN_RESYNC_SAMPLES_FOR_UPDATE,
          MAX_RESYNC_SAMPLES_WITHOUT_PRESENT

ASSUME DispSyncAssumption ==
    /\ MIN_RESYNC_SAMPLES_FOR_UPDATE \in Nat \ {0}
    /\ MAX_RESYNC_SAMPLES_WITHOUT_PRESENT \in Nat

VARIABLES
    periodKnown,        \* mPeriod # 0
    mModelUpdated,
    mNumResyncSamples,
    mNumResyncSamplesSincePresent,
    mError,
    mEventListeners,    \* is the listener of the EventThread registered?
    invocation          \* has the DispSync thread gathered a call of it?

modelVars == <<periodKnown, mModelUpdated, mNumResyncSamples,
               mNumResyncSamplesSincePresent, mError>>
listenerVars == <<mEventListeners, invocation>>

\* mError < kErrorThreshold / 2, up to kErrorThreshold, and above it.
ErrorRange == {"locked", "drifting", "lost"}

DispSyncTypeOK ==
    /\ periodKnown \in BOOLEAN /\ mModelUpdated \in BOOLEAN
    /\ mNumResyncSamples \in 0 .. MIN_RESYNC_SAMPLES_FOR_UPDATE
    /\ mNumResyncSamplesSincePresent \in 0 .. MAX_RESYNC_SAMPLES_WITHOUT_PRESENT + 1
    /\ mError \in ErrorRange
    /\ mEventListeners \in BOOLEAN /\ invocation \in BOOLEAN

DispSyncInit ==
    /\ periodKnown = FALSE /\ mModelUpdated = FALSE
    /\ mNumResyncSamples = 0 /\ mNumResyncSamplesSincePresent = 0
    /\ mError = "locked"
    /\ mEventListeners = FALSE /\ invocation = FALSE

-----------------------------------------------------------------------------
(* The model                                                               *)

beginResync ==
    /\ mModelUpdated' = FALSE
    /\ mNumResyncSamples' = 0

\* reset and setPeriod, which resyncToHardwareVsync calls one after the other;
\* beginResync leaves alone what reset does not set anyway.
resetAndSetPeriod ==
    /\ beginResync
    /\ mNumResyncSamplesSincePresent' = 0
    /\ mError' = "locked"
    /\ periodKnown' = TRUE

\* Are there samples enough for updateModelLocked to compute period and phase?
ModelUpdatedBy(samples) ==
    mModelUpdated \/ samples >= MIN_RESYNC_SAMPLES_FOR_UPDATE

Capped(n, max) == IF n < max THEN n ELSE max

\* A hardware vsync is added; needsHwVsync is the result.
addResyncSample(needsHwVsync) ==
    LET samples == Capped(mNumResyncSamples + 1, MIN_RESYNC_SAMPLES_FOR_UPDATE)
        unpresented ==
            mNumResyncSamplesSincePresent > MAX_RESYNC_SAMPLES_WITHOUT_PRESENT
        error == IF unpresented THEN "locked" ELSE mError
    IN
    /\ mNumResyncSamples' = samples
    /\ mModelUpdated' = ModelUpdatedBy(samples)
    /\ mNumResyncSamplesSincePresent' =
          Capped(mNumResyncSamplesSincePresent + 1,
                 MAX_RESYNC_SAMPLES_WITHOUT_PRESENT + 1)
    /\ mError' = error
    /\ needsHwVsync = ~(ModelUpdatedBy(samples) /\ error = "locked")
    /\ UNCHANGED periodKnown

\* updateErrorLocked judges the model only once it has been updated.
addPresentFence(needsHwVsync) ==
    /\ mNumResyncSamplesSincePresent' = 0
    /\ mError' \in (IF mModelUpdated THEN ErrorRange ELSE {mError})
    /\ needsHwVsync = (~mModelUpdated \/ mError' = "lost")
    /\ UNCHANGED <<periodKnown, mModelUpdated, mNumResyncSamples>>

-----------------------------------------------------------------------------
(* The listener and the DispSync thread                                    *)

\* addEventListener and removeEventListener: registering twice, or removing
\* what is not registered, is BAD_VALUE and changes nothing.
setVSyncEnabled(enable) ==
    mEventListeners' = enable

\* gatherCallbackInvocationsLocked, when the time of the next event has come.
gatherCallbackInvocations ==
    /\ ~invocation
    /\ periodKnown
    /\ mEventListeners
    /\ invocation' = TRUE
    /\ UNCHANGED mEventListeners

\* fireCallbackInvocations calls the listener after mMutex was released.
fireCallbackInvocations ==
    /\ invocation
    /\ invocation' = FALSE
    /\ UNCHANGED mEventListeners
=============================================================================
