----------------------------- MODULE VsyncProofs -----------------------------
(***************************************************************************)
(* Proofs about Vsync, for every set of connections, rates and power modes *)
(* and every bound.                                                        *)
(***************************************************************************)
EXTENDS Vsync, TLAPS

-----------------------------------------------------------------------------
(* What the actions of one component leave of the variables of another     *)

\* The steps of the other threads leave EventThread alone, but for the two
\* calls that the main thread makes and the events of DispSync and hotplug.
LEMMA EventThreadSteps ==
    ASSUME [Next]_vars
    PROVE  \/ UNCHANGED <<eventThreadVars, mEventListeners>>
           \/ onScreenAcquired /\ UNCHANGED mEventListeners
           \/ onScreenReleased /\ UNCHANGED mEventListeners
           \/ onHotplugReceived /\ UNCHANGED mEventListeners
           \/ onVSyncEvent /\ UNCHANGED mEventListeners
           \/ DispatchVSync \/ DispatchOther
           \/ (WaitReturns \/ WaitTimesOut) /\ UNCHANGED mEventListeners
           \/ \E c \in Connection :
                 /\ \/ requestNextVsync(c) \/ createEventConnection(c)
                    \/ \E rate \in Rate \cup {0} : setVsyncRate(c, rate)
                    \/ receive(c) \/ closeTube(c) \/ dropReference(c)
                 /\ UNCHANGED mEventListeners
<1>1. CASE MainThread
  BY <1>1 DEF MainThread, screenStep, listenerVars
<1>2. CASE MainMessages
  BY <1>2 DEF MainMessages, listenerVars
<1>3. CASE HwbinderThread \/ ControlThread \/ Hardware
  BY <1>3 DEF HwbinderThread, ControlThread, Hardware, listenerVars
<1>4. CASE DispSyncGathers \/ DispSyncFires
  BY <1>4 DEF DispSyncGathers, DispSyncFires, gatherCallbackInvocations,
              fireCallbackInvocations
<1>5. CASE EventLoop \/ WaitEnds
  BY <1>5 DEF EventLoop, WaitEnds, listenerVars
<1>6. CASE \E c \in Connection : Client(c)
  BY <1>6 DEF Client, requestAndResync, listenerVars
<1>7. CASE UNCHANGED vars
  BY <1>7 DEF vars, listenerVars
<1> QED
  BY <1>1, <1>2, <1>3, <1>4, <1>5, <1>6, <1>7 DEF Next

-----------------------------------------------------------------------------
(* EventThread                                                             *)

\* EventThread keeps its types: vsync.count stays below RateMultiple, the
\* count of a connection is -1, 0 or a rate, and the bounds are respected.
LEMMA EventThreadTypeStep ==
    ASSUME EventThreadTypeOK, [Next]_vars
    PROVE  EventThreadTypeOK'
<1> USE EventThreadAssumption DEF EventThreadTypeOK
<1>n. pc' \in {"running", "wait", "timedWait", "notified", "timedNotified"}
        \/ ~notify_all
  BY DEF notify_all
<1>v. VSync(mVSyncEvent) \in [timestamp : BOOLEAN, count : 0 .. RateMultiple - 1]
  BY DEF VSync
<1>1. CASE UNCHANGED eventThreadVars
  BY <1>1 DEF eventThreadVars, connectionVars, eventVars, sourceVars, clientVars,
              boundVars
<1>2. CASE onScreenAcquired \/ onScreenReleased
  BY <1>2, <1>n DEF onScreenAcquired, onScreenReleased, connectionVars, eventVars,
                    clientVars, boundVars
<1>3. CASE onHotplugReceived
  <2>1. hotplugs' \in 0 .. MaxHotplugs
    BY <1>3 DEF onHotplugReceived
  <2>2. mPendingEvents' \in Seq({"hotplug"})
    BY <1>3 DEF onHotplugReceived
  <2> QED
    BY <1>3, <1>n, <2>1, <2>2 DEF onHotplugReceived, connectionVars, sourceVars,
                                  clientVars
<1>4. CASE onVSyncEvent
  BY <1>4, <1>n, <1>v DEF onVSyncEvent, connectionVars, sourceVars, clientVars,
                          boundVars
<1>5. CASE WaitReturns \/ WaitTimesOut
  BY <1>5, <1>v DEF WaitReturns, WaitTimesOut, connectionVars, sourceVars,
                    clientVars, boundVars, eventVars
<1>p. ASSUME NEW event \in {"vsync", "hotplug"}, NEW signal, NEW live,
             live \subseteq Connection, PostEvent(event, signal, live)
      PROVE  /\ tube' \in [Connection -> Seq({"vsync", "hotplug"})]
             /\ mDisplayEventConnections' \subseteq Connection
  BY <1>p DEF PostEvent
<1>6. CASE DispatchVSync
  <2> DEFINE live == mDisplayEventConnections \cap referenced
             waiting == {c \in live : count[c] >= 0}
             signal == {c \in waiting : Fires(c)}
  <2>1. PostEvent("vsync", signal, live) /\ live \subseteq Connection
    BY <1>6 DEF DispatchVSync
  <2>2. /\ tube' \in [Connection -> Seq({"vsync", "hotplug"})]
        /\ mDisplayEventConnections' \subseteq Connection
    BY <1>p, <2>1
  <2>3. count' \in [Connection -> {-1, 0} \cup Rate]
    BY <1>6 DEF DispatchVSync
  <2>4. mVSyncEvent' \in [timestamp : BOOLEAN, count : 0 .. RateMultiple - 1]
    BY <1>6 DEF DispatchVSync
  <2>5. mVsyncEnabled' \in BOOLEAN
    BY <1>6 DEF DispatchVSync, disableVSyncLocked
  <2> QED
    BY <1>6, <2>2, <2>3, <2>4, <2>5 DEF DispatchVSync, boundVars
<1>7. CASE DispatchOther
  <2> DEFINE live == mDisplayEventConnections \cap referenced
             signal == IF mPendingEvents # <<>> THEN live ELSE {}
  <2>1. PostEvent("hotplug", signal, live) /\ live \subseteq Connection
    BY <1>7 DEF DispatchOther
  <2>2. /\ tube' \in [Connection -> Seq({"vsync", "hotplug"})]
        /\ mDisplayEventConnections' \subseteq Connection
    BY <1>p, <2>1
  <2>3. mPendingEvents' \in Seq({"hotplug"})
    BY <1>7 DEF DispatchOther
  <2>4. mVsyncEnabled' \in BOOLEAN
    BY <1>7 DEF DispatchOther, enableVSyncLocked
  <2>5. pc' \in {"running", "wait", "timedWait"}
    BY <1>7 DEF DispatchOther
  <2> QED
    BY <1>7, <2>2, <2>3, <2>4, <2>5 DEF DispatchOther, boundVars
<1>8. ASSUME NEW c \in Connection
      PROVE  /\ requestNextVsync(c) => EventThreadTypeOK'
             /\ createEventConnection(c) => EventThreadTypeOK'
             /\ \A rate \in Rate \cup {0} :
                   setVsyncRate(c, rate) => EventThreadTypeOK'
             /\ receive(c) \/ closeTube(c) \/ dropReference(c)
                   => EventThreadTypeOK'
  <2>1. requestNextVsync(c) => EventThreadTypeOK'
    BY <1>n DEF requestNextVsync, eventVars, sourceVars
  <2>2. createEventConnection(c) => EventThreadTypeOK'
    BY <1>n DEF createEventConnection, eventVars, sourceVars, boundVars
  <2>3. ASSUME NEW rate \in Rate \cup {0}
        PROVE  setVsyncRate(c, rate) => EventThreadTypeOK'
    BY <1>n DEF setVsyncRate, eventVars, sourceVars
  <2>4. receive(c) => EventThreadTypeOK'
    BY DEF receive, connectionVars, eventVars, sourceVars, boundVars
  <2>5. closeTube(c) => EventThreadTypeOK'
    BY DEF closeTube, connectionVars, eventVars, sourceVars, boundVars
  <2>6. dropReference(c) => EventThreadTypeOK'
    BY DEF dropReference, connectionVars, eventVars, sourceVars, boundVars
  <2> QED
    BY <2>1, <2>2, <2>3, <2>4, <2>5, <2>6
<1> QED
  BY EventThreadSteps, <1>1, <1>2, <1>3, <1>4, <1>5, <1>6, <1>7, <1>8

-----------------------------------------------------------------------------
(* DispSync                                                                *)

\* DispSync keeps its types: the sample counters stop at their caps.
LEMMA DispSyncTypeStep ==
    ASSUME DispSyncTypeOK, EventThreadTypeOK, [Next]_vars
    PROVE  DispSyncTypeOK'
<1> USE DispSyncAssumption DEF DispSyncTypeOK, ErrorRange
<1>1. mEventListeners' \in BOOLEAN
  <2>1. DispatchVSync => mEventListeners' \in BOOLEAN
    BY DEF DispatchVSync, disableVSyncLocked, setVSyncEnabled
  <2>2. DispatchOther => mEventListeners' \in BOOLEAN
    BY DEF DispatchOther, enableVSyncLocked, setVSyncEnabled
  <2> QED
    BY EventThreadSteps, <2>1, <2>2
<1> DEFINE ModelTypeOK ==
              /\ periodKnown \in BOOLEAN /\ mModelUpdated \in BOOLEAN
              /\ mNumResyncSamples \in 0 .. MIN_RESYNC_SAMPLES_FOR_UPDATE
              /\ mNumResyncSamplesSincePresent
                    \in 0 .. MAX_RESYNC_SAMPLES_WITHOUT_PRESENT + 1
              /\ mError \in ErrorRange
<1>u. UNCHANGED modelVars => ModelTypeOK'
  BY DEF modelVars
<1>f. /\ beginResync
      /\ UNCHANGED <<periodKnown, mNumResyncSamplesSincePresent, mError>>
      => ModelTypeOK'
  <2>1. beginResync => mModelUpdated' \in BOOLEAN
    BY DEF beginResync
  <2>2. beginResync => mNumResyncSamples' \in 0 .. MIN_RESYNC_SAMPLES_FOR_UPDATE
    BY DEF beginResync
  <2> QED
    BY <2>1, <2>2
<1>e. enableHardwareVsync => ModelTypeOK'
  <2>1. CASE ~mPrimaryHWVsyncEnabled /\ mHWVsyncAvailable
    <3>1. enableHardwareVsync => /\ beginResync
                                 /\ UNCHANGED <<periodKnown, mError,
                                        mNumResyncSamplesSincePresent>>
      BY <2>1 DEF enableHardwareVsync
    <3> QED
      BY <3>1, <1>f
  <2>2. CASE ~(~mPrimaryHWVsyncEnabled /\ mHWVsyncAvailable)
    BY <2>2, <1>u DEF enableHardwareVsync
  <2> QED
    BY <2>1, <2>2
<1>d. \A b \in BOOLEAN : disableHardwareVsync(b) => ModelTypeOK'
  BY <1>u DEF disableHardwareVsync
<1>g. resetAndSetPeriod => ModelTypeOK'
  <2>1. resetAndSetPeriod => periodKnown' \in BOOLEAN /\ mModelUpdated' \in BOOLEAN
    BY DEF resetAndSetPeriod, beginResync
  <2>2. resetAndSetPeriod =>
           /\ mNumResyncSamples' \in 0 .. MIN_RESYNC_SAMPLES_FOR_UPDATE
           /\ mNumResyncSamplesSincePresent'
                 \in 0 .. MAX_RESYNC_SAMPLES_WITHOUT_PRESENT + 1
           /\ mError' \in ErrorRange
    <3> HIDE DEF DispSyncTypeOK
    <3> SUFFICES ASSUME mNumResyncSamples' = 0, mError' = "locked",
                        mNumResyncSamplesSincePresent' = 0
                 PROVE  /\ mNumResyncSamples' \in 0 .. MIN_RESYNC_SAMPLES_FOR_UPDATE
                        /\ mNumResyncSamplesSincePresent'
                              \in 0 .. MAX_RESYNC_SAMPLES_WITHOUT_PRESENT + 1
                        /\ mError' \in ErrorRange
      BY Zenon DEF resetAndSetPeriod, beginResync
    <3> QED
      OBVIOUS
  <2> QED
    BY <2>1, <2>2
<1>r. \A b \in BOOLEAN : resyncToHardwareVsync(b) => ModelTypeOK'
  <2> SUFFICES ASSUME NEW b \in BOOLEAN
               PROVE  resyncToHardwareVsync(b) => ModelTypeOK'
    OBVIOUS
  <2>1. CASE b \/ mHWVsyncAvailable
    BY <2>1, <1>g DEF resyncToHardwareVsync
  <2>2. CASE ~(b \/ mHWVsyncAvailable)
    BY <2>2, <1>u DEF resyncToHardwareVsync
  <2> QED
    BY <2>1, <2>2
<1>s. \A b : addResyncSample(b) => ModelTypeOK'
  BY DEF addResyncSample, Capped, ModelUpdatedBy, ErrorRange
<1>p. \A b : addPresentFence(b) => ModelTypeOK'
  BY DEF addPresentFence, ErrorRange
<1>2. ModelTypeOK' /\ invocation' \in BOOLEAN
  <2> USE DEF listenerVars
  <2>1. CASE MainThread
    BY <2>1, <1>u, <1>e, <1>d, <1>r
       DEF MainThread, screenStep, mainStep, hwcSetPowerMode, newComposer,
           unlockState
  <2>2. CASE MainMessages
    BY <2>2, <1>u, <1>p
       DEF MainMessages, setPowerModeInternal, postComposition, updateVrFlinger
  <2>3. CASE HwbinderThread
    BY <2>3, <1>u, <1>s, <1>e, <1>d
       DEF HwbinderThread, onVsyncIgnored, onVsyncSampled, onVsyncReturns
  <2>4. CASE ControlThread \/ Hardware
    BY <2>4, <1>u
       DEF ControlThread, Hardware, eventControlCalls, eventControlWakes,
           hardwareVsync
  <2>5. CASE DispSyncGathers \/ DispSyncFires
    BY <2>5, <1>u DEF DispSyncGathers, DispSyncFires, gatherCallbackInvocations,
                      fireCallbackInvocations
  <2>6. CASE EventLoop \/ WaitEnds
    BY <2>6, <1>u DEF EventLoop, WaitEnds, DispatchVSync, DispatchOther
  <2>7. CASE \E c \in Connection : Client(c)
    BY <2>7, <1>u, <1>r DEF Client, requestAndResync, resyncWithRateLimit
  <2>8. CASE UNCHANGED vars
    BY <2>8, <1>u DEF vars
  <2> QED
    BY <2>1, <2>2, <2>3, <2>4, <2>5, <2>6, <2>7, <2>8 DEF Next
<1> QED
  BY <1>1, <1>2

-----------------------------------------------------------------------------
(* The agenda of the main thread                                           *)

\* Is the display on, with vsync?
On == powerMode \in {"DOZE", "NORMAL"}

\* What ScreenStateAgrees says between two messages.
Agree == /\ mHWVsyncAvailable <=> On
         /\ mUseSoftwareVSync <=> ~mHWVsyncAvailable

\* What the main thread may still have to do, and what then holds already: each
\* of the calls that are left brings one of the records up to date, so that they
\* agree at the end, for every power mode and every change of the composer.
Agenda ==
    LET E == "enableHardwareVsync"      D == "disableHardwareVsync"
        S == "setPowerMode"             U == "unlock"
        A == "onScreenAcquired"         R == "onScreenReleased"
        Y == "resyncToHardwareVsync"    M == "makeUnavailable"
        N == "newComposer"
    IN
    \/ /\ todo \in {<<>>, <<E>>, <<D>>, <<S>>, <<U>>, <<E, U>>, <<S, U>>,
                    <<E, S, U>>}
       /\ Agree
    \/ /\ todo \in {<<S, A, Y>>, <<A, Y>>, <<E, S, A, Y, U>>, <<S, A, Y, U>>,
                    <<A, Y, U>>}
       /\ On
    \/ /\ todo \in {<<Y>>, <<Y, U>>}
       /\ On /\ ~mUseSoftwareVSync
    \/ /\ todo = <<M, R, S>>
       /\ ~On
    \/ /\ todo = <<R, S>>
       /\ ~On /\ ~mHWVsyncAvailable
    \/ /\ todo \in {<<M, N, U>>, <<M, N, E, U>>, <<M, N, S, U>>, <<M, N, E, S, U>>}
       /\ ~On /\ mUseSoftwareVSync /\ mComposerSequenceId < MaxComposers
    \/ /\ todo \in {<<N, U>>, <<N, E, U>>, <<N, S, U>>, <<N, E, S, U>>}
       /\ Agree /\ ~On /\ mComposerSequenceId < MaxComposers
    \/ /\ todo \in {<<M, N, S, A, Y, U>>, <<M, N, E, S, A, Y, U>>,
                    <<N, S, A, Y, U>>, <<N, E, S, A, Y, U>>}
       /\ On /\ mComposerSequenceId < MaxComposers

\* The calls that setPowerModeInternal makes for a new mode are an agenda.
LEMMA PowerStepsAgenda ==
    ASSUME HardwareVsyncTypeOK, mUseSoftwareVSync \in BOOLEAN, Agenda,
           NEW mode \in Modes, setPowerModeInternal(mode),
           UNCHANGED mUseSoftwareVSync
    PROVE  Agenda'
  BY HardwareVsyncAssumption
     DEF Agenda, Agree, On, setPowerModeInternal, PowerSteps, PowerMode, flagVars,
         HardwareVsyncTypeOK

\* The elements of a sequence made of two steps, two sequences and a last step.
LEMMA AgendaElements ==
    ASSUME NEW S, NEW m \in S, NEW n \in S, NEW e \in Seq(S), NEW p \in Seq(S),
           NEW u \in S, NEW r, r = <<m, n>> \o e \o p \o <<u>>
    PROVE  /\ r \in Seq(S)
           /\ Len(r) = Len(e) + Len(p) + 3
           /\ r[1] = m /\ r[2] = n
           /\ \A i \in 1 .. Len(e) : r[i + 2] = e[i]
           /\ \A i \in 1 .. Len(p) : r[i + 2 + Len(e)] = p[i]
           /\ r[Len(e) + Len(p) + 3] = u
  OBVIOUS

\* So is the sequence of a change of the composer.
LEMMA VrFlingerAgenda ==
    ASSUME HardwareVsyncTypeOK, mUseSoftwareVSync \in BOOLEAN, Agenda,
           NEW vr \in BOOLEAN, updateVrFlinger(vr), UNCHANGED mUseSoftwareVSync
    PROVE  Agenda'
<1> DEFINE M == "makeUnavailable"      N == "newComposer"
           E == "enableHardwareVsync"  S == "setPowerMode"
           A == "onScreenAcquired"     Y == "resyncToHardwareVsync"
           U == "unlock"
           e == IF vr THEN <<>> ELSE <<E>>
           p == PowerSteps("OFF", powerMode)
<1>0. /\ todo = <<>> /\ powerMode \in PowerMode /\ Agree
      /\ mComposerSequenceId < MaxComposers
      /\ UNCHANGED <<powerMode, mComposerSequenceId, mHWVsyncAvailable>>
      /\ mHWVsyncAvailable \in BOOLEAN
  BY DEF Agenda, Agree, On, updateVrFlinger, flagVars, HardwareVsyncTypeOK
<1>p. /\ powerMode = "OFF" => p = <<>>
      /\ powerMode = "DOZE_SUSPEND" => p = <<S>>
      /\ powerMode \in {"DOZE", "NORMAL"} => p = <<S, A, Y>>
  BY DEF PowerSteps
<1>t. /\ M \in Step /\ N \in Step /\ E \in Step /\ S \in Step /\ A \in Step
      /\ Y \in Step /\ U \in Step
  BY DEF Step
<1>e. e = <<>> \/ e = <<E>>
  OBVIOUS
<1>s. e \in Seq(Step) /\ p \in Seq(Step)
  <2>1. /\ <<>> \in Seq(Step) /\ <<E>> \in Seq(Step) /\ <<S>> \in Seq(Step)
        /\ <<S, A, Y>> \in Seq(Step)
    BY <1>t
  <2> QED
    BY <1>0, <1>e, <1>p, <2>1, Zenon DEF PowerMode
<1>r. todo' = <<M, N>> \o e \o p \o <<U>>
  BY DEF updateVrFlinger
<1>q. /\ e = <<E>> => Len(e) = 1 /\ e[1] = E
      /\ e = <<>> => Len(e) = 0
      /\ p = <<>> => Len(p) = 0
      /\ p = <<S>> => Len(p) = 1 /\ p[1] = S
      /\ p = <<S, A, Y>> => Len(p) = 3 /\ p[1] = S /\ p[2] = A /\ p[3] = Y
  OBVIOUS
<1> HIDE DEF e, p
<1>5. /\ todo' \in Seq(Step) /\ Len(todo') = Len(e) + Len(p) + 3
      /\ todo'[1] = M /\ todo'[2] = N
      /\ \A i \in 1 .. Len(e) : todo'[i + 2] = e[i]
      /\ \A i \in 1 .. Len(p) : todo'[i + 2 + Len(e)] = p[i]
      /\ todo'[Len(e) + Len(p) + 3] = U
  BY <1>r, <1>s, <1>t, AgendaElements
<1>6. todo' \in Seq(Step)
  BY <1>5
<1>1. CASE powerMode = "OFF"
  <2>1. CASE e = <<>>
    <3>1. todo' = <<M, N, U>>
      BY <1>1, <1>5, <1>p, <1>q, <1>t, <2>1
    <3> QED
      BY <1>0, <1>1, <3>1 DEF Agenda, Agree, On
  <2>2. CASE e = <<E>>
    <3>1. todo' = <<M, N, E, U>>
      BY <1>1, <1>5, <1>p, <1>q, <1>t, <2>2
    <3> QED
      BY <1>0, <1>1, <3>1 DEF Agenda, Agree, On
  <2> QED
    BY <2>1, <2>2, <1>e
<1>2. CASE powerMode = "DOZE_SUSPEND"
  <2>1. CASE e = <<>>
    <3>0. Len(e) = 0 /\ Len(p) = 1
      BY <1>2, <1>p, <1>q, <2>1
    <3>e. Len(todo') = 4 /\ todo'[1] = M /\ todo'[2] = N /\ todo'[4] = U
      BY <1>5, <3>0
    <3>g. todo'[1 + 2 + 0] = S
      BY <1>2, <1>5, <1>p, <1>q, <3>0
    <3>1. todo' = <<M, N, S, U>>
      BY <1>6, <1>t, <3>e, <3>g
    <3> QED
      BY <1>0, <1>2, <3>1 DEF Agenda, Agree, On
  <2>2. CASE e = <<E>>
    <3>0. Len(e) = 1 /\ Len(p) = 1
      BY <1>2, <1>p, <1>q, <2>2
    <3>e. Len(todo') = 5 /\ todo'[1] = M /\ todo'[2] = N /\ todo'[5] = U
      BY <1>5, <3>0
    <3>f. todo'[1 + 2] = E
      BY <1>5, <1>q, <2>2, <3>0
    <3>g. todo'[1 + 2 + 1] = S
      BY <1>2, <1>5, <1>p, <1>q, <3>0
    <3>1. todo' = <<M, N, E, S, U>>
      BY <1>6, <1>t, <3>e, <3>f, <3>g
    <3> QED
      BY <1>0, <1>2, <3>1 DEF Agenda, Agree, On
  <2> QED
    BY <2>1, <2>2, <1>e
<1>3. CASE powerMode \in {"DOZE", "NORMAL"}
  <2>1. CASE e = <<>>
    <3>0. Len(e) = 0 /\ Len(p) = 3
      BY <1>3, <1>p, <1>q, <2>1
    <3>e. Len(todo') = 6 /\ todo'[1] = M /\ todo'[2] = N /\ todo'[6] = U
      BY <1>5, <3>0
    <3>g. todo'[1 + 2 + 0] = S
      BY <1>3, <1>5, <1>p, <1>q, <3>0
    <3>h. todo'[2 + 2 + 0] = A
      BY <1>3, <1>5, <1>p, <1>q, <3>0
    <3>i. todo'[3 + 2 + 0] = Y
      BY <1>3, <1>5, <1>p, <1>q, <3>0
    <3>1. todo' = <<M, N, S, A, Y, U>>
      BY <1>6, <1>t, <3>e, <3>g, <3>h, <3>i
    <3> QED
      BY <1>0, <1>3, <3>1 DEF Agenda, Agree, On
  <2>2. CASE e = <<E>>
    <3>0. Len(e) = 1 /\ Len(p) = 3
      BY <1>3, <1>p, <1>q, <2>2
    <3>e. Len(todo') = 7 /\ todo'[1] = M /\ todo'[2] = N /\ todo'[7] = U
      BY <1>5, <3>0
    <3>f. todo'[1 + 2] = E
      BY <1>5, <1>q, <2>2, <3>0
    <3>g. todo'[1 + 2 + 1] = S
      BY <1>3, <1>5, <1>p, <1>q, <3>0
    <3>h. todo'[2 + 2 + 1] = A
      BY <1>3, <1>5, <1>p, <1>q, <3>0
    <3>i. todo'[3 + 2 + 1] = Y
      BY <1>3, <1>5, <1>p, <1>q, <3>0
    <3>1. todo' = <<M, N, E, S, A, Y, U>>
      BY <1>6, <1>t, <3>e, <3>f, <3>g, <3>h, <3>i
    <3> QED
      BY <1>0, <1>3, <3>1 DEF Agenda, Agree, On
  <2> QED
    BY <2>1, <2>2, <1>e
<1> QED
  BY <1>0, <1>1, <1>2, <1>3 DEF PowerMode

\* Only the main thread makes vsync available or unavailable: enabling and
\* disabling it, and the resync of a client, leave that record alone.
LEMMA AvailableKept ==
    ASSUME HardwareVsyncTypeOK
    PROVE  /\ enableHardwareVsync => UNCHANGED mHWVsyncAvailable
           /\ disableHardwareVsync(FALSE) => UNCHANGED mHWVsyncAvailable
           /\ resyncWithRateLimit => UNCHANGED mHWVsyncAvailable
<1>b. mPrimaryHWVsyncEnabled \in BOOLEAN /\ mHWVsyncAvailable \in BOOLEAN
  BY DEF HardwareVsyncTypeOK
<1>1. enableHardwareVsync => UNCHANGED mHWVsyncAvailable
  BY <1>b DEF enableHardwareVsync, flagVars
<1>2. disableHardwareVsync(FALSE) => UNCHANGED mHWVsyncAvailable
  BY <1>b DEF disableHardwareVsync
<1>3. resyncWithRateLimit => UNCHANGED mHWVsyncAvailable
  BY <1>b DEF resyncWithRateLimit, resyncToHardwareVsync, flagVars
<1> QED
  BY <1>1, <1>2, <1>3

\* What is left of the agenda after each of its calls, and what holds already.
LEMMA AgendaNext ==
    ASSUME Agenda, todo # <<>>, todo' = Tail(todo)
    PROVE  LET E == "enableHardwareVsync"      D == "disableHardwareVsync"
               S == "setPowerMode"             U == "unlock"
               A == "onScreenAcquired"         R == "onScreenReleased"
               Y == "resyncToHardwareVsync"    M == "makeUnavailable"
               N == "newComposer"
           IN
           /\ Doing(E) =>
                 \/ /\ todo' \in {<<>>, <<U>>, <<S, U>>}
                    /\ Agree
                 \/ /\ todo' = <<S, A, Y, U>>
                    /\ On
           /\ Doing(D) =>
                 /\ todo' = <<>>
                 /\ Agree
           /\ Doing(S) =>
                 \/ /\ todo' \in {<<>>, <<U>>}
                    /\ Agree
                 \/ /\ todo' \in {<<A, Y>>, <<A, Y, U>>}
                    /\ On
           /\ Doing(U) =>
                 /\ todo' = <<>>
                 /\ Agree
           /\ Doing(A) =>
                 /\ todo' \in {<<Y>>, <<Y, U>>}
                 /\ On
           /\ Doing(R) =>
                 /\ todo' = <<S>>
                 /\ ~On /\ ~mHWVsyncAvailable
           /\ Doing(Y) =>
                 /\ todo' \in {<<>>, <<U>>}
                 /\ On /\ ~mUseSoftwareVSync
           /\ Doing(M) =>
                 \/ /\ todo' = <<R, S>>
                    /\ ~On
                 \/ /\ todo' \in {<<N, U>>, <<N, E, U>>, <<N, S, U>>,
                                  <<N, E, S, U>>}
                    /\ ~On /\ mUseSoftwareVSync /\ mComposerSequenceId < MaxComposers
                 \/ /\ todo' \in {<<N, S, A, Y, U>>, <<N, E, S, A, Y, U>>}
                    /\ On /\ mComposerSequenceId < MaxComposers
           /\ Doing(N) =>
                 \/ /\ todo' \in {<<U>>, <<E, U>>, <<S, U>>, <<E, S, U>>}
                    /\ Agree /\ ~On /\ mComposerSequenceId < MaxComposers
                 \/ /\ todo' \in {<<S, A, Y, U>>, <<E, S, A, Y, U>>}
                    /\ On /\ mComposerSequenceId < MaxComposers
<1> DEFINE E == "enableHardwareVsync"      D == "disableHardwareVsync"
           S == "setPowerMode"             U == "unlock"
           A == "onScreenAcquired"         R == "onScreenReleased"
           Y == "resyncToHardwareVsync"    M == "makeUnavailable"
           N == "newComposer"
<1>1. ASSUME Doing(E)
      PROVE  \/ /\ todo' \in {<<>>, <<U>>, <<S, U>>}
                /\ Agree
             \/ /\ todo' = <<S, A, Y, U>>
                /\ On
  <2>1. \/ /\ todo \in {<<E>>, <<E, U>>, <<E, S, U>>}
           /\ Agree
        \/ /\ todo = <<E, S, A, Y, U>>
           /\ On
    BY <1>1 DEF Agenda, Doing
  <2>2. /\ Tail(<<E>>) = <<>>
        /\ Tail(<<E, U>>) = <<U>>
        /\ Tail(<<E, S, U>>) = <<S, U>>
        /\ Tail(<<E, S, A, Y, U>>) = <<S, A, Y, U>>
    OBVIOUS
  <2> QED
    BY <2>1, <2>2, Zenon
<1>2. ASSUME Doing(D)
      PROVE  /\ todo' = <<>>
             /\ Agree
  <2>1. /\ todo = <<D>>
        /\ Agree
    BY <1>2 DEF Agenda, Doing
  <2>2. /\ Tail(<<D>>) = <<>>
    OBVIOUS
  <2> QED
    BY <2>1, <2>2, Zenon
<1>3. ASSUME Doing(S)
      PROVE  \/ /\ todo' \in {<<>>, <<U>>}
                /\ Agree
             \/ /\ todo' \in {<<A, Y>>, <<A, Y, U>>}
                /\ On
  <2>1. \/ /\ todo \in {<<S>>, <<S, U>>}
           /\ Agree
        \/ /\ todo \in {<<S, A, Y>>, <<S, A, Y, U>>}
           /\ On
    BY <1>3 DEF Agenda, Doing
  <2>2. /\ Tail(<<S>>) = <<>>
        /\ Tail(<<S, U>>) = <<U>>
        /\ Tail(<<S, A, Y>>) = <<A, Y>>
        /\ Tail(<<S, A, Y, U>>) = <<A, Y, U>>
    OBVIOUS
  <2> QED
    BY <2>1, <2>2, Zenon
<1>4. ASSUME Doing(U)
      PROVE  /\ todo' = <<>>
             /\ Agree
  <2>1. /\ todo = <<U>>
        /\ Agree
    BY <1>4 DEF Agenda, Doing
  <2>2. /\ Tail(<<U>>) = <<>>
    OBVIOUS
  <2> QED
    BY <2>1, <2>2, Zenon
<1>5. ASSUME Doing(A)
      PROVE  /\ todo' \in {<<Y>>, <<Y, U>>}
             /\ On
  <2>1. /\ todo \in {<<A, Y>>, <<A, Y, U>>}
        /\ On
    BY <1>5 DEF Agenda, Doing
  <2>2. /\ Tail(<<A, Y>>) = <<Y>>
        /\ Tail(<<A, Y, U>>) = <<Y, U>>
    OBVIOUS
  <2> QED
    BY <2>1, <2>2, Zenon
<1>6. ASSUME Doing(R)
      PROVE  /\ todo' = <<S>>
             /\ ~On /\ ~mHWVsyncAvailable
  <2>1. /\ todo = <<R, S>>
        /\ ~On /\ ~mHWVsyncAvailable
    BY <1>6 DEF Agenda, Doing
  <2>2. /\ Tail(<<R, S>>) = <<S>>
    OBVIOUS
  <2> QED
    BY <2>1, <2>2, Zenon
<1>7. ASSUME Doing(Y)
      PROVE  /\ todo' \in {<<>>, <<U>>}
             /\ On /\ ~mUseSoftwareVSync
  <2>1. /\ todo \in {<<Y>>, <<Y, U>>}
        /\ On /\ ~mUseSoftwareVSync
    BY <1>7 DEF Agenda, Doing
  <2>2. /\ Tail(<<Y>>) = <<>>
        /\ Tail(<<Y, U>>) = <<U>>
    OBVIOUS
  <2> QED
    BY <2>1, <2>2, Zenon
<1>8. ASSUME Doing(M)
      PROVE  \/ /\ todo' = <<R, S>>
                /\ ~On
             \/ /\ todo' \in {<<N, U>>, <<N, E, U>>, <<N, S, U>>,
                              <<N, E, S, U>>}
                /\ ~On /\ mUseSoftwareVSync /\ mComposerSequenceId < MaxComposers
             \/ /\ todo' \in {<<N, S, A, Y, U>>, <<N, E, S, A, Y, U>>}
                /\ On /\ mComposerSequenceId < MaxComposers
  <2>1. \/ /\ todo = <<M, R, S>>
           /\ ~On
        \/ /\ todo \in {<<M, N, U>>, <<M, N, E, U>>, <<M, N, S, U>>,
                        <<M, N, E, S, U>>}
           /\ ~On /\ mUseSoftwareVSync /\ mComposerSequenceId < MaxComposers
        \/ /\ todo \in {<<M, N, S, A, Y, U>>, <<M, N, E, S, A, Y, U>>}
           /\ On /\ mComposerSequenceId < MaxComposers
    BY <1>8 DEF Agenda, Doing
  <2>2. /\ Tail(<<M, R, S>>) = <<R, S>>
        /\ Tail(<<M, N, U>>) = <<N, U>>
        /\ Tail(<<M, N, E, U>>) = <<N, E, U>>
        /\ Tail(<<M, N, S, U>>) = <<N, S, U>>
        /\ Tail(<<M, N, E, S, U>>) = <<N, E, S, U>>
        /\ Tail(<<M, N, S, A, Y, U>>) = <<N, S, A, Y, U>>
        /\ Tail(<<M, N, E, S, A, Y, U>>) = <<N, E, S, A, Y, U>>
    OBVIOUS
  <2> QED
    BY <2>1, <2>2, Zenon
<1>9. ASSUME Doing(N)
      PROVE  \/ /\ todo' \in {<<U>>, <<E, U>>, <<S, U>>, <<E, S, U>>}
                /\ Agree /\ ~On /\ mComposerSequenceId < MaxComposers
             \/ /\ todo' \in {<<S, A, Y, U>>, <<E, S, A, Y, U>>}
                /\ On /\ mComposerSequenceId < MaxComposers
  <2>1. \/ /\ todo \in {<<N, U>>, <<N, E, U>>, <<N, S, U>>, <<N, E, S, U>>}
           /\ Agree /\ ~On /\ mComposerSequenceId < MaxComposers
        \/ /\ todo \in {<<N, S, A, Y, U>>, <<N, E, S, A, Y, U>>}
           /\ On /\ mComposerSequenceId < MaxComposers
    BY <1>9 DEF Agenda, Doing
  <2>2. /\ Tail(<<N, U>>) = <<U>>
        /\ Tail(<<N, E, U>>) = <<E, U>>
        /\ Tail(<<N, S, U>>) = <<S, U>>
        /\ Tail(<<N, E, S, U>>) = <<E, S, U>>
        /\ Tail(<<N, S, A, Y, U>>) = <<S, A, Y, U>>
        /\ Tail(<<N, E, S, A, Y, U>>) = <<E, S, A, Y, U>>
    OBVIOUS
  <2> QED
    BY <2>1, <2>2, Zenon
<1> QED
  BY <1>1, <1>2, <1>3, <1>4, <1>5, <1>6, <1>7, <1>8, <1>9

\* A step of any thread keeps the agenda: it is the next call of the main
\* thread, a message of it, or it leaves all the records alone.
LEMMA AgendaStep ==
    ASSUME HardwareVsyncTypeOK, EventThreadTypeOK, Agenda, [Next]_vars
    PROVE  Agenda'
<1> DEFINE records == <<powerMode, mComposerSequenceId, mHWVsyncAvailable>>
<1>b. /\ mUseSoftwareVSync \in BOOLEAN /\ mHWVsyncAvailable \in BOOLEAN
      /\ mComposerSequenceId \in Nat
  BY DEF HardwareVsyncTypeOK, EventThreadTypeOK
<1>u. UNCHANGED <<records, mUseSoftwareVSync, todo>> => Agenda'
  BY DEF Agenda, Agree, On
<1>s. UNCHANGED eventThreadVars => UNCHANGED mUseSoftwareVSync
  BY DEF eventThreadVars, sourceVars
<1>m. /\ UNCHANGED mainVars => UNCHANGED <<powerMode, mComposerSequenceId, todo>>
      /\ UNCHANGED flagVars => UNCHANGED mHWVsyncAvailable
  BY DEF mainVars, flagVars
<1>h. UNCHANGED hardwareVars => UNCHANGED <<records, todo>>
  BY <1>m DEF hardwareVars
<1> DEFINE E == "enableHardwareVsync"      D == "disableHardwareVsync"
           S == "setPowerMode"             U == "unlock"
           A == "onScreenAcquired"         R == "onScreenReleased"
           Y == "resyncToHardwareVsync"    M == "makeUnavailable"
           N == "newComposer"
<1>1. CASE MainThread
  <2>1. CASE mainStep /\ UNCHANGED eventThreadVars
    <3>0. /\ todo' = Tail(todo) /\ todo # <<>>
          /\ UNCHANGED <<powerMode, mComposerSequenceId, mUseSoftwareVSync>>
      BY <2>1, <1>s DEF mainStep
    <3>1. CASE Doing(Y) /\ resyncToHardwareVsync(TRUE)
      <4>1. mHWVsyncAvailable' = TRUE
        BY <3>1 DEF resyncToHardwareVsync
      <4>2. /\ todo' \in {<<>>, <<U>>}
            /\ On /\ ~mUseSoftwareVSync
        BY <3>0, <3>1, AgendaNext
      <4> QED
        BY <3>0, <4>1, <4>2, <1>b DEF Agenda, Agree, On
    <3>2. CASE Doing(E) /\ enableHardwareVsync
      <4>1. UNCHANGED mHWVsyncAvailable
        BY <3>2, AvailableKept
      <4>2. \/ /\ todo' \in {<<>>, <<U>>, <<S, U>>}
               /\ Agree
            \/ /\ todo' = <<S, A, Y, U>>
               /\ On
        BY <3>0, <3>2, AgendaNext
      <4> QED
        BY <3>0, <4>1, <4>2, <1>b DEF Agenda, Agree, On
    <3>3. CASE Doing(D) /\ disableHardwareVsync(FALSE)
      <4>1. UNCHANGED mHWVsyncAvailable
        BY <3>3, AvailableKept
      <4>2. /\ todo' = <<>>
            /\ Agree
        BY <3>0, <3>3, AgendaNext
      <4> QED
        BY <3>0, <4>1, <4>2, <1>b DEF Agenda, Agree, On
    <3>4. CASE Doing(M) /\ disableHardwareVsync(TRUE)
      <4>1. mHWVsyncAvailable' = FALSE
        BY <3>4 DEF disableHardwareVsync
      <4>2. \/ /\ todo' = <<R, S>>
               /\ ~On
            \/ /\ todo' \in {<<N, U>>, <<N, E, U>>, <<N, S, U>>,
                             <<N, E, S, U>>}
               /\ ~On /\ mUseSoftwareVSync /\ mComposerSequenceId < MaxComposers
            \/ /\ todo' \in {<<N, S, A, Y, U>>, <<N, E, S, A, Y, U>>}
               /\ On /\ mComposerSequenceId < MaxComposers
        BY <3>0, <3>4, AgendaNext
      <4> QED
        BY <3>0, <4>1, <4>2, <1>b DEF Agenda, Agree, On
    <3> QED
      BY <2>1, <3>1, <3>2, <3>3, <3>4 DEF mainStep
  <2>2. CASE hwcSetPowerMode /\ UNCHANGED eventThreadVars
    <3>1. UNCHANGED <<records, mUseSoftwareVSync>>
      BY <2>2, <1>s, <1>m DEF hwcSetPowerMode
    <3>0. todo' = Tail(todo) /\ todo # <<>> /\ Doing(S)
      BY <2>2 DEF hwcSetPowerMode, Doing
    <3>2. \/ /\ todo' \in {<<>>, <<U>>}
             /\ Agree
          \/ /\ todo' \in {<<A, Y>>, <<A, Y, U>>}
             /\ On
      BY <3>0, AgendaNext
    <3> QED
      BY <3>1, <3>2, <1>b DEF Agenda, Agree, On
  <2>3. CASE newComposer /\ UNCHANGED eventThreadVars
    <3>1. UNCHANGED <<powerMode, mHWVsyncAvailable, mUseSoftwareVSync>>
      BY <2>3, <1>s, <1>m DEF newComposer
    <3>0. todo' = Tail(todo) /\ todo # <<>> /\ Doing(N)
      BY <2>3 DEF newComposer, Doing
    <3>2. \/ /\ todo' \in {<<U>>, <<E, U>>, <<S, U>>, <<E, S, U>>}
             /\ Agree /\ ~On /\ mComposerSequenceId < MaxComposers
          \/ /\ todo' \in {<<S, A, Y, U>>, <<E, S, A, Y, U>>}
             /\ On /\ mComposerSequenceId < MaxComposers
      BY <3>0, AgendaNext
    <3> QED
      BY <3>1, <3>2, <1>b DEF Agenda, Agree, On
  <2>4. CASE unlockState /\ UNCHANGED eventThreadVars
    <3>1. UNCHANGED <<records, mUseSoftwareVSync>>
      BY <2>4, <1>s, <1>m DEF unlockState
    <3>0. todo' = Tail(todo) /\ todo # <<>> /\ Doing(U)
      BY <2>4 DEF unlockState, Doing
    <3>2. /\ todo' = <<>>
          /\ Agree
      BY <3>0, AgendaNext
    <3> QED
      BY <3>1, <3>2, <1>b DEF Agenda, Agree, On
  <2>5. CASE screenStep
    <3>0. todo' = Tail(todo) /\ todo # <<>> /\ UNCHANGED records
      BY <2>5, <1>m DEF screenStep
    <3>1. CASE Doing(A) /\ onScreenAcquired
      <4>1. mUseSoftwareVSync' = FALSE
        BY <3>1 DEF onScreenAcquired
      <4>2. /\ todo' \in {<<Y>>, <<Y, U>>}
            /\ On
        BY <3>0, <3>1, AgendaNext
      <4> QED
        BY <3>0, <4>1, <4>2, <1>b DEF Agenda, Agree, On
    <3>2. CASE Doing(R) /\ onScreenReleased
      <4>1. mUseSoftwareVSync' = TRUE
        BY <3>2 DEF onScreenReleased
      <4>2. /\ todo' = <<S>>
            /\ ~On /\ ~mHWVsyncAvailable
        BY <3>0, <3>2, AgendaNext
      <4> QED
        BY <3>0, <4>1, <4>2, <1>b DEF Agenda, Agree, On
    <3> QED
      BY <2>5, <3>1, <3>2 DEF screenStep
  <2> QED
    BY <1>1, <2>1, <2>2, <2>3, <2>4, <2>5 DEF MainThread
<1>2. CASE MainMessages
  <2>1. ASSUME NEW mode \in Modes, setPowerModeInternal(mode),
               UNCHANGED eventThreadVars
        PROVE  Agenda'
    BY <2>1, <1>b, <1>s, PowerStepsAgenda
  <2>2. ASSUME postComposition, UNCHANGED eventThreadVars
        PROVE  Agenda'
    <3>1. UNCHANGED <<records, mUseSoftwareVSync>> /\ todo = <<>>
      BY <2>2, <1>s, <1>m DEF postComposition
    <3>2. todo' \in {<<"enableHardwareVsync">>, <<"disableHardwareVsync">>}
      BY <2>2 DEF postComposition
    <3> QED
      BY <3>1, <3>2 DEF Agenda, Agree, On
  <2>3. ASSUME NEW vr \in BOOLEAN, updateVrFlinger(vr), UNCHANGED eventThreadVars
        PROVE  Agenda'
    BY <2>3, <1>b, <1>s, VrFlingerAgenda
  <2>4. ASSUME onHotplugReceived, UNCHANGED hardwareVars
        PROVE  Agenda'
    BY <2>4, <1>u, <1>h DEF onHotplugReceived, sourceVars
  <2> QED
    BY <1>2, <2>1, <2>2, <2>3, <2>4 DEF MainMessages
<1>3. CASE HwbinderThread
  <2>1. UNCHANGED <<powerMode, mComposerSequenceId, todo, mUseSoftwareVSync>>
    BY <1>3, <1>s, <1>m DEF HwbinderThread, onVsyncIgnored, onVsyncSampled,
                            onVsyncReturns
  <2>2. UNCHANGED mHWVsyncAvailable
    BY <1>3, <1>m, AvailableKept DEF HwbinderThread, onVsyncIgnored,
                                     onVsyncSampled, onVsyncReturns
  <2> QED
    BY <2>1, <2>2, <1>u
<1>4. CASE ControlThread \/ Hardware
  BY <1>4, <1>u, <1>s, <1>m DEF ControlThread, Hardware, eventControlCalls,
                                eventControlWakes, hardwareVsync
<1>5. CASE DispSyncGathers \/ DispSyncFires
  BY <1>5, <1>u, <1>s, <1>h DEF DispSyncGathers, DispSyncFires, onVSyncEvent,
                                sourceVars
<1>6. CASE EventLoop \/ WaitEnds
  BY <1>6, <1>u, <1>h DEF EventLoop, WaitEnds, DispatchVSync, DispatchOther,
                          WaitReturns, WaitTimesOut, sourceVars
<1>7. CASE \E c \in Connection : Client(c)
  <2>1. PICK c \in Connection : Client(c)
    BY <1>7
  <2>2. CASE requestAndResync(c)
    <3>1. UNCHANGED <<powerMode, mComposerSequenceId, todo, mHWVsyncAvailable>>
      BY <2>2, <1>m, AvailableKept DEF requestAndResync
    <3>2. UNCHANGED mUseSoftwareVSync
      BY <2>2 DEF requestAndResync, requestNextVsync, sourceVars
    <3> QED
      BY <3>1, <3>2, <1>u
  <2>3. CASE ~requestAndResync(c)
    <3>1. UNCHANGED hardwareVars
      BY <2>1, <2>3 DEF Client
    <3>2. UNCHANGED mUseSoftwareVSync
      BY <2>1, <2>3 DEF Client, createEventConnection, setVsyncRate, receive,
                        closeTube, dropReference, sourceVars
    <3> QED
      BY <3>1, <3>2, <1>u, <1>h
  <2> QED
    BY <2>2, <2>3
<1>8. CASE UNCHANGED vars
  BY <1>8, <1>u, <1>s, <1>h DEF vars
<1> QED
  BY <1>1, <1>2, <1>3, <1>4, <1>5, <1>6, <1>7, <1>8 DEF Next

-----------------------------------------------------------------------------
(* The control of the hardware vsync                                       *)

\* An agenda is a sequence of steps.
LEMMA AgendaType ==
    /\ Agenda => todo \in Seq(Step)
    /\ Agenda' => todo' \in Seq(Step)
<1> DEFINE E == "enableHardwareVsync"      D == "disableHardwareVsync"
           S == "setPowerMode"             U == "unlock"
           A == "onScreenAcquired"         R == "onScreenReleased"
           Y == "resyncToHardwareVsync"    M == "makeUnavailable"
           N == "newComposer"
<1>1. /\ E \in Step /\ D \in Step /\ S \in Step /\ U \in Step /\ A \in Step
      /\ R \in Step /\ Y \in Step /\ M \in Step /\ N \in Step
  BY DEF Step
<1>2. /\ <<>> \in Seq(Step)
      /\ <<E>> \in Seq(Step)
      /\ <<D>> \in Seq(Step)
      /\ <<S>> \in Seq(Step)
      /\ <<U>> \in Seq(Step)
      /\ <<E, U>> \in Seq(Step)
      /\ <<S, U>> \in Seq(Step)
      /\ <<E, S, U>> \in Seq(Step)
      /\ <<S, A, Y>> \in Seq(Step)
      /\ <<A, Y>> \in Seq(Step)
      /\ <<E, S, A, Y, U>> \in Seq(Step)
      /\ <<S, A, Y, U>> \in Seq(Step)
      /\ <<A, Y, U>> \in Seq(Step)
      /\ <<Y>> \in Seq(Step)
      /\ <<Y, U>> \in Seq(Step)
      /\ <<M, R, S>> \in Seq(Step)
      /\ <<R, S>> \in Seq(Step)
      /\ <<M, N, U>> \in Seq(Step)
      /\ <<M, N, E, U>> \in Seq(Step)
      /\ <<M, N, S, U>> \in Seq(Step)
      /\ <<M, N, E, S, U>> \in Seq(Step)
      /\ <<N, U>> \in Seq(Step)
      /\ <<N, E, U>> \in Seq(Step)
      /\ <<N, S, U>> \in Seq(Step)
      /\ <<N, E, S, U>> \in Seq(Step)
      /\ <<M, N, S, A, Y, U>> \in Seq(Step)
      /\ <<M, N, E, S, A, Y, U>> \in Seq(Step)
      /\ <<N, S, A, Y, U>> \in Seq(Step)
      /\ <<N, E, S, A, Y, U>> \in Seq(Step)
  BY <1>1
<1> QED
  BY <1>2, Zenon DEF Agenda

\* enableHardwareVsync, disableHardwareVsync and resyncToHardwareVsync keep the
\* three flags Booleans, and vsync enabled only where it is available.
LEMMA FlagsStep ==
    ASSUME HardwareVsyncTypeOK, EnabledOnlyWhenAvailable,
           \/ enableHardwareVsync
           \/ \E b \in BOOLEAN : disableHardwareVsync(b)
           \/ \E b \in BOOLEAN : resyncToHardwareVsync(b)
           \/ UNCHANGED flagVars
    PROVE  /\ mPrimaryHWVsyncEnabled' \in BOOLEAN /\ mHWVsyncAvailable' \in BOOLEAN
           /\ requested' \in BOOLEAN
           /\ EnabledOnlyWhenAvailable'
<1> USE DEF EnabledOnlyWhenAvailable, setVsyncEnabled, flagVars
<1>b. /\ mPrimaryHWVsyncEnabled \in BOOLEAN /\ mHWVsyncAvailable \in BOOLEAN
      /\ requested \in BOOLEAN
  BY DEF HardwareVsyncTypeOK
<1>1. CASE enableHardwareVsync
  BY <1>1, <1>b DEF enableHardwareVsync
<1>2. ASSUME NEW b \in BOOLEAN, disableHardwareVsync(b)
      PROVE  /\ mPrimaryHWVsyncEnabled' = FALSE /\ mHWVsyncAvailable' \in BOOLEAN
             /\ requested' \in BOOLEAN
  BY <1>2, <1>b DEF disableHardwareVsync
<1>3. ASSUME NEW b \in BOOLEAN, resyncToHardwareVsync(b)
      PROVE  /\ mPrimaryHWVsyncEnabled' \in BOOLEAN /\ mHWVsyncAvailable' \in BOOLEAN
             /\ requested' \in BOOLEAN
             /\ EnabledOnlyWhenAvailable'
  <2>1. CASE b \/ mHWVsyncAvailable
    BY <1>3, <1>b, <2>1 DEF resyncToHardwareVsync
  <2>2. CASE ~(b \/ mHWVsyncAvailable)
    BY <1>3, <1>b, <2>2 DEF resyncToHardwareVsync
  <2> QED
    BY <2>1, <2>2
<1>4. CASE UNCHANGED flagVars
  BY <1>4, <1>b
<1> QED
  BY <1>1, <1>2, <1>3, <1>4

\* Every step calls at most one of these functions, and leaves the flags alone
\* otherwise.
LEMMA FlagCalls ==
    ASSUME [Next]_vars
    PROVE  \/ enableHardwareVsync
           \/ \E b \in BOOLEAN : disableHardwareVsync(b)
           \/ \E b \in BOOLEAN : resyncToHardwareVsync(b)
           \/ UNCHANGED flagVars
<1>h. UNCHANGED hardwareVars => UNCHANGED flagVars
  BY DEF hardwareVars
<1>1. CASE MainThread
  BY <1>1 DEF MainThread, screenStep, mainStep, hwcSetPowerMode, newComposer,
              unlockState
<1>2. CASE MainMessages
  BY <1>2, <1>h DEF MainMessages, setPowerModeInternal, postComposition,
                    updateVrFlinger
<1>3. CASE HwbinderThread
  BY <1>3 DEF HwbinderThread, onVsyncIgnored, onVsyncSampled, onVsyncReturns
<1>4. CASE ControlThread \/ Hardware
  BY <1>4 DEF ControlThread, Hardware, eventControlCalls, eventControlWakes,
              hardwareVsync
<1>5. CASE DispSyncGathers \/ DispSyncFires \/ EventLoop \/ WaitEnds
  BY <1>5, <1>h DEF DispSyncGathers, DispSyncFires, EventLoop, WaitEnds
<1>6. CASE \E c \in Connection : Client(c)
  BY <1>6, <1>h DEF Client, requestAndResync, resyncWithRateLimit
<1>7. CASE UNCHANGED vars
  BY <1>7, <1>h DEF vars
<1> QED
  BY <1>1, <1>2, <1>3, <1>4, <1>5, <1>6, <1>7 DEF Next

\* The other variables of the control of the hardware vsync keep their types.
LEMMA HardwareVsyncTypeStep ==
    ASSUME HardwareVsyncTypeOK, EventThreadTypeOK, EnabledOnlyWhenAvailable,
           Agenda, [Next]_vars
    PROVE  HardwareVsyncTypeOK' /\ EnabledOnlyWhenAvailable'
<1> DEFINE OnVsync == {Idle}
                \cup [state : {"called"}, sequenceId : 0 .. MaxComposers]
                \cup [state : {"sampled"}, needsHwVsync : BOOLEAN]
           MainTypeOK ==
              /\ powerMode \in PowerMode
              /\ mComposerSequenceId \in 0 .. MaxComposers
              /\ powerChanges \in 0 .. MaxPowerChanges
              /\ presents \in 0 .. MaxPresents
           LockTypeOK == mStateLock \in {"free", "main", "hwbinder"}
           VsyncTypeOK == onVsync \in OnVsync
           ControlTypeOK ==
              /\ currentVsyncEnabled \in BOOLEAN /\ vsyncEnabled \in BOOLEAN
              /\ ectState \in {"calling", "waiting"}
<1> USE HardwareVsyncAssumption
<1>b. MainTypeOK /\ LockTypeOK /\ VsyncTypeOK /\ ControlTypeOK
      /\ requested \in BOOLEAN
  BY DEF HardwareVsyncTypeOK
<1>f. /\ mPrimaryHWVsyncEnabled' \in BOOLEAN /\ mHWVsyncAvailable' \in BOOLEAN
      /\ requested' \in BOOLEAN /\ EnabledOnlyWhenAvailable'
  BY FlagCalls, FlagsStep
<1>t. todo' \in Seq(Step)
  BY AgendaStep, AgendaType
<1> HIDE DEF OnVsync
<1>u. /\ UNCHANGED <<powerMode, mComposerSequenceId, powerChanges, presents>>
            => MainTypeOK'
      /\ UNCHANGED mStateLock => LockTypeOK'
      /\ UNCHANGED onVsync => VsyncTypeOK'
      /\ UNCHANGED <<currentVsyncEnabled, vsyncEnabled, ectState>> => ControlTypeOK'
  BY <1>b DEF OnVsync
<1>h. UNCHANGED hardwareVars =>
         /\ UNCHANGED <<powerMode, mComposerSequenceId, powerChanges, presents>>
         /\ UNCHANGED mStateLock /\ UNCHANGED onVsync
         /\ UNCHANGED <<currentVsyncEnabled, vsyncEnabled, ectState>>
  BY DEF hardwareVars, mainVars, controlVars
<1>1. MainTypeOK' /\ LockTypeOK' /\ VsyncTypeOK' /\ ControlTypeOK'
  <2>1. CASE UNCHANGED hardwareVars
    BY <2>1, <1>u, <1>h
  <2>2. CASE mainStep \/ screenStep
    BY <2>2, <1>u DEF mainStep, screenStep, controlVars
  <2>3. CASE hwcSetPowerMode
    <3>1. vsyncEnabled' \in BOOLEAN
      BY <2>3 DEF hwcSetPowerMode
    <3> QED
      BY <2>3, <3>1, <1>b, <1>u DEF hwcSetPowerMode, controlVars
  <2>4. CASE newComposer
    <3>1. vsyncEnabled' \in BOOLEAN
      BY <2>4 DEF newComposer
    <3>2. mComposerSequenceId < MaxComposers
      BY <2>4 DEF newComposer, Doing, Agenda
    <3>3. mComposerSequenceId' \in 0 .. MaxComposers
      BY <2>4, <1>b, <3>2 DEF newComposer
    <3> QED
      BY <2>4, <3>1, <3>3, <1>b, <1>u DEF newComposer, controlVars
  <2>5. CASE unlockState
    BY <2>5, <1>u DEF unlockState, controlVars
  <2>6. CASE \E mode \in Modes : setPowerModeInternal(mode)
    <3>1. PICK mode \in Modes : setPowerModeInternal(mode)
      BY <2>6
    <3>2. powerMode' \in PowerMode
      BY <3>1 DEF setPowerModeInternal
    <3>3. powerChanges' \in 0 .. MaxPowerChanges
      BY <3>1, <1>b DEF setPowerModeInternal
    <3> QED
      BY <3>1, <3>2, <3>3, <1>b, <1>u DEF setPowerModeInternal, controlVars
  <2>7. CASE postComposition
    <3>1. presents' \in 0 .. MaxPresents
      BY <2>7, <1>b DEF postComposition
    <3> QED
      BY <2>7, <3>1, <1>b, <1>u DEF postComposition, controlVars
  <2>8. CASE \E vr \in BOOLEAN : updateVrFlinger(vr)
    BY <2>8, <1>b, <1>u DEF updateVrFlinger, controlVars
  <2>9. CASE onVsyncIgnored \/ hardwareVsync
    <3>1. VsyncTypeOK'
      BY <2>9, <1>b DEF onVsyncIgnored, hardwareVsync, OnVsync
    <3>2. UNCHANGED <<mainVars, controlVars, vsyncEnabled>>
      BY <2>9 DEF onVsyncIgnored, hardwareVsync
    <3> QED
      BY <3>1, <3>2, <1>u DEF mainVars, controlVars
  <2>10. CASE onVsyncSampled
    <3>1. VsyncTypeOK'
      BY <2>10 DEF onVsyncSampled, OnVsync
    <3> QED
      BY <2>10, <3>1, <1>u DEF onVsyncSampled, controlVars
  <2>11. CASE onVsyncReturns
    <3>1. VsyncTypeOK'
      BY <2>11 DEF onVsyncReturns, OnVsync
    <3> QED
      BY <2>11, <3>1, <1>u DEF onVsyncReturns, controlVars
  <2>12. CASE eventControlCalls
    BY <2>12, <1>b, <1>u DEF eventControlCalls, mainVars
  <2>13. CASE eventControlWakes
    BY <2>13, <1>b, <1>u DEF eventControlWakes, mainVars
  <2>14. CASE UNCHANGED <<mainVars, onVsync, controlVars, vsyncEnabled>>
    BY <2>14, <1>u DEF mainVars, controlVars
  <2> QED
    BY <2>1, <2>2, <2>3, <2>4, <2>5, <2>6, <2>7, <2>8, <2>9, <2>10, <2>11, <2>12,
       <2>13, <2>14
       DEF Next, MainThread, MainMessages, HwbinderThread, ControlThread, Hardware,
           DispSyncGathers, DispSyncFires, EventLoop, WaitEnds, Client,
           requestAndResync, vars
<1> QED
  BY <1>1, <1>f, <1>t DEF HardwareVsyncTypeOK, OnVsync

-----------------------------------------------------------------------------
(* The waits of threadMain                                                 *)

\* EventThread's record of whether the vsync source is enabled agrees with the
\* listener that DispSync has: enableVSyncLocked and disableVSyncLocked call
\* the source only when the record changes.
ListenerAgrees == mVsyncEnabled <=> mEventListeners

\* Both properties of the waits of threadMain, and the record they need.
WaitInv == SleepsOnlyWhenIdle /\ ListenerAgrees /\ WaitsForARealVsync

\* Every step keeps them: a call of another thread that gives threadMain
\* something to do, or that turns the real vsync on, notifies it.
LEMMA WaitInvStep ==
    ASSUME DispSyncTypeOK, EventThreadTypeOK, WaitInv, [Next]_vars
    PROVE  WaitInv'
<1> USE DEF WaitInv, SleepsOnlyWhenIdle, ListenerAgrees, WaitsForARealVsync
<1>n. notify_all => pc' \notin {"wait", "timedWait"}
  BY DEF notify_all, EventThreadTypeOK
<1>b. /\ mVsyncEnabled \in BOOLEAN /\ mEventListeners \in BOOLEAN
      /\ mUseSoftwareVSync \in BOOLEAN
  BY DEF EventThreadTypeOK, DispSyncTypeOK
<1>1. CASE UNCHANGED <<eventThreadVars, mEventListeners>>
  BY <1>1 DEF eventThreadVars, connectionVars, eventVars, sourceVars, clientVars,
              Interested
<1>2. CASE onScreenAcquired /\ UNCHANGED mEventListeners
  BY <1>2, <1>n, <1>b DEF onScreenAcquired, connectionVars, eventVars, clientVars,
                          Interested
<1>3. CASE onScreenReleased /\ UNCHANGED mEventListeners
  BY <1>3, <1>n, <1>b DEF onScreenReleased, connectionVars, eventVars, clientVars,
                          Interested
<1>4. CASE (onHotplugReceived \/ onVSyncEvent) /\ UNCHANGED mEventListeners
  BY <1>4, <1>n DEF onHotplugReceived, onVSyncEvent, sourceVars
<1>5. CASE (WaitReturns \/ WaitTimesOut) /\ UNCHANGED mEventListeners
  BY <1>5 DEF WaitReturns, WaitTimesOut, sourceVars
<1>6. CASE DispatchVSync
  <2>1. pc' = "running"
    BY <1>6 DEF DispatchVSync
  <2>2. ListenerAgrees'
    BY <1>6, <1>b DEF DispatchVSync, disableVSyncLocked, setVSyncEnabled
  <2> QED
    BY <2>1, <2>2
<1>7. CASE DispatchOther
  <2> DEFINE live == mDisplayEventConnections \cap referenced
             waiting == {c \in live : count[c] >= 0}
  <2>1. ListenerAgrees'
    BY <1>7, <1>b DEF DispatchOther, enableVSyncLocked, setVSyncEnabled
  <2>2. pc' = "wait" => waiting = {} /\ mPendingEvents = <<>>
    BY <1>7 DEF DispatchOther
  <2>3. mPendingEvents = <<>> => mPendingEvents' = <<>>
    BY <1>7 DEF DispatchOther
  <2>4. /\ mDisplayEventConnections' \subseteq live
        /\ UNCHANGED <<count, referenced, mVSyncEvent, mUseSoftwareVSync>>
        /\ ~mVSyncEvent.timestamp
    BY <1>7 DEF DispatchOther, PostEvent
  <2>5. SleepsOnlyWhenIdle'
    BY <2>2, <2>3, <2>4 DEF Interested
  <2>6. pc' = "timedWait" /\ ~mUseSoftwareVSync => mVsyncEnabled'
    BY <1>7, <1>b DEF DispatchOther, enableVSyncLocked
  <2> QED
    BY <2>1, <2>4, <2>5, <2>6
<1>8. ASSUME NEW c \in Connection, UNCHANGED mEventListeners
      PROVE  /\ requestNextVsync(c) => WaitInv'
             /\ createEventConnection(c) => WaitInv'
             /\ \A rate \in Rate \cup {0} : setVsyncRate(c, rate) => WaitInv'
             /\ receive(c) \/ closeTube(c) \/ dropReference(c) => WaitInv'
  <2>1. requestNextVsync(c) => WaitInv'
    BY <1>8, <1>n DEF requestNextVsync, eventVars, sourceVars, EventThreadTypeOK,
                         Interested
  <2>2. createEventConnection(c) => WaitInv'
    BY <1>8, <1>n DEF createEventConnection, eventVars, sourceVars, boundVars
  <2>3. ASSUME NEW rate \in Rate \cup {0}
        PROVE  setVsyncRate(c, rate) => WaitInv'
    BY <1>8, <1>n DEF setVsyncRate, eventVars, sourceVars
  <2>4. receive(c) => WaitInv'
    BY <1>8 DEF receive, connectionVars, eventVars, sourceVars, boundVars,
                Interested
  <2>5. closeTube(c) => WaitInv'
    BY <1>8 DEF closeTube, connectionVars, eventVars, sourceVars, boundVars,
                Interested
  <2>6. dropReference(c) => WaitInv'
    BY <1>8 DEF dropReference, connectionVars, eventVars, sourceVars, boundVars,
                Interested
  <2> QED
    BY <2>1, <2>2, <2>3, <2>4, <2>5, <2>6
<1> QED
  BY EventThreadSteps, <1>1, <1>2, <1>3, <1>4, <1>5, <1>6, <1>7, <1>8

-----------------------------------------------------------------------------
(* The theorems                                                            *)

\* The inductive invariant of Vsync.
IInv == TypeOK /\ Agenda /\ EnabledOnlyWhenAvailable /\ WaitInv

\* It holds at the start, where the main thread is about to turn the display on,
\* and every step of every thread keeps it.
THEOREM IInvHolds == Spec => []IInv
<1>1. Init => IInv
  <2> SUFFICES ASSUME Init PROVE IInv
    OBVIOUS
  <2> USE DEF Init
  <2>1. DispSyncTypeOK
    <3>1. mNumResyncSamples = 0 /\ mNumResyncSamplesSincePresent = 0
      BY DEF DispSyncInit
    <3>2. /\ mNumResyncSamples \in 0 .. MIN_RESYNC_SAMPLES_FOR_UPDATE
          /\ mNumResyncSamplesSincePresent
                \in 0 .. MAX_RESYNC_SAMPLES_WITHOUT_PRESENT + 1
      <4> HIDE DEF Init
      <4> QED
        BY <3>1, DispSyncAssumption
    <3> QED
      BY <3>2 DEF DispSyncInit, DispSyncTypeOK, ErrorRange
  <2>2. EventThreadTypeOK
    <3>1. mVSyncEvent \in [timestamp : BOOLEAN, count : 0 .. RateMultiple - 1]
      BY EventThreadAssumption DEF EventThreadInit
    <3>2. /\ count \in [Connection -> {-1, 0} \cup Rate]
          /\ tube \in [Connection -> Seq({"vsync", "hotplug"})]
          /\ mPendingEvents \in Seq({"hotplug"})
      BY DEF EventThreadInit
    <3>3. calls = 0 /\ hotplugs = 0
      BY DEF EventThreadInit
    <3>4. calls \in 0 .. MaxCalls /\ hotplugs \in 0 .. MaxHotplugs
      <4> HIDE DEF Init
      <4> QED
        BY <3>3, EventThreadAssumption
    <3> QED
      BY <3>1, <3>2, <3>4 DEF EventThreadInit, EventThreadTypeOK
  <2>3. todo = <<"setPowerMode", "onScreenAcquired", "resyncToHardwareVsync">>
    BY DEF HardwareVsyncInit, PowerSteps
  <2>4. Agenda
    BY <2>3 DEF HardwareVsyncInit, Agenda, On
  <2>5. HardwareVsyncTypeOK
    <3>1. todo \in Seq(Step)
      BY <2>4, AgendaType
    <3>2. mComposerSequenceId = 0 /\ powerChanges = 0 /\ presents = 0
      BY DEF HardwareVsyncInit
    <3>3. /\ mComposerSequenceId \in 0 .. MaxComposers
          /\ powerChanges \in 0 .. MaxPowerChanges
          /\ presents \in 0 .. MaxPresents
      <4> HIDE DEF Init
      <4> QED
        BY <3>2, HardwareVsyncAssumption
    <3> QED
      BY <3>1, <3>3 DEF HardwareVsyncInit, HardwareVsyncTypeOK, PowerMode
  <2>6. EnabledOnlyWhenAvailable
    BY DEF HardwareVsyncInit, EnabledOnlyWhenAvailable
  <2>7. WaitInv
    BY DEF EventThreadInit, DispSyncInit, WaitInv, SleepsOnlyWhenIdle,
           ListenerAgrees, WaitsForARealVsync
  <2> QED
    BY <2>1, <2>2, <2>4, <2>5, <2>6, <2>7 DEF IInv, TypeOK
<1>2. IInv /\ [Next]_vars => IInv'
  <2> SUFFICES ASSUME IInv, [Next]_vars PROVE IInv'
    OBVIOUS
  <2> USE DEF IInv, TypeOK
  <2>1. DispSyncTypeOK'
    BY DispSyncTypeStep
  <2>2. EventThreadTypeOK'
    BY EventThreadTypeStep
  <2>3. HardwareVsyncTypeOK' /\ EnabledOnlyWhenAvailable'
    BY HardwareVsyncTypeStep
  <2>4. Agenda'
    BY AgendaStep
  <2>5. WaitInv'
    BY WaitInvStep
  <2> QED
    BY <2>1, <2>2, <2>3, <2>4, <2>5
<1> QED
  BY <1>1, <1>2, PTL DEF Spec

\* The variables of the vsync pipeline keep their types; in particular the
\* composer's sequence id stays within its bound although newComposer does not
\* check it, and vsync.count below the common multiple of the rates.
THEOREM TypeCorrect == Spec => []TypeOK
<1>1. IInv => TypeOK
  BY DEF IInv
<1> QED
  BY <1>1, IInvHolds, PTL

\* threadMain never sleeps without a timeout while an event is there or a
\* connection waits for vsync, whatever the clients, DispSync and the main
\* thread do between its look at them and its wait.
THEOREM SleepsOnlyWhenNothingToDo == Spec => []SleepsOnlyWhenIdle
<1>1. IInv => SleepsOnlyWhenIdle
  BY DEF IInv, WaitInv
<1> QED
  BY <1>1, IInvHolds, PTL

\* While threadMain waits for vsync with the screen on, DispSync has its
\* listener.
THEOREM TimedWaitHasListener == Spec => []WaitsForARealVsync
<1>1. IInv => WaitsForARealVsync
  BY DEF IInv, WaitInv
<1> QED
  BY <1>1, IInvHolds, PTL

\* Between two messages of the main thread the power mode, mHWVsyncAvailable and
\* mUseSoftwareVSync agree, after every sequence of power modes and changes of
\* the composer and with any interleaving of the other threads.
THEOREM RecordsOfTheScreenAgree == Spec => []ScreenStateAgrees
<1>1. IInv => ScreenStateAgrees
  BY DEF IInv, Agenda, Agree, On, ScreenStateAgrees
<1> QED
  BY <1>1, IInvHolds, PTL

\* Hardware vsync is never enabled while it is unavailable, although
\* onVsyncReceived, postComposition and the clients' resync decide before they
\* take mHWVsyncLock again.
THEOREM NeverEnabledUnavailable == Spec => []EnabledOnlyWhenAvailable
<1>1. IInv => EnabledOnlyWhenAvailable
  BY DEF IInv
<1> QED
  BY <1>1, IInvHolds, PTL
=============================================================================
