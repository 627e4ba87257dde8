---------------------------- MODULE EventThread ----------------------------
(***************************************************************************)
(* EventThread, services/surfaceflinger/EventThread.cpp: hands vsync and   *)
(* hotplug events to the connections of the applications.                  *)
(*                                                                         *)
(* threadMain holds mMutex except while it waits on mCondition, so one     *)
(* turn of its loop is one step, and the calls of other threads happen     *)
(* between the beginning and the end of a wait.                            *)
(***************************************************************************)
EXTENDS DispSync, Sequences

CONSTANTS Connection,   \* the connections that are ever made
          Rate,         \* the rates that clients ask for
          RateMultiple, \* a common multiple of Rate: vsync.count is kept modulo it
          TubeSize,     \* events that the BitTube of a connection holds
          MaxCalls,     \* bound: calls that ask for vsync or change the rate
          MaxHotplugs   \* bound: hotplug events

ASSUME EventThreadAssumption ==
    /\ RateMultiple \in Nat \ {0}
    /\ \A r \in Rate : r \in Nat \ {0} /\ RateMultiple % r = 0
    /\ {TubeSize, MaxCalls, MaxHotplugs} \subseteq Nat

VARIABLES
    \* The state under mMutex
    mDisplayEventConnections, count, mVSyncEvent, mPendingEvents,
    mUseSoftwareVSync, mVsyncEnabled,
    \* threadMain
    pc,
    \* The clients: connections they hold a reference to, connections they
    \* still read from, and what is in the tubes
    referenced, receiving, tube,
    \* The requestNextVsync calls that no vsync was read for, for the
    \* properties
    asked,
    calls, hotplugs

connectionVars == <<mDisplayEventConnections, count>>
eventVars == <<mVSyncEvent, mPendingEvents>>
sourceVars == <<mUseSoftwareVSync, mVsyncEnabled>>
clientVars == <<referenced, receiving, tube, asked>>
boundVars == <<calls, hotplugs>>
eventThreadVars == <<connectionVars, eventVars, sourceVars, pc, clientVars,
                     boundVars>>

EventThreadTypeOK ==
    /\ mDisplayEventConnections \subseteq Connection
    /\ count \in [Connection -> {-1, 0} \cup Rate]
    /\ mVSyncEvent \in [timestamp : BOOLEAN, count : 0 .. RateMultiple - 1]
    /\ mPendingEvents \in Seq({"hotplug"})
    /\ mUseSoftwareVSync \in BOOLEAN /\ mVsyncEnabled \in BOOLEAN
    /\ pc \in {"running", "wait", "timedWait", "notified", "timedNotified"}
    /\ receiving \subseteq Connection /\ referenced \subseteq Connection
    /\ tube \in [Connection -> Seq({"vsync", "hotplug"})]
    /\ asked \subseteq Connection
    /\ calls \in 0 .. MaxCalls /\ hotplugs \in 0 .. MaxHotplugs

EventThreadInit ==
    /\ mDisplayEventConnections = {}
    /\ count = [c \in Connection |-> -1]
    /\ mVSyncEvent = [timestamp |-> FALSE, count |-> 0]
    /\ mPendingEvents = <<>>
    /\ mUseSoftwareVSync = FALSE /\ mVsyncEnabled = FALSE
    /\ pc = "running"
    /\ referenced = {} /\ receiving = {} /\ asked = {}
    /\ tube = [c \in Connection |-> <<>>]
    /\ calls = 0 /\ hotplugs = 0

-----------------------------------------------------------------------------
(* mMutex and mCondition                                                   *)

MutexFree == pc # "running"

notify_all ==
    pc' = CASE pc = "wait" -> "notified"
            [] pc = "timedWait" -> "timedNotified"
            [] OTHER -> pc

VSync(event) ==
    [timestamp |-> TRUE, count |-> (event.count + 1) % RateMultiple]

\* The wait ends without a timeout; a wait also ends for no reason.
WaitReturns ==
    /\ MutexFree
    /\ pc' = "running"
    /\ UNCHANGED <<connectionVars, eventVars, sourceVars, clientVars, boundVars>>

\* wait_for compares the clock with its deadline, so that it reports a timeout
\* also when it was notified and then got mMutex too late.  The vsync that did
\* not come is faked.
WaitTimesOut ==
    /\ pc \in {"timedWait", "timedNotified"}
    /\ pc' = "running"
    /\ mVSyncEvent' = VSync(mVSyncEvent)
    /\ UNCHANGED <<connectionVars, mPendingEvents, sourceVars, clientVars,
                   boundVars>>

-----------------------------------------------------------------------------
(* threadMain                                                              *)

enableVSyncLocked ==
    /\ mVsyncEnabled' = (mVsyncEnabled \/ ~mUseSoftwareVSync)
    /\ IF mVsyncEnabled' # mVsyncEnabled
          THEN setVSyncEnabled(TRUE)
          ELSE UNCHANGED mEventListeners

\* Faulty variant: the listener stays registered.
disableVSyncKeepsListener ==
    /\ mVsyncEnabled' = FALSE
    /\ UNCHANGED mEventListeners

disableVSyncLocked ==
    /\ mVsyncEnabled' = FALSE
    /\ IF mVsyncEnabled
          THEN setVSyncEnabled(FALSE)
          ELSE UNCHANGED mEventListeners

\* Is it this connection's turn when a vsync has come?
Fires(c) ==
    count[c] \in {0, 1} \/ (count[c] > 1 /\ mVSyncEvent.count % count[c] = 0)

\* postEvent to the connections in signal: a full tube drops the event, a tube
\* that nobody reads any more removes the connection.
PostEvent(event, signal, live) ==
    /\ tube' = [c \in Connection |->
                  IF c \in signal \cap receiving /\ Len(tube[c]) < TubeSize
                     THEN Append(tube[c], event) ELSE tube[c]]
    /\ mDisplayEventConnections' = live \ (signal \ receiving)

\* A turn of the loop that finds a vsync: one-shot requests are used up, also
\* when the event is then dropped.  Without clients vsync is disabled.
DispatchVSync ==
    LET live == mDisplayEventConnections \cap referenced
        waiting == {c \in live : count[c] >= 0}
        signal == {c \in waiting : Fires(c)}
    IN
    /\ pc = "running"
    /\ mVSyncEvent.timestamp
    /\ mVSyncEvent' = [mVSyncEvent EXCEPT !.timestamp = FALSE]
    /\ count' = [c \in Connection |->
                    IF c \in signal /\ count[c] = 0 THEN -1 ELSE count[c]]
    /\ PostEvent("vsync", signal, live)
    /\ IF waiting = {} THEN disableVSyncLocked
                       ELSE UNCHANGED <<mVsyncEnabled, mEventListeners>>
    /\ UNCHANGED <<mPendingEvents, mUseSoftwareVSync, pc, referenced, receiving,
                   asked, boundVars, invocation>>

\* Faulty variant: threadMain waits for vsync without a timeout.
DispatchOtherNoTimeout ==
    LET live == mDisplayEventConnections \cap referenced
        waiting == {c \in live : count[c] >= 0}
        eventPending == mPendingEvents # <<>>
    IN
    /\ pc = "running"
    /\ ~mVSyncEvent.timestamp
    /\ mPendingEvents' = IF eventPending THEN Tail(mPendingEvents) ELSE <<>>
    /\ PostEvent("hotplug", IF eventPending THEN live ELSE {}, live)
    /\ IF waiting # {} THEN enableVSyncLocked
                       ELSE UNCHANGED <<mVsyncEnabled, mEventListeners>>
    /\ pc' = IF eventPending THEN "running" ELSE "wait"
    /\ UNCHANGED <<count, mVSyncEvent, mUseSoftwareVSync, referenced, receiving,
                   asked, boundVars, invocation>>

\* A turn without a vsync: a hotplug event goes to everyone; without one the
\* thread waits, with a timeout when somebody waits for vsync.
DispatchOther ==
    LET live == mDisplayEventConnections \cap referenced
        waiting == {c \in live : count[c] >= 0}
        eventPending == mPendingEvents # <<>>
    IN
    /\ pc = "running"
    /\ ~mVSyncEvent.timestamp
    /\ mPendingEvents' = IF eventPending THEN Tail(mPendingEvents) ELSE <<>>
    /\ PostEvent("hotplug", IF eventPending THEN live ELSE {}, live)
    /\ IF waiting # {} THEN enableVSyncLocked
                       ELSE UNCHANGED <<mVsyncEnabled, mEventListeners>>
    /\ pc' = CASE eventPending -> "running"
               [] ~eventPending /\ waiting # {} -> "timedWait"
               [] OTHER -> "wait"
    /\ UNCHANGED <<count, mVSyncEvent, mUseSoftwareVSync, referenced, receiving,
                   asked, boundVars, invocation>>

-----------------------------------------------------------------------------
(* Calls of other threads                                                  *)

\* createEventConnection, and onFirstRef's registerDisplayEventConnection.
createEventConnection(c) ==
    /\ MutexFree
    /\ c \notin referenced \cup receiving \cup mDisplayEventConnections
    /\ referenced' = referenced \cup {c}
    /\ receiving' = receiving \cup {c}
    /\ mDisplayEventConnections' = mDisplayEventConnections \cup {c}
    /\ count' = [count EXCEPT ![c] = -1]
    /\ notify_all
    /\ UNCHANGED <<eventVars, sourceVars, tube, asked, boundVars>>

\* rate = 0 turns the events off.
setVsyncRate(c, rate) ==
    LET new_count == IF rate = 0 THEN -1 ELSE rate IN
    /\ MutexFree
    /\ c \in referenced /\ calls < MaxCalls
    /\ calls' = calls + 1
    /\ count[c] # new_count
    /\ count' = [count EXCEPT ![c] = new_count]
    /\ asked' = asked \ {c}
    /\ notify_all
    /\ UNCHANGED <<mDisplayEventConnections, eventVars, sourceVars, referenced,
                   receiving, tube, hotplugs>>

\* Faulty variant: threadMain is not told.
requestNextVsyncSilently(c) ==
    /\ MutexFree
    /\ c \in referenced /\ calls < MaxCalls
    /\ calls' = calls + 1
    /\ count' = [count EXCEPT ![c] = IF @ < 0 THEN 0 ELSE @]
    /\ asked' = asked \cup {c}
    /\ UNCHANGED <<pc, mDisplayEventConnections, eventVars, sourceVars,
                   referenced, receiving, tube, hotplugs>>

\* Faulty variant: a second request counts up.
requestNextVsyncCounts(c) ==
    /\ MutexFree
    /\ c \in referenced /\ calls < MaxCalls
    /\ calls' = calls + 1
    /\ count' = [count EXCEPT ![c] = @ + 1]
    /\ IF count[c] < 0 THEN notify_all ELSE UNCHANGED pc
    /\ asked' = asked \cup {c}
    /\ UNCHANGED <<mDisplayEventConnections, eventVars, sourceVars, referenced,
                   receiving, tube, hotplugs>>

\* The call of mResyncWithRateLimitCallback is conjoined by Vsync.
requestNextVsync(c) ==
    /\ MutexFree
    /\ c \in referenced /\ calls < MaxCalls
    /\ calls' = calls + 1
    /\ count' = [count EXCEPT ![c] = IF @ < 0 THEN 0 ELSE @]
    /\ IF count[c] < 0 THEN notify_all ELSE UNCHANGED pc
    /\ asked' = asked \cup {c}
    /\ UNCHANGED <<mDisplayEventConnections, eventVars, sourceVars, referenced,
                   receiving, tube, hotplugs>>

onScreenReleased ==
    /\ MutexFree
    /\ mUseSoftwareVSync' = TRUE
    /\ IF mUseSoftwareVSync THEN UNCHANGED pc ELSE notify_all
    /\ UNCHANGED <<connectionVars, eventVars, mVsyncEnabled, clientVars,
                   boundVars>>

\* Faulty variant: a thread that waits with the short timeout goes on waiting.
onScreenAcquiredSilently ==
    /\ MutexFree
    /\ mUseSoftwareVSync' = FALSE
    /\ UNCHANGED <<pc, connectionVars, eventVars, mVsyncEnabled, clientVars,
                   boundVars>>

onScreenAcquired ==
    /\ MutexFree
    /\ mUseSoftwareVSync' = FALSE
    /\ IF mUseSoftwareVSync THEN notify_all ELSE UNCHANGED pc
    /\ UNCHANGED <<connectionVars, eventVars, mVsyncEnabled, clientVars,
                   boundVars>>

\* Called by the DispSync thread.
onVSyncEvent ==
    /\ MutexFree
    /\ mVSyncEvent' = VSync(mVSyncEvent)
    /\ notify_all
    /\ UNCHANGED <<connectionVars, mPendingEvents, sourceVars, clientVars,
                   boundVars>>

onHotplugReceived ==
    /\ MutexFree
    /\ hotplugs < MaxHotplugs
    /\ hotplugs' = hotplugs + 1
    /\ mPendingEvents' = Append(mPendingEvents, "hotplug")
    /\ notify_all
    /\ UNCHANGED <<connectionVars, mVSyncEvent, sourceVars, clientVars, calls>>

-----------------------------------------------------------------------------
(* The clients                                                             *)

receive(c) ==
    /\ c \in receiving /\ tube[c] # <<>>
    /\ tube' = [tube EXCEPT ![c] = Tail(@)]
    /\ asked' = IF Head(tube[c]) = "vsync" THEN asked \ {c} ELSE asked
    /\ UNCHANGED <<connectionVars, eventVars, sourceVars, pc, referenced,
                   receiving, boundVars>>

\* The client closes its end of the tube ...
closeTube(c) ==
    /\ c \in receiving
    /\ receiving' = receiving \ {c}
    /\ tube' = [tube EXCEPT ![c] = <<>>]
    /\ asked' = asked \ {c}
    /\ UNCHANGED <<connectionVars, eventVars, sourceVars, pc, referenced,
                   boundVars>>

\* ... and, in this or the other order, drops its reference.  A connection
\* without references is removed when threadMain meets it.
dropReference(c) ==
    /\ c \in referenced
    /\ referenced' = referenced \ {c}
    /\ asked' = asked \ {c}
    /\ UNCHANGED <<connectionVars, eventVars, sourceVars, pc, receiving, tube,
                   boundVars>>
=============================================================================
