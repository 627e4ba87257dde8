---------------------------- MODULE InputChannel ----------------------------
(***************************************************************************)
(* The input channels between the InputDispatcher and the windows,         *)
(* InputTransport.cpp: a socket pair for each window, on which key events  *)
(* go one way and finished signals the other.                              *)
(*                                                                         *)
(* The application behind a window reads its events in order and finishes  *)
(* them in any order, handled or not; it may stop to respond and it may    *)
(* close its end.  Motion events, and with them batches and sequence       *)
(* chains, are left out.                                                   *)
(***************************************************************************)
EXTENDS Naturals, Sequences, SequencesExt

CONSTANTS Window,    \* the windows, each with an input channel of its own
          Key,       \* key codes of devices and of injected events
          Fallbacks, \* key codes the policy may send for an unhandled key
          Injector,  \* calls of injectInputEvent
          NoInjector, \* the null injectionState of other events
          PipeSize   \* events that fit into the socket (SOCKET_BUFFER_SIZE)

AKEYCODE_UNKNOWN == "UNKNOWN"

ASSUME ChannelAssumption ==
    /\ Key \cap Fallbacks = {} /\ AKEYCODE_UNKNOWN \notin Key \cup Fallbacks
    /\ NoInjector \notin Injector
    /\ PipeSize \in Nat \ {0}

KeyCode == Key \cup Fallbacks \cup {AKEYCODE_UNKNOWN}

\* A DispatchEntry and the KeyEntry it points to.  Sequence numbers are never 0.
DispatchEntry == [seq : Nat \ {0}, key : KeyCode, action : {"DOWN", "UP"},
                  foreground : BOOLEAN, fallback : BOOLEAN,
                  injector : Injector \cup {NoInjector}]

VARIABLES
    pipe,     \* events in the socket, by window
    received, \* events an application has read and not finished
    down,     \* keys that are down as far as the application can tell
    signals,  \* finished signals in the socket
    open      \* windows whose application has not closed its end

channelVars == <<pipe, received, down, signals, open>>

ChannelTypeOK ==
    /\ pipe \in [Window -> Seq(DispatchEntry)]
    /\ \A w \in Window : Len(pipe[w]) <= PipeSize
    /\ received \in [Window -> Seq(DispatchEntry)]
    /\ down \in [Window -> SUBSET KeyCode]
    /\ signals \in [Window -> Seq([seq : Nat \ {0}, handled : BOOLEAN])]
    /\ open \subseteq Window

ChannelInit ==
    /\ pipe = [w \in Window |-> <<>>]
    /\ received = [w \in Window |-> <<>>]
    /\ down = [w \in Window |-> {}]
    /\ signals = [w \in Window |-> <<>>]
    /\ open = Window

\* The keys that are down after a key event.
KeyState(keys, e) ==
    IF e.action = "DOWN" THEN keys \cup {e.key} ELSE keys \ {e.key}

\* The keys that are down after a sequence of key events: the last event of a
\* key decides.
KeysAfter(keys, events) ==
    {k \in KeyCode :
        \/ \E n \in DOMAIN events :
              /\ events[n].key = k /\ events[n].action = "DOWN"
              /\ \A m \in DOMAIN events : events[m].key = k => m <= n
        \/ k \in keys /\ \A n \in DOMAIN events : events[n].key # k}

\* InputConsumer::consume of a key event.
consume(w) ==
    /\ w \in open /\ pipe[w] # <<>>
    /\ pipe' = [pipe EXCEPT ![w] = Tail(@)]
    /\ received' = [received EXCEPT ![w] = Append(@, Head(pipe[w]))]
    /\ down' = [down EXCEPT ![w] = KeyState(@, Head(pipe[w]))]
    /\ UNCHANGED <<signals, open>>

\* InputConsumer::sendFinishedSignal for the i-th of the events that were read.
sendFinishedSignal(w, i, handled) ==
    /\ w \in open
    /\ received' = [received EXCEPT ![w] = RemoveAt(@, i)]
    /\ signals' = [signals EXCEPT ![w] =
            Append(@, [seq |-> received[w][i].seq, handled |-> handled])]
    /\ UNCHANGED <<pipe, down, open>>

\* The application closes its end of the socket, or its process dies: what it
\* had not read or not finished is lost, its signals stay in the socket.
closeChannel(w) ==
    /\ w \in open
    /\ open' = open \ {w}
    /\ pipe' = [pipe EXCEPT ![w] = <<>>]
    /\ received' = [received EXCEPT ![w] = <<>>]
    /\ down' = [down EXCEPT ![w] = {}]
    /\ UNCHANGED signals
=============================================================================
