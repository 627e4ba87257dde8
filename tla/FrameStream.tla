---------------------------- MODULE FrameStream ----------------------------
(***************************************************************************)
(* What a BufferQueue promises about frames, without slots, buffers,       *)
(* threads or limits: frames are numbered in the order they are queued,    *)
(* they leave from the front, and a frame that is waiting is lost only     *)
(* when it is the newest, was queued as droppable and a newer one comes,   *)
(* or when the consumer goes away.                                         *)
(***************************************************************************)
EXTENDS Naturals, Sequences, SequencesExt

VARIABLES
    pending,    \* the frames queued and not yet taken, oldest first
    issued      \* how many frames were ever queued

streamVars == <<pending, issued>>

StreamInit == pending = <<>> /\ issued = 0

\* A producer queues the next frame.
Queue(droppable) ==
    LET frame == [number |-> issued + 1, droppable |-> droppable] IN
    /\ issued' = issued + 1
    /\ pending' = IF pending # <<>> /\ Last(pending).droppable
                     THEN Append(Front(pending), frame)
                     ELSE Append(pending, frame)

\* The consumer acquires the oldest frame, or drops it for a newer one.
Take ==
    /\ pending # <<>>
    /\ pending' = Tail(pending)
    /\ UNCHANGED issued

\* The consumer disconnects.
Abandon == pending' = <<>> /\ UNCHANGED issued

StreamNext == (\E droppable \in BOOLEAN : Queue(droppable)) \/ Take \/ Abandon

StreamSpec == StreamInit /\ [][StreamNext]_streamVars
=============================================================================
