--------------------------- MODULE MCBufferQueue ---------------------------
(***************************************************************************)
(* BufferQueue for TLC.  The threads and the buffers are model values and  *)
(* interchangeable.                                                        *)
(***************************************************************************)
EXTENDS BufferQueue, TLC

Symmetry == Permutations(Thread) \cup Permutations(Buffer)
=============================================================================
