--------------------------- MODULE MCBoundedQueue ----------------------------
(***************************************************************************)
(* BoundedQueue for TLC.  Two producers and two consumers are the least    *)
(* that can take each other's wake-ups; four items fill a queue of two and *)
(* leave one for each producer to block with.                              *)
(***************************************************************************)
EXTENDS BoundedQueue
==============================================================================
