--------------------------- MODULE MCBrainRuntime ---------------------------
(* The brain actor on its checkpoint store, small enough for TLC. *)
EXTENDS BrainRuntime
=============================================================================
