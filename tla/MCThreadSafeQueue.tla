------------------------- MODULE MCThreadSafeQueue -------------------------
(***************************************************************************)
(* A small instance of ThreadSafeQueue for TLC.  Producers and Consumers   *)
(* are sets of model values; no symmetry, since liveness is checked.       *)
(***************************************************************************)
EXTENDS ThreadSafeQueue, TLC
=============================================================================
