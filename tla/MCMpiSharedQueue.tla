-------------------------- MODULE MCMpiSharedQueue --------------------------
(* MpiSharedQueue for TLC. *)
EXTENDS MpiSharedQueue
=============================================================================
