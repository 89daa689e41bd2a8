---------------------- MODULE MCNcclCommunicator ----------------------
(* NcclCommunicator for TLC: two streams, two communicators of a thread.  *)
EXTENDS NcclCommunicator, TLC
CONSTANTS a, b, s1, v1, w1, e1, e2, e3, e4

Posts == (s1 :> a) @@ (v1 :> a) @@ (w1 :> b)
OnStream == (s1 :> 1) @@ (v1 :> 2) @@ (w1 :> 1)
Pool == <<e1>>
=======================================================================
