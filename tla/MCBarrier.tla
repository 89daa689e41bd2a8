----------------------------- MODULE MCBarrier -----------------------------
(* Barrier for TLC.  In MixedCalls a full barrier is followed by a thread   *)
(* barrier and another full barrier, so that each counter is reused by a    *)
(* call of the other kind.                                                  *)
EXTENDS Barrier

MixedCalls == <<"full", "thread", "full">>
============================================================================
