----------------------------- MODULE MCMpiCommunicator ------------------------
(* MpiCommunicator for TLC. *)
EXTENDS MpiCommunicator

CONSTANTS s1, v1, v2, v3, v4

Use(posts, cancels, waits, matched) ==
    [posts |-> posts, cancels |-> cancels, waits |-> waits, matched |-> matched]

\* Plain use; waiting in callbacks and cancelling matched receives, with a send
\* and with a third receive.
MixedUsers == {Use({s1, v1, v2, v3}, FALSE, FALSE, FALSE), Use({s1, v1, v2}, FALSE, TRUE, TRUE),
               Use({v1, v2, v3}, FALSE, TRUE, TRUE)}

\* Callbacks that cancel other receives.
CancellingUsers == {Use({v1, v2, v3, v4}, TRUE, FALSE, FALSE)}
==========================================================================
