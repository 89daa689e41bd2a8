---------------------- MODULE MCLibfabricCommunicator ----------------------
(* LibfabricCommunicator for TLC.  Threads are interchangeable: one of     *)
(* them posts the operations that are not shared.                          *)
EXTENDS LibfabricCommunicator

MixedWorkloads == {Recvs \cup SharedRecvs, Injects \cup Recvs, Sends \cup SharedRecvs}
Posters == [r \in Requests |->
    IF r \in SharedRecvs THEN Threads ELSE {CHOOSE t \in Threads : TRUE}]
============================================================================
