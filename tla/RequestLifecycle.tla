-------------------------- MODULE RequestLifecycle --------------------------
(***************************************************************************)
(* What every backend promises about a send or receive (README.md, section *)
(* Send/Recv; include/oomph/request.hpp): its callback runs once, when the *)
(* operation completes, and the request is ready when the callback has     *)
(* returned; a receive that was cancelled is ready and its callback never  *)
(* runs.  The counters of scheduled operations, which wait_all() waits     *)
(* for, count the requests that are not ready and were not completed       *)
(* inside the call that posted them.                                       *)
(***************************************************************************)
EXTENDS Naturals, FiniteSets

CONSTANTS Requests

ASSUME RequestsFinite == IsFiniteSet(Requests)

VARIABLES status,     \* status[r]: how far request r is
          counted     \* the number of scheduled operations

vars == <<status, counted>>

Statuses == {"none", "scheduled", "early", "callback", "ready", "canceled"}

Init ==
    /\ status = [r \in Requests |-> "none"]
    /\ counted = 0

Become(r, from, to) ==
    /\ status[r] = from
    /\ status' = [status EXCEPT ![r] = to]

\* The operation is posted and does not complete at once.
Schedule(r) == Become(r, "none", "scheduled") /\ counted' = counted + 1

\* It completes at once: the callback runs inside the posting call.
CompleteEarly(r) == Become(r, "none", "early") /\ UNCHANGED counted
ReturnEarly(r) == Become(r, "early", "ready") /\ UNCHANGED counted

\* It completes later: the callback runs inside a call to progress.
Complete(r) == Become(r, "scheduled", "callback") /\ UNCHANGED counted
Return(r) == Become(r, "callback", "ready") /\ counted' = counted - 1

\* A receive is cancelled before it completes.
Cancel(r) == Become(r, "scheduled", "canceled") /\ counted' = counted - 1

Next ==
    \E r \in Requests :
        \/ Schedule(r) \/ CompleteEarly(r) \/ ReturnEarly(r)
        \/ Complete(r) \/ Return(r) \/ Cancel(r)

Spec == Init /\ [][Next]_vars

----------------------------------------------------------------------------
\* The counters scheduled_sends and scheduled_recvs never wrap below zero.
TypeOK == status \in [Requests -> Statuses] /\ counted \in Nat

Unfinished == {r \in Requests : status[r] \in {"scheduled", "callback"}}

\* The scheduled counters (include/oomph/communicator.hpp) count the requests
\* that are scheduled or in their callback: a request that is cancelled,
\* completed early or completed inside progress is uncounted once, at its end.
CountExact == counted = Cardinality(Unfinished)
=============================================================================
