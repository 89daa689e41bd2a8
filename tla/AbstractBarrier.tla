-------------------------- MODULE AbstractBarrier --------------------------
(***************************************************************************)
(* What oomph::barrier promises (include/oomph/barrier.hpp, the comments   *)
(* on operator() and thread_barrier()).  Threads of several ranks make the *)
(* same sequence of barrier calls.  A call of kind "thread" synchronises   *)
(* the threads of one rank, a call of kind "full" the threads of all       *)
(* ranks: nobody returns from its k-th call before everybody it            *)
(* synchronises with has entered the k-th call.                            *)
(***************************************************************************)
EXTENDS Naturals

CONSTANTS Ranks,      \* the MPI ranks
          Threads,    \* the threads of every rank
          Kind,       \* Kind[k]: which function the k-th call is to
          MaxCalls    \* number of calls every thread may make

VARIABLES entered,    \* entered[r][t]: calls thread t of rank r has entered
          left        \* left[r][t]: calls it has returned from

vars == <<entered, left>>

\* The ranks whose threads take part in the same barrier as rank r.
Synchronised(r, k) == IF Kind[k] = "full" THEN Ranks ELSE {r}

Init ==
    /\ entered = [r \in Ranks |-> [t \in Threads |-> 0]]
    /\ left = [r \in Ranks |-> [t \in Threads |-> 0]]

Enter(r, t) ==
    /\ left[r][t] = entered[r][t]
    /\ entered[r][t] < MaxCalls
    /\ entered' = [entered EXCEPT ![r][t] = @ + 1]
    /\ UNCHANGED left

Leave(r, t) ==
    /\ left[r][t] < entered[r][t]
    /\ \A s \in Synchronised(r, entered[r][t]) : \A u \in Threads :
          entered[r][t] <= entered[s][u]
    /\ left' = [left EXCEPT ![r][t] = @ + 1]
    /\ UNCHANGED entered

Next == \E r \in Ranks, t \in Threads : Enter(r, t) \/ Leave(r, t)

Safety == Init /\ [][Next]_vars

\* Once everybody has entered, every participant returns.
Spec == Safety /\ \A r \in Ranks, t \in Threads : WF_vars(Leave(r, t))
============================================================================
