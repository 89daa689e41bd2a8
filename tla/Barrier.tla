------------------------------ MODULE Barrier ------------------------------
(***************************************************************************)
(* oomph::barrier (include/oomph/barrier.hpp, src/barrier.cpp): the        *)
(* two-counter barrier of the threads of a rank, combined with the         *)
(* MPI_Ibarrier of the ranks.  Every rank has one barrier object shared by *)
(* its threads.  All threads make the same sequence of calls: the k-th is  *)
(* operator() when Kind[k] = "full", thread_barrier() when it is "thread". *)
(* An action is one access to an atomic counter or one MPI call.  The      *)
(* communicator progress made in the wait loops leaves this state alone.   *)
(***************************************************************************)
EXTENDS Integers, FiniteSets

CONSTANTS Ranks, Threads, Kind, MaxCalls

ASSUME BarrierAssumption ==
    /\ IsFiniteSet(Threads) /\ Threads # {}
    /\ MaxCalls \in Nat
    /\ Kind \in [1..MaxCalls -> {"full", "thread"}]

m_threads == Cardinality(Threads)

VARIABLES
    b_count,    \* b_count[r]: up-counter of in_node1
    b_count2,   \* b_count2[r]: down-counter of in_node2
    posted,     \* posted[r]: MPI_Ibarrier calls rank r has made
    pc,         \* pc[r][t]: where thread t of rank r is
    expected,   \* expected[r][t]: its local copy of a counter (expected, ex)
    req,        \* req[r][t]: which MPI_Ibarrier of the rank it waits for
    calls       \* calls[r][t]: barrier calls it has entered

vars == <<b_count, b_count2, posted, pc, expected, req, calls>>

Init ==
    /\ b_count = [r \in Ranks |-> 0]
    /\ b_count2 = [r \in Ranks |-> m_threads]
    /\ posted = [r \in Ranks |-> 0]
    /\ pc = [r \in Ranks |-> [t \in Threads |-> "idle"]]
    /\ expected = [r \in Ranks |-> [t \in Threads |-> 0]]
    /\ req = [r \in Ranks |-> [t \in Threads |-> 0]]
    /\ calls = [r \in Ranks |-> [t \in Threads |-> 0]]

Goto(r, t, from, to) ==
    /\ pc[r][t] = from
    /\ pc' = [pc EXCEPT ![r][t] = to]

\* The thread is in operator(), not in thread_barrier().
InFull(r, t) == Kind[calls[r][t]] = "full"

----------------------------------------------------------------------------
\* operator() or thread_barrier() is called: it starts with in_node1.
Call(r, t) ==
    /\ calls[r][t] < MaxCalls
    /\ Goto(r, t, "idle", "load1")
    /\ calls' = [calls EXCEPT ![r][t] = @ + 1]
    /\ UNCHANGED <<b_count, b_count2, posted, expected, req>>

\* in_node1: expected = b_count.
Load1(r, t) ==
    /\ Goto(r, t, "load1", "cas1")
    /\ expected' = [expected EXCEPT ![r][t] = b_count[r]]
    /\ UNCHANGED <<b_count, b_count2, posted, req, calls>>

\* in_node1: the increment succeeds; the thread that completes the count
\* resets it, the others wait for the reset.
Count1(r, t) ==
    /\ b_count[r] = expected[r][t]
    /\ Goto(r, t, "cas1",
            IF expected[r][t] = m_threads - 1 THEN "store1" ELSE "spin1")
    /\ b_count' = [b_count EXCEPT ![r] = @ + 1]
    /\ UNCHANGED <<b_count2, posted, expected, req, calls>>

\* in_node1: the compare-exchange fails and the counter is read again.  (A
\* spurious failure changes nothing.)
Retry1(r, t) ==
    /\ pc[r][t] = "cas1"
    /\ b_count[r] # expected[r][t]
    /\ expected' = [expected EXCEPT ![r][t] = b_count[r]]
    /\ UNCHANGED <<b_count, b_count2, posted, pc, req, calls>>

\* Mutant: the last thread does not reset the up-counter.
Store1NoReset(r, t) ==
    /\ Goto(r, t, "store1", IF InFull(r, t) THEN "ibarrier" ELSE "load2")
    /\ UNCHANGED <<b_count, b_count2, posted, expected, req, calls>>

\* in_node1 returns true; in operator() this thread runs the rank barrier.
Store1(r, t) ==
    /\ Goto(r, t, "store1", IF InFull(r, t) THEN "ibarrier" ELSE "load2")
    /\ b_count' = [b_count EXCEPT ![r] = 0]
    /\ UNCHANGED <<b_count2, posted, expected, req, calls>>

\* Mutant: operator() ignores the result of in_node1.
Spin1AnyRank(r, t) ==
    /\ b_count[r] = 0
    /\ Goto(r, t, "spin1", IF InFull(r, t) THEN "ibarrier" ELSE "load2")
    /\ UNCHANGED <<b_count, b_count2, posted, expected, req, calls>>

\* in_node1 returns false; in operator() this thread waits for the others'
\* down-count to start.
Spin1(r, t) ==
    /\ b_count[r] = 0
    /\ Goto(r, t, "spin1", IF InFull(r, t) THEN "wait2" ELSE "load2")
    /\ UNCHANGED <<b_count, b_count2, posted, expected, req, calls>>

\* rank_barrier: the rank's next MPI_Ibarrier is posted.
Ibarrier(r, t) ==
    /\ Goto(r, t, "ibarrier", "test")
    /\ posted' = [posted EXCEPT ![r] = @ + 1]
    /\ req' = [req EXCEPT ![r][t] = posted[r] + 1]
    /\ UNCHANGED <<b_count, b_count2, expected, calls>>

\* MPI: the n-th MPI_Ibarrier of a rank completes when every rank has posted
\* its n-th.
IbarrierComplete(n) == \A s \in Ranks : n <= posted[s]

\* Mutant: the flag of MPI_Test is ignored.
TestNoFlag(r, t) ==
    /\ Goto(r, t, "test", "load2")
    /\ UNCHANGED <<b_count, b_count2, posted, expected, req, calls>>

\* rank_barrier: MPI_Test reports completion.
Test(r, t) ==
    /\ IbarrierComplete(req[r][t])
    /\ Goto(r, t, "test", "load2")
    /\ UNCHANGED <<b_count, b_count2, posted, expected, req, calls>>

\* operator(): while (b_count2 == m_threads) progress.
Wait2(r, t) ==
    /\ b_count2[r] # m_threads
    /\ Goto(r, t, "wait2", "load2")
    /\ UNCHANGED <<b_count, b_count2, posted, expected, req, calls>>

\* in_node2: ex = b_count2.
Load2(r, t) ==
    /\ Goto(r, t, "load2", "cas2")
    /\ expected' = [expected EXCEPT ![r][t] = b_count2[r]]
    /\ UNCHANGED <<b_count, b_count2, posted, req, calls>>

\* in_node2: the decrement succeeds; the last thread resets the counter.
Count2(r, t) ==
    /\ b_count2[r] = expected[r][t]
    /\ Goto(r, t, "cas2", IF expected[r][t] = 1 THEN "store2" ELSE "spin2")
    /\ b_count2' = [b_count2 EXCEPT ![r] = @ - 1]
    /\ UNCHANGED <<b_count, posted, expected, req, calls>>

Retry2(r, t) ==
    /\ pc[r][t] = "cas2"
    /\ b_count2[r] # expected[r][t]
    /\ expected' = [expected EXCEPT ![r][t] = b_count2[r]]
    /\ UNCHANGED <<b_count, b_count2, posted, pc, req, calls>>

\* Mutant: the last thread resets the wrong counter.
Store2WrongCounter(r, t) ==
    /\ Goto(r, t, "store2", "idle")
    /\ b_count' = [b_count EXCEPT ![r] = m_threads]
    /\ UNCHANGED <<b_count2, posted, expected, req, calls>>

\* in_node2, last thread: the counter is reset and the call returns.
Store2(r, t) ==
    /\ Goto(r, t, "store2", "idle")
    /\ b_count2' = [b_count2 EXCEPT ![r] = m_threads]
    /\ UNCHANGED <<b_count, posted, expected, req, calls>>

\* in_node2, the others: the call returns once the counter is reset.
Spin2(r, t) ==
    /\ b_count2[r] = m_threads
    /\ Goto(r, t, "spin2", "idle")
    /\ UNCHANGED <<b_count, b_count2, posted, expected, req, calls>>

----------------------------------------------------------------------------
\* A step of a thread inside a barrier call.
Inside(r, t) ==
    \/ Load1(r, t) \/ Count1(r, t) \/ Retry1(r, t) \/ Store1(r, t) \/ Spin1(r, t)
    \/ Ibarrier(r, t) \/ Test(r, t) \/ Wait2(r, t)
    \/ Load2(r, t) \/ Count2(r, t) \/ Retry2(r, t) \/ Store2(r, t) \/ Spin2(r, t)

\* Every thread has made all its calls: the program ends.
Terminated ==
    /\ \A r \in Ranks, t \in Threads : pc[r][t] = "idle" /\ calls[r][t] = MaxCalls
    /\ UNCHANGED vars

Next ==
    \/ \E r \in Ranks, t \in Threads : Call(r, t) \/ Inside(r, t)
    \/ Terminated

Safety == Init /\ [][Next]_vars

\* The operating system keeps running every thread inside a call; a thread
\* need not make its next call.
Spec == Safety /\ \A r \in Ranks, t \in Threads : WF_vars(Inside(r, t))

----------------------------------------------------------------------------
Locations == {"idle", "load1", "cas1", "store1", "spin1", "ibarrier", "test",
              "wait2", "load2", "cas2", "store2", "spin2"}

\* The counters stay between 0 and m_threads: b_count2, an unsigned size_t,
\* never wraps below 0 (in_node2), and b_count never counts a thread twice.
TypeOK ==
    /\ b_count \in [Ranks -> 0..m_threads]
    /\ b_count2 \in [Ranks -> 0..m_threads]
    /\ posted \in [Ranks -> Nat]
    /\ pc \in [Ranks -> [Threads -> Locations]]
    /\ expected \in [Ranks -> [Threads -> 0..m_threads]]
    /\ req \in [Ranks -> [Threads -> Nat]]
    /\ calls \in [Ranks -> [Threads -> 0..MaxCalls]]

\* The calls a thread has returned from.
Returned(r, t) == IF pc[r][t] = "idle" THEN calls[r][t] ELSE calls[r][t] - 1

returned == [r \in Ranks |-> [t \in Threads |-> Returned(r, t)]]

Promise == INSTANCE AbstractBarrier WITH entered <- calls, left <- returned

\* A thread that has returned from its k-th call knows that every thread it
\* was to be synchronised with has entered its k-th call, although the same
\* two counters serve all calls and slow threads may still be spinning in
\* the previous one (operator(), thread_barrier()).
CallsSynchronised ==
    \A r \in Ranks, t \in Threads : \A k \in 1..Returned(r, t) :
        \A s \in Promise!Synchronised(r, k), u \in Threads : k <= calls[s][u]

\* The number of calls to operator() among the first k calls.
FullCalls(k) == Cardinality({j \in 1..k : Kind[j] = "full"})

\* in_node1 returns true to one thread only, so a rank never has two
\* MPI_Ibarrier requests in flight, and the n-th MPI_Ibarrier of every rank
\* belongs to the same call: ranks never pair barriers of different calls.
RankBarriersMatch ==
    \A r \in Ranks, t \in Threads : pc[r][t] = "test" =>
        /\ req[r][t] = FullCalls(calls[r][t])
        /\ \A u \in Threads \ {t} : pc[r][u] \notin {"ibarrier", "test"}

\* The two-counter barrier implements the barrier operator() and
\* thread_barrier() document, including that a call returns once everybody
\* has entered it.
ImplementsPromise == Promise!Spec
============================================================================
