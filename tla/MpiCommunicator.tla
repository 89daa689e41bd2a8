-------------------------- MODULE MpiCommunicator --------------------------
(***************************************************************************)
(* One communicator of the MPI backend and the thread that uses it:        *)
(* communicator_impl (src/mpi/communicator.hpp), its two request_queues    *)
(* (src/mpi/request_queue.hpp), the request states they hold               *)
(* (src/mpi/request_state.hpp, src/request_state_base.hpp) and the request *)
(* objects given to the user (src/request.cpp).                            *)
(*                                                                         *)
(* The thread runs user code when stack is empty or a callback is on top   *)
(* of it: callbacks may call the communicator again.  MPI completes        *)
(* operations at any time.  The shared queue of the context, which         *)
(* progress() polls last, is modelled in MpiSharedQueue.                   *)
(***************************************************************************)
EXTENDS Integers, Sequences, SequencesExt, FiniteSets

CONSTANTS Sends, Recvs,       \* the operations the user may post
          RecursionDepth,     \* OOMPH_RECURSION_DEPTH
          Users               \* how users may use the communicator: a set of
                              \* records of the fields
                              \*   posts    the operations they post
                              \*   cancels  whether callbacks call cancel
                              \*   waits    whether callbacks call wait
                              \*   matched  whether cancel may meet a receive
                              \*            that MPI has matched

ASSUME MpiCommunicatorAssumption ==
    /\ IsFiniteSet(Sends) /\ IsFiniteSet(Recvs) /\ Sends \cap Recvs = {}
    /\ RecursionDepth \in Nat
    /\ Users \subseteq [posts : SUBSET (Sends \cup Recvs),
                         cancels : BOOLEAN, waits : BOOLEAN, matched : BOOLEAN]

Requests == Sends \cup Recvs
Queues == {"send", "recv"}
QueueOf(r) == IF r \in Sends THEN "send" ELSE "recv"

VARIABLES
    user,               \* the use of this behaviour, a member of Users
    mpi,                \* MPI: "none", "active", "done" (completed, not yet
                        \* reported) or "null" (reported or cancelled)
    m_queue,            \* m_queue[q]: the queued request states, in order
    m_ready_queue,      \* m_ready_queue[q]: states whose callback is still to run
    in_progress,        \* in_progress[q]
    m_index,            \* m_index[r]: cached position in m_queue, from 0
    made,               \* requests that have a request_state
    m_self_ptr,         \* requests whose state owns its self-reference
    m_ready, m_canceled,
    scheduled,          \* scheduled[q]: scheduled_sends, scheduled_recvs
    m_recursion_depth,
    stack               \* the calls the thread is in, innermost first

vars == <<user, mpi, m_queue, m_ready_queue, in_progress, m_index, made, m_self_ptr,
          m_ready, m_canceled, scheduled, m_recursion_depth, stack>>

queueVars == <<m_queue, m_ready_queue, in_progress, m_index>>
stateVars == <<made, m_self_ptr, m_ready, m_canceled, scheduled>>

\* Frames of the stack: communicator_impl::progress about to poll queue q or
\* in its ready loop, the callback of a queued or of an early completed
\* request, the loop of wait(), and the end of a thread whose behaviour is
\* undefined.
Polling(q) == <<"poll", q>>
Looping(q) == <<"loop", q>>
InQueued(r) == <<"queued", r>>
InEarly(r) == <<"early", r>>
Waiting(r) == <<"wait", r>>
Undefined(q) == <<"undefined", q>>
Frames == {<<f, q>> : f \in {"poll", "loop", "undefined"}, q \in Queues}
          \cup {<<f, r>> : f \in {"queued", "early", "wait"}, r \in Requests}

OnTop(f) == stack # <<>> /\ Head(stack) = f
InCallback == stack # <<>> /\ Head(stack)[1] \in {"queued", "early"}
UserTurn == stack = <<>> \/ InCallback
Push(f) == stack' = <<f>> \o stack

Init ==
    /\ user \in Users
    /\ mpi = [r \in Requests |-> "none"]
    /\ m_queue = [q \in Queues |-> <<>>]
    /\ m_ready_queue = [q \in Queues |-> <<>>]
    /\ in_progress = [q \in Queues |-> FALSE]
    /\ m_index = [r \in Requests |-> 0]
    /\ made = {} /\ m_self_ptr = {} /\ m_ready = {} /\ m_canceled = {}
    /\ scheduled = [q \in Queues |-> 0]
    /\ m_recursion_depth = 0
    /\ stack = <<>>

----------------------------------------------------------------------------
(* Request states.                                                         *)

\* The constructor of request_state counts the state as scheduled.
MakeState(r) ==
    /\ made' = made \cup {r}
    /\ scheduled' = [scheduled EXCEPT ![QueueOf(r)] = @ + 1]

create_self_ref(r) == m_self_ptr' = m_self_ptr \cup {r}

release_self_ref(r) == m_self_ptr' = m_self_ptr \ {r}

\* invoke_cb after the callback, and set_canceled: the state is ready.
Finish(r) ==
    /\ scheduled' = [scheduled EXCEPT ![QueueOf(r)] = @ - 1]
    /\ m_ready' = m_ready \cup {r}

\* Mutant: the cancelled request stays counted.
MarkUncounted(r) ==
    /\ m_ready' = m_ready \cup {r}
    /\ m_canceled' = m_canceled \cup {r}
    /\ UNCHANGED scheduled

set_canceled(r) == Finish(r) /\ m_canceled' = m_canceled \cup {r}

----------------------------------------------------------------------------
(* send and recv.                                                          *)

\* Mutant: the limit is off by one.
LateRecursionLimit == m_recursion_depth > RecursionDepth + 1

has_reached_recursion_depth == m_recursion_depth > RecursionDepth

\* MPI_Test reports completion at once: the callback runs inside send/recv,
\* which will return an empty request.
PostEarly(r) ==
    /\ UserTurn /\ r \in user.posts /\ mpi[r] = "none"
    /\ ~has_reached_recursion_depth
    /\ mpi' = [mpi EXCEPT ![r] = "null"]
    /\ m_recursion_depth' = m_recursion_depth + 1
    /\ Push(InEarly(r))
    /\ UNCHANGED <<queueVars, stateVars>>

\* Otherwise a request state is made, refers to itself and is enqueued.
PostQueued(r) ==
    LET q == QueueOf(r) IN
    /\ UserTurn /\ r \in user.posts /\ mpi[r] = "none"
    /\ mpi' = [mpi EXCEPT ![r] = "active"]
    /\ MakeState(r) /\ create_self_ref(r)
    /\ m_index' = [m_index EXCEPT ![r] = Len(m_queue[q])]
    /\ m_queue' = [m_queue EXCEPT ![q] = Append(@, r)]
    /\ UNCHANGED <<m_ready_queue, in_progress, m_ready, m_canceled,
                   m_recursion_depth, stack>>

\* A callback returns to send/recv: the recursion guard goes out of scope.
EarlyReturn(r) ==
    /\ OnTop(InEarly(r))
    /\ m_recursion_depth' = m_recursion_depth - 1
    /\ stack' = Tail(stack)
    /\ UNCHANGED <<mpi, queueVars, stateVars>>

----------------------------------------------------------------------------
(* progress.                                                               *)

\* The user calls progress() or test(): the send queue is polled first.
Progress ==
    /\ UserTurn
    /\ Push(Polling("send"))
    /\ UNCHANGED <<mpi, queueVars, stateVars, m_recursion_depth>>

\* What progress() does after queue q: poll the receive queue, or return.
AfterQueue(q) == (IF q = "send" THEN <<Polling("recv")>> ELSE <<>>) \o Tail(stack)

\* What MPI_Testsome reports for queue q.  Null handles are ignored.
Completed(q) == {r \in Range(m_queue[q]) : mpi[r] = "done"}

\* All handles are null: MPI_Testsome sets outcount to MPI_UNDEFINED.
NoActiveHandle(q) == m_queue[q] # <<>> /\ \A r \in Range(m_queue[q]) : mpi[r] = "null"

\* request_queue::progress returns 0: it is already running, the queue is
\* empty or MPI_Testsome reports nothing.
PollNothing(q) ==
    /\ OnTop(Polling(q))
    /\ in_progress[q] \/ (Completed(q) = {} /\ ~NoActiveHandle(q))
    /\ stack' = AfterQueue(q)
    /\ UNCHANGED <<mpi, queueVars, stateVars, m_recursion_depth>>

\* request_queue::progress writes to indices[MPI_UNDEFINED]: the behaviour is
\* undefined and the model stops.
PollUndefined(q) ==
    /\ OnTop(Polling(q))
    /\ ~in_progress[q] /\ NoActiveHandle(q)
    /\ stack' = <<Undefined(q)>> \o Tail(stack)
    /\ UNCHANGED <<mpi, queueVars, stateVars, m_recursion_depth>>

Position(s, x) == CHOOSE i \in DOMAIN s : s[i] = x

\* request_queue::progress moves the completed states to m_ready_queue and
\* closes the gaps they leave, renumbering the states it moves.
PollReady(q) ==
    LET rest == SelectSeq(m_queue[q], LAMBDA r : r \notin Completed(q))
    IN  /\ OnTop(Polling(q))
        /\ ~in_progress[q] /\ Completed(q) # {}
        /\ in_progress' = [in_progress EXCEPT ![q] = TRUE]
        /\ m_ready_queue' = [m_ready_queue EXCEPT ![q] =
              SelectSeq(m_queue[q], LAMBDA r : r \in Completed(q))]
        /\ m_queue' = [m_queue EXCEPT ![q] = rest]
        /\ m_index' = [r \in Requests |->
              IF r \in Range(rest) /\ Position(rest, r) < Position(m_queue[q], r)
              THEN Position(rest, r) - 1 ELSE m_index[r]]
        /\ mpi' = [r \in Requests |-> IF r \in Completed(q) THEN "null" ELSE mpi[r]]
        /\ stack' = <<Looping(q)>> \o Tail(stack)
        /\ UNCHANGED <<stateVars, m_recursion_depth>>

\* The loop over m_ready_queue: release_self_ref, then invoke_cb.
LoopCallback(q) ==
    LET r == Head(m_ready_queue[q]) IN
    /\ OnTop(Looping(q)) /\ m_ready_queue[q] # <<>>
    /\ release_self_ref(r)
    /\ m_ready_queue' = [m_ready_queue EXCEPT ![q] = Tail(@)]
    /\ Push(InQueued(r))
    /\ UNCHANGED <<mpi, m_queue, in_progress, m_index, made, m_ready, m_canceled,
                   scheduled, m_recursion_depth>>

\* invoke_cb after the callback has returned.
QueuedReturn(r) ==
    /\ OnTop(InQueued(r))
    /\ Finish(r)
    /\ stack' = Tail(stack)
    /\ UNCHANGED <<mpi, queueVars, made, m_self_ptr, m_canceled, m_recursion_depth>>

\* Mutant: in_progress stays set.
LoopEndStillInProgress(q) ==
    /\ OnTop(Looping(q)) /\ m_ready_queue[q] = <<>>
    /\ stack' = AfterQueue(q)
    /\ UNCHANGED <<mpi, queueVars, stateVars, m_recursion_depth>>

\* The loop over m_ready_queue ends.
LoopEnd(q) ==
    /\ OnTop(Looping(q)) /\ m_ready_queue[q] = <<>>
    /\ in_progress' = [in_progress EXCEPT ![q] = FALSE]
    /\ stack' = AfterQueue(q)
    /\ UNCHANGED <<mpi, m_queue, m_ready_queue, m_index, stateVars,
                   m_recursion_depth>>

----------------------------------------------------------------------------
(* wait and cancel of the request objects; MPI.                            *)

\* wait(): the loop is entered when the request is not ready.  A callback
\* does not wait for its own request.
Wait(r) ==
    /\ UserTurn /\ (InCallback => user.waits)
    /\ \A i \in DOMAIN stack : stack[i] # InQueued(r)
    /\ r \in made \ m_ready
    /\ Push(Waiting(r))
    /\ UNCHANGED <<mpi, queueVars, stateVars, m_recursion_depth>>

\* while (!is_ready()) progress().
WaitStep(r) ==
    /\ OnTop(Waiting(r))
    /\ stack' = IF r \in m_ready THEN Tail(stack) ELSE <<Polling("send")>> \o stack
    /\ UNCHANGED <<mpi, queueVars, stateVars, m_recursion_depth>>

\* recv_request::cancel reaches request_queue::cancel, which cancels the MPI
\* request of the state at the cached index.  (An index beyond the end of
\* m_queue, or a null handle, is an error outside this model.)
CancelReaches(r) ==
    /\ UserTurn /\ (InCallback => user.cancels)
    /\ r \in (Recvs \cap made) \ m_ready
    /\ m_index[r] < Len(m_queue["recv"])

Victim(r) == m_queue["recv"][m_index[r] + 1]

\* Mutant: the state that is moved keeps its old index.
FillGapStaleIndex(i) ==
    LET queue == m_queue["recv"] IN
    /\ m_queue' = [m_queue EXCEPT !["recv"] = Front([queue EXCEPT ![i + 1] = Last(queue)])]
    /\ UNCHANGED m_index

\* The last state of the queue takes the place of the one at index i.
FillGap(i) ==
    LET queue == m_queue["recv"] IN
    /\ m_queue' = [m_queue EXCEPT !["recv"] = Front([queue EXCEPT ![i + 1] = Last(queue)])]
    /\ m_index' = IF i + 1 < Len(queue) THEN [m_index EXCEPT ![Last(queue)] = i]
                                         ELSE m_index

\* MPI cancels the request.
CancelSucceeds(r) ==
    /\ CancelReaches(r) /\ mpi[Victim(r)] = "active"
    /\ mpi' = [mpi EXCEPT ![Victim(r)] = "null"]
    /\ release_self_ref(r) /\ set_canceled(r)
    /\ FillGap(m_index[r])
    /\ UNCHANGED <<m_ready_queue, in_progress, made, m_recursion_depth, stack>>

\* The receive completes instead: MPI_Wait frees the request and sets the
\* handle to null; cancel returns false and leaves the state in the queue.
CancelFails(r) ==
    /\ user.matched
    /\ CancelReaches(r) /\ mpi[Victim(r)] \in {"active", "done"}
    /\ mpi' = [mpi EXCEPT ![Victim(r)] = "null"]
    /\ UNCHANGED <<queueVars, stateVars, m_recursion_depth, stack>>

\* MPI completes an operation.
MpiComplete(r) ==
    /\ mpi[r] = "active"
    /\ mpi' = [mpi EXCEPT ![r] = "done"]
    /\ UNCHANGED <<queueVars, stateVars, m_recursion_depth, stack>>

----------------------------------------------------------------------------
\* Steps inside the library.
Library ==
    \/ \E q \in Queues : \/ PollNothing(q) \/ PollUndefined(q) \/ PollReady(q)
                         \/ LoopCallback(q) \/ LoopEnd(q)
    \/ \E r \in Requests : WaitStep(r)

CallbackReturn == \E r \in Requests : EarlyReturn(r) \/ QueuedReturn(r)

Cancel(r) == CancelSucceeds(r) \/ CancelFails(r)

User == \E r \in Requests : PostEarly(r) \/ PostQueued(r) \/ Wait(r) \/ Cancel(r)

Next ==
    /\ Library \/ CallbackReturn \/ User \/ Progress \/ \E r \in Requests : MpiComplete(r)
    /\ UNCHANGED user

Safety == Init /\ [][Next]_vars

\* The thread keeps running; callbacks return, also when they call the
\* communicator in between; user code outside callbacks keeps calling
\* progress, as the library requires.  MPI need not complete anything.
Spec ==
    /\ Safety
    /\ WF_vars(Library /\ UNCHANGED user)
    /\ SF_vars(CallbackReturn /\ UNCHANGED user)
    /\ WF_vars(stack = <<>> /\ Progress /\ UNCHANGED user)

----------------------------------------------------------------------------
TypeOK ==
    /\ user \in Users
    /\ mpi \in [Requests -> {"none", "active", "done", "null"}]
    /\ m_queue \in [Queues -> Seq(Requests)]
    /\ m_ready_queue \in [Queues -> Seq(Requests)]
    /\ in_progress \in [Queues -> BOOLEAN]
    /\ m_index \in [Requests -> Nat]
    /\ made \subseteq Requests /\ m_self_ptr \subseteq made
    /\ m_canceled \subseteq m_ready /\ m_ready \subseteq made
    /\ scheduled \in [Queues -> Nat]
    /\ m_recursion_depth \in Nat
    /\ stack \in Seq(Frames)

\* A state owns its self-reference exactly while a queue holds a raw pointer
\* to it (create_self_ref, release_self_ref): no pointer dangles and no state
\* leaks.
SelfReferenceExact ==
    m_self_ptr = UNION {Range(m_queue[q]) \cup Range(m_ready_queue[q]) : q \in Queues}

\* release_self_ref is only called on a state that owns a self-reference: its
\* assertion "doesn't own a self-reference!" holds in the loop of progress.
ReleaseOwned ==
    \A q \in Queues : OnTop(Looping(q)) /\ m_ready_queue[q] # <<>>
                      => Head(m_ready_queue[q]) \in m_self_ptr

\* The position cached in m_index, which cancel trusts, is right after any
\* mixture of compactions by progress and swaps by cancel.
IndexExact ==
    \A q \in Queues : \A i \in DOMAIN m_queue[q] : m_index[m_queue[q][i]] = i - 1

\* The queues stay well formed whatever callbacks post, progress, wait for or
\* cancellations do: types, self-references and cached indices.
QueuesExact == TypeOK /\ SelfReferenceExact /\ IndexExact

\* How far request r is, in the terms of RequestLifecycle.
On(f) == \E i \in DOMAIN stack : stack[i] = f
status == [r \in Requests |->
    CASE On(InEarly(r)) -> "early"
      [] On(InQueued(r)) -> "callback"
      [] r \in m_canceled -> "canceled"
      [] r \in m_ready \ m_canceled -> "ready"
      [] r \in made \ m_ready /\ ~On(InQueued(r)) -> "scheduled"
      [] OTHER -> IF mpi[r] = "none" THEN "none" ELSE "ready"]

Lifecycle == INSTANCE RequestLifecycle
                 WITH counted <- scheduled["send"] + scheduled["recv"]

\* Sends and receives behave as RequestLifecycle says: a callback runs once
\* and not after a successful cancel, a request is ready only after its
\* callback has returned (invoke_cb), and scheduled_sends and
\* scheduled_recvs follow, whatever callbacks do.
ImplementsLifecycle == Lifecycle!Spec

\* Callbacks run inside send/recv nest at most OOMPH_RECURSION_DEPTH + 1
\* deep, even when progress() and callbacks of queued requests lie between.
RecursionBounded ==
    LET early == {i \in DOMAIN stack : stack[i][1] = "early"}
    IN  Cardinality(early) = m_recursion_depth /\ m_recursion_depth <= RecursionDepth + 1

\* "a callback which is invoked once the operation completes" (README.md):
\* an operation MPI has completed becomes ready, when callbacks neither wait
\* nor cancel and no cancel meets a matched receive, whose handle it would
\* consume.
CompletedIsCalled ==
    \A r \in Requests :
        mpi[r] = "done" /\ ~user.waits /\ ~user.cancels /\ ~user.matched ~> r \in m_ready
============================================================================
