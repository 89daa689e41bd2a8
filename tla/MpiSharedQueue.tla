-------------------------- MODULE MpiSharedQueue --------------------------
(***************************************************************************)
(* shared_recv of the MPI backend: the shared_request_queue of the context *)
(* (src/mpi/request_queue.hpp), filled by communicator_impl::shared_recv   *)
(* (src/mpi/communicator.hpp) and polled and cancelled by all threads      *)
(* (src/mpi/context.hpp).  m_queue is a lock-free FIFO: an action is one   *)
(* push or pop.  A popped request is in nobody's sight but the thread's    *)
(* until it is pushed back.  m_size is written by the code and never read; *)
(* it is left out.                                                         *)
(***************************************************************************)
EXTENDS Integers, Sequences, Functions, FiniteSets

CONSTANTS Threads, Requests, None,
          RecursionDepth,     \* OOMPH_RECURSION_DEPTH
          MaxCancels          \* bound on the cancel calls the users make

ASSUME MpiSharedQueueAssumption ==
    /\ IsFiniteSet(Threads) /\ IsFiniteSet(Requests) /\ None \notin Requests
    /\ RecursionDepth \in Nat /\ MaxCancels \in Nat

VARIABLES
    mpi,                \* MPI: "none", "active", "done" (completed, not yet
                        \* reported) or "null" (reported or cancelled)
    m_queue,            \* the shared queue
    m_local_queue,      \* m_local_queue[t]: popped, to be pushed back
    in_progress,        \* in_progress[t]
    made,               \* requests that have a shared_request_state
    m_self_ptr,         \* requests whose state owns its self-reference
    m_ready, m_canceled,
    scheduled,          \* m_shared_scheduled_recvs
    m_recursion_depth,  \* of the context, shared by the threads
    cancels,            \* cancel calls made so far
    stack               \* stack[t]: the calls thread t is in, innermost first

vars == <<mpi, m_queue, m_local_queue, in_progress, made, m_self_ptr, m_ready,
          m_canceled, scheduled, m_recursion_depth, cancels, stack>>

queueVars == <<m_queue, m_local_queue, in_progress>>
stateVars == <<made, m_self_ptr, m_ready, m_canceled, scheduled>>

\* Frames of a stack: progress() popping, pushing back before it runs the
\* callback of e; shared_recv with a completed operation, before and inside
\* the callback; the callback of a queued request; cancel(r) popping, pushing
\* back before it returns c.
Popping == <<"pop">>
PushingBack(e) == <<"push", e>>
Tested(r) == <<"tested", r>>
InEarly(r) == <<"early", r>>
InQueued(r) == <<"queued", r>>
Consuming(r, c) == <<"consume", r, c>>
Restoring(r, c) == <<"restore", r, c>>
Frames == {Popping} \cup {PushingBack(e) : e \in Requests \cup {None}}
    \cup {<<f, r>> : f \in {"tested", "early", "queued"}, r \in Requests}
    \cup {<<f, r, c>> : f \in {"consume", "restore"}, r \in Requests, c \in BOOLEAN}

OnTop(t, f) == stack[t] # <<>> /\ Head(stack[t]) = f
UserTurn(t) == stack[t] # <<>> => Head(stack[t])[1] \in {"early", "queued"}
Push(t, f) == stack' = [stack EXCEPT ![t] = <<f>> \o @]
Replace(t, f) == stack' = [stack EXCEPT ![t] = <<f>> \o Tail(@)]
Return(t) == stack' = [stack EXCEPT ![t] = Tail(@)]

Init ==
    /\ mpi = [r \in Requests |-> "none"]
    /\ m_queue = <<>>
    /\ m_local_queue = [t \in Threads |-> <<>>]
    /\ in_progress = [t \in Threads |-> FALSE]
    /\ made = {} /\ m_self_ptr = {} /\ m_ready = {} /\ m_canceled = {}
    /\ scheduled = 0
    /\ m_recursion_depth = 0 /\ cancels = 0
    /\ stack = [t \in Threads |-> <<>>]

\* Mutant: the self-reference is copied, not moved.
CopySelfRef(r) == UNCHANGED m_self_ptr

release_self_ref(r) == m_self_ptr' = m_self_ptr \ {r}

\* Mutant: the request is not counted as finished.
FinishUncounted(r) == m_ready' = m_ready \cup {r} /\ UNCHANGED scheduled

\* invoke_cb after the callback, and set_canceled.
Finish(r) ==
    /\ scheduled' = scheduled - 1
    /\ m_ready' = m_ready \cup {r}

----------------------------------------------------------------------------
(* shared_recv.                                                            *)

\* Mutant: the limit is off by one.
LateRecursionLimit == m_recursion_depth > RecursionDepth + 1

has_reached_recursion_depth == m_recursion_depth > RecursionDepth

\* The depth is not reached and MPI_Test reports completion ...
PostEarly(t, r) ==
    /\ UserTurn(t) /\ mpi[r] = "none"
    /\ ~has_reached_recursion_depth
    /\ mpi' = [mpi EXCEPT ![r] = "null"]
    /\ Push(t, Tested(r))
    /\ UNCHANGED <<queueVars, stateVars, m_recursion_depth, cancels>>

\* ... so the depth is incremented and the callback runs.
RunEarly(t, r) ==
    /\ OnTop(t, Tested(r))
    /\ m_recursion_depth' = m_recursion_depth + 1
    /\ Replace(t, InEarly(r))
    /\ UNCHANGED <<mpi, queueVars, stateVars, cancels>>

EarlyReturn(t, r) ==
    /\ OnTop(t, InEarly(r))
    /\ m_recursion_depth' = m_recursion_depth - 1
    /\ Return(t)
    /\ UNCHANGED <<mpi, queueVars, stateVars, cancels>>

\* Otherwise a state is made, refers to itself and is enqueued.
PostQueued(t, r) ==
    /\ UserTurn(t) /\ mpi[r] = "none"
    /\ mpi' = [mpi EXCEPT ![r] = "active"]
    /\ made' = made \cup {r}
    /\ scheduled' = scheduled + 1
    /\ m_self_ptr' = m_self_ptr \cup {r}
    /\ m_queue' = Append(m_queue, r)
    /\ UNCHANGED <<m_local_queue, in_progress, m_ready, m_canceled,
                   m_recursion_depth, cancels, stack>>

----------------------------------------------------------------------------
(* progress.  A call while the thread is already in progress returns 0.    *)

Progress(t) ==
    /\ UserTurn(t) /\ ~in_progress[t]
    /\ in_progress' = [in_progress EXCEPT ![t] = TRUE]
    /\ Push(t, Popping)
    /\ UNCHANGED <<mpi, m_queue, m_local_queue, stateVars, m_recursion_depth, cancels>>

\* A popped request is not complete.
PopPending(t) ==
    /\ OnTop(t, Popping) /\ m_queue # <<>> /\ mpi[Head(m_queue)] = "active"
    /\ m_queue' = Tail(m_queue)
    /\ m_local_queue' = [m_local_queue EXCEPT ![t] = Append(@, Head(m_queue))]
    /\ UNCHANGED <<mpi, in_progress, stateVars, m_recursion_depth, cancels, stack>>

\* A popped request is complete.  MPI_Test is true for a null handle.
PopReady(t) ==
    /\ OnTop(t, Popping) /\ m_queue # <<>> /\ mpi[Head(m_queue)] \in {"done", "null"}
    /\ mpi' = [mpi EXCEPT ![Head(m_queue)] = "null"]
    /\ m_queue' = Tail(m_queue)
    /\ Replace(t, PushingBack(Head(m_queue)))
    /\ UNCHANGED <<m_local_queue, in_progress, stateVars, m_recursion_depth, cancels>>

PopNothing(t) ==
    /\ OnTop(t, Popping) /\ m_queue = <<>>
    /\ Replace(t, PushingBack(None))
    /\ UNCHANGED <<mpi, queueVars, stateVars, m_recursion_depth, cancels>>

\* The loop that pushes the local queue back, in progress and in cancel.
PushBack(t) ==
    /\ stack[t] # <<>> /\ Head(stack[t])[1] \in {"push", "restore"}
    /\ m_local_queue[t] # <<>>
    /\ m_queue' = Append(m_queue, Head(m_local_queue[t]))
    /\ m_local_queue' = [m_local_queue EXCEPT ![t] = Tail(@)]
    /\ UNCHANGED <<mpi, in_progress, stateVars, m_recursion_depth, cancels, stack>>

\* The completed request's callback is invoked.
InvokeCallback(t, r) ==
    /\ OnTop(t, PushingBack(r)) /\ m_local_queue[t] = <<>>
    /\ release_self_ref(r)
    /\ Replace(t, InQueued(r))
    /\ UNCHANGED <<mpi, queueVars, made, m_ready, m_canceled, scheduled, m_recursion_depth, cancels>>

QueuedReturn(t, r) ==
    /\ OnTop(t, InQueued(r))
    /\ Finish(r)
    /\ in_progress' = [in_progress EXCEPT ![t] = FALSE]
    /\ Return(t)
    /\ UNCHANGED <<mpi, m_queue, m_local_queue, made, m_self_ptr, m_canceled, m_recursion_depth, cancels>>

\* Mutant: in_progress stays set when nothing was found.
ReturnStillInProgress(t) ==
    /\ OnTop(t, PushingBack(None)) /\ m_local_queue[t] = <<>>
    /\ Return(t)
    /\ UNCHANGED <<mpi, queueVars, stateVars, m_recursion_depth, cancels>>

ProgressReturn(t) ==
    /\ OnTop(t, PushingBack(None)) /\ m_local_queue[t] = <<>>
    /\ in_progress' = [in_progress EXCEPT ![t] = FALSE]
    /\ Return(t)
    /\ UNCHANGED <<mpi, m_queue, m_local_queue, stateVars, m_recursion_depth, cancels>>

----------------------------------------------------------------------------
(* cancel.  It is not called again for a request whose cancellation failed *)
(* or is being tried: MPI_Cancel of a null handle is an MPI error.         *)

Cancelling(r) ==
    \E t \in Threads, c \in BOOLEAN : OnTop(t, Consuming(r, c)) \/ OnTop(t, Restoring(r, c))

Cancel(t, r) ==
    /\ UserTurn(t)
    /\ r \in made \ m_ready /\ mpi[r] # "null" /\ ~Cancelling(r)
    /\ cancels < MaxCancels /\ cancels' = cancels + 1
    /\ Push(t, Consuming(r, FALSE))
    /\ UNCHANGED <<mpi, queueVars, stateVars, m_recursion_depth>>

\* consume_all: another request is kept for pushing back.
ConsumeOther(t, r, c) ==
    /\ OnTop(t, Consuming(r, c)) /\ m_queue # <<>> /\ Head(m_queue) # r
    /\ m_queue' = Tail(m_queue)
    /\ m_local_queue' = [m_local_queue EXCEPT ![t] = Append(@, Head(m_queue))]
    /\ UNCHANGED <<mpi, in_progress, stateVars, m_recursion_depth, cancels, stack>>

\* consume_all: the request is found and MPI cancels it ...
ConsumeCancel(t, r) ==
    /\ OnTop(t, Consuming(r, FALSE)) /\ m_queue # <<>> /\ Head(m_queue) = r
    /\ mpi[r] = "active"
    /\ mpi' = [mpi EXCEPT ![r] = "null"]
    /\ m_queue' = Tail(m_queue)
    /\ release_self_ref(r) /\ Finish(r)
    /\ m_canceled' = m_canceled \cup {r}
    /\ Replace(t, Consuming(r, TRUE))
    /\ UNCHANGED <<m_local_queue, in_progress, made, m_recursion_depth, cancels>>

\* ... or it has completed, and MPI_Wait makes its handle null.
ConsumeFail(t, r) ==
    /\ OnTop(t, Consuming(r, FALSE)) /\ m_queue # <<>> /\ Head(m_queue) = r
    /\ mpi[r] \in {"active", "done"}
    /\ mpi' = [mpi EXCEPT ![r] = "null"]
    /\ m_queue' = Tail(m_queue)
    /\ m_local_queue' = [m_local_queue EXCEPT ![t] = Append(@, r)]
    /\ UNCHANGED <<in_progress, stateVars, m_recursion_depth, cancels, stack>>

ConsumeEnd(t, r, c) ==
    /\ OnTop(t, Consuming(r, c)) /\ m_queue = <<>>
    /\ Replace(t, Restoring(r, c))
    /\ UNCHANGED <<mpi, queueVars, stateVars, m_recursion_depth, cancels>>

CancelReturn(t, r, c) ==
    /\ OnTop(t, Restoring(r, c)) /\ m_local_queue[t] = <<>>
    /\ Return(t)
    /\ UNCHANGED <<mpi, queueVars, stateVars, m_recursion_depth, cancels>>

\* MPI completes an operation.
MpiComplete(r) ==
    /\ mpi[r] = "active"
    /\ mpi' = [mpi EXCEPT ![r] = "done"]
    /\ UNCHANGED <<queueVars, stateVars, m_recursion_depth, cancels, stack>>

----------------------------------------------------------------------------
\* Steps inside the library.
Library(t) ==
    \/ PopPending(t) \/ PopReady(t) \/ PopNothing(t) \/ PushBack(t) \/ ProgressReturn(t)
    \/ \E r \in Requests :
          \/ RunEarly(t, r) \/ InvokeCallback(t, r)
          \/ ConsumeCancel(t, r) \/ ConsumeFail(t, r)
          \/ \E c \in BOOLEAN :
                ConsumeOther(t, r, c) \/ ConsumeEnd(t, r, c) \/ CancelReturn(t, r, c)

CallbackReturn(t) == \E r \in Requests : EarlyReturn(t, r) \/ QueuedReturn(t, r)

User(t) == \E r \in Requests : PostEarly(t, r) \/ PostQueued(t, r) \/ Cancel(t, r)

Next ==
    \/ \E t \in Threads : Library(t) \/ CallbackReturn(t) \/ User(t) \/ Progress(t)
    \/ \E r \in Requests : MpiComplete(r)

Safety == Init /\ [][Next]_vars

\* Every thread keeps running, its callbacks return and its code outside
\* callbacks keeps calling progress.  MPI need not complete anything.
Spec ==
    /\ Safety
    /\ \A t \in Threads :
          /\ WF_vars(Library(t))
          /\ SF_vars(CallbackReturn(t))
          /\ WF_vars(stack[t] = <<>> /\ Progress(t))

----------------------------------------------------------------------------
TypeOK ==
    /\ mpi \in [Requests -> {"none", "active", "done", "null"}]
    /\ m_queue \in Seq(Requests)
    /\ m_local_queue \in [Threads -> Seq(Requests)]
    /\ in_progress \in [Threads -> BOOLEAN]
    /\ m_canceled \subseteq m_ready /\ m_ready \subseteq made
    /\ made \subseteq Requests /\ m_self_ptr \subseteq made
    /\ scheduled \in Nat /\ m_recursion_depth \in Nat
    /\ cancels \in 0..MaxCancels
    /\ stack \in [Threads -> Seq(Frames)]

\* The requests thread t has popped and not yet pushed back or finished.
Popped(t) == Range(m_local_queue[t]) \cup {r \in Requests : OnTop(t, PushingBack(r))}

\* A request state is in the shared queue or in the hands of one thread, once,
\* and owns its self-reference exactly then: concurrent progress and cancel
\* calls never lose a request, never duplicate one, and never let two threads
\* complete it.  The state is of its type.
OnePlace ==
    /\ TypeOK
    /\ IsInjective(m_queue)
    /\ \A t \in Threads :
          /\ IsInjective(m_local_queue[t])
          /\ \A r \in Range(m_local_queue[t]) : ~OnTop(t, PushingBack(r))
          /\ Popped(t) \cap Range(m_queue) = {}
          /\ \A u \in Threads \ {t} : Popped(t) \cap Popped(u) = {}
    /\ m_self_ptr = Range(m_queue) \cup UNION {Popped(t) : t \in Threads}

\* How far request r is, in the terms of RequestLifecycle.
On(f) == \E t \in Threads : \E i \in DOMAIN stack[t] : stack[t][i] = f
status == [r \in Requests |->
    CASE On(InEarly(r)) -> "early"
      [] On(InQueued(r)) -> "callback"
      [] r \in m_canceled -> "canceled"
      [] r \in m_ready \ m_canceled -> "ready"
      [] r \in made \ m_ready /\ ~On(InQueued(r)) -> "scheduled"
      [] OTHER -> IF mpi[r] = "none" \/ On(Tested(r)) THEN "none" ELSE "ready"]

Lifecycle == INSTANCE RequestLifecycle WITH counted <- scheduled

\* Shared receives behave as RequestLifecycle says although any thread may
\* complete or cancel them: one callback, none after a successful cancel,
\* and m_shared_scheduled_recvs follows.
ImplementsLifecycle == Lifecycle!Spec

\* The check of the recursion depth and its increment are two steps, so
\* threads that pass the check together exceed the limit, but by no more than
\* their number (context_base::has_reached_recursion_depth, recursion).
RecursionBounded == m_recursion_depth <= RecursionDepth + Cardinality(Threads)

\* An operation MPI has completed becomes ready, although threads keep popping
\* its state and a cancellation of it may have failed.
CompletedIsCalled == \A r \in Requests : mpi[r] = "done" ~> r \in m_ready
===========================================================================
