----------------------- MODULE LibfabricCommunicator -----------------------
(***************************************************************************)
(* The libfabric backend: the communicators of the threads of a rank       *)
(* (src/libfabric/communicator.hpp), the shared receives of their context  *)
(* (src/libfabric/context.hpp), the polling of the completion queues       *)
(* (src/libfabric/controller.hpp, controller_base.hpp) and the handlers of *)
(* completions (src/libfabric/operation_context.cpp).                      *)
(*                                                                         *)
(* Thread t owns communicator t.  All use one endpoint (the default, and   *)
(* FI_THREAD_SAFE, so no lock), hence one completion queue for sends and   *)
(* one for receives: a thread meets completions of others.  wait() and     *)
(* test() are repeated calls of progress.  Errors reported by libfabric    *)
(* end the process (handle_error_impl) and are left out.                   *)
(***************************************************************************)
EXTENDS Integers, Sequences, SequencesExt, FiniteSets, FiniteSetsExt

CONSTANTS
    Threads, Context, None,
    Injects, Sends, Recvs, SharedRecvs,  \* the operations users may post;
                                         \* injects are sends small enough
    Workloads,          \* the sets of them posted in one behaviour
    PostedBy,           \* PostedBy[r]: the threads that may post r
    RecursionDepth,     \* OOMPH_RECURSION_DEPTH
    MaxCompletions,     \* max_completions_per_poll_
    Cancellable,        \* the receives users may cancel
    MaxNesting,         \* bound on the calls a thread nests
    CancelRaces         \* an operation that fi_cancel has accepted may
                        \* complete as usual

ASSUME LibfabricCommunicatorAssumption ==
    /\ IsFiniteSet(Threads) /\ Threads # {} /\ Context \notin Threads
    /\ None \notin Threads \cup {Context}
    /\ RecursionDepth \in Nat /\ MaxCompletions \in Nat \ {0} /\ MaxNesting \in Nat
    /\ \A w \in Workloads : w \subseteq Injects \cup Sends \cup Recvs \cup SharedRecvs
    /\ Cancellable \subseteq Recvs \cup SharedRecvs
    /\ CancelRaces \in BOOLEAN

Requests == Injects \cup Sends \cup Recvs \cup SharedRecvs
Owners == Threads \cup {Context}
QueueOf(r) == IF r \in Injects \cup Sends THEN "tx" ELSE "rx"

VARIABLES
    active,             \* operations the fabric works on
    cancelling,         \* those fi_cancel was called for
    cq,                 \* cq[q]: completion queue, entries <<outcome, r>>
    m_send_cb_queue, m_recv_cb_queue, m_recv_cb_cancel,
    issuer,             \* issuer[r]: m_comm, the communicator r was posted on,
                        \* or None, or "never" for r outside the workload
    made, m_self_ptr, m_ready, m_canceled,
    scheduled,          \* of the communicators and of the context
    m_recursion_depth,
    stack               \* stack[t]: the calls thread t is in, innermost first

fabricVars == <<active, cancelling, cq>>
queueVars == <<m_send_cb_queue, m_recv_cb_queue, m_recv_cb_cancel>>
stateVars == <<issuer, made, m_self_ptr, m_ready, m_canceled, scheduled>>
vars == <<fabricVars, queueVars, stateVars, m_recursion_depth, stack>>

\* Frames of a stack.  A poll of queue q on behalf of communicator user (or
\* None) belongs to poll_for_work_completions when loop is set; left holds
\* the entries fi_cq_read has returned and that are still to be handled.
Post(r) == [f |-> "post", r |-> r]
Poll(q, user, loop, retry) ==
    [f |-> "poll", q |-> q, user |-> user, loop |-> loop, retry |-> retry]
Entries(p, left) == [f |-> "entries", poll |-> p, left |-> left,
                     full |-> Len(left) = MaxCompletions]
Calling(r) == [f |-> "call", r |-> r]
InCallback(r, guarded) == [f |-> "cb", r |-> r, guarded |-> guarded]
InEarly(r) == [f |-> "early", r |-> r]
Clear(q) == [f |-> "clear", q |-> q]
Cancelling(r) == [f |-> "cancel", r |-> r]

Top(t) == Head(stack[t])
TopIs(t, f) == stack[t] # <<>> /\ Top(t).f = f
On(fr) == \E t \in Threads : \E i \in DOMAIN stack[t] : stack[t][i] = fr
UserTurn(t) ==
    stack[t] # <<>> => Top(t).f \in {"cb", "early"} /\ Len(stack[t]) < MaxNesting
Replace(t, frames) == stack' = [stack EXCEPT ![t] = frames \o Tail(@)]
Push(t, frames) == stack' = [stack EXCEPT ![t] = frames \o @]

Init ==
    /\ active = {} /\ cancelling = {}
    /\ cq = [q \in {"tx", "rx"} |-> <<>>]
    /\ m_send_cb_queue = [t \in Threads |-> <<>>]
    /\ m_recv_cb_queue = [c \in Owners |-> <<>>]
    /\ m_recv_cb_cancel = [c \in Owners |-> {}]
    /\ \E w \in Workloads : issuer = [r \in Requests |-> IF r \in w THEN None ELSE "never"]
    /\ made = {} /\ m_self_ptr = {} /\ m_ready = {} /\ m_canceled = {}
    /\ scheduled = [c \in Owners |-> 0]
    /\ m_recursion_depth = [c \in Owners |-> 0]
    /\ stack = [t \in Threads |-> <<>>]

----------------------------------------------------------------------------
(* Request states.                                                         *)

\* What counts, queues and guards the recursion of request r.
OwnerFor(t, r) == IF r \in SharedRecvs THEN Context ELSE t
Owner(r) == OwnerFor(issuer[r], r)

\* Mutant: the constructor does not count the state.
MakeUncounted(t, r) ==
    /\ made' = made \cup {r} /\ m_self_ptr' = m_self_ptr \cup {r}
    /\ UNCHANGED scheduled

\* The constructor of the request state and create_self_ref.
MakeState(t, r) ==
    /\ made' = made \cup {r} /\ m_self_ptr' = m_self_ptr \cup {r}
    /\ scheduled' = [scheduled EXCEPT ![OwnerFor(t, r)] = @ + 1]

\* Mutant: the self-reference is copied, not moved.
CopySelfRef(r) == UNCHANGED m_self_ptr

release_self_ref(r) == m_self_ptr' = m_self_ptr \ {r}

\* invoke_cb after the callback, and set_canceled.
Finish(r) ==
    /\ scheduled' = [scheduled EXCEPT ![Owner(r)] = @ - 1]
    /\ m_ready' = m_ready \cup {r}

has_reached_recursion_depth(c) == m_recursion_depth[c] > RecursionDepth

Enqueue(r) ==
    IF QueueOf(r) = "tx"
    THEN /\ m_send_cb_queue' = [m_send_cb_queue EXCEPT ![issuer[r]] = Append(@, r)]
         /\ UNCHANGED <<m_recv_cb_queue, m_recv_cb_cancel>>
    ELSE /\ m_recv_cb_queue' = [m_recv_cb_queue EXCEPT ![Owner(r)] = Append(@, r)]
         /\ UNCHANGED <<m_send_cb_queue, m_recv_cb_cancel>>

----------------------------------------------------------------------------
(* send, recv and shared_recv.                                             *)

Begin(t, r) ==
    /\ UserTurn(t) /\ issuer[r] = None /\ t \in PostedBy[r]
    /\ issuer' = [issuer EXCEPT ![r] = t]
    /\ Push(t, <<Post(r)>>)
    /\ UNCHANGED <<fabricVars, queueVars, m_ready, m_canceled, m_recursion_depth>>

\* A send makes a request state before it posts, unless it is small enough
\* to be injected.
send(t, r) ==
    /\ r \in Injects \cup Sends /\ Begin(t, r)
    /\ IF r \in Injects THEN UNCHANGED <<made, m_self_ptr, scheduled>> ELSE MakeState(t, r)

recv(t, r) == r \in Recvs /\ Begin(t, r) /\ MakeState(t, r)

shared_recv(t, r) == r \in SharedRecvs /\ Begin(t, r) /\ MakeState(t, r)

\* execute_fi_function: the fabric has no room (FI_EAGAIN); completions are
\* polled, running callbacks, before the next attempt.
PostAgain(t, r) ==
    /\ stack[t] # <<>> /\ Top(t) = Post(r) /\ Len(stack[t]) < MaxNesting
    /\ Push(t, <<Poll("tx", t, TRUE, FALSE)>>)
    /\ UNCHANGED <<fabricVars, queueVars, stateVars, m_recursion_depth>>

\* The fabric takes the operation over; frames are left of the call.
Accepted(t, r, frames) ==
    /\ stack[t] # <<>> /\ Top(t) = Post(r)
    /\ active' = active \cup {r}
    /\ Replace(t, frames)
    /\ UNCHANGED <<cancelling, cq, queueVars, stateVars, m_recursion_depth>>

\* fi_tsend accepts.
send_tagged_region(t, r) == r \in Sends /\ Accepted(t, r, <<>>)

\* fi_trecv accepts.  shared_recv polls the receive queue once.
recv_tagged_region(t, r) ==
    \/ r \in Recvs /\ Accepted(t, r, <<>>)
    \/ r \in SharedRecvs /\ Accepted(t, r, <<Poll("rx", t, FALSE, FALSE)>>)

\* fi_tinject accepts: no completion will follow.
inject_tagged_region(t, r) == stack[t] # <<>> /\ Top(t) = Post(r) /\ r \in Injects

\* The callback of an injected message runs inside send ...
InjectEarly(t, r) ==
    /\ inject_tagged_region(t, r)
    /\ ~has_reached_recursion_depth(t)
    /\ m_recursion_depth' = [m_recursion_depth EXCEPT ![t] = @ + 1]
    /\ Replace(t, <<InEarly(r)>>)
    /\ UNCHANGED <<fabricVars, queueVars, stateVars>>

EarlyReturn(t, r) ==
    /\ stack[t] # <<>> /\ Top(t) = InEarly(r)
    /\ m_recursion_depth' = [m_recursion_depth EXCEPT ![t] = @ - 1]
    /\ Replace(t, <<>>)
    /\ UNCHANGED <<fabricVars, queueVars, stateVars>>

\* ... or, at the recursion limit, is queued.
InjectQueued(t, r) ==
    /\ inject_tagged_region(t, r)
    /\ has_reached_recursion_depth(t)
    /\ MakeState(t, r) /\ Enqueue(r)
    /\ Replace(t, <<>>)
    /\ UNCHANGED <<fabricVars, issuer, m_ready, m_canceled, m_recursion_depth>>

----------------------------------------------------------------------------
(* Polling the completion queues.                                          *)

\* What follows a poll p: poll_for_work_completions goes from the send to
\* the receive queue and starts again if a poll returned all it asked for.
AfterPoll(p, full) ==
    CASE ~p.loop -> <<>>
      [] p.loop /\ p.q = "tx" -> <<Poll("rx", p.user, TRUE, full)>>
      [] p.loop /\ p.q = "rx" -> IF p.retry \/ full THEN <<Poll("tx", p.user, TRUE, FALSE)>>
                                                    ELSE <<>>

\* The entries fi_cq_read returns: those before an error entry.
Readable(q) ==
    LET n == Max({i \in 0..Len(cq[q]) : \A j \in 1..i : cq[q][j][1] = "ok"})
    IN  SubSeq(cq[q], 1, Min({n, MaxCompletions}))

\* The queue is empty.
PollNothing(t) ==
    /\ TopIs(t, "poll") /\ cq[Top(t).q] = <<>>
    /\ Replace(t, AfterPoll(Top(t), FALSE))
    /\ UNCHANGED <<fabricVars, queueVars, stateVars, m_recursion_depth>>

\* fi_cq_read returns completions, which the caller handles from now on.
Read(t, q) ==
    /\ TopIs(t, "poll") /\ Top(t).q = q
    /\ LET read == Readable(q)
       IN  /\ read # <<>>
           /\ cq' = [cq EXCEPT ![q] = SubSeq(@, Len(read) + 1, Len(@))]
           /\ Replace(t, <<Entries(Top(t), [i \in DOMAIN read |-> read[i][2]])>>)
    /\ UNCHANGED <<active, cancelling, queueVars, stateVars, m_recursion_depth>>

poll_send_queue(t) == Read(t, "tx")

poll_recv_queue(t) == Read(t, "rx")

\* Mutant: the cancelled request is queued on the caller's communicator.
CancelledOnCaller(t, r) == OwnerFor(t, r)

CancelQueueOf(t, r) == Owner(r)

\* The head of the queue is the error FI_ECANCELED: handle_cancelled.
PollCancelled(t) ==
    /\ TopIs(t, "poll") /\ cq[Top(t).q] # <<>> /\ Head(cq[Top(t).q])[1] = "cancelled"
    /\ LET q == Top(t).q
           r == Head(cq[q])[2]
       IN  /\ cq' = [cq EXCEPT ![q] = Tail(@)]
           /\ m_recv_cb_cancel' = [m_recv_cb_cancel EXCEPT ![CancelQueueOf(t, r)] = @ \cup {r}]
    /\ Replace(t, AfterPoll(Top(t), FALSE))
    /\ UNCHANGED <<active, cancelling, m_send_cb_queue, m_recv_cb_queue, stateVars,
                   m_recursion_depth>>

\* Mutant: completions of other communicators are called as well.
AnyoneMayCall(p, r) == TRUE

\* handle_tagged_{send,recv}_completion_impl only call the callback of a
\* request of the communicator that polls, or of a shared receive.
MayCall(p, r) == r \in SharedRecvs \/ p.user = issuer[r]

RestOfEntries(t) == [Top(t) EXCEPT !.left = Tail(@)]

\* The callback may run: the recursion depth, shared by all threads for
\* shared receives, is not reached ...
EntryCalled(t) ==
    /\ TopIs(t, "entries") /\ Top(t).left # <<>>
    /\ LET r == Head(Top(t).left)
       IN  /\ MayCall(Top(t).poll, r) /\ ~has_reached_recursion_depth(Owner(r))
           /\ Replace(t, <<Calling(r), RestOfEntries(t)>>)
    /\ UNCHANGED <<fabricVars, queueVars, stateVars, m_recursion_depth>>

\* ... and is incremented before the callback is invoked.
Call(t) ==
    /\ TopIs(t, "call")
    /\ LET r == Top(t).r
       IN  /\ m_recursion_depth' = [m_recursion_depth EXCEPT ![Owner(r)] = @ + 1]
           /\ release_self_ref(r)
           /\ Replace(t, <<InCallback(r, TRUE)>>)
    /\ UNCHANGED <<fabricVars, queueVars, issuer, made, m_ready, m_canceled, scheduled>>

\* Otherwise the completion is queued.
EntryQueued(t) ==
    /\ TopIs(t, "entries") /\ Top(t).left # <<>>
    /\ LET r == Head(Top(t).left)
       IN  /\ ~MayCall(Top(t).poll, r) \/ has_reached_recursion_depth(Owner(r))
           /\ Enqueue(r)
    /\ Replace(t, <<RestOfEntries(t)>>)
    /\ UNCHANGED <<fabricVars, stateVars, m_recursion_depth>>

EntriesDone(t) ==
    /\ TopIs(t, "entries") /\ Top(t).left = <<>>
    /\ Replace(t, AfterPoll(Top(t).poll, Top(t).full))
    /\ UNCHANGED <<fabricVars, queueVars, stateVars, m_recursion_depth>>

\* The callback returns: the request becomes ready and the recursion guard,
\* if there is one, goes out of scope.
CallbackReturn(t) ==
    /\ TopIs(t, "cb")
    /\ Finish(Top(t).r)
    /\ m_recursion_depth' = IF Top(t).guarded
          THEN [m_recursion_depth EXCEPT ![Owner(Top(t).r)] = @ - 1] ELSE m_recursion_depth
    /\ Replace(t, <<>>)
    /\ UNCHANGED <<fabricVars, queueVars, issuer, made, m_self_ptr, m_canceled>>

----------------------------------------------------------------------------
(* progress.                                                               *)

\* communicator_impl::progress: poll, then clear_callback_queues.
Progress(t) ==
    /\ UserTurn(t)
    /\ Push(t, <<Poll("tx", t, TRUE, FALSE), Clear("send")>>)
    /\ UNCHANGED <<fabricVars, queueVars, stateVars, m_recursion_depth>>

\* context_impl::progress, called by test and wait of shared receives.
ContextProgress(t) ==
    /\ UserTurn(t)
    /\ Push(t, <<Poll("tx", None, TRUE, FALSE)>>)
    /\ UNCHANGED <<fabricVars, queueVars, stateVars, m_recursion_depth>>

CallbackQueue(t, q) ==
    CASE q = "send" -> m_send_cb_queue[t]
      [] q = "recv" -> m_recv_cb_queue[t]
      [] q = "shared" -> m_recv_cb_queue[Context]

\* Mutant: the queue of the receives is forgotten.
SkipRecvQueue(q) == CASE q = "send" -> <<Clear("shared")>> [] OTHER -> <<>>

NextQueue(q) ==
    CASE q = "send" -> <<Clear("recv")>> [] q = "recv" -> <<Clear("shared")>> [] OTHER -> <<>>

\* clear_callback_queues: consume_all on each queue in turn.
Consume(t) ==
    /\ TopIs(t, "clear") /\ CallbackQueue(t, Top(t).q) # <<>>
    /\ LET q == Top(t).q
           r == Head(CallbackQueue(t, q))
       IN  /\ release_self_ref(r)
           /\ Push(t, <<InCallback(r, FALSE)>>)
           /\ IF q = "send"
              THEN /\ m_send_cb_queue' = [m_send_cb_queue EXCEPT ![t] = Tail(@)]
                   /\ UNCHANGED m_recv_cb_queue
              ELSE /\ m_recv_cb_queue' = [m_recv_cb_queue EXCEPT
                                          ![IF q = "recv" THEN t ELSE Context] = Tail(@)]
                   /\ UNCHANGED m_send_cb_queue
    /\ UNCHANGED <<fabricVars, m_recv_cb_cancel, issuer, made, m_ready, m_canceled, scheduled,
                   m_recursion_depth>>

Consumed(t) ==
    /\ TopIs(t, "clear") /\ CallbackQueue(t, Top(t).q) = <<>>
    /\ Replace(t, NextQueue(Top(t).q))
    /\ UNCHANGED <<fabricVars, queueVars, stateVars, m_recursion_depth>>

----------------------------------------------------------------------------
(* cancel_recv of the communicator and of the context; the fabric.         *)

\* fi_cancel accepts an operation the fabric works on.  If cancels race with
\* completions it also accepts one that has completed and is not handled yet, and
\* one that is being cancelled already: cancel_recv has no test of its own.
\* Otherwise it refuses those two and cancel returns false.
Cancel(t, r) ==
    /\ UserTurn(t)
    /\ r \in (Cancellable \cap made) \ m_ready
    /\ r \in Recvs => issuer[r] = t
    /\ r \in cancelling => CancelRaces
    /\ r \in active \/ (CancelRaces /\ r \in m_self_ptr /\ ~On(Post(r)))
    /\ cancelling' = cancelling \cup {r}
    /\ Push(t, <<Poll("rx", IF r \in Recvs THEN t ELSE None, FALSE, FALSE), Cancelling(r)>>)
    /\ UNCHANGED <<active, cq, queueVars, stateVars, m_recursion_depth>>

\* The request is among the cancelled ones: cancel returns true.
CancelFound(t) ==
    /\ TopIs(t, "cancel")
    /\ LET r == Top(t).r
       IN  /\ r \in m_recv_cb_cancel[Owner(r)]
           /\ m_recv_cb_cancel' = [m_recv_cb_cancel EXCEPT ![Owner(r)] = @ \ {r}]
           /\ release_self_ref(r) /\ Finish(r)
           /\ m_canceled' = m_canceled \cup {r}
    /\ Replace(t, <<>>)
    /\ UNCHANGED <<fabricVars, m_send_cb_queue, m_recv_cb_queue, issuer, made, m_recursion_depth>>

\* It is not: the receive queue is polled again.
CancelAgain(t) ==
    /\ TopIs(t, "cancel") /\ Top(t).r \notin m_recv_cb_cancel[Owner(Top(t).r)]
    /\ Push(t, <<Poll("rx", IF Top(t).r \in Recvs THEN t ELSE None, FALSE, FALSE)>>)
    /\ UNCHANGED <<fabricVars, queueVars, stateVars, m_recursion_depth>>

FabricComplete(r) ==
    /\ r \in active /\ (r \in cancelling => CancelRaces)
    /\ active' = active \ {r}
    /\ cq' = [cq EXCEPT ![QueueOf(r)] = Append(@, <<"ok", r>>)]
    /\ UNCHANGED <<cancelling, queueVars, stateVars, m_recursion_depth, stack>>

FabricCancelled(r) ==
    /\ r \in active \cap cancelling
    /\ active' = active \ {r}
    /\ cq' = [cq EXCEPT !["rx"] = Append(@, <<"cancelled", r>>)]
    /\ UNCHANGED <<cancelling, queueVars, stateVars, m_recursion_depth, stack>>

----------------------------------------------------------------------------
\* Steps of thread t inside the library.
Library(t) ==
    \/ PollNothing(t) \/ poll_send_queue(t) \/ poll_recv_queue(t) \/ PollCancelled(t)
    \/ EntryCalled(t) \/ Call(t) \/ EntryQueued(t) \/ EntriesDone(t)
    \/ Consume(t) \/ Consumed(t) \/ CancelFound(t) \/ CancelAgain(t)

Posted(t) ==
    \E r \in Requests : \/ send_tagged_region(t, r) \/ recv_tagged_region(t, r)
                       \/ InjectEarly(t, r) \/ InjectQueued(t, r)

Return(t) == CallbackReturn(t) \/ \E r \in Requests : EarlyReturn(t, r)

User(t) ==
    \/ Progress(t) \/ ContextProgress(t)
    \/ \E r \in Requests : \/ send(t, r) \/ recv(t, r) \/ shared_recv(t, r)
                          \/ PostAgain(t, r) \/ Cancel(t, r)

Fabric == \E r \in Requests : FabricComplete(r) \/ FabricCancelled(r)

Next == Fabric \/ \E t \in Threads : Library(t) \/ Posted(t) \/ Return(t) \/ User(t)

Safety == Init /\ [][Next]_vars

\* Threads keep running, callbacks return, user code outside callbacks keeps
\* calling progress, libfabric accepts an operation that is tried again and
\* again, and a cancel it has accepted takes effect unless the operation
\* completes.  Other operations need not complete.
Spec ==
    /\ Safety
    /\ \A t \in Threads : /\ WF_vars(Library(t))
                          /\ SF_vars(Posted(t))
                          /\ SF_vars(Return(t))
                          /\ SF_vars(stack[t] = <<>> /\ Progress(t))
    /\ \A r \in Requests : WF_vars(FabricCancelled(r))

----------------------------------------------------------------------------
TypeOK ==
    /\ active \subseteq Requests /\ cancelling \subseteq Cancellable
    /\ \A q \in {"tx", "rx"} : Range(cq[q]) \subseteq {"ok", "cancelled"} \X Requests
    /\ m_send_cb_queue \in [Threads -> Seq(Requests)]
    /\ m_recv_cb_queue \in [Owners -> Seq(Requests)]
    /\ m_recv_cb_cancel \in [Owners -> SUBSET Requests]
    /\ issuer \in [Requests -> Threads \cup {None, "never"}]
    /\ made \subseteq Requests /\ m_self_ptr \subseteq made
    /\ m_canceled \subseteq m_ready /\ m_ready \subseteq made
    /\ scheduled \in [Owners -> Nat] /\ m_recursion_depth \in [Owners -> Nat]

\* The raw pointers to the state of r: in the fabric, in a completion queue,
\* among the entries a thread has read, in the queues of the communicators.
Occurrences(s, x) == Cardinality({i \in DOMAIN s : s[i] = x})
HeldByFabric(r) ==
    (IF r \in active THEN 1 ELSE 0)
    + Occurrences(cq[QueueOf(r)], <<"ok", r>>) + Occurrences(cq[QueueOf(r)], <<"cancelled", r>>)
HeldInQueues(r) ==
    (IF \E c \in Owners : r \in m_recv_cb_cancel[c] THEN 1 ELSE 0)
    + MapThenSumSet(LAMBDA t : Occurrences(m_send_cb_queue[t], r), Threads)
    + MapThenSumSet(LAMBDA c : Occurrences(m_recv_cb_queue[c], r), Owners)
HeldByFrame(fr, r) ==
    CASE fr.f = "entries" -> Occurrences(fr.left, r)
      [] fr.f \in {"post", "call"} -> IF fr.r = r THEN 1 ELSE 0
      [] OTHER -> 0
HeldByThreads(r) ==
    MapThenSumSet(LAMBDA t : FoldSeq(LAMBDA fr, n : n + HeldByFrame(fr, r), 0, stack[t]), Threads)

\* A request state owns its self-reference exactly while one raw pointer to
\* it is on its way through fabric, completion queue, entry array and callback
\* queues: it is neither handled twice nor lost, whichever thread finds its
\* completion or its cancellation (create_self_ref, release_self_ref).
HeldOnce ==
    \A r \in made :
        HeldByFabric(r) + HeldInQueues(r) + HeldByThreads(r) = IF r \in m_self_ptr THEN 1 ELSE 0

\* The callback of a receive or send that is not shared runs on the thread of
\* its communicator, although any thread may read its completion: its state
\* and its reference count are not atomic.
OwnerCalls ==
    \A t \in Threads : \A i \in DOMAIN stack[t] :
        stack[t][i].f = "cb" => stack[t][i].r \in SharedRecvs \/ issuer[stack[t][i].r] = t

\* Guarded callbacks of a communicator nest at most OOMPH_RECURSION_DEPTH + 1
\* deep; those of shared receives, whose depth all threads test before they
\* increment it, at most OOMPH_RECURSION_DEPTH plus the number of threads.
RecursionBounded ==
    /\ \A t \in Threads : m_recursion_depth[t] <= RecursionDepth + 1
    /\ m_recursion_depth[Context] <= RecursionDepth + Cardinality(Threads)

\* Request states are held once and callbacks nest within their limits,
\* whichever thread polls; the state is of its type.
StatesExact == TypeOK /\ HeldOnce /\ RecursionBounded

\* How far request r is, in the terms of RequestLifecycle.
status == [r \in Requests |->
    CASE On(InEarly(r)) -> "early"
      [] On(InCallback(r, TRUE)) \/ On(InCallback(r, FALSE)) -> "callback"
      [] r \in m_canceled -> "canceled"
      [] r \in m_ready \ m_canceled -> "ready"
      [] r \in made \ m_ready /\ ~On(InCallback(r, TRUE)) /\ ~On(InCallback(r, FALSE)) -> "scheduled"
      [] OTHER -> IF issuer[r] \in {None, "never"} \/ On(Post(r)) THEN "none" ELSE "ready"]

Lifecycle == INSTANCE RequestLifecycle
                 WITH counted <- MapThenSumSet(LAMBDA c : scheduled[c], Owners)

\* Sends and receives of this backend behave as RequestLifecycle says.
ImplementsLifecycle == Lifecycle!Spec

\* "a callback which is invoked once the operation completes" (README.md): an
\* operation whose completion the fabric has queued becomes ready.
CompletedIsCalled ==
    \A r \in Requests \ Injects : <<"ok", r>> \in Range(cq[QueueOf(r)]) ~> r \in m_ready

\* "We can only be certain if we poll until the completion happens"
\* (communicator.hpp): cancel_recv polls until it knows whether the receive
\* was cancelled or has completed as usual, and then returns.
CancelReturns == \A r \in Cancellable : On(Cancelling(r)) ~> ~On(Cancelling(r))
============================================================================
