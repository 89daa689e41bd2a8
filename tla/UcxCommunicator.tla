-------------------------- MODULE UcxCommunicator --------------------------
(***************************************************************************)
(* The UCX backend: the communicators of the threads of a rank             *)
(* (src/ucx/communicator.hpp), their context (src/ucx/context.hpp), and    *)
(* the UCX requests they pass around (src/ucx/request_data.hpp).  Every    *)
(* communicator has a send worker of its own; all share the receive worker *)
(* of the context, which is used under m_mutex in thread-safe mode.        *)
(*                                                                         *)
(* UCX matches operations at any time and completes them, calling          *)
(* send_callback or recv_callback, when a thread progresses the worker.    *)
(* It recycles the memory of freed requests.  A locked region that makes   *)
(* one UCX call is one action; cancel_recv, which makes several, holds the *)
(* mutex across actions.  Error returns of UCX, and the memory of the UCX  *)
(* requests of sends, are left out.                                        *)
(***************************************************************************)
EXTENDS Integers, Sequences, Functions, FiniteSets, FiniteSetsExt

CONSTANTS
    Threads, Context, None,
    Sends, Recvs, SharedRecvs,  \* the operations the users may post
    Handles,                    \* UCX request memory
    RecursionDepth,             \* OOMPH_RECURSION_DEPTH
    Users                       \* how the context may be used: a set of
                                \* records of the fields
                                \*   thread_safe  m_thread_safe
                                \*   threads      the threads that run
                                \*   posts        the operations each of
                                \*                them posts
                                \*   cancels      bound on their cancel calls
                                \*   nesting      bound on the calls one nests
                                \*   completed    cancel may meet a completed
                                \*                receive before its callback:
                                \*                no lock of the program keeps
                                \*                progress away from its cancels

ASSUME UcxCommunicatorAssumption ==
    /\ IsFiniteSet(Threads) /\ Threads # {} /\ Context \notin Threads
    /\ None \notin Threads \cup Handles \cup Recvs \cup SharedRecvs
    /\ Sends \cap (Recvs \cup SharedRecvs) = {} /\ Recvs \cap SharedRecvs = {}
    /\ RecursionDepth \in Nat
    /\ \A u \in Users :
          /\ {u.thread_safe, u.completed} \subseteq BOOLEAN
          /\ u.threads \subseteq Threads
          /\ u.thread_safe \/ Cardinality(u.threads) = 1
          /\ u.posts \in [u.threads -> SUBSET (Sends \cup Recvs \cup SharedRecvs)]
          /\ {u.cancels, u.nesting} \subseteq Nat

AllRecvs == Recvs \cup SharedRecvs
Requests == Sends \cup AllRecvs
Owners == Threads \cup {Context}

VARIABLES
    user,           \* the use of this behaviour, a member of Users
    ucx,            \* UCX: "none", "active", "done" (matched, to be completed
                    \* by a worker progress), "null" (completed or cancelled)
    m_ucx_ptr,      \* m_ucx_ptr[r]: the UCX request of r
    m_req,          \* m_req[h]: the request in the request_data of h
    live,           \* UCX requests that are allocated
    m_mutex,        \* the thread that holds the mutex, or None
    m_send_req_queue, m_recv_req_queue, m_cancel_recv_req_queue,
    found,          \* found[t]: thread_local flag of context_impl::cancel_recv
    issuer,         \* issuer[r]: m_comm, the communicator r was posted on
    made, m_self_ptr, m_ready, m_canceled,
    scheduled,      \* of a communicator (sends and receives) and the context
    m_recursion_depth,
    cancels,        \* cancel calls made so far
    stack           \* stack[t]: the calls thread t is in, innermost first

ucxVars == <<ucx, m_ucx_ptr, m_req, live>>
queueVars == <<m_send_req_queue, m_recv_req_queue, m_cancel_recv_req_queue>>
stateVars == <<issuer, made, m_self_ptr, m_ready, m_canceled, scheduled>>
vars == <<user, ucxVars, m_mutex, queueVars, found, stateVars, m_recursion_depth, cancels, stack>>

\* Frames of a stack: progress() in its loops over the send and the receive
\* worker and in the three queues of ready callbacks; context progress()
\* with the mutex; send/recv with a completed operation, before and after
\* the test of the recursion depth; the callbacks; cancel, before and with the
\* mutex.
Frame(f) == <<f, None>>
Drain(q) == <<"drain", q>>
InEarly(r) == <<"early", r>>
InQueued(r) == <<"queued", r>>
Asked(r) == <<"asked", r>>
Cancelling(r) == <<"cancel", r>>
Freeing(r) == <<"free", r>>

OnTop(t, f) == stack[t] # <<>> /\ Head(stack[t]) = f
On(f) == \E t \in Threads : \E i \in DOMAIN stack[t] : stack[t][i] = f
InCallback(t) == stack[t] # <<>> /\ Head(stack[t])[1] \in {"early", "queued"}
UserTurn(t) == stack[t] = <<>> \/ (InCallback(t) /\ Len(stack[t]) < user.nesting)
Push(t, f) == stack' = [stack EXCEPT ![t] = <<f>> \o @]
Replace(t, f) == stack' = [stack EXCEPT ![t] = <<f>> \o Tail(@)]
Return(t) == stack' = [stack EXCEPT ![t] = Tail(@)]

Init ==
    /\ user \in Users
    /\ ucx = [r \in Requests |-> "none"]
    /\ m_ucx_ptr = [r \in AllRecvs |-> None]
    /\ m_req = [h \in Handles |-> None]
    /\ live = {} /\ m_mutex = None
    /\ m_send_req_queue = [c \in Threads |-> <<>>]
    /\ m_recv_req_queue = [c \in Owners |-> <<>>]
    /\ m_cancel_recv_req_queue = [c \in Owners |-> <<>>]
    /\ found = [t \in Threads |-> FALSE]
    /\ issuer = [r \in Requests |-> None]
    /\ made = {} /\ m_self_ptr = {} /\ m_ready = {} /\ m_canceled = {}
    /\ scheduled = [c \in Owners |-> 0]
    /\ m_recursion_depth = [c \in Owners |-> 0]
    /\ cancels = 0
    /\ stack = [t \in Threads |-> <<>>]

\* What counts and queues request r: the context for a shared receive.
Owner(r) == IF r \in SharedRecvs THEN Context ELSE issuer[r]

\* m_mutex can be taken; it is not used in single-threaded mode.
Unlocked == user.thread_safe => m_mutex = None

\* The constructor of the request state and create_self_ref.
MakeState(t, r) ==
    /\ made' = made \cup {r}
    /\ m_self_ptr' = m_self_ptr \cup {r}
    /\ LET c == IF r \in SharedRecvs THEN Context ELSE t
       IN  scheduled' = [scheduled EXCEPT ![c] = @ + 1]
    /\ UNCHANGED <<m_ready, m_canceled>>

release_self_ref(r) == m_self_ptr' = m_self_ptr \ {r}

\* Mutant: the request data is not destroyed before the request is freed.
FreeUndestroyed(h) == live' = live \ {h} /\ UNCHANGED m_req

\* The request data is destroyed and the UCX request freed.
Free(h) ==
    /\ m_req' = [m_req EXCEPT ![h] = None]
    /\ live' = live \ {h}

\* invoke_cb after the callback, and set_canceled.
Finish(r) ==
    /\ scheduled' = [scheduled EXCEPT ![Owner(r)] = @ - 1]
    /\ m_ready' = m_ready \cup {r}

----------------------------------------------------------------------------
(* send, recv and shared_recv.                                             *)

\* UCX completes the operation at once and its request is freed; recv_callback
\* has returned because the request data is empty.
PostCompleted(t, r) ==
    /\ UserTurn(t) /\ r \in user.posts[t] /\ ucx[r] = "none"
    /\ r \in AllRecvs => Unlocked
    /\ ucx' = [ucx EXCEPT ![r] = "null"]
    /\ IF r \in Sends THEN UNCHANGED m_ucx_ptr
       ELSE \E h \in Handles \ live : m_ucx_ptr' = [m_ucx_ptr EXCEPT ![r] = h]
    /\ issuer' = [issuer EXCEPT ![r] = t]
    /\ Push(t, <<"completed", r>>)
    /\ UNCHANGED <<m_req, live, m_mutex, queueVars, found, made, m_self_ptr, m_ready,
                   m_canceled, scheduled, m_recursion_depth, cancels>>

has_reached_recursion_depth(c) == m_recursion_depth[c] > RecursionDepth

\* The recursion depth is not reached ...
EarlyTest(t, r) ==
    /\ OnTop(t, <<"completed", r>>) /\ ~has_reached_recursion_depth(Owner(r))
    /\ Replace(t, <<"tested", r>>)
    /\ UNCHANGED <<ucxVars, m_mutex, queueVars, found, stateVars, m_recursion_depth, cancels>>

\* ... so it is incremented and the callback runs.
EarlyRun(t, r) ==
    /\ OnTop(t, <<"tested", r>>)
    /\ m_recursion_depth' = [m_recursion_depth EXCEPT ![Owner(r)] = @ + 1]
    /\ Replace(t, InEarly(r))
    /\ UNCHANGED <<ucxVars, m_mutex, queueVars, found, stateVars, cancels>>

EarlyReturn(t, r) ==
    /\ OnTop(t, InEarly(r))
    /\ m_recursion_depth' = [m_recursion_depth EXCEPT ![Owner(r)] = @ - 1]
    /\ Return(t)
    /\ UNCHANGED <<ucxVars, m_mutex, queueVars, found, stateVars, cancels>>

\* The recursion depth is reached: the callback is queued.
EarlyQueue(t, r) ==
    /\ OnTop(t, <<"completed", r>>) /\ has_reached_recursion_depth(Owner(r))
    /\ MakeState(t, r)
    /\ IF r \in Sends
       THEN /\ m_send_req_queue' = [m_send_req_queue EXCEPT ![t] = Append(@, r)]
            /\ UNCHANGED m_recv_req_queue
       ELSE /\ m_recv_req_queue' = [m_recv_req_queue EXCEPT ![Owner(r)] = Append(@, r)]
            /\ UNCHANGED m_send_req_queue
    /\ Return(t)
    /\ UNCHANGED <<ucxVars, m_mutex, m_cancel_recv_req_queue, found, issuer,
                   m_recursion_depth, cancels>>

\* UCX schedules the operation: a request state is made and attached to the
\* UCX request.
PostScheduled(t, r) ==
    /\ UserTurn(t) /\ r \in user.posts[t] /\ ucx[r] = "none"
    /\ r \in AllRecvs => Unlocked
    /\ ucx' = [ucx EXCEPT ![r] = "active"]
    /\ issuer' = [issuer EXCEPT ![r] = t]
    /\ MakeState(t, r)
    /\ IF r \in Sends THEN UNCHANGED <<m_ucx_ptr, m_req, live>>
       ELSE \E h \in Handles \ live :
                /\ m_ucx_ptr' = [m_ucx_ptr EXCEPT ![r] = h]
                /\ m_req' = [m_req EXCEPT ![h] = r]
                /\ live' = live \cup {h}
    /\ UNCHANGED <<m_mutex, queueVars, found, m_recursion_depth, cancels, stack>>

----------------------------------------------------------------------------
(* The UCX callbacks.                                                      *)

\* send_callback.
send_callback(t, r) ==
    /\ ucx' = [ucx EXCEPT ![r] = "null"]
    /\ release_self_ref(r)
    /\ Push(t, InQueued(r))
    /\ UNCHANGED <<m_ucx_ptr, m_req, live>>

\* recv_callback calls the user's callback itself only in single-threaded
\* mode; otherwise, and for shared receives, it queues the request.
CallDirectly(r) == r \notin SharedRecvs /\ ~user.thread_safe

\* Mutant: the callback is queued on the communicator that makes progress.
QueueOnCaller(t, r) == IF r \in SharedRecvs THEN Context ELSE t

\* Where recv_callback queues the request.
EnqueueOn(t, r) == Owner(r)

\* recv_callback with UCS_OK: the UCX request is freed.  frames is the stack
\* of the thread when the worker continues.
recv_callback(t, r, frames) ==
    /\ ucx' = [ucx EXCEPT ![r] = "null"]
    /\ Free(m_ucx_ptr[r])
    /\ IF CallDirectly(r)
       THEN /\ release_self_ref(r)
            /\ stack' = [stack EXCEPT ![t] = <<InQueued(r)>> \o frames]
            /\ UNCHANGED m_recv_req_queue
       ELSE /\ m_recv_req_queue' = [m_recv_req_queue EXCEPT ![EnqueueOn(t, r)] = Append(@, r)]
            /\ stack' = [stack EXCEPT ![t] = frames]
            /\ UNCHANGED m_self_ptr
    /\ UNCHANGED <<m_ucx_ptr, m_send_req_queue, m_cancel_recv_req_queue, found, issuer,
                   made, m_ready, m_canceled, scheduled, m_recursion_depth, cancels>>

\* The receives that the worker completes when it is progressed.
Completable == {r \in AllRecvs : ucx[r] = "done" /\ (user.completed \/ ~On(Asked(r)))}

----------------------------------------------------------------------------
(* progress of a communicator.                                             *)

\* The send worker, which only this thread uses, is passed at once when it has
\* nothing to do.
Progress(t) ==
    /\ UserTurn(t)
    /\ Push(t, IF \E r \in Sends : issuer[r] = t /\ ucx[r] = "done"
               THEN Frame("send") ELSE Frame("recv"))
    /\ UNCHANGED <<ucxVars, m_mutex, queueVars, found, stateVars, m_recursion_depth, cancels>>

\* The send worker completes a send and is progressed again.
SendWorker(t, r) ==
    /\ OnTop(t, Frame("send")) /\ r \in Sends /\ issuer[r] = t /\ ucx[r] = "done"
    /\ send_callback(t, r)
    /\ UNCHANGED <<m_mutex, queueVars, found, issuer, made, m_ready, m_canceled, scheduled,
                   m_recursion_depth, cancels>>

SendWorkerIdle(t) ==
    /\ OnTop(t, Frame("send"))
    /\ \A r \in Sends : issuer[r] = t => ucx[r] # "done"
    /\ Replace(t, Frame("recv"))
    /\ UNCHANGED <<ucxVars, m_mutex, queueVars, found, stateVars, m_recursion_depth, cancels>>

\* The receive worker completes a receive.  In thread-safe mode the loop ends
\* after ten attempts to progress it.
RecvWorker(t, r) ==
    /\ OnTop(t, Frame("recv")) /\ r \in Completable /\ Unlocked
    /\ \E next \in {Frame("recv"), Drain("send")} :
          /\ next = Drain("send") => user.thread_safe
          /\ recv_callback(t, r, <<next>> \o Tail(stack[t]))
    /\ UNCHANGED m_mutex

\* The receive worker has nothing to do, or another thread holds the mutex
\* throughout the ten attempts.
RecvWorkerIdle(t) ==
    /\ OnTop(t, Frame("recv"))
    /\ Completable = {} \/ ~Unlocked
    /\ Replace(t, Drain("send"))
    /\ UNCHANGED <<ucxVars, m_mutex, queueVars, found, stateVars, m_recursion_depth, cancels>>

\* The queues of ready callbacks, in the order progress() works through them.
\* The receive queue is skipped in single-threaded mode.
QueueOf(t, q) ==
    CASE q = "send" -> m_send_req_queue[t]
      [] q = "recv" -> m_recv_req_queue[t]
      [] q = "shared" -> m_recv_req_queue[Context]

\* Mutant: the receive queue is skipped in both modes.
SkipRecvQueue(q) == "shared"

NextQueue(q) == IF q = "send" /\ user.thread_safe THEN "recv" ELSE "shared"

\* consume_all: a request is popped and its callback invoked.
Consume(t, q) ==
    /\ OnTop(t, Drain(q)) /\ QueueOf(t, q) # <<>>
    /\ LET r == Head(QueueOf(t, q)) IN
       /\ release_self_ref(r)
       /\ Push(t, InQueued(r))
    /\ IF q = "send"
       THEN /\ m_send_req_queue' = [m_send_req_queue EXCEPT ![t] = Tail(@)]
            /\ UNCHANGED m_recv_req_queue
       ELSE /\ m_recv_req_queue' =
                  [m_recv_req_queue EXCEPT ![IF q = "recv" THEN t ELSE Context] = Tail(@)]
            /\ UNCHANGED m_send_req_queue
    /\ UNCHANGED <<ucxVars, m_mutex, m_cancel_recv_req_queue, found, issuer, made, m_ready,
                   m_canceled, scheduled, m_recursion_depth, cancels>>

Consumed(t, q) ==
    /\ OnTop(t, Drain(q)) /\ QueueOf(t, q) = <<>>
    /\ IF q = "shared" THEN Return(t) ELSE Replace(t, Drain(NextQueue(q)))
    /\ UNCHANGED <<ucxVars, m_mutex, queueVars, found, stateVars, m_recursion_depth, cancels>>

\* invoke_cb after the callback has returned.
QueuedReturn(t, r) ==
    /\ OnTop(t, InQueued(r))
    /\ Finish(r)
    /\ Return(t)
    /\ UNCHANGED <<ucxVars, m_mutex, queueVars, found, issuer, made, m_self_ptr, m_canceled,
                   m_recursion_depth, cancels>>

----------------------------------------------------------------------------
(* progress of the context, which test() and wait() of a shared receive    *)
(* call.  It tries the mutex in both modes.                                *)

ContextProgress(t) ==
    /\ UserTurn(t)
    /\ IF m_mutex = None THEN m_mutex' = t /\ Push(t, Frame("once"))
                         ELSE UNCHANGED m_mutex /\ Push(t, Drain("shared"))
    /\ UNCHANGED <<ucxVars, queueVars, found, stateVars, m_recursion_depth, cancels>>

ContextWorker(t, r) ==
    /\ OnTop(t, Frame("once")) /\ r \in Completable
    /\ recv_callback(t, r, <<Frame("unlock")>> \o Tail(stack[t]))
    /\ UNCHANGED m_mutex

ContextUnlock(t) ==
    /\ OnTop(t, Frame("unlock")) \/ (OnTop(t, Frame("once")) /\ Completable = {})
    /\ m_mutex' = None
    /\ Replace(t, Drain("shared"))
    /\ UNCHANGED <<ucxVars, queueVars, found, stateVars, m_recursion_depth, cancels>>

----------------------------------------------------------------------------
(* cancel_recv of the communicator and of the context.                     *)

\* UCX can cancel the receive it finds in the memory of request h: not when it
\* is freed, matched or cancelled already.
Cancellable(h) == h \in live /\ m_req[h] # None /\ ucx[m_req[h]] = "active"

\* recv_request::cancel and shared_recv_request::cancel find r not ready.
Cancel(t, r) ==
    /\ UserTurn(t) /\ cancels < user.cancels
    /\ r \in made \ m_ready
    /\ r \in SharedRecvs \/ issuer[r] = t
    /\ ~user.completed => ucx[r] \in {"active", "done"} /\ ~On(Asked(r))
    /\ cancels' = cancels + 1
    /\ Push(t, Asked(r))
    /\ UNCHANGED <<ucxVars, m_mutex, queueVars, found, stateVars, m_recursion_depth>>

\* The mutex is taken and UCX asked to cancel.  recv_callback queues the
\* receive UCX cancels on its owner.
CancelRequest(t, r) ==
    /\ OnTop(t, Asked(r)) /\ Unlocked
    /\ m_mutex' = IF user.thread_safe THEN t ELSE m_mutex
    /\ LET h == m_ucx_ptr[r] IN
       IF Cancellable(h)
       THEN /\ ucx' = [ucx EXCEPT ![m_req[h]] = "null"]
            /\ m_cancel_recv_req_queue' =
                  [m_cancel_recv_req_queue EXCEPT ![Owner(m_req[h])] = Append(@, m_req[h])]
       ELSE UNCHANGED <<ucx, m_cancel_recv_req_queue>>
    /\ Replace(t, Cancelling(r))
    /\ UNCHANGED <<m_ucx_ptr, m_req, live, m_send_req_queue, m_recv_req_queue, found,
                   stateVars, m_recursion_depth, cancels>>

\* The receive worker is progressed until it has nothing to do.
CancelWorker(t, r, s) ==
    /\ OnTop(t, Cancelling(r)) /\ s \in Completable
    /\ recv_callback(t, s, stack[t])
    /\ UNCHANGED m_mutex

\* Mutant: the result of the cancellation is not looked at.
AlwaysFound(t, r) == TRUE

\* Whether r was cancelled: it is in the queue of its owner.  The flag of the
\* context is never reset.
IsFound(t, r) ==
    \/ r \in Range(m_cancel_recv_req_queue[Owner(r)])
    \/ r \in SharedRecvs /\ found[t]

\* The cancelled receives that are put back into the queue.
PutBack(queue, r) ==
    LET kept[i \in 0..Len(queue)] ==
            IF i = 0 THEN <<>>
            ELSE IF queue[i] = r THEN kept[i - 1] ELSE Append(kept[i - 1], queue[i])
    IN  kept[Len(queue)]

\* The mutex is released; a receive that was cancelled is taken out of the
\* queue and marked, and its request data destroyed.
CancelReturn(t, r) ==
    /\ OnTop(t, Cancelling(r)) /\ Completable = {}
    /\ m_mutex' = IF user.thread_safe THEN None ELSE m_mutex
    /\ m_cancel_recv_req_queue' = [m_cancel_recv_req_queue EXCEPT ![Owner(r)] =
          PutBack(@, r)]
    /\ found' = [found EXCEPT ![t] = IF r \in SharedRecvs THEN IsFound(t, r) ELSE @]
    /\ IF IsFound(t, r)
       THEN /\ release_self_ref(r)
            /\ Finish(r) /\ m_canceled' = m_canceled \cup {r}
            /\ m_req' = [m_req EXCEPT ![m_ucx_ptr[r]] = None]
            /\ Replace(t, Freeing(r))
       ELSE /\ Return(t)
            /\ UNCHANGED <<m_self_ptr, scheduled, m_ready, m_canceled, m_req>>
    /\ UNCHANGED <<ucx, m_ucx_ptr, live, m_send_req_queue, m_recv_req_queue, issuer, made,
                   m_recursion_depth, cancels>>

\* The mutex is taken once more to free the UCX request.
CancelFree(t, r) ==
    /\ OnTop(t, Freeing(r)) /\ Unlocked
    /\ live' = live \ {m_ucx_ptr[r]}
    /\ Return(t)
    /\ UNCHANGED <<ucx, m_ucx_ptr, m_req, m_mutex, queueVars, found, stateVars,
                   m_recursion_depth, cancels>>

\* UCX matches an operation.
UcxMatch(r) ==
    /\ ucx[r] = "active"
    /\ ucx' = [ucx EXCEPT ![r] = "done"]
    /\ UNCHANGED <<m_ucx_ptr, m_req, live, m_mutex, queueVars, found, stateVars,
                   m_recursion_depth, cancels, stack>>

----------------------------------------------------------------------------
\* Steps inside the library.
Library(t) ==
    \/ SendWorkerIdle(t) \/ RecvWorkerIdle(t) \/ ContextUnlock(t)
    \/ \E q \in {"send", "recv", "shared"} : Consume(t, q) \/ Consumed(t, q)
    \/ \E r \in Requests : EarlyTest(t, r) \/ EarlyRun(t, r) \/ EarlyQueue(t, r)
    \/ \E r \in Sends : SendWorker(t, r)
    \/ \E r \in AllRecvs :
          \/ RecvWorker(t, r) \/ ContextWorker(t, r)
          \/ CancelRequest(t, r) \/ CancelReturn(t, r) \/ CancelFree(t, r)
          \/ \E s \in AllRecvs : CancelWorker(t, r, s)

CallbackReturn(t) == \E r \in Requests : EarlyReturn(t, r) \/ QueuedReturn(t, r)

User(t) ==
    \/ ContextProgress(t)
    \/ \E r \in Requests : PostCompleted(t, r) \/ PostScheduled(t, r)
    \/ \E r \in AllRecvs : Cancel(t, r)

Next ==
    /\ \/ \E t \in user.threads : Library(t) \/ CallbackReturn(t) \/ User(t) \/ Progress(t)
       \/ \E r \in Requests : UcxMatch(r)
    /\ UNCHANGED user

Runs(t) == t \in user.threads /\ UNCHANGED user

Safety == Init /\ [][Next]_vars

\* Every thread keeps running, gets the mutex it waits for when that is free
\* again and again, and its callbacks return; its code outside callbacks calls
\* progress of its communicator again and again, whatever other calls it
\* makes.  UCX need not match anything.
Spec ==
    /\ Safety
    /\ \A t \in Threads :
          /\ SF_vars(Runs(t) /\ Library(t))
          /\ SF_vars(Runs(t) /\ CallbackReturn(t))
          /\ SF_vars(Runs(t) /\ stack[t] = <<>> /\ Progress(t))

----------------------------------------------------------------------------
TypeOK ==
    /\ ucx \in [Requests -> {"none", "active", "done", "null"}]
    /\ m_ucx_ptr \in [AllRecvs -> Handles \cup {None}]
    /\ m_req \in [Handles -> AllRecvs \cup {None}]
    /\ live \subseteq Handles /\ m_mutex \in Threads \cup {None}
    /\ m_send_req_queue \in [Threads -> Seq(Sends)]
    /\ m_recv_req_queue \in [Owners -> Seq(AllRecvs)]
    /\ m_cancel_recv_req_queue \in [Owners -> Seq(AllRecvs)]
    /\ found \in [Threads -> BOOLEAN]
    /\ issuer \in [Requests -> Threads \cup {None}]
    /\ m_canceled \subseteq m_ready /\ m_ready \subseteq made
    /\ made \subseteq Requests /\ m_self_ptr \subseteq made
    /\ scheduled \in [Owners -> Nat]
    /\ m_recursion_depth \in [Owners -> Nat]
    /\ cancels \in 0..user.cancels /\ user \in Users

\* The receives queued for their callbacks or for cancel_recv.
Queued(queue) == UNION {Range(queue[c]) : c \in DOMAIN queue}

\* Every allocated UCX request belongs to one receive that UCX has not
\* completed or that cancel_recv has not yet picked up, and refers to it, or
\* cancel_recv is about to free it: recv_callback and cancel_recv free each
\* UCX request once and none leaks.
HandlesExact ==
    /\ \A h \in Handles : m_req[h] # None => h \in live /\ m_ucx_ptr[m_req[h]] = h
    /\ \A h \in live : m_req[h] = None =>
          \E r \in AllRecvs : On(Freeing(r)) /\ m_ucx_ptr[r] = h
    /\ {m_req[h] : h \in live} \ {None} =
          {r \in AllRecvs : ucx[r] \in {"active", "done"}} \cup Queued(m_cancel_recv_req_queue)

\* A state owns its self-reference exactly while UCX or a queue holds a raw
\* pointer to it.
SelfReferenceExact ==
    m_self_ptr = {r \in Requests : ucx[r] \in {"active", "done"}}
        \cup Queued(m_send_req_queue) \cup Queued(m_recv_req_queue)
        \cup Queued(m_cancel_recv_req_queue)

\* "this guarantees that only the communicator on which the receive was issued
\* will invoke the callback" (src/ucx/communicator.hpp, recv_callback),
\* although any thread progresses the shared worker.
IssuerCalls ==
    \A t \in Threads, r \in Sends \cup Recvs : \A i \in DOMAIN stack[t] :
        stack[t][i] \in {InEarly(r), InQueued(r)} => issuer[r] = t

\* In thread-safe mode no callback runs while its thread holds m_mutex, which
\* is not recursive: a callback that posts a receive does not block on itself.
CallbackUnlocked ==
    user.thread_safe => \A t \in Threads : InCallback(t) => m_mutex # t

\* "cancel receive request" (README.md): a receive UCX has cancelled is one
\* some thread is cancelling.
CancelsOwn ==
    \A r \in Queued(m_cancel_recv_req_queue) : On(Cancelling(r))

\* UCX requests, self-references and the queue of cancelled receives stay exact
\* although UCX recycles request memory and any thread completes any receive.
StatesExact == TypeOK /\ HandlesExact /\ SelfReferenceExact /\ CancelsOwn

\* A callback runs on the communicator that issued the operation, and not under
\* the mutex of the shared worker.
CallbacksSafe == IssuerCalls /\ CallbackUnlocked

\* How far request r is, in the terms of RequestLifecycle.
status == [r \in Requests |->
    CASE On(InEarly(r)) -> "early"
      [] On(InQueued(r)) -> "callback"
      [] r \in m_canceled -> "canceled"
      [] r \in m_ready \ m_canceled -> "ready"
      [] r \in made \ m_ready /\ ~On(InQueued(r)) -> "scheduled"
      [] OTHER -> IF ucx[r] = "none" \/ On(<<"completed", r>>) \/ On(<<"tested", r>>)
                  THEN "none" ELSE "ready"]

Lifecycle == INSTANCE RequestLifecycle
                 WITH counted <- MapThenSumSet(LAMBDA c : scheduled[c], Owners)

\* Sends, receives and shared receives behave as RequestLifecycle says: one
\* callback, none after a successful cancel, and the counters follow, whoever
\* progresses the shared worker.
ImplementsLifecycle == Lifecycle!Spec

\* "a callback which is invoked once the operation completes" (README.md): an
\* operation UCX has matched or completed becomes ready.  In single-threaded
\* mode it need not: progress skips m_recv_req_queue, to which recv pushes a
\* completed receive at the recursion limit.
CompletedIsCalled ==
    \A r \in Requests :
        (user.thread_safe /\ r \in made /\ ucx[r] \in {"done", "null"}) ~> r \in m_ready
============================================================================
