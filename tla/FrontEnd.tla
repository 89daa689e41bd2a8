------------------------------ MODULE FrontEnd ------------------------------
(***************************************************************************)
(* The part of oomph above the backends: contexts and communicators        *)
(* (include/oomph/context.hpp, communicator.hpp and their sources), the    *)
(* process-wide set of communicators that a thread progresses while it     *)
(* waits in a barrier (src/communicator_set_impl.hpp), messages passed by  *)
(* reference or handed over with std::move, send_multi and its shared      *)
(* state, and the waiting functions of requests.                           *)
(*                                                                         *)
(* The backend is the abstract one of RequestLifecycle, which the backend  *)
(* modules implement.  A batch is one call of the program: a send or a     *)
(* receive, which is one operation, or a send_multi, which is one          *)
(* operation per neighbour.  Each thread has one communicator, and calls   *)
(* the library from its main program or from a callback: stack[t] holds    *)
(* the library calls and callbacks it is in, the innermost first.          *)
(***************************************************************************)
EXTENDS RequestLifecycle, Sequences

CONSTANTS Threads, NoThread,
          Batches,
          Workloads,    \* the sets of batches one execution may post
          CommOf,       \* CommOf[b]: the thread whose communicator b is posted on
          Dests,        \* Dests[b]: the number of operations of b
          Multi,        \* the batches posted with send_multi
          Receives,     \* the batches posted with recv or shared_recv
          Shared,       \* those posted with shared_recv
          Moved,        \* the batches whose message is handed over
          Called,       \* the batches that have a callback
          Needs,        \* Needs[b]: the batches that must complete before b can
          CallbackWaits \* pairs <<b, c>>: the callback of b waits for c

\* An operation is the i-th of its batch.  A batch that is not a send_multi has
\* one, and only receives, which have one, can be cancelled.
ASSUME BatchesAssumption ==
    /\ Dests \in [Batches -> Nat] /\ CommOf \in [Batches -> Threads]
    /\ Requests = UNION {{<<b, i>> : i \in 1 .. Dests[b]} : b \in Batches}
    /\ Multi \subseteq Batches /\ Called \subseteq Batches
    /\ Receives \subseteq Batches \ Multi /\ Shared \subseteq Receives
    /\ CallbackWaits \subseteq Batches \X Batches
    /\ \A b \in Batches \ Multi : Dests[b] = 1
    /\ NoThread \notin Threads \union Batches /\ Batches \cap Requests = {}

VARIABLES scheduled,    \* the counters of scheduled operations
          ctx,          \* the context is alive
          impl,         \* impl[t]: t's communicator_impl: "none", "alive", "deleted"
          registered,   \* communicator_set: the communicators of each thread
          mtx,          \* the thread that holds the set's mutex, or NoThread
          stack,
          counter,      \* counter[b]: m_counter of b's multi_request_state
          refs,         \* refs[b]: the reference count of that state
          request,      \* request[b]: the program holds b's request
          buffer,       \* buffer[b]: who owns b's message
          calls,        \* calls[b]: how often b's callback was called
          phase,        \* phase[t]: t has not entered the barrier (0), waits for the
                        \* others to arrive (1) or to go on (2), has left it (3)
          work          \* the batches this execution may post

frontVars == <<status, counted, scheduled, ctx, impl, registered, mtx, stack, counter,
               refs, request, buffer, calls, phase, work>>
backend == <<status, counted, scheduled>>
objects == <<ctx, impl, registered>>
batch == <<counter, refs, request, buffer, calls, work>>

\* scheduled_sends and scheduled_recvs of each communicator's state, and
\* scheduled_recvs of the context's schedule.
Counters == (Threads \X {"sends", "recvs"}) \union {<<NoThread, "recvs">>}

Ops(b) == {r \in Requests : r[1] = b}
Top(t) == Head(stack[t])
In(t, call) == stack[t] # <<>> /\ Top(t).call = call
Push(t, frame) == stack' = [stack EXCEPT ![t] = <<frame>> \o @]
Pop(t) == stack' = [stack EXCEPT ![t] = Tail(@)]

\* The program itself, or a callback, may call the library: "recursive calls to
\* the communicator from within a callback are explicitely allowed".
MayCall(t) == impl[t] = "alive" /\ (stack[t] = <<>> \/ In(t, "user"))

FrontInit ==
    /\ Init
    /\ scheduled = [c \in Counters |-> 0]
    /\ ctx = TRUE
    /\ impl = [t \in Threads |-> "none"]
    /\ registered = [t \in Threads |-> {}]
    /\ mtx = NoThread
    /\ stack = [t \in Threads |-> <<>>]
    /\ counter = [b \in Batches |-> 0]
    /\ refs = [b \in Batches |-> 0]
    /\ request = [b \in Batches |-> FALSE]
    /\ buffer = [b \in Batches |-> "none"]
    /\ calls = [b \in Batches |-> 0]
    /\ phase = [t \in Threads |-> 0]
    /\ work \in Workloads

----------------------------------------------------------------------------
(* Contexts and communicators.                                             *)

\* communicator_set::insert, in the entry of the calling thread.
Insert(t) == [registered EXCEPT ![t] = @ \union {t}]

\* context::get_communicator: the state of the communicator enters the set,
\* under the set's mutex.
get_communicator(t) ==
    /\ ctx /\ impl[t] = "none" /\ stack[t] = <<>> /\ mtx = NoThread
    /\ impl' = [impl EXCEPT ![t] = "alive"]
    /\ registered' = Insert(t)
    /\ UNCHANGED <<backend, ctx, mtx, stack, batch, phase>>

\* Mutant: the communicator is released but stays in the set.
KeepRegistered(t) == registered

\* communicator_set::erase of the calling thread's communicator.
Erase(t) == [registered EXCEPT ![t] = @ \ {t}]

\* The requests of a communicator live in its pools: none may be left.
Quiet(t) ==
    \A b \in Batches :
        CommOf[b] = t => ~request[b] /\ \A r \in Ops(b) : status[r] \in {"none", "ready", "canceled"}

\* unique_ptr_set::remove: the context deletes the communicator_impl.
Remove(t) == [impl EXCEPT ![t] = "deleted"]

\* ~communicator_state, first step: out of the set, under its mutex ...
DestroyCommunicator(t) ==
    /\ MayCall(t) /\ stack[t] = <<>> /\ mtx = NoThread /\ Quiet(t)
    /\ registered' = Erase(t)
    /\ Push(t, [call |-> "destroy"])
    /\ UNCHANGED <<backend, ctx, impl, mtx, batch, phase>>

\* ... and second step, without it: release() has the context delete it.
ReleaseCommunicator(t) ==
    /\ In(t, "destroy")
    /\ impl' = Remove(t)
    /\ Pop(t)
    /\ UNCHANGED <<backend, ctx, registered, mtx, batch, phase>>

\* communicator_set::erase of the context.
EraseContext == [t \in Threads |-> {}]

\* ~context: its entry leaves the set, then the backend's context is destroyed.
DestroyContext ==
    /\ ctx /\ mtx = NoThread
    /\ \A t \in Threads : impl[t] = "deleted" /\ stack[t] = <<>>
    /\ ctx' = FALSE
    /\ registered' = EraseContext
    /\ UNCHANGED <<backend, impl, mtx, stack, batch, phase>>

----------------------------------------------------------------------------
(* Posting.                                                                *)

\* Memory of the context's heap, or the program's, registered with it.
make_buffer_core(b) == [buffer EXCEPT ![b] = "made"]

\* make_buffer of a context or a communicator gives the program a message.
make_buffer(b) ==
    /\ ctx /\ b \in work /\ buffer[b] = "none"
    /\ buffer' = make_buffer_core(b)
    /\ UNCHANGED <<backend, objects, mtx, stack, counter, refs, request, calls, phase, work>>

Posted(b) == buffer[b] \notin {"none", "made"}

\* The message moves into the callback or the state of the operation ...
HandOver(b) == buffer' = [buffer EXCEPT ![b] = "op"]

\* ... or the program keeps it and the callback refers to it.
Lend(b) == buffer' = [buffer EXCEPT ![b] = "user"]

\* send, recv and shared_recv without a callback.
PostPlain(b) == b \notin Multi \union Called /\ Lend(b) /\ UNCHANGED <<counter, refs>>

\* send, recv and shared_recv with a callback: cb_rref takes the message,
\* cb_lref and cb_lref_const point to it.
PostCallback(b) ==
    /\ b \in Called \ Multi
    /\ IF b \in Moved THEN HandOver(b) ELSE Lend(b)
    /\ UNCHANGED <<counter, refs>>

\* make_multi_request_state: m_counter starts at the number of neighbours.
make_multi_request_state(b) ==
    /\ counter' = [counter EXCEPT ![b] = Dests[b]]
    /\ refs' = [refs EXCEPT ![b] = 1]

\* send_multi without a callback, with a message that is handed over to the
\* shared state, and with one the state refers to.
PostMulti(b) == b \in Multi \ Called /\ make_multi_request_state(b) /\ Lend(b)
PostMultiMoved(b) ==
    b \in Multi \cap Called \cap Moved /\ make_multi_request_state(b) /\ HandOver(b)
PostMultiRef(b) ==
    b \in (Multi \cap Called) \ Moved /\ make_multi_request_state(b) /\ Lend(b)

\* assert(msg): a message is posted once.
Post(t, b) ==
    /\ MayCall(t) /\ CommOf[b] = t /\ buffer[b] = "made"
    /\ \/ PostPlain(b) \/ PostCallback(b)
       \/ PostMulti(b) \/ PostMultiMoved(b) \/ PostMultiRef(b)
    /\ Push(t, [call |-> "post", b |-> b, i |-> 1])
    /\ UNCHANGED <<backend, objects, mtx, request, calls, phase, work>>

\* The lambda given to one send of a send_multi captures the state by copy.
Captures(b) == IF b \in Multi THEN [refs EXCEPT ![b] = @ + 1] ELSE refs

\* One pointer to the state of b is destroyed.
Releases(b) == IF b \in Multi THEN [refs EXCEPT ![b] = @ - 1] ELSE refs

\* The last pointer to the state has gone: a message still in it is destroyed.
Destroyed(b) == [buffer EXCEPT ![b] = IF @ = "op" /\ refs'[b] = 0 THEN "released" ELSE @]

\* The operations that b needs have completed.
Matched(b) == \A r \in Requests : r[1] \in Needs[b] => status[r] \in {"callback", "ready"}

\* Mutant: a shared receive is counted by its communicator.
CountedByCommunicator(b) == <<CommOf[b], IF b \in Receives THEN "recvs" ELSE "sends">>

\* send, recv and shared_recv pass the backend the counter of the operation.
CounterOf(b) ==
    IF b \in Shared THEN <<NoThread, "recvs">>
    ELSE <<CommOf[b], IF b \in Receives THEN "recvs" ELSE "sends">>

\* The constructor of the request's state counts it, invoke_cb and set_canceled
\* count it off.
CountUp(b) == scheduled' = [scheduled EXCEPT ![CounterOf(b)] = @ + 1]
CountDown(b) == scheduled' = [scheduled EXCEPT ![CounterOf(b)] = @ - 1]

\* One call of the backend's send or recv: scheduled, or completed at once.
PostOne(t) ==
    /\ In(t, "post") /\ Top(t).i <= Dests[Top(t).b]
    /\ LET f == Top(t)
           r == <<f.b, f.i>>
           rest == <<[f EXCEPT !.i = @ + 1]>> \o Tail(stack[t])
       IN
       /\ refs' = Captures(f.b)
       /\ \/ Schedule(r) /\ CountUp(f.b) /\ stack' = [stack EXCEPT ![t] = rest]
          \/ /\ CompleteEarly(r) /\ UNCHANGED scheduled
             /\ Matched(f.b)
             /\ stack' = [stack EXCEPT ![t] = <<[call |-> "op", r |-> r, done |-> FALSE]>> \o rest]
    /\ UNCHANGED <<objects, mtx, counter, request, buffer, calls, phase, work>>

\* The call returns its request; the program keeps it or ignores it.
PostDone(t) ==
    /\ In(t, "post") /\ Top(t).i > Dests[Top(t).b]
    /\ LET b == Top(t).b IN
       \E kept \in BOOLEAN :
         /\ request' = [request EXCEPT ![b] = kept]
         /\ refs' = IF kept THEN refs ELSE Releases(b)
         /\ buffer' = IF b \in Multi THEN Destroyed(b) ELSE buffer
    /\ Pop(t)
    /\ UNCHANGED <<backend, objects, mtx, counter, calls, phase, work>>

----------------------------------------------------------------------------
(* Completion: the backend calls an operation's callback.                  *)

\* communicator::progress of t's communicator completes one of its operations,
\* or a shared receive of any: called by the program or a callback, by a waiting
\* function, or by the set.
CompletesOp(t, r) ==
    /\ MayCall(t) \/ In(t, "wait") \/ In(t, "wait_all") \/ In(t, "set")
    /\ CommOf[r[1]] = t \/ r[1] \in Shared
    /\ Complete(r)
    /\ Matched(r[1])
    /\ Push(t, [call |-> "op", r |-> r, done |-> FALSE])
    /\ UNCHANGED <<scheduled, objects, mtx, batch, phase>>

\* The UCX and libfabric backends complete any operation, also when a callback
\* calls progress.
Completes(t) == \E r \in Requests : CompletesOp(t, r)

\* request_queue::progress of the MPI and NCCL backends returns at once when a
\* callback it runs calls it again: the queue of b is being progressed by t.
QueueOf(b) == IF b \in Shared THEN "shared" ELSE IF b \in Receives THEN "recvs" ELSE "sends"
InProgress(t, b) ==
    \E k \in DOMAIN stack[t] :
        /\ stack[t][k].call \in {"op", "counted"} /\ status[stack[t][k].r] = "callback"
        /\ QueueOf(stack[t][k].r[1]) = QueueOf(b)

\* What every backend completes, if it is progressed often enough.
Progresses(t) ==
    \E r \in Requests : CommOf[r[1]] = t /\ ~InProgress(t, r[1]) /\ CompletesOp(t, r)

\* Mutant: the callback is called when one send is still to complete.
LastAtOne(b) == counter[b] - 1 <= 1

\* Mutant: the counter is compared before it is decremented.
LastAfter(b) == b \in Multi => counter[b] = 0

\* --(mrs->m_counter) == 0ul; the callback of a single operation has no counter.
IsLast(b) == b \in Multi => counter[b] - 1 = 0

\* The operation's callback: a send_multi's lambda decrements the counter, and
\* the last one calls the program's callback; a message that was handed over
\* is moved into the callback's argument.
OpCallback(t) ==
    /\ In(t, "op") /\ ~Top(t).done
    /\ LET b == Top(t).r[1]
           called == <<[Top(t) EXCEPT !.done = TRUE]>> \o Tail(stack[t])
       IN
       /\ counter' = [counter EXCEPT ![b] = IF b \in Multi THEN @ - 1 ELSE @]
       /\ IF b \in Called /\ IsLast(b)
          THEN /\ calls' = [calls EXCEPT ![b] = @ + 1]
               /\ buffer' = [buffer EXCEPT ![b] = IF b \in Moved THEN "callback" ELSE @]
               /\ stack' = [stack EXCEPT ![t] =
                    <<[call |-> "user", b |-> b]>> \o called]
          ELSE stack' = [stack EXCEPT ![t] = called] /\ UNCHANGED <<calls, buffer>>
    /\ UNCHANGED <<backend, objects, mtx, refs, request, phase, work>>

\* m_counter == 0, or the request's own flag.
IsReady(b) ==
    /\ Posted(b)
    /\ IF b \in Multi THEN counter[b] = 0
       ELSE \A r \in Ops(b) : status[r] \in {"ready", "canceled"}

\* The program's callback waits for another batch whose request it can reach.
CallbackWait(t) ==
    /\ In(t, "user")
    /\ \E p \in CallbackWaits :
         /\ p[1] = Top(t).b /\ request[p[2]] /\ ~IsReady(p[2])
         /\ Push(t, [call |-> "wait", b |-> p[2]])
    /\ UNCHANGED <<backend, objects, mtx, batch, phase>>

\* It returns; a message it was given by value is destroyed.
UserReturns(t) ==
    /\ In(t, "user")
    /\ \A p \in CallbackWaits : p[1] = Top(t).b /\ request[p[2]] => IsReady(p[2])
    /\ buffer' = [buffer EXCEPT ![Top(t).b] = IF @ = "callback" THEN "released" ELSE @]
    /\ Pop(t)
    /\ UNCHANGED <<backend, objects, mtx, counter, refs, request, calls, phase, work>>

\* invoke_cb: the operation's callback has returned, and it is counted off ...
CountOff(t) ==
    /\ In(t, "op") /\ Top(t).done /\ status[Top(t).r] = "callback"
    /\ CountDown(Top(t).r[1])
    /\ stack' = [stack EXCEPT ![t] = <<[call |-> "counted", r |-> Top(t).r]>> \o Tail(@)]
    /\ UNCHANGED <<status, counted, objects, mtx, batch, phase>>

\* ... before it is ready.  The callback is destroyed with what it holds.
OpReturns(t) ==
    /\ \/ In(t, "counted") /\ Return(Top(t).r)
       \/ In(t, "op") /\ Top(t).done /\ ReturnEarly(Top(t).r)
    /\ refs' = Releases(Top(t).r[1])
    /\ Pop(t)
    /\ UNCHANGED <<scheduled, objects, mtx, counter, request, buffer, calls, phase, work>>

----------------------------------------------------------------------------
(* Requests.                                                               *)

\* recv_request::cancel of a receive that is not ready; the callback, and a
\* message it holds, are destroyed with the state.
CancelRecv(t, b) ==
    /\ MayCall(t) /\ CommOf[b] = t /\ b \in Receives /\ request[b]
    /\ \E r \in Ops(b) : Cancel(r)
    /\ CountDown(b)
    /\ buffer' = [buffer EXCEPT ![b] = IF b \in Moved THEN "released" ELSE @]
    /\ UNCHANGED <<objects, mtx, stack, counter, refs, request, calls, phase, work>>

\* The request is destroyed.
DropRequest(t, b) ==
    /\ MayCall(t) /\ CommOf[b] = t /\ request[b]
    /\ request' = [request EXCEPT ![b] = FALSE]
    /\ refs' = Releases(b)
    /\ buffer' = IF b \in Multi THEN Destroyed(b) ELSE buffer
    /\ UNCHANGED <<backend, objects, mtx, stack, counter, calls, phase, work>>

\* The program, which kept its message, destroys it when the request is ready.
ReleaseMessage(b) ==
    /\ buffer[b] = "user" /\ request[b] /\ IsReady(b)
    /\ buffer' = [buffer EXCEPT ![b] = "released"]
    /\ UNCHANGED <<backend, objects, mtx, stack, counter, refs, request, calls, phase, work>>

\* send_request::wait, send_multi_request::wait and their like.
Wait(t, b) ==
    /\ MayCall(t) /\ stack[t] = <<>> /\ CommOf[b] = t /\ request[b] /\ ~IsReady(b)
    /\ Push(t, [call |-> "wait", b |-> b])
    /\ UNCHANGED <<backend, objects, mtx, batch, phase>>

WaitReturns(t) ==
    /\ In(t, "wait") /\ IsReady(Top(t).b)
    /\ Pop(t)
    /\ UNCHANGED <<backend, objects, mtx, batch, phase>>

\* communicator::is_ready: its own counters are zero, and that of the shared
\* receives of all communicators of the context.
AllReady(t) ==
    /\ scheduled[<<t, "sends">>] = 0
    /\ scheduled[<<t, "recvs">>] = 0
    /\ scheduled[<<NoThread, "recvs">>] = 0

\* communicator::wait_all.
WaitAll(t) ==
    /\ MayCall(t) /\ stack[t] = <<>> /\ ~AllReady(t)
    /\ Push(t, [call |-> "wait_all"])
    /\ UNCHANGED <<backend, objects, mtx, batch, phase>>

WaitAllReturns(t) ==
    /\ In(t, "wait_all") /\ AllReady(t)
    /\ Pop(t)
    /\ UNCHANGED <<backend, objects, mtx, batch, phase>>

----------------------------------------------------------------------------
(* Progress in a barrier: the set of communicators.                        *)

\* A thread enters the barrier of all threads, once (the module Barrier has its
\* counters): it waits until all have entered, then until all know it.
EnterBarrier(t) ==
    /\ MayCall(t) /\ stack[t] = <<>> /\ phase[t] = 0
    /\ phase' = [phase EXCEPT ![t] = 1]
    /\ Push(t, [call |-> "barrier"])
    /\ UNCHANGED <<backend, objects, mtx, batch>>

Arrived(k) == \A t \in Threads : phase[t] >= k

\* Each of its loops calls communicator_set::progress, which locks the mutex
\* for as long as it progresses the calling thread's communicators.
SetProgress(t) ==
    /\ In(t, "barrier") /\ ~Arrived(phase[t]) /\ mtx = NoThread
    /\ mtx' = t
    /\ Push(t, [call |-> "set"])
    /\ UNCHANGED <<backend, objects, batch, phase>>

\* Mutant: the mutex is not unlocked.
StaysLocked(t) == mtx

\* The lock_guard is destroyed.
Unlocks(t) == NoThread

SetReturns(t) ==
    /\ In(t, "set")
    /\ mtx' = Unlocks(t)
    /\ Pop(t)
    /\ UNCHANGED <<backend, objects, batch, phase>>

LeaveLoop(t) ==
    /\ In(t, "barrier") /\ Arrived(phase[t])
    /\ phase' = [phase EXCEPT ![t] = @ + 1]
    /\ IF phase[t] = 2 THEN Pop(t) ELSE UNCHANGED stack
    /\ UNCHANGED <<backend, objects, mtx, batch>>

----------------------------------------------------------------------------
\* What the library does, and what callbacks do on their own.
Runs(t) ==
    \/ PostOne(t) \/ PostDone(t) \/ OpCallback(t) \/ UserReturns(t)
    \/ CountOff(t) \/ OpReturns(t)
    \/ CallbackWait(t) \/ WaitReturns(t) \/ WaitAllReturns(t)
    \/ SetProgress(t) \/ SetReturns(t) \/ LeaveLoop(t) \/ ReleaseCommunicator(t)

FrontNext ==
    \/ \E t \in Threads :
        \/ get_communicator(t) \/ DestroyCommunicator(t) \/ Completes(t) \/ Runs(t)
        \/ WaitAll(t) \/ EnterBarrier(t)
        \/ \E b \in Batches : Post(t, b) \/ CancelRecv(t, b) \/ DropRequest(t, b) \/ Wait(t, b)
    \/ \E b \in Batches : make_buffer(b) \/ ReleaseMessage(b)
    \/ DestroyContext

\* Every thread runs, and keeps progressing its communicator: the transport
\* completes an operation that can complete if the queue it is in is progressed
\* often enough.
FrontFairness == \A t \in Threads : WF_frontVars(Runs(t)) /\ SF_frontVars(Progresses(t))

FrontSafety == FrontInit /\ [][FrontNext]_frontVars
FrontSpec == FrontSafety /\ FrontFairness

----------------------------------------------------------------------------
Frame ==
    [call : {"post"}, b : Batches, i : Nat] \union
    [call : {"op"}, r : Requests, done : BOOLEAN] \union
    [call : {"counted"}, r : Requests] \union
    [call : {"user", "wait"}, b : Batches] \union
    [call : {"wait_all", "barrier", "set", "destroy"}]

FrontTypeOK ==
    /\ scheduled \in [Counters -> Nat]
    /\ ctx \in BOOLEAN
    /\ impl \in [Threads -> {"none", "alive", "deleted"}]
    /\ registered \in [Threads -> SUBSET Threads]
    /\ mtx \in Threads \union {NoThread}
    /\ stack \in [Threads -> Seq(Frame)]
    /\ counter \in [Batches -> Nat]
    /\ refs \in [Batches -> Nat]
    /\ request \in [Batches -> BOOLEAN]
    /\ buffer \in [Batches -> {"none", "made", "user", "op", "callback", "released"}]
    /\ calls \in [Batches -> Nat]
    /\ phase \in [Threads -> 0 .. 3]
    /\ work \in Workloads

\* The memory of a message exists as long as the transport may use it: a
\* message that was handed over is not destroyed, nor given to the callback,
\* and a request is not ready, while an operation of the batch is scheduled.
MessageLives ==
    \A b \in Batches : buffer[b] \in {"callback", "released"} =>
        \A r \in Ops(b) : status[r] # "scheduled"

\* The callback is called once, and by the time the request of a batch with at
\* least one operation is ready, unless the receive was cancelled.
CalledOnce ==
    \A b \in Called :
        /\ calls[b] <= 1
        /\ IsReady(b) /\ (\E r \in Ops(b) : status[r] # "canceled") => calls[b] = 1

\* The thread that progresses the set finds live communicators of the living
\* context only, whatever communicators are created and destroyed meanwhile.
\* The state is of its type.
RegisteredAlive ==
    FrontTypeOK /\ \A t \in Threads : \A c \in registered[t] : impl[c] = "alive" /\ ctx

\* The pointers to the state of a send_multi: that of the call or of the
\* request, and one in each lambda; which of them refer to it; and whether the
\* state is allocated.
StatePointers == Multi \union {r \in Requests : r[1] \in Multi}

InPost(b) ==
    \E t \in Threads : \E k \in DOMAIN stack[t] : stack[t][k].call = "post" /\ stack[t][k].b = b

Refers(p) ==
    IF p \in Multi THEN request[p] \/ InPost(p)
    ELSE status[p] \in {"scheduled", "early", "callback"}

StatePtr ==
    [p \in StatePointers |->
        IF ~Refers(p) THEN NoThread ELSE IF p \in Multi THEN p ELSE p[1]]

StateCount == [b \in Multi |-> refs[b]]

StateLife ==
    [b \in Multi |->
        IF ~Posted(b) THEN "none" ELSE IF refs[b] > 0 THEN "live" ELSE "freed"]

Ptr == INSTANCE UnsafeSharedPtr WITH
    Pointers <- StatePointers, Blocks <- Multi, Null <- NoThread,
    ptr <- StatePtr, count <- StateCount, life <- StateLife

\* The copies and destructions of these pointers are those unsafe_shared_ptr
\* allows: the state, and a message in it, is freed with the last of them.
SharesState == Ptr!Spec

\* Some thread's progress runs the callback of operation r.
InProgressCall(r) ==
    /\ status[r] = "callback"
    /\ \E t \in Threads : \E k \in DOMAIN stack[t] : stack[t][k].call = "op" /\ stack[t][k].r = r

\* When wait_all returns, every batch posted on its communicator has had its
\* callback, unless it was cancelled or has no operation, and is ready, but for
\* shared receives: of those, whoever posted them, none is with the transport
\* or in a callback that progress runs, although the thread that completes one
\* may still have to mark it ready.
WaitAllComplete ==
    [][\A t \in Threads : WaitAllReturns(t) =>
        /\ \A b \in Batches : CommOf[b] = t /\ Posted(b) =>
              /\ b \in Shared \/ IsReady(b)
              /\ b \in Called /\ (\E r \in Ops(b) : status[r] # "canceled") => calls[b] = 1
        /\ \A b \in Shared : \A r \in Ops(b) : status[r] # "scheduled" /\ ~InProgressCall(r)
      ]_frontVars

\* Every call of a waiting function returns once the matching operations are
\* posted, also one made by a callback ("recursive calls to the communicator
\* from within a callback are explicitely allowed") for an operation of another
\* queue than the callback's own.
WaitsEnd ==
    \A t \in Threads :
        /\ \E k \in DOMAIN stack[t] : stack[t][k].call \in {"wait", "wait_all"}
        /\ \A b \in work : Posted(b)
        ~> \A k \in DOMAIN stack[t] : stack[t][k].call \notin {"wait", "wait_all"}
=============================================================================
