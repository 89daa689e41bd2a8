------------------------- MODULE NcclCommunicator -------------------------
(***************************************************************************)
(* The NCCL backend (src/nccl): communicators that post device operations, *)
(* alone or in a group, and learn of their completion from CUDA events,    *)
(* which a pool recycles.  One thread uses a context (thread_safe is       *)
(* refused); it may have several communicators, and callbacks call the     *)
(* communicator again, so calls nest.  Calls that only throw (progress or  *)
(* start_group in an active group, an operation to the own rank outside    *)
(* one) change nothing and are left out; so are errors of NCCL and CUDA.   *)
(***************************************************************************)
EXTENDS Integers, Sequences, FiniteSets, Functions

CONSTANTS
    Comms, Sends, Recvs, SharedRecvs,
    PostedOn,       \* [Requests -> Comms]
    StreamOf,       \* [Requests -> CUDA streams]
    ToSelf,         \* the requests whose peer is the own rank
    Events,         \* CUDA events that may be created
    InitialPool,    \* the events the pool starts with, as a sequence
    MaxGroups,      \* bound on the groups started
    MaxNesting,     \* bound on the calls that nest
    Disciplined,    \* while a group is active no other communicator is used,
                    \* and nothing is progressed; callbacks end their groups
    None

Requests == Sends \cup Recvs \cup SharedRecvs

Streams == Range(StreamOf)

\* A group: its event, and the stream of its last operation.
GroupInfo == [event : Events, last : Streams \cup {None}]

ASSUME NcclAssumption ==
    /\ IsFiniteSet(Requests) /\ PostedOn \in [Requests -> Comms]
    /\ DOMAIN StreamOf = Requests
    /\ InitialPool \in Seq(Events) /\ IsInjective(InitialPool)
    /\ Comms \cap Requests = {}
    /\ None \notin Comms \cup Events \cup Streams \cup GroupInfo
    /\ MaxGroups \in Nat /\ MaxNesting \in Nat /\ Disciplined \in BOOLEAN

VARIABLES
    m_group_info,   \* [Comms -> None or [event, last]]
    groups,         \* number of groups started
    deferred,       \* operations of the NCCL group the thread is in
    inflight,       \* kernels on the device: sets of operations
    done,           \* operations the device has completed
    m_recorded,     \* [Events -> BOOLEAN]
    waits,          \* [Events -> operations its last record waits for]
    pool,           \* cuda_event_pool::m_events
    fresh,          \* events not created yet
    posted, m_self_ptr, m_ready,    \* sets of requests
    handle,         \* requests whose request object the user holds
    m_event,        \* [Requests -> the event of m_req, or None]
    scheduled,      \* scheduled operations, over all counters
    queue,          \* [Comms -> [send, recv: m_queue]]
    m_req_queue,    \* the shared receives of the context
    in_progress,    \* queues <<c, q>> being progressed
    stack           \* calls in progress, innermost first

events == <<m_recorded, waits, pool, fresh>>
device == <<deferred, inflight, done>>
states == <<posted, m_self_ptr, m_ready, handle, m_event, scheduled>>
queues == <<queue, m_req_queue, in_progress>>
vars == <<m_group_info, groups, events, device, states, queues, stack>>

QueueOf(r) == IF r \in Sends THEN "send" ELSE "recv"

Init ==
    /\ m_group_info = [c \in Comms |-> None]
    /\ groups = 0
    /\ deferred = {} /\ inflight = {} /\ done = {}
    /\ m_recorded = [e \in Events |-> FALSE]
    /\ waits = [e \in Events |-> {}]
    /\ pool = InitialPool
    /\ fresh = Events \ Range(InitialPool)
    /\ posted = {} /\ m_self_ptr = {} /\ m_ready = {} /\ handle = {}
    /\ m_event = [r \in Requests |-> None]
    /\ scheduled = 0
    /\ queue = [c \in Comms |-> [q \in {"send", "recv"} |-> <<>>]]
    /\ m_req_queue = <<>>
    /\ in_progress = {}
    /\ stack = <<>>

\* User code runs: outside of any call, or in a callback.
UserTurn == Len(stack) < MaxNesting /\ (stack # <<>> => Head(stack).f = "callback")

Active == {c \in Comms : m_group_info[c] # None}

\* The communicators the user may call.
MayUse(c) == UserTurn /\ (Disciplined => Active \subseteq {c})

----------------------------------------------------------------------------
(* Events.                                                                 *)

\* cuda_event_pool::pop, for the caller to store: the last event, or a new one.
Popped == IF pool = <<>> THEN CHOOSE e \in fresh : TRUE ELSE pool[Len(pool)]

Pop == IF pool = <<>>
       THEN fresh # {} /\ fresh' = fresh \ {Popped} /\ UNCHANGED pool
       ELSE pool' = SubSeq(pool, 1, Len(pool) - 1) /\ UNCHANGED fresh

\* The objects that own event e: request states, and active groups.
Owners(e) == {r \in m_self_ptr \cup handle : m_event[r] = e}
             \cup {c \in Active : m_group_info[c].event = e}

\* Mutant: the event goes back when its first owner goes.
ReturnsFirst(e, o) == TRUE

\* ~cached_cuda_event runs when the last owner o goes.
Returns(e, o) == Owners(e) = {o}

Release(e, o) == pool' = IF Returns(e, o) THEN Append(pool, e) ELSE pool

\* cuda_event::is_ready, with cudaEventQuery.
is_ready(e) == m_recorded[e] /\ waits[e] \subseteq done

\* cudaEventRecord: everything that the kernels in ks put on stream s.
Record(e, s, ks) ==
    /\ m_recorded' = [m_recorded EXCEPT ![e] = TRUE]
    /\ waits' = [waits EXCEPT ![e] = UNION {k \in ks : \E r \in k : StreamOf[r] = s}]

----------------------------------------------------------------------------
(* Groups and operations.                                                  *)

start_group(c) ==
    /\ MayUse(c) /\ m_group_info[c] = None /\ groups < MaxGroups
    /\ Pop
    /\ m_group_info' = [m_group_info EXCEPT ![c] = [event |-> Popped, last |-> None]]
    /\ groups' = groups + 1
    /\ UNCHANGED <<m_recorded, waits, device, states, queues, stack>>

\* ncclGroupEnd of the outermost group launches its operations as one kernel.
Launched(c) == IF Active = {c} /\ deferred # {} THEN inflight \cup {deferred} ELSE inflight

\* Mutant: the event is recorded before ncclGroupEnd.
RecordedBefore(c) == inflight

\* The kernels the event of a group is recorded after.
RecordedAfter(c) == Launched(c)

end_group(c) ==
    LET g == m_group_info[c] IN
    /\ MayUse(c) /\ g # None
    /\ inflight' = Launched(c)
    /\ deferred' = IF Active = {c} THEN {} ELSE deferred
    /\ IF g.last # None THEN Record(g.event, g.last, RecordedAfter(c))
                        ELSE UNCHANGED <<m_recorded, waits>>
    /\ m_group_info' = [m_group_info EXCEPT ![c] = None]
    /\ Release(g.event, c)
    /\ UNCHANGED <<groups, fresh, done, states, queues, stack>>

\* Mutant: the operation is not counted.
CountNot == scheduled

\* The constructor of the request state counts the operation.
Counted == scheduled + 1

\* send, recv and shared_recv with a callback: the operation joins the group the
\* thread is in (of whichever communicator) or is launched, and its event is
\* the group's, or one of its own that is recorded at once.
post(r) ==
    LET c == PostedOn[r]
        g == m_group_info[c]
        e == IF g # None THEN g.event ELSE Popped
    IN
    /\ MayUse(c) /\ r \notin posted
    /\ r \in ToSelf => g # None
    /\ IF Active # {}
       THEN deferred' = deferred \cup {r} /\ UNCHANGED inflight
       ELSE inflight' = inflight \cup {{r}} /\ UNCHANGED deferred
    /\ IF g # None
       THEN /\ m_group_info' = [m_group_info EXCEPT ![c].last = StreamOf[r]]
            /\ UNCHANGED events
       ELSE /\ Pop
            /\ Record(e, StreamOf[r], inflight')
            /\ UNCHANGED m_group_info
    /\ posted' = posted \cup {r}
    /\ m_self_ptr' = m_self_ptr \cup {r}
    /\ handle' = handle \cup {r}
    /\ m_event' = [m_event EXCEPT ![r] = e]
    /\ scheduled' = Counted
    /\ IF r \in SharedRecvs
       THEN m_req_queue' = Append(m_req_queue, r) /\ UNCHANGED queue
       ELSE queue' = [queue EXCEPT ![c][QueueOf(r)] = Append(@, r)] /\ UNCHANGED m_req_queue
    /\ UNCHANGED <<groups, done, m_ready, in_progress, stack>>

\* The user's request object goes; the state goes with it once it has no self reference.
Drop(r) ==
    /\ UserTurn /\ r \in handle
    /\ handle' = handle \ {r}
    /\ IF r \in m_self_ptr THEN UNCHANGED pool ELSE Release(m_event[r], r)
    /\ UNCHANGED <<m_group_info, groups, m_recorded, waits, fresh, device, posted, m_self_ptr,
                   m_ready, m_event, scheduled, queues, stack>>

----------------------------------------------------------------------------
(* Progress.  The frame of a call of progress: whether it is about to look *)
(* or has found what is ready, the communicator, the queue it is at, and   *)
(* the requests it has found and not yet called.                           *)

ProgressFrame(c, q) == [f |-> "look", c |-> c, q |-> q, left |-> <<>>]

Enter(frame) ==
    /\ stack' = <<frame>> \o stack
    /\ UNCHANGED <<m_group_info, groups, events, device, states, queues>>

progress(c) == MayUse(c) /\ m_group_info[c] = None /\ Enter(ProgressFrame(c, "send"))

\* test and wait of a shared receive: context_impl::progress, which unlike
\* communicator_impl::progress does not throw while a group is active; that no
\* program calls it then is part of the discipline.
ContextProgress ==
    UserTurn /\ (Disciplined => Active = {}) /\ SharedRecvs # {} /\ Enter(ProgressFrame(None, "shared"))

AtLook(queues_) == stack # <<>> /\ Head(stack).f = "look" /\ Head(stack).q \in queues_

\* The frame goes to its next queue.
Advance ==
    LET p == Head(stack) IN
    stack' = CASE p.q = "send" -> <<ProgressFrame(p.c, "recv")>> \o Tail(stack)
               [] p.q = "recv" -> <<ProgressFrame(p.c, "shared")>> \o Tail(stack)
               [] OTHER -> Tail(stack)

\* The elements of s that are in S, in the order of s.
Only(s, S) ==
    LET F[i \in 0..Len(s)] ==
            IF i = 0 THEN <<>> ELSE IF s[i] \in S THEN Append(F[i - 1], s[i]) ELSE F[i - 1]
    IN  F[Len(s)]

\* What progress puts into m_ready_queue, and what it leaves in m_queue.
Ready(s) == Only(s, {r \in Range(s) : is_ready(m_event[r])})
NotReady(s) == Only(s, {r \in Range(s) : ~is_ready(m_event[r])})

\* request_queue::progress up to the callbacks.
Look ==
    LET p == Head(stack)
        s == queue[p.c][p.q]
    IN
    /\ AtLook({"send", "recv"})
    /\ IF <<p.c, p.q>> \in in_progress \/ s = <<>>
       THEN Advance /\ UNCHANGED <<queue, in_progress>>
       ELSE /\ queue' = [queue EXCEPT ![p.c][p.q] = NotReady(s)]
            /\ in_progress' = in_progress \cup {<<p.c, p.q>>}
            /\ stack' = <<[p EXCEPT !.f = "found", !.left = Ready(s)]>> \o Tail(stack)
    /\ UNCHANGED <<m_group_info, groups, events, device, states, m_req_queue>>

\* shared_request_queue::progress: the first ready request; those before it go
\* to the end of the queue.
LookShared ==
    LET s == m_req_queue
        ready == {k \in DOMAIN s : is_ready(m_event[s[k]])}
        k == CHOOSE i \in ready : \A j \in ready : i <= j
    IN
    /\ AtLook({"shared"})
    /\ IF ready = {}
       THEN Advance /\ UNCHANGED m_req_queue
       ELSE /\ m_req_queue' = SubSeq(s, k + 1, Len(s)) \o SubSeq(s, 1, k - 1)
            /\ stack' = <<[Head(stack) EXCEPT !.f = "found", !.left = <<s[k]>>]>> \o Tail(stack)
    /\ UNCHANGED <<m_group_info, groups, events, device, states, queue, in_progress>>

Found == stack # <<>> /\ Head(stack).f = "found"

\* release_self_ref, into a local that lives as long as the callback.
Call ==
    LET p == Head(stack)
        r == Head(p.left)
    IN
    /\ Found /\ p.left # <<>>
    /\ stack' = <<[f |-> "callback", r |-> r],
                  [p EXCEPT !.left = Tail(@)]>> \o Tail(stack)
    /\ UNCHANGED <<m_group_info, groups, events, device, states, queues>>

\* The callback returns into invoke_cb; then the local reference goes.
CallbackReturn ==
    LET r == Head(stack).r IN
    /\ stack # <<>> /\ Head(stack).f = "callback"
    /\ Disciplined => Active = {}
    /\ m_ready' = m_ready \cup {r}
    /\ scheduled' = scheduled - 1
    /\ m_self_ptr' = m_self_ptr \ {r}
    /\ IF r \in handle THEN UNCHANGED pool ELSE Release(m_event[r], r)
    /\ stack' = Tail(stack)
    /\ UNCHANGED <<m_group_info, groups, m_recorded, waits, fresh, device, posted, handle,
                   m_event, queues>>

\* Mutant: a queue is left marked in_progress.
StaysInProgress(p) == in_progress

EndsProgress(p) == in_progress \ {<<p.c, p.q>>}

QueueDone ==
    /\ Found /\ Head(stack).left = <<>>
    /\ in_progress' = EndsProgress(Head(stack))
    /\ Advance
    /\ UNCHANGED <<m_group_info, groups, events, device, states, queue, m_req_queue>>

\* The device finishes a kernel.
KernelDone ==
    /\ \E k \in inflight : inflight' = inflight \ {k} /\ done' = done \cup k
    /\ UNCHANGED <<m_group_info, groups, events, deferred, states, queues, stack>>

----------------------------------------------------------------------------

Library == Look \/ LookShared \/ Call \/ QueueDone

TopProgress(c) == stack = <<>> /\ progress(c)

Next ==
    \/ \E c \in Comms : start_group(c) \/ end_group(c) \/ progress(c)
    \/ \E r \in Requests : post(r) \/ Drop(r)
    \/ ContextProgress \/ Library \/ CallbackReturn \/ KernelDone

\* Calls and callbacks return, the device works, groups are ended, and every
\* communicator is progressed again and again.
Fairness ==
    /\ WF_vars(Library) /\ SF_vars(CallbackReturn) /\ WF_vars(KernelDone)
    /\ \A c \in Comms : WF_vars(end_group(c)) /\ SF_vars(TopProgress(c))

Spec == Init /\ [][Next]_vars /\ Fairness

----------------------------------------------------------------------------

TypeOK ==
    /\ groups \in 0..MaxGroups
    /\ scheduled \in Int
    /\ m_recorded \in [Events -> BOOLEAN]
    /\ \A e \in Events : waits[e] \subseteq Requests
    /\ m_event \in [Requests -> Events \cup {None}]
    /\ posted \subseteq Requests /\ m_ready \subseteq posted /\ handle \subseteq posted

Called == m_ready \cup {stack[i].r : i \in {j \in DOMAIN stack : stack[j].f = "callback"}}

\* A callback runs, and its request becomes ready, only after the device has
\* completed the operation (README.md: "invoked once the operation completes"),
\* although the event of a group is handed out before it is recorded, and an
\* event of the pool carries the record of its last use.
NotReadyEarly == Called \subseteq done

\* An event in the pool is there once, and neither a request state nor an
\* active group has it (cached_cuda_event, group_cuda_event).  The state is of
\* its type.
EventsExclusive ==
    /\ TypeOK
    /\ IsInjective(pool)
    /\ \A e \in Range(pool) \cup fresh : Owners(e) = {}

\* How far request r is, in the terms of RequestLifecycle.
status == [r \in Requests |->
              CASE r \in m_ready -> "ready"
                [] r \in Called \ m_ready -> "callback"
                [] r \in posted \ Called -> "scheduled"
                [] OTHER -> "none"]

Lifecycle == INSTANCE RequestLifecycle WITH counted <- scheduled

\* Sends and receives of this backend behave as RequestLifecycle says: every
\* callback runs once, and the counters are exact.
ImplementsLifecycle == Lifecycle!Spec

\* A request that was posted, alone or in a group, becomes ready, whatever
\* groups, nested calls of progress and recycled events come between.
PostedCompletes == \A r \in Requests : r \in posted ~> r \in m_ready
=============================================================================
