------------------------ MODULE LibfabricController ------------------------
(***************************************************************************)
(* The libfabric controller: the process-wide singleton that opens the     *)
(* fabric, creates the endpoints of the configured endpoint type, exchanges *)
(* their addresses over MPI, hands a transmit endpoint to every thread and  *)
(* closes everything at process exit (controller_base.hpp, controller.hpp), *)
(* together with the contexts that share it (context.cpp) and the memory    *)
(* they register (memory_region.hpp).                                      *)
(*                                                                         *)
(* A process is a sequence of calls of its main thread; its threads create *)
(* communicators and end.  fi_close refuses an object that an open object  *)
(* refers to (EBUSY), which ends the process: fabric_error calls           *)
(* std::terminate.                                                         *)
(***************************************************************************)
EXTENDS Integers, Sequences, Functions

CONSTANTS
    Procs,          \* the processes
    Contexts,       \* the contexts the program creates, on every member
    Order,          \* the contexts in the order of their creation
    CommOf,         \* [Contexts -> Seq(Procs)]: the MPI communicator, by rank
    This,           \* [Procs -> [Contexts -> Nat]]: the address `new` gives them
    Tags,           \* user tags
    Threads,        \* the threads, the main thread of a process included
    ProcOf,         \* [Threads -> Procs]
    Regions,        \* memory segments
    HeapOf,         \* [Regions -> Procs]: the process whose heap asks for one
    EndpointTypes,  \* values of LIBFABRIC_ENDPOINT_TYPE
    TxContexts,     \* min(tx_ctx_cnt, physical_concurrency())
    MrBind,         \* the provider has FI_MR_ENDPOINT
    None

\* libfabric objects: pairs of a kind and a number, or the segment of a region.
Objects ==
    {"fabric", "domain", "av", "ep_rx", "rx_cq", "dummy_cq", "ep_tx", "ep_tx_cq", "ep_sx"} \X {0}
    \cup {"stx", "tl", "tx_cq"} \X (Nat \ {0})
    \cup {"mr"} \X Regions

\* Every context is created once; the ranks of a communicator, of which there is
\* at least one, are different processes; an address is not None.
ASSUME ControllerAssumption ==
    /\ Order \in Seq(Contexts) /\ IsInjective(Order)
    /\ CommOf \in [Contexts -> Seq(Procs)]
    /\ \A c \in Contexts : CommOf[c] # <<>> /\ IsInjective(CommOf[c])
    /\ \A p \in Procs, c \in Contexts : This[p][c] # None
    /\ ProcOf \in [Threads -> Procs] /\ HeapOf \in [Regions -> Procs]
    /\ EndpointTypes \subseteq {"single", "multiple", "threadlocalTx", "scalableTx"}
    /\ TxContexts \in Nat /\ MrBind \in BOOLEAN
    /\ None \notin Nat \cup Contexts \cup Objects

\* Addresses and tags are numbers.
ASSUME NumbersAssumption ==
    Tags \subseteq Nat /\ \A p \in Procs, c \in Contexts : This[p][c] \in Nat

VARIABLES
    endpoint_type,  \* endpoint_type_, the same in every process
    pc,             \* [Procs -> where the main thread is]
    ctx,            \* [Procs -> context being created]
    made,           \* [Procs -> number of contexts of Order passed]
    live,           \* [Procs -> contexts created and not destroyed]
    m_ctxt_tag,     \* [Procs -> [Contexts -> address or None]]
    localities,     \* [Procs -> sequence of the addresses known]
    peer,           \* [Procs -> rank the root sends to or receives from]
    net,            \* messages in transit, [from, to, data]
    av,             \* [Procs -> the address vector]
    open,           \* [Procs -> open libfabric objects]
    tx_endpoints,   \* [Procs -> tx_endpoints_, a queue of transmit contexts]
    status,         \* [Threads -> "new" | "running" | "exited"]
    tl,             \* [Threads -> thread_local transmit context, or None]
    m_tx_endpoint,  \* [Threads -> transmit endpoint its communicator copied]
    segment         \* [Regions -> context whose heap registered it, or None]

setup == <<endpoint_type, pc, ctx, made, live, m_ctxt_tag>>
exchange == <<localities, peer, net, av>>
objects == <<open, tx_endpoints>>
threads == <<status, tl, m_tx_endpoint>>
vars == <<setup, exchange, objects, threads, segment>>

Scalable == endpoint_type = "scalableTx"

Member(p, c) == p \in Range(CommOf[c])

Root(c) == CommOf[c][1]

\* MPI_Comm_size, which exchange_addresses asks for.
Size(c) == Len(CommOf[c])

\* The endpoint address that fi_getname returns after fi_enable.
Here(p) == <<"address of", p>>

\* What is left of a number & 0xFFFFFF.
Low24(n) == n % 16777216

\* make_tag64: the upper and the lower 24 bits of the wire tag.
make_tag64(tag, addr) == <<Low24(addr), Low24(tag)>>

----------------------------------------------------------------------------
(* libfabric objects.                                                      *)

\* fi_endpoint, under controller_mutex_.
new_endpoint_active(kind, i) == <<kind, i>>

create_completion_queue(kind, i) == <<kind, i>>

\* fi_scalable_ep: the endpoint that the transmit contexts belong to.
new_endpoint_scalable == <<"ep_sx", 0>>

fi_register_memory(r) == <<"mr", r>>

\* The endpoint for receives, shared by the threads; the receive contexts that
\* scalableTxRx would pop here are never created.
get_rx_endpoint == <<"ep_rx", 0>>

\* What make_region binds a region to: the endpoint, if the provider wants it.
RegionBound == IF MrBind THEN {get_rx_endpoint} ELSE {}

\* What the controller binds: endpoints to the address vector (fi_ep_bind,
\* fi_scalable_ep_bind) and to their completion queues, regions to the endpoint.
Binds(o, q) ==
    \/ q = <<"av", 0>> /\ o[1] \in {"ep_rx", "ep_tx", "ep_sx", "tl"}
    \/ q[1] \in {"rx_cq", "dummy_cq"} /\ o[1] = "ep_rx"
    \/ q[1] = "ep_tx_cq" /\ o[1] = "ep_tx"
    \/ q[1] = "tx_cq" /\ o[1] \in {"tl", "stx"} /\ o[2] = q[2]
    \/ o[1] = "mr" /\ q \in RegionBound

\* What keeps an object from being closed (libfabric): o refers to q.
Refers(o, q) ==
    \/ q = <<"fabric", 0>> /\ o = <<"domain", 0>>
    \/ q = <<"domain", 0>> /\ o \notin {<<"fabric", 0>>, <<"domain", 0>>}
    \/ q = new_endpoint_scalable /\ o[1] = "stx"
    \/ Binds(o, q)

\* fi_close of each object of a sequence in turn: does one of them find an open
\* object that refers to it?
Busy(p, closed) ==
    \E k \in DOMAIN closed :
        \E o \in open[p] \ {closed[j] : j \in 1..(k - 1)} : Refers(o, closed[k])

\* An endpoint_wrapper of a thread: its transmit context or its endpoint, and its
\* completion queue.
Wrapper(i) ==
    <<IF Scalable THEN <<"stx", i>> ELSE new_endpoint_active("tl", i),
      create_completion_queue("tx_cq", i)>>

\* endpoint_wrapper::cleanup of ep_tx_: the separate or the scalable endpoint.
CleanupTx ==
    CASE endpoint_type = "multiple" -> <<new_endpoint_active("ep_tx", 0),
                                         create_completion_queue("ep_tx_cq", 0)>>
      [] Scalable -> <<new_endpoint_scalable>>
      [] OTHER -> <<>>

\* endpoint_wrapper::cleanup of ep_rx_: endpoint, receive queue, send queue
\* (for the single endpoint the send queue, for the others a dummy).
CleanupRx == <<get_rx_endpoint, <<"rx_cq", 0>>, <<"dummy_cq", 0>>>>

\* The wrappers that are left in tx_endpoints_, each its endpoint and its queue.
CleanupPool(p) ==
    [k \in 1..(2 * Len(tx_endpoints[p])) |->
        Wrapper(tx_endpoints[p][(k + 1) \div 2])[IF k % 2 = 1 THEN 1 ELSE 2]]

\* Mutant: the shared endpoints go before the ones the pool holds.
SharedFirst(p) ==
    CleanupTx \o CleanupRx \o CleanupPool(p)
    \o <<<<"av", 0>>, <<"domain", 0>>, <<"fabric", 0>>>>

\* ~controller_base: the order of the fi_close calls.
CloseOrder(p) ==
    CleanupPool(p) \o CleanupTx \o CleanupRx
    \o <<<<"av", 0>>, <<"domain", 0>>, <<"fabric", 0>>>>

open_fabric == {<<"fabric", 0>>, <<"domain", 0>>}

create_address_vector == {<<"av", 0>>}

create_rx_endpoint == {new_endpoint_active("ep_rx", 0), create_completion_queue("rx_cq", 0)}

\* The send queue of the receive endpoint, a dummy unless the type is single.
bind_tx_queue_to_rx_endpoint == {create_completion_queue("dummy_cq", 0)}

\* What initialize creates, before the addresses are exchanged.
Opened ==
    open_fabric \cup create_address_vector \cup create_rx_endpoint
    \cup bind_tx_queue_to_rx_endpoint \cup Range(CleanupTx)
    \cup IF Scalable THEN UNION {Range(Wrapper(i)) : i \in 1..TxContexts} ELSE {}

Init ==
    /\ endpoint_type \in EndpointTypes
    /\ pc = [p \in Procs |-> "main"]
    /\ ctx = [p \in Procs |-> None]
    /\ made = [p \in Procs |-> 0]
    /\ live = [p \in Procs |-> {}]
    /\ m_ctxt_tag = [p \in Procs |-> [c \in Contexts |-> None]]
    /\ localities = [p \in Procs |-> <<>>]
    /\ peer = [p \in Procs |-> 0]
    /\ net = {}
    /\ av = [p \in Procs |-> <<>>]
    /\ open = [p \in Procs |-> {}]
    /\ tx_endpoints = [p \in Procs |-> <<>>]
    /\ status = [t \in Threads |-> "new"]
    /\ tl = [t \in Threads |-> None]
    /\ m_tx_endpoint = [t \in Threads |-> None]
    /\ segment = [r \in Regions |-> None]

Running(p) == {t \in Threads : ProcOf[t] = p /\ status[t] = "running"}

Goto(p, l) == pc' = [pc EXCEPT ![p] = l]

----------------------------------------------------------------------------
(* Creating a context: a collective call of its communicator's processes,  *)
(* made in a serial part of the program.                                   *)

NewContext(p) ==
    /\ pc[p] = "main"
    /\ Running(p) = {}
    /\ made[p] < Len(Order)
    /\ LET c == Order[made[p] + 1] IN
        /\ made' = [made EXCEPT ![p] = @ + 1]
        /\ IF Member(p, c)
           THEN /\ ctx' = [ctx EXCEPT ![p] = c]
                /\ m_ctxt_tag' = [m_ctxt_tag EXCEPT ![p][c] = This[p][c]]
                /\ Goto(p, "bcast")
           ELSE UNCHANGED <<ctx, m_ctxt_tag, pc>>
    /\ UNCHANGED <<endpoint_type, live, exchange, objects, threads, segment>>

\* Mutant: the context keeps its own address as its tag.
OwnAddress(p, c) == m_ctxt_tag[p][c]

\* The value MPI_Bcast from rank 0 leaves in m_ctxt_tag.
BcastTag(p, c) == m_ctxt_tag[Root(c)][c]

\* MPI_Bcast returns, on the root whenever it likes, elsewhere once the root
\* has made the call.
Bcast(p) ==
    /\ pc[p] = "bcast"
    /\ m_ctxt_tag[Root(ctx[p])][ctx[p]] # None
    /\ m_ctxt_tag' = [m_ctxt_tag EXCEPT ![p][ctx[p]] = BcastTag(p, ctx[p])]
    /\ Goto(p, "init")
    /\ UNCHANGED <<endpoint_type, ctx, made, live, exchange, objects, threads, segment>>

\* init_libfabric_controller finds the instance.
ReuseController(p) ==
    /\ pc[p] = "init" /\ open[p] # {}
    /\ live' = [live EXCEPT ![p] = @ \cup {ctx[p]}]
    /\ Goto(p, "main")
    /\ UNCHANGED <<endpoint_type, ctx, made, m_ctxt_tag, exchange, objects, threads, segment>>

\* Mutant: the loops over the other ranks include rank 0.
FirstPeerSelf == 1

\* The first rank after rank 0.
FirstPeer == 2

\* controller_base::initialize, up to the exchange of the addresses, whose
\* first step is the MPI_Send of a process that is not rank 0.
Initialize(p) ==
    /\ pc[p] = "init" /\ open[p] = {}
    /\ open' = [open EXCEPT ![p] = Opened]
    /\ tx_endpoints' = [tx_endpoints EXCEPT
                            ![p] = IF Scalable THEN [i \in 1..TxContexts |-> i] ELSE <<>>]
    /\ IF p = Root(ctx[p])
       THEN /\ localities' = [localities EXCEPT ![p] = <<Here(p)>>]
            /\ peer' = [peer EXCEPT ![p] = FirstPeer]
            /\ Goto(p, "gather")
            /\ UNCHANGED net
       ELSE /\ net' = net \cup {[from |-> p, to |-> Root(ctx[p]), data |-> <<Here(p)>>]}
            /\ Goto(p, "sending")
            /\ UNCHANGED <<localities, peer>>
    /\ UNCHANGED <<endpoint_type, ctx, made, live, m_ctxt_tag, av, threads, segment>>

----------------------------------------------------------------------------
(* MPI_exchange_localities.                                                *)

\* MPI_Send returns: at once if MPI buffers the message, else when it has
\* been received.
SendReturns(p) ==
    /\ pc[p] = "sending"
    /\ Goto(p, "receiving")
    /\ UNCHANGED <<endpoint_type, ctx, made, live, m_ctxt_tag, exchange, objects, threads, segment>>

\* Mutant: the root takes the addresses in the order they arrive.
FromAnyone(p, m) == m.to = p

\* The message that the root's MPI_Recv for rank peer matches.
FromPeer(p, m) == m.to = p /\ m.from = CommOf[ctx[p]][peer[p]]

Gather(p) ==
    /\ pc[p] = "gather"
    /\ IF peer[p] <= Size(ctx[p])
       THEN \E m \in net :
            /\ FromPeer(p, m)
            /\ net' = net \ {m}
            /\ localities' = [localities EXCEPT ![p] = @ \o m.data]
            /\ peer' = [peer EXCEPT ![p] = @ + 1]
            /\ UNCHANGED pc
       ELSE /\ peer' = [peer EXCEPT ![p] = FirstPeer]
            /\ Goto(p, "scatter")
            /\ UNCHANGED <<localities, net>>
    /\ UNCHANGED <<endpoint_type, ctx, made, live, m_ctxt_tag, av, objects, threads, segment>>

\* The root's MPI_Send to rank peer starts.
Scatter(p) ==
    /\ pc[p] = "scatter"
    /\ IF peer[p] <= Size(ctx[p])
       THEN /\ net' = net \cup {[from |-> p, to |-> CommOf[ctx[p]][peer[p]],
                                 data |-> localities[p]]}
            /\ Goto(p, "scattering")
       ELSE Goto(p, "insert") /\ UNCHANGED net
    /\ UNCHANGED <<endpoint_type, ctx, made, live, m_ctxt_tag, localities, peer, av,
                   objects, threads, segment>>

\* ... and returns, as SendReturns.
ScatterReturns(p) ==
    /\ pc[p] = "scattering"
    /\ peer' = [peer EXCEPT ![p] = @ + 1]
    /\ Goto(p, "scatter")
    /\ UNCHANGED <<endpoint_type, ctx, made, live, m_ctxt_tag, localities, net, av,
                   objects, threads, segment>>

ReceiveAll(p) ==
    /\ pc[p] = "receiving"
    /\ \E m \in net :
        /\ m.to = p /\ m.from = Root(ctx[p])
        /\ net' = net \ {m}
        /\ localities' = [localities EXCEPT ![p] = m.data]
    /\ Goto(p, "insert")
    /\ UNCHANGED <<endpoint_type, ctx, made, live, m_ctxt_tag, peer, av, objects, threads, segment>>

\* fi_av_insert of one address after the other, which numbers them from 0.
insert_address(table, addresses) == table \o addresses

Insert(p) ==
    /\ pc[p] = "insert"
    /\ av' = [av EXCEPT ![p] = insert_address(@, localities[p])]
    /\ live' = [live EXCEPT ![p] = @ \cup {ctx[p]}]
    /\ Goto(p, "main")
    /\ UNCHANGED <<endpoint_type, ctx, made, m_ctxt_tag, localities, peer, net, objects,
                   threads, segment>>

----------------------------------------------------------------------------
(* Threads, communicators, memory.                                         *)

StartThread(t) ==
    /\ status[t] = "new"
    /\ pc[ProcOf[t]] = "main"
    /\ live[ProcOf[t]] # {}
    /\ status' = [status EXCEPT ![t] = "running"]
    /\ UNCHANGED <<setup, exchange, objects, tl, m_tx_endpoint, segment>>

\* get_tx_endpoint: the shared endpoint ...
SharedTx(t) ==
    /\ endpoint_type \in {"single", "multiple"}
    /\ m_tx_endpoint' = [m_tx_endpoint EXCEPT
            ![t] = IF endpoint_type = "single" THEN get_rx_endpoint ELSE Head(CleanupTx)]
    /\ UNCHANGED <<open, tx_endpoints, tl>>

\* ... or the thread's own, which its first call creates ...
ThreadlocalTx(t) ==
    LET p == ProcOf[t]
        new == Len(tx_endpoints[p]) + 1
    IN
    /\ endpoint_type = "threadlocalTx"
    /\ open' = [open EXCEPT ![p] = @ \cup Range(Wrapper(new))]
    /\ tx_endpoints' = [tx_endpoints EXCEPT ![p] = Append(@, new)]
    /\ tl' = [tl EXCEPT ![t] = new]
    /\ m_tx_endpoint' = [m_tx_endpoint EXCEPT ![t] = Head(Wrapper(new))]

\* ... or pops from the pool; an empty pool throws, and the caller has neither
\* a communicator nor an endpoint.
ScalableTx(t) ==
    LET p == ProcOf[t] IN
    /\ Scalable /\ tx_endpoints[p] # <<>>
    /\ tl' = [tl EXCEPT ![t] = Head(tx_endpoints[p])]
    /\ m_tx_endpoint' = [m_tx_endpoint EXCEPT ![t] = Head(Wrapper(Head(tx_endpoints[p])))]
    /\ tx_endpoints' = [tx_endpoints EXCEPT ![p] = Tail(@)]
    /\ UNCHANGED open

\* The communicator constructor copies what get_tx_endpoint returns.
GetCommunicator(t) ==
    /\ status[t] = "running" /\ m_tx_endpoint[t] = None /\ live[ProcOf[t]] # {}
    /\ SharedTx(t) \/ ThreadlocalTx(t) \/ ScalableTx(t)
    /\ UNCHANGED <<setup, exchange, status, segment>>

\* Mutant: the temporary stack_endpoint keeps its pool pointer when it is moved
\* from, or the pool pointer is not tested: every wrapper is pushed.
PushAlways(t) == tl[t] # None

\* The wrapper goes back if the thread_local has a pool: tl_stx_ has, tl_tx_ has not.
PushesBack(t) == tl[t] # None /\ Scalable

\* The thread ends: ~stack_endpoint of its thread_locals.  The communicator it
\* used is not used again (it must not be by another thread).
ExitThread(t) ==
    LET p == ProcOf[t] IN
    /\ status[t] = "running"
    /\ status' = [status EXCEPT ![t] = "exited"]
    /\ tx_endpoints' = [tx_endpoints EXCEPT ![p] = IF PushesBack(t) THEN Append(@, tl[t]) ELSE @]
    /\ tl' = [tl EXCEPT ![t] = None]
    /\ m_tx_endpoint' = [m_tx_endpoint EXCEPT ![t] = None]
    /\ UNCHANGED <<setup, exchange, open, segment>>

\* make_region: the heap of a context registers a memory_segment.
MakeRegion(r) ==
    LET p == HeapOf[r] IN
    /\ segment[r] = None
    /\ \E c \in live[p] : segment' = [segment EXCEPT ![r] = c]
    /\ open' = [open EXCEPT ![p] = @ \cup {fi_register_memory(r)}]
    /\ UNCHANGED <<setup, exchange, tx_endpoints, threads>>

\* ~memory_segment deregisters.
FreeRegion(r) ==
    /\ segment[r] # None
    /\ segment' = [segment EXCEPT ![r] = None]
    /\ open' = [open EXCEPT ![HeapOf[r]] = @ \ {fi_register_memory(r)}]
    /\ UNCHANGED <<setup, exchange, tx_endpoints, threads>>

----------------------------------------------------------------------------
(* The end of a context, and of the process.                               *)

HeapRegions(p, c) == {r \in Regions : HeapOf[r] = p /\ segment[r] = c}

\* ~context_impl: m_controller's reference is dropped, which leaves the one of the
\* static instance, then the heap's segments are deregistered.
DestroyContext(p) ==
    /\ pc[p] = "main" /\ Running(p) = {}
    /\ \E c \in live[p] :
        /\ live' = [live EXCEPT ![p] = @ \ {c}]
        /\ segment' = [r \in Regions |-> IF r \in HeapRegions(p, c) THEN None ELSE segment[r]]
        /\ open' = [open EXCEPT ![p] = @ \ {fi_register_memory(r) : r \in HeapRegions(p, c)}]
    /\ UNCHANGED <<endpoint_type, pc, ctx, made, m_ctxt_tag, exchange, tx_endpoints, threads>>

\* ~controller_base: fidclose of every object in order; EBUSY terminates.
Close(p) ==
    IF Busy(p, CloseOrder(p))
    THEN Goto(p, "terminated") /\ UNCHANGED open
    ELSE Goto(p, "done") /\ open' = [open EXCEPT ![p] = @ \ Range(CloseOrder(p))]

\* The main thread has ended like any other; the static instance is destroyed.
ExitProcess(p) ==
    /\ pc[p] = "main" /\ made[p] = Len(Order) /\ live[p] = {}
    /\ \A t \in Threads : ProcOf[t] = p => status[t] = "exited"
    /\ Close(p)
    /\ UNCHANGED <<endpoint_type, ctx, made, live, m_ctxt_tag, exchange, tx_endpoints, threads,
                   segment>>

----------------------------------------------------------------------------

Creating(p) ==
    \/ Bcast(p) \/ ReuseController(p) \/ Initialize(p) \/ Gather(p) \/ Scatter(p)
    \/ ReceiveAll(p) \/ Insert(p)

Next ==
    \/ \E p \in Procs : \/ NewContext(p) \/ Creating(p) \/ SendReturns(p) \/ ScatterReturns(p)
                        \/ DestroyContext(p) \/ ExitProcess(p)
    \/ \E t \in Threads : StartThread(t) \/ GetCommunicator(t) \/ ExitThread(t)
    \/ \E r \in Regions : MakeRegion(r) \/ FreeRegion(r)

\* The constructor of a context runs on; a send in it returns for certain only
\* once it has been received.
Received(p, q) == \A m \in net : ~(m.from = p /\ m.to = q)

Continues(p) ==
    \/ Creating(p)
    \/ SendReturns(p) /\ Received(p, Root(ctx[p]))
    \/ ScatterReturns(p) /\ Received(p, CommOf[ctx[p]][peer[p]])

Fairness == \A p \in Procs : WF_vars(Continues(p))

Spec == Init /\ [][Next]_vars /\ Fairness

----------------------------------------------------------------------------

Labels ==
    {"main", "bcast", "init", "sending", "receiving", "gather", "scatter", "scattering", "insert",
     "done", "terminated"}

Located == {Here(p) : p \in Procs}

Message == [from : Procs, to : Procs, data : Seq(Located)]

CtxtTag == {This[p][c] : p \in Procs, c \in Contexts} \cup {None}

TypeOK ==
    /\ endpoint_type \in EndpointTypes
    /\ pc \in [Procs -> Labels]
    /\ ctx \in [Procs -> Contexts \cup {None}]
    /\ made \in [Procs -> 0..Len(Order)]
    /\ live \in [Procs -> SUBSET Contexts]
    /\ m_ctxt_tag \in [Procs -> [Contexts -> CtxtTag]]
    /\ localities \in [Procs -> Seq(Located)]
    /\ peer \in [Procs -> Nat]
    /\ net \subseteq Message
    /\ av \in [Procs -> Seq(Located)]
    /\ open \in [Procs -> SUBSET Objects]
    /\ tx_endpoints \in [Procs -> Seq(Nat \ {0})]
    /\ status \in [Threads -> {"new", "running", "exited"}]
    /\ tl \in [Threads -> (Nat \ {0}) \cup {None}]
    /\ m_tx_endpoint \in [Threads -> Objects \cup {None}]
    /\ segment \in [Regions -> Contexts \cup {None}]

\* A communicator addresses rank r of its context as fi_addr r-1 (send and recv
\* in communicator.hpp pass fi_addr_t(dst)): the address vector of the shared
\* controller has the endpoint of that rank there, in every live context.
AddressedRight ==
    \A p \in Procs : \A c \in live[p] : \A r \in 1..Size(c) :
        r <= Len(av[p]) /\ av[p][r] = Here(CommOf[c][r])

\* The wire tags that make_tag64 makes on two processes match if and only if the
\* context objects of the two roots are a multiple of 2^24 bytes apart and so
\* are the tags.  All ranks of a context agree, then; contexts less than 16 MiB
\* apart are told apart; and tags are told apart if they are below 2^24, which
\* is less than the 32 bits that num_tag_bits and the comment of make_tag64 say.
TagsMatch ==
    \A p, q \in Procs : \A c \in live[p], d \in live[q] : \A t, u \in Tags :
        make_tag64(t, m_ctxt_tag[p][c]) = make_tag64(u, m_ctxt_tag[q][d]) <=>
            Low24(This[Root(c)][c] - This[Root(d)][d]) = 0 /\ Low24(t - u) = 0

\* A transmit context is in one place: once in the pool, or with the one
\* running thread that popped it; no two threads that run send on the same one
\* (get_tx_endpoint and ~stack_endpoint).  With threadlocalTx the pool lists
\* every endpoint once, for the destructor.  The state is of its type.
TxContextsConserved ==
    TypeOK /\ \A p \in Procs :
        LET pool == Range(tx_endpoints[p])
            held == {t \in Threads : ProcOf[t] = p /\ tl[t] # None}
        IN /\ IsInjective(tx_endpoints[p])
           /\ \A t, u \in held : m_tx_endpoint[t] = m_tx_endpoint[u] => t = u
           /\ Scalable /\ open[p] # {} /\ pc[p] \notin {"done", "terminated"} =>
                /\ pool \cap {tl[t] : t \in held} = {}
                /\ pool \cup {tl[t] : t \in held} = 1..TxContexts

\* ~controller_base closes every object after all that refer to it: no fi_close
\* finds an object busy, which would terminate the process, and nothing is left
\* open at the end ("we must be careful to delete them all before closing
\* resources that use them").
ClosesCleanly ==
    \A p \in Procs : pc[p] # "terminated" /\ (pc[p] = "done" => open[p] = {})

\* When every process of a context has called its constructor, every one of
\* them returns from it, whether or not MPI buffers the sends of
\* MPI_exchange_localities.
ContextsAreMade ==
    \A c \in Contexts :
        (\A p \in Range(CommOf[c]) : m_ctxt_tag[p][c] # None)
            ~> (\A p \in Range(CommOf[c]) :
                    ctx[p] = c => pc[p] \in {"main", "done", "terminated"})
=============================================================================
