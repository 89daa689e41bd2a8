---------------------------- MODULE UcxEndpoints ----------------------------
(***************************************************************************)
(* The connections of the UCX backend, from the construction of a context  *)
(* to its destruction on every rank: the exchange of the addresses of the  *)
(* receive workers (src/ucx/address_db_mpi.hpp, or address_db_pmi.hpp and  *)
(* pmi.hpp), the endpoints each communicator's send worker opens on its    *)
(* first message to a rank (src/ucx/worker.hpp), their closing when the    *)
(* communicator is destroyed (src/ucx/endpoint.hpp), and the destructor of *)
(* the context, which waits for the closing endpoints and meets the other  *)
(* ranks three times (src/ucx/context.cpp).                                *)
(*                                                                         *)
(* An endpoint is a triple <<rank, communicator, destination>>; the        *)
(* address of a rank's receive worker is the rank.  UCX is external: a     *)
(* closing endpoint may need its peer's receive worker to be progressed    *)
(* ("wire"), then needs its own send worker to be ("acked"), and is then   *)
(* "closed".                                                               *)
(***************************************************************************)
EXTENDS Naturals, FiniteSets

CONSTANTS Ranks,      \* 0 .. size - 1
          Comms,      \* the communicators of a rank, each with a send worker
          Routes,     \* the endpoints the program may use
          PmiRank     \* the PMIx rank of each MPI rank

Size == Cardinality(Ranks)

ASSUME RanksAssumption == IsFiniteSet(Ranks) /\ Ranks = 0 .. (Size - 1)
ASSUME RoutesAssumption == Routes \subseteq Ranks \X Comms \X Ranks
ASSUME PmiRankAssumption ==
    /\ PmiRank \in [Ranks -> Ranks]
    /\ \A r, q \in Ranks : PmiRank[r] = PmiRank[q] => r = q

VARIABLES usePmi,     \* OOMPH_UCX_USE_PMI, fixed when the library is built
          step,       \* step[r]: where rank r's main thread is
          round,      \* round[r]: m_address_map is filled below this rank
          known,      \* known[r]: m_address_map, or m_rank_map with PMIx
          store,      \* what each PMIx rank has put
          comm,       \* comm[r][c]: "none", "alive" or "dying"
          addr,       \* addr[e]: the address endpoint e was created with
          ep,         \* ep[e]: the state of endpoint e in UCX
          handle,     \* handle[e]: its close_handle: "none", "pending", "done"
          freed,      \* freed[e]: how often its close request was freed
          pass,       \* pass[r]: the handles this pass has not looked at yet
          again,      \* again[r]: tmp, the handles found not ready
          late        \* late[r]: t_timeout has elapsed

vars == <<usePmi, step, round, known, store, comm, addr, ep, handle, freed,
          pass, again, late>>
setup == <<usePmi, round, known, store>>
closing == <<handle, freed, pass, again, late>>

Order == [db |-> 0, fence |-> 1, bcast |-> 1, run |-> 2, barrier |-> 3,
          close |-> 4, ibarrier |-> 5, last |-> 6, gone |-> 7]

\* A collective call entered at p returns when every rank has entered it.
Reached(p) == \A r \in Ranks : Order[step[r]] >= Order[p]

\* Mutant: the destructor's barriers are on a communicator of one rank.
MetAlone(p) == \E r \in Ranks : Order[step[r]] >= Order[p]

\* MPI_Barrier and MPI_Ibarrier on the context's communicator.
Met(p) == Reached(p)

Unset == Size
NoComm == [c \in Comms |-> "none"]

Init ==
    /\ usePmi \in BOOLEAN
    /\ step = [r \in Ranks |-> IF usePmi THEN "db" ELSE "bcast"]
    /\ round = [r \in Ranks |-> 0]
    /\ known = [r \in Ranks |-> [k \in Ranks |-> IF k = r /\ ~usePmi THEN r ELSE Unset]]
    /\ store = [k \in Ranks |-> Unset]
    /\ comm = [r \in Ranks |-> NoComm]
    /\ addr = [e \in Routes |-> Unset]
    /\ ep = [e \in Routes |-> "none"]
    /\ handle = [e \in Routes |-> "none"]
    /\ freed = [e \in Routes |-> 0]
    /\ pass = [r \in Ranks |-> {}]
    /\ again = [r \in Ranks |-> {}]
    /\ late = [r \in Ranks |-> FALSE]

Goto(r, p) == step' = [step EXCEPT ![r] = p]

----------------------------------------------------------------------------
(* The constructor: the exchange of addresses.                             *)

\* address_db_mpi::init: one broadcast per rank; its root returns at once, the
\* others when the root has sent.
Bcast(r) ==
    /\ step[r] = "bcast"
    /\ LET root == round[r] IN
       /\ root # r => round[root] > root
       /\ known' = [known EXCEPT ![r][root] = root]
       /\ round' = [round EXCEPT ![r] = root + 1]
       /\ IF root + 1 = Size THEN Goto(r, "run") ELSE UNCHANGED step
    /\ UNCHANGED <<usePmi, store, comm, addr, ep, closing>>

\* pmi::set and pmi::get.
set(key, value) == store' = [store EXCEPT ![key] = value]
get(key) == store[key]

\* address_db_pmi: the constructor's all-to-all of the PMIx ranks, and init up
\* to the fence: the own address is put under the own PMIx rank.
MapRanks(r) ==
    /\ step[r] = "db"
    /\ known' = [known EXCEPT ![r] = PmiRank]
    /\ set(PmiRank[r], r)
    /\ Goto(r, "fence")
    /\ UNCHANGED <<usePmi, round, comm, addr, ep, closing>>

\* pmi::exchange: PMIx_Fence.
Fence(r) ==
    /\ step[r] = "fence" /\ Reached("fence")
    /\ Goto(r, "run")
    /\ UNCHANGED <<setup, comm, addr, ep, closing>>

\* Mutant: the MPI rank is looked up in the PMIx store.
FindUnmapped(r, k) == IF usePmi THEN store[k] ELSE known[r][k]

\* address_db_mpi::find and address_db_pmi::find.
Find(r, k) == IF usePmi THEN get(known[r][k]) ELSE known[r][k]

----------------------------------------------------------------------------
(* The life of communicators and endpoints.                                *)

\* context_impl::get_communicator: a send worker of its own.
GetCommunicator(r, c) ==
    /\ step[r] = "run" /\ comm[r][c] = "none"
    /\ comm' = [comm EXCEPT ![r][c] = "alive"]
    /\ UNCHANGED <<setup, step, addr, ep, closing>>

\* worker_t::connect, called by send: the cached endpoint, or a new one.
Connect(e) ==
    LET r == e[1] IN
    /\ step[r] = "run" /\ comm[r][e[2]] = "alive" /\ ep[e] = "none"
    /\ addr' = [addr EXCEPT ![e] = Find(r, e[3])]
    /\ ep' = [ep EXCEPT ![e] = "open"]
    /\ UNCHANGED <<setup, step, comm, closing>>

\* ucp_worker_progress on rank r's receive worker.
ReceiverProgress(r, s) ==
    [e \in Routes |-> IF s[e] = "wire" /\ addr[e] = r THEN "acked" ELSE s[e]]

\* ucp_worker_progress on the send worker of endpoint h.
SenderProgress(h, s) ==
    [e \in Routes |-> IF s[e] = "acked" /\ e[1] = h[1] /\ e[2] = h[2] THEN "closed" ELSE s[e]]

\* communicator_impl::progress, as far as closing endpoints are concerned.
Progress(r, c) ==
    /\ comm[r][c] = "alive"
    /\ ep' = ReceiverProgress(r, ep)
    /\ UNCHANGED <<setup, step, comm, addr, closing>>

\* close_handle::progress after the send worker was progressed: a request
\* whose status is not UCS_OK is freed and counts as done.
ChecksStatus(h, s) ==
    /\ freed' = [freed EXCEPT ![h] = IF s[h] # "closed" THEN @ + 1 ELSE @]
    /\ handle' = [handle EXCEPT ![h] = IF s[h] # "closed" THEN "done" ELSE "pending"]

\* ~communicator_impl starts; the program has joined its operations.
DestroyCommunicator(r, c) ==
    /\ comm[r][c] = "alive"
    /\ comm' = [comm EXCEPT ![r][c] = "dying"]
    /\ UNCHANGED <<setup, step, addr, ep, closing>>

\* One round of its loop: endpoint_t::close and one progress of the handle.
\* Closing completes at once, fails, or returns a request.
CloseEndpoint(e) ==
    /\ comm[e[1]][e[2]] = "dying" /\ ep[e] = "open" /\ handle[e] = "none"
    /\ \/ \E s \in {"closed", "failed"} :
            /\ ep' = [ep EXCEPT ![e] = s]
            /\ handle' = [handle EXCEPT ![e] = "done"]
            /\ UNCHANGED freed
       \/ \E s \in {"wire", "acked"} :
            LET progressed == SenderProgress(e, [ep EXCEPT ![e] = s]) IN
            /\ ep' = progressed
            /\ ChecksStatus(e, progressed)
    /\ UNCHANGED <<setup, step, comm, addr, pass, again, late>>

----------------------------------------------------------------------------
(* ~context_impl.                                                          *)

OfRank(r) == {e \in Routes : e[1] = r}

\* Every communicator of the rank was destroyed: enter the first barrier.
DestroyContext(r) ==
    /\ step[r] = "run"
    /\ \A c \in Comms : comm[r][c] # "alive"
    /\ \A e \in OfRank(r) : ep[e] # "none" => handle[e] # "none"
    /\ Goto(r, "barrier")
    /\ UNCHANGED <<setup, comm, addr, ep, closing>>

\* The barrier returns; the handles of all send workers are collected.
LeaveBarrier(r) ==
    /\ step[r] = "barrier" /\ Met("barrier")
    /\ LET handles == {e \in OfRank(r) : handle[e] # "none"} IN
       /\ pass' = [pass EXCEPT ![r] = handles]
       /\ Goto(r, IF handles = {} THEN "ibarrier" ELSE "close")
    /\ UNCHANGED <<setup, comm, addr, ep, handle, freed, again, late>>

\* One handle of a pass: the receive worker is progressed, then the handle.
CheckHandle(r) ==
    /\ step[r] = "close"
    /\ \E h \in pass[r] :
         LET received == ReceiverProgress(r, ep)
             progressed == SenderProgress(h, received)
         IN
         /\ pass' = [pass EXCEPT ![r] = @ \ {h}]
         /\ IF handle[h] = "pending"
            THEN ep' = progressed /\ ChecksStatus(h, progressed)
            ELSE ep' = received /\ UNCHANGED <<handle, freed>>
         /\ again' = [again EXCEPT ![r] = IF handle'[h] = "pending" THEN @ \union {h} ELSE @]
    /\ UNCHANGED <<setup, step, comm, addr, late>>

\* t_timeout milliseconds have passed since the destructor began.
Elapse(r) ==
    /\ step[r] = "close" /\ ~late[r]
    /\ late' = [late EXCEPT ![r] = TRUE]
    /\ UNCHANGED <<setup, step, comm, addr, ep, handle, freed, pass, again>>

\* Mutant: the loop has no timeout.
LeavesWhenReady(r) == again[r] = {}

\* The condition of the loop over the handles fails.
LeavesLoop(r) == again[r] = {} \/ late[r]

\* Mutant: the requests that are left are not freed.
LeavesRequests(r) == freed

\* The requests of the handles that are not ready are freed after the timeout.
FreeRest(r) == [e \in Routes |-> freed[e] + (IF e \in again[r] THEN 1 ELSE 0)]

\* The end of a pass: another one, or the requests of the handles that are left
\* are freed and the non-blocking barrier is entered.
EndPass(r) ==
    /\ step[r] = "close" /\ pass[r] = {}
    /\ again' = [again EXCEPT ![r] = {}]
    /\ IF LeavesLoop(r)
       THEN /\ freed' = FreeRest(r)
            /\ Goto(r, "ibarrier")
            /\ UNCHANGED pass
       ELSE /\ pass' = [pass EXCEPT ![r] = again[r]]
            /\ UNCHANGED <<step, freed>>
    /\ UNCHANGED <<setup, comm, addr, ep, handle, late>>

\* One round of the wait for the non-blocking barrier.
TestBarrier(r) ==
    /\ step[r] = "ibarrier"
    /\ ep' = ReceiverProgress(r, ep)
    /\ IF Met("ibarrier") THEN Goto(r, "last") ELSE UNCHANGED step
    /\ UNCHANGED <<setup, comm, addr, closing>>

\* The last barrier returns and the members, the workers among them, go.
LeaveLast(r) ==
    /\ step[r] = "last" /\ Met("last")
    /\ Goto(r, "gone")
    /\ UNCHANGED <<setup, comm, addr, ep, closing>>

----------------------------------------------------------------------------
Teardown(r) ==
    \/ LeaveBarrier(r) \/ CheckHandle(r) \/ EndPass(r) \/ TestBarrier(r) \/ LeaveLast(r)

Next ==
    \/ \E r \in Ranks :
        \/ Bcast(r) \/ MapRanks(r) \/ Fence(r)
        \/ DestroyContext(r) \/ Elapse(r) \/ Teardown(r)
    \/ \E r \in Ranks, c \in Comms :
        GetCommunicator(r, c) \/ Progress(r, c) \/ DestroyCommunicator(r, c)
    \/ \E e \in Routes : Connect(e) \/ CloseEndpoint(e)

\* Each rank's constructor and destructor run, and its clock advances; what the
\* program does between them is its own choice.
Fairness ==
    \A r \in Ranks :
        /\ WF_vars(Bcast(r) \/ MapRanks(r) \/ Fence(r))
        /\ WF_vars(Elapse(r)) /\ WF_vars(Teardown(r))

Spec == Init /\ [][Next]_vars /\ Fairness

----------------------------------------------------------------------------
TypeOK ==
    /\ usePmi \in BOOLEAN
    /\ step \in [Ranks -> DOMAIN Order]
    /\ round \in [Ranks -> 0 .. Size]
    /\ known \in [Ranks -> [Ranks -> 0 .. Size]]
    /\ store \in [Ranks -> 0 .. Size]
    /\ comm \in [Ranks -> [Comms -> {"none", "alive", "dying"}]]
    /\ addr \in [Routes -> 0 .. Size]
    /\ ep \in [Routes -> {"none", "open", "failed", "wire", "acked", "closed"}]
    /\ handle \in [Routes -> {"none", "pending", "done"}]
    /\ freed \in [Routes -> 0 .. 1]
    /\ pass \in [Ranks -> SUBSET Routes]
    /\ again \in [Ranks -> SUBSET Routes]
    /\ late \in [Ranks -> BOOLEAN]

\* An endpoint for a rank is connected to that rank's receive worker, whichever
\* address database is used, although ranks leave the constructor, and send,
\* while others are still exchanging addresses.
ConnectsRight == \A e \in Routes : ep[e] # "none" => addr[e] = e[3]

\* A close request is freed once: by the handle's own progress, in the
\* communicator's or the context's destructor, or after the timeout; never
\* twice, and it does not leak.
FreedOnce ==
    \A e \in Routes :
        /\ freed[e] <= 1
        /\ step[e[1]] = "gone" /\ handle[e] = "pending" => freed[e] = 1

\* A rank's receive worker is destroyed only when no rank is still working on
\* the close of an endpoint that is connected to it.
PeersFinished ==
    \A e \in Routes :
        ep[e] # "none" /\ step[addr[e]] = "gone" => Order[step[e[1]]] > Order["close"]

\* Once every rank destroys its context, every rank gets through the three
\* barriers: the loop over the handles ends, at the latest by its timeout.
TeardownEnds ==
    (\A r \in Ranks : Order[step[r]] >= Order["barrier"]) ~> (\A r \in Ranks : step[r] = "gone")
=============================================================================
