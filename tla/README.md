# TLA+ models of oomph

oomph is a C++ library for asynchronous point-to-point communication: a
`context` per process, a `communicator` per thread, non-blocking `send`,
`recv`, `shared_recv` and `send_multi` with callbacks, and four backends (MPI,
UCX, libfabric, NCCL) compiled from the same front end. This directory holds
TLA+ specifications of its components, the TLC configurations that check them
on small instances and the proofs TLAPS checks for every instance. Paths below
are relative to the root of the repository.

## The system

| Part | Source | State | What makes it hard |
|---|---|---|---|
| barrier | `src/barrier.cpp` | two atomic counters per rank, an MPI request | counters reused by every call, threads of different calls overlap |
| requests | `include/oomph/request.hpp`, `src/request.cpp`, `src/request_state_base.hpp` | ready, cancelled, scheduled counters | callbacks that call the library, self-references |
| front end | `include/oomph/communicator.hpp`, `src/communicator.cpp`, `src/context.cpp` | shared state of a multi-send, ownership of messages | completions between two posts, last reference |
| communicator set | `src/communicator_set_impl.hpp` | communicators of each thread, a mutex | callbacks run under the mutex |
| MPI backend | `src/mpi/` | send, receive and shared queues, cached indices | re-entrance, concurrent pops, failed cancellations |
| UCX backend | `src/ucx/` | workers, endpoints, request memory, a mutex | callbacks on a shared worker, recycled requests, teardown of all ranks |
| libfabric backend | `src/libfabric/` | completion queues, ready queues, a process-wide controller | cancellation by polling, address exchange, order of closing |
| NCCL backend | `src/nccl/` | request queues, pool of events, group event | events shared by a group, recycled events |

A thread posts an operation on its communicator; the backend either completes
it at once, running the callback inside the posting call (up to a recursion
depth), or makes a request state, counts it as scheduled and keeps it until a
later `progress` sees its completion, runs the callback and marks it ready.
Callbacks may call the communicator again. Shared receives belong to the
context and may be completed by any thread.

## Modules

```
AbstractBarrier <== Barrier                            BarrierProofs
RequestLifecycle                                       RequestLifecycleProofs
   <== MpiCommunicator, UcxCommunicator,
       LibfabricCommunicator                           (backends implement it)
   <== MpiSharedQueue                                  MpiSharedQueueProofs
   <== NcclCommunicator                                NcclCommunicatorProofs
   <-- FrontEnd ==> UnsafeSharedPtr                    UnsafeSharedPtrProofs
UcxEndpoints                                           UcxEndpointsProofs
LibfabricController                                    LibfabricControllerProofs
                                                       SequenceLemmas
```

`<==` is a refinement checked by TLC (for the barrier, the shared queue and
NCCL also proved), `<--` use of the abstract module. `SequenceLemmas` holds
what the proofs need about sequences without repetitions. `RequestLifecycle` is the joint between the halves of
the library: each backend module is shown to implement it through a refinement
mapping, and `FrontEnd` extends it, so the front end is checked against what
all backends promise rather than against one of them. The `MC...` modules
instantiate the others for TLC.

**Barrier.** One action per access to an atomic counter or MPI call; the
program counter names the place in `in_node1`, `rank_barrier`, `operator()` or
`in_node2`. `compare_exchange_weak` succeeds (`Count1`, `Count2`) or fails and
reloads (`Retry1`, `Retry2`); spurious failures are stutters. MPI_Ibarrier is
external: the n-th of a rank completes when every rank has posted n of them.
All threads make the same sequence `Kind` of full and thread barriers, as the
interface requires. Interleavings are sequentially consistent.

**RequestLifecycle.** A request is scheduled or completes at once, its callback
runs, it becomes ready or is cancelled; `counted` is the sum of the scheduled
counters that `wait_all` looks at.

**FrontEnd.** A batch is one call of the program: a send, a receive, or a
`send_multi` with an operation per neighbour. `stack[t]` holds the calls thread
t is in, so an operation may complete between two posts of a multi-send or in a
callback. `counter` is `m_counter` of the multi-request state, `refs` its
reference count, `buffer` who owns the message, `registered` and `mtx` the
communicator set, `scheduled` the counters `is_ready` reads: two per
communicator, and the one all communicators of the context share for their
shared receives. `invoke_cb` counts an operation off (`CountOff`) before it is
ready (`OpReturns`), and the destructor of a communicator erases it from the set
before it releases it, two steps others may come between. `SetProgress` is the
set's `progress` as the barrier calls it. Any `progress` may complete an
operation (`Completes`); what all backends do complete when a callback calls
`progress` is `Progresses`: MPI and NCCL return at once from a queue whose
callback is running.

**UnsafeSharedPtr.** Every constructor and assignment of `unsafe_shared_ptr`,
`shared_from_this` and the destructor.

**MpiCommunicator.** `stack` holds the calls the thread is in, so a callback is
a frame on which the user may post, progress, wait or cancel again. MPI
completes active operations at any time. `m_index`, `m_queue`, `m_ready_queue`,
`m_self_ptr`, `m_recursion_depth` and the counters have the names of the code.
`user`, chosen in `Init` from `Users`, says which operations are posted and
which calls are made in callbacks.

**MpiSharedQueue.** An action is one push to or pop from the lock-free queue or
one step between them, so a request may be in a thread's hands while another
thread searches the queue. `m_size`, written and never read, is left out.

**UcxCommunicator.** Each thread has a communicator with its own send worker;
receives go to the worker of the context, used under `m_mutex`. `Handles` is
the request memory of UCX, which UCX recycles: `m_ucx_ptr` of a receive may
point to memory that was freed or given to another receive. A locked region
with one UCX call is one action; a cancel, which tests that the receive is not
ready, takes the mutex and cancels, progresses, releases the mutex and takes it
again to free the request, is five. UCX itself
(matching, and what a cancel finds at an address) is external.

**UcxEndpoints.** All ranks of a program from the construction of their
contexts to the end. `Bcast` is a round of the MPI address exchange, `MapRanks`
and `Fence` the PMIx one. An endpoint is a triple of rank, communicator and
destination; `Connect` opens it at the first message, `DestroyCommunicator`
starts its close. `step` walks through the context's destructor: barrier, loop
over the close handles with its timeout, non-blocking barrier, last barrier.
When an endpoint really closes is UCX's choice (`CloseEndpoint`).

**LibfabricCommunicator.** The communicators of one rank share one endpoint and
so one completion queue per direction; a thread meets completions of others and
forwards them. A poll reads several entries at once, and the thread handles
them one by one, with callbacks in between. `fi_cancel` takes effect later;
`CancelRaces` says whether the receive may complete first, and whether
`fi_cancel` accepts a receive that is being cancelled already.

**LibfabricController.** The singleton of a process: start, address exchange
over blocking MPI calls (`gather`, `scatter`), endpoints of the four types
(`scalableTxRx` is left out: its receive endpoint is null), the pool of
transmit contexts that threads take and return, memory regions and the order of
`fi_close`. Context objects have addresses, and the wire tag is built from them
by `make_tag64` with the widths of the code.

**NcclCommunicator.** Operations on streams, alone or in a group; a CUDA event
records what was launched on its stream, `KernelDone` is the device, the pool
recycles events together with their recorded flag. The code refuses
thread-safe contexts, so there is one thread.

## Runs

| Run | Instance | Shows |
|---|---|---|
| `barrier_mixed` | 2 ranks x 2 threads, full-thread-full | safety, pairing of MPI barriers, refinement of `AbstractBarrier` with liveness |
| `front_end` | 2 threads, seven workloads: multi-sends with and without callback, to nobody, a message kept or handed over, a send/receive pair, a shared receive, a receive whose callback waits for a send | message life, one callback, live registrations, reference counts, what is over when `wait_all` returns, waits that end |
| `mpi` | 1 send and 3 receives, three kinds of use | self-references and cached indices exact, bounded recursion, refinement of `RequestLifecycle`, completed operations get their callback |
| `mpi_shared` | 2 threads, 3 receives, a cancel call | no request lost or completed twice, recursion bounded by the number of threads, refinement, callbacks happen |
| `ucx` | 2 threads with a receive and a shared receive, or a shared receive each; 1 thread in single-threaded mode with a send as well; 2 request addresses | UCX requests and self-references exact, callbacks on the issuing communicator and outside the mutex, refinement, completed receives become ready |
| `ucx_teardown` | 2 ranks with swapped PMIx ranks, 2 communicators, 4 endpoints, both address databases | right connections, close requests freed once, receive workers outlive closing, teardown ends |
| `libfabric_comm` | 2 threads, an inject, a send, a receive, a shared receive in three mixtures | request states held once, recursion bounded, callbacks on the owner, refinement, completions arrive, cancel returns |
| `libfabric_controller` | 3 processes, 2 contexts, 3 threads of one process, 2 transmit contexts, 4 endpoint types | addressing, tags, conservation of transmit contexts, order of closing, address exchange ends |
| `nccl` | 2 communicators, 3 operations on 2 streams, 4 events | no early callback, events have one owner, refinement, posted operations complete |
| `mpi_cancel_in_callback` | 4 receives | disagreement 1 |
| `ucx_cancel_shared` | 2 threads, 2 shared receives | disagreement 2 |
| `libfabric_cancel` | 1 thread, 1 receive | disagreement 3 |

Each invariant named `...Exact`, `OnePlace`, `EventsExclusive`,
`TxContextsConserved` or `RegisteredAlive` includes the type invariant of its
module.

**Bounds.** Three calls let each barrier counter be reused by a call of the
other kind; two threads per rank have a first and a last thread. In `mpi` three
receives are needed for a compaction that moves a state past two gaps and for a
swap with the last element; with four, in `mpi_cancel_in_callback`, a stale
index still points inside the queue. Two threads suffice for a request to be
popped or polled by one and looked for by the other; `MaxCancels` and
`user.cancels` bound cancel calls because an endless stream of them starves
progress. Two request addresses and two receives let one receive be given the
memory of the other. `MaxNesting` and `user.nesting` bound how deep callbacks
nest calls: with three, a callback that `progress` runs posts, progresses or
cancels again. `RecursionDepth` is 0, so that the limit is reached by two
nested operations; that of the context, which threads share, is reached in
`mpi_shared` and `ucx`, where two shared receives complete together, and not in
`libfabric_comm`, which has one. In `libfabric_comm` two completions per poll let one
callback run while the next entry is in the thread's hands. Three threads and
two transmit contexts make one thread find the pool empty. In `nccl` the pool
starts with one event, which an operation uses and returns before the one group
(`MaxGroups`) takes it again. Two neighbours are needed for a multi-send whose
first operation completes before the second is posted. The tags are 0, 2^24 - 1,
the largest one `make_tag64` keeps apart from the others, and 2^24, which it
takes for 0.

**Deadlock** checking is off where the program may be over (`front_end`,
`ucx_teardown`, `libfabric_controller`, `nccl`) and in `mpi`, where the
undefined behaviour after a failed cancellation ends the thread.

**Fairness.** The operating system runs every thread (weak fairness of steps
inside the library); callbacks return even if they call the library in between
(strong fairness); user code outside callbacks keeps calling `progress`, as
the README of oomph requires. A thread that waits for the UCX mutex gets it
when it is free again and again. In `front_end` an operation that can complete
does if its queue is progressed again and again, which a nested `progress` of
the queue whose callback is running does not do; in the backends nothing is
assumed of MPI or UCX: an operation need not complete. libfabric accepts an
operation tried again and again and carries out a cancel unless the operation
completes. The NCCL device works and groups are ended. In `ucx_teardown` clocks
advance and constructors and destructors run; UCX need not close anything. In
`libfabric_controller` a blocking send is sure to return only once it has been
received.

## Disagreements found

1. MPI: a callback that cancels a receive already moved to `m_ready_queue`
   cancels another receive through its stale index, and the assertion in
   `release_self_ref` fails.
2. UCX: the thread-local `found` of the context's `cancel_recv` is never reset.
   After one success, a completed shared receive is reported cancelled and its
   callback still runs.
3. libfabric: `cancel_recv` waits for a cancellation event only. If the receive
   completes as usual, which the comment above it allows for, it never returns.

The models also show the following, which have no run of their own; the runs
that pass keep the situation out, and say so at the constant that does it:

- MPI: a cancellation that MPI refuses leaves a state with a null handle in the
  queue, whose callback never runs (`user.matched`).
- MPI: a `wait` in a callback for another request of the queue being progressed
  does not return, because the nested `progress` does nothing (`user.waits`).
- MPI: `cancel` of a shared receive returns false while another thread has
  popped its request.
- UCX: `cancel` of a receive whose callback is still queued hands UCX a freed
  request, whose memory another receive may have (`user.completed`). In
  thread-safe mode no call of the library tells a program whether a callback is
  queued; to stay out of this, a program puts its own lock around `progress`,
  and around a `progress` followed by the cancel.
- UCX: in single-threaded mode a receive that completes at once at the
  recursion limit is queued where `progress` never looks (`CompletedIsCalled`
  is about thread-safe mode).
- UCX: a close handle takes "in progress" for "finished", so a context leaves
  its loop in time with endpoints still closing.
- libfabric: a second context over a reordered communicator is misaddressed, and
  the construction of one that is larger than the first does not end: the root
  has a controller and skips the exchange (`context.cpp:87`), and the new ranks
  wait for it (`controller.hpp:126`). `CommOf` gives later contexts a prefix.
- libfabric: tags, and addresses of context objects, that agree in their low 24
  bits are taken for each other, which `TagsMatch` states. `num_tag_bits` is 32
  (`libfabric/context.hpp:136`), and the comment of `make_tag64` says "original
  tag can be 32bits" (`libfabric/communicator.hpp:85`).
- libfabric: a second cancel of a receive that is being cancelled, which
  `cancel_recv` does not test for, waits forever for an event the first one
  takes, if `fi_cancel` accepts it (`CancelRaces`).
- NCCL: the event of an active group may look ready, when it is a recycled one.
  `progress` of the communicator throws then, that of the context, which `test`
  and `wait` of a shared receive call, does not (`nccl/context.hpp:66`);
  an operation of another communicator inside an open group records its event
  before it is launched (`Disciplined`).
- front end: a `send_multi` to nobody is ready and never calls back
  (`CalledOnce`); a callback that waits for a request whose own callback is
  below it on the stack waits forever (`CallbackWaits`); and so does one that
  the communicator set runs, under its mutex, if what it waits for needs the
  progress of another thread in the barrier.
- front end: `wait_all` may return while a shared receive that another thread
  completes is not ready yet; its callback has returned (`WaitAllComplete`).
- barrier: increments and decrements are relaxed, so a thread that is last in
  both halves acquires nothing from the others. The model does not show this;
  it follows from the C++ memory model.

## Proofs

`BarrierProofs` proves for any finite set of threads, any set of ranks and any
sequence of calls: `TypeOK` (theorem `BarrierTypes`), `CallsSynchronised`
(`BarrierSynchronises`), `RankBarriersMatch` (`RankBarriersPair`) and the
safety part of the refinement of `AbstractBarrier` (`BarrierRefines`). None is inductive. The
invariant says that each rank is in a phase: for some k, either its threads are
counting up in call k (those that have been counted are exactly the ones
spinning, and the rest are idle or before their increment), or they are
counting down (the up-counter is zero and those who have decremented are
exactly the ones spinning or gone), with the last thread's reset as the turn
from one phase to the next. The assumptions are `BarrierAssumption`.

`RequestLifecycleProofs` proves `CountExact` (`ScheduledCountExact`) for any finite set of requests
(`RequestsFinite`) from its conjunction with `TypeOK`. Since the safety part of
every backend's `ImplementsLifecycle` is that specification, the scheduled
counters of each backend are exact wherever that refinement holds.

`UcxEndpointsProofs` proves `ConnectsRight` (`EndpointsConnectRight`),
`FreedOnce` (`CloseRequestsFreedOnce`) and `PeersFinished`
(`ReceiversOutliveClosing`) for any number of ranks and communicators and any set of endpoints. The
assumptions are `RanksAssumption` (ranks are 0 to size - 1), `RoutesAssumption`
and `PmiRankAssumption` (PMIx ranks are a permutation). The properties need
three facts about the history that the state still shows. `Exchanged`: which
part of the address database a rank has after each round, and, with PMIx, that
no rank passes the fence before every rank has put its address into the store.
`Phases`: a rank past the non-blocking barrier has seen every rank enter it,
which is what keeps receive workers alive. `Handles`: a pending close request
has been freed exactly if its rank is past the loop, and inside the loop every
pending handle is still to be looked at in this pass or the next. Their
conjunction with `TypeOK` and `ConnectsRight` is inductive, one lemma per
action.

`UnsafeSharedPtrProofs` proves `CountExact` (`PointersCounted`) and
`FreedWithLast` for any finite
set of pointers and any set of control blocks without the null pointer. Their
conjunction with `TypeOK` is inductive; the lemmas `Repoint`, `RepointCount`
and `MoveCount` say how the number of pointers to each block changes when one
pointer changes.

`MpiSharedQueueProofs` proves `OnePlace` (`RequestInOnePlace`),
`RecursionBounded` (`RecursionIsBounded`) and the safety part of
`ImplementsLifecycle` (`Refinement`) for any finite sets of threads and
requests and any recursion limit (`MpiSharedQueueAssumption`). `OnePlace` says
where a request is, not how it may have got there. The invariant adds, for each
request, which calls may be about it in which of its states (`Progressed`), so
that no second thread enters its callback; that the calls of a thread differ and
all but the innermost are callbacks (`Stacks`), so that a return removes one
call and no other; and what the two counters count (`Counts`): the recursion
depth is the number of early callbacks that run, and with the threads that have
passed the check it stays below the limit plus the number of threads. The
refinement looks only at the calls of a request: one lemma for each action that
changes its status, the others stutter.

`NcclCommunicatorProofs` proves `EventsExclusive` (`EventsNeverShared`) and
`ImplementsLifecycle` (`Refinement`) for any communicators, finite set of
requests, streams and events, and callbacks nested to any depth
(`NcclAssumption`); `NotReadyEarly` (`ReadyOnlyWhenDone`) under the hypothesis
`Disciplined`, without which it is false. Nested calls of `progress` take
requests out of queues that outer calls are going through. A frame of the call
stack is therefore named by its height, which later calls do not change; the
invariant `Placed` says that a request that is posted and not ready is in its
queue or in one frame, and `Pooled` that what can be popped from the pool has no
owner. Under the discipline, `Grouped` says that only the deferred operations
of the one active group have its event, `Recorded` that the record of every
other pending operation's event waits for it, `Completed` that what a frame has
found is done. `progress` splits a queue by the recursive function `Only`; that
the parts hold what they should, each request once, is proved by induction in
the form of the least-number principle (`LeastNat`).
`TypeOK` has the scheduled counter an integer; that it is exact, and so never
negative, follows from `Refinement` with `ScheduledCountExact`.

`LibfabricControllerProofs` proves, for any processes, contexts, communicators,
threads, regions and number of transmit contexts, and for all four endpoint
types (`ControllerAssumption`), `TxContextsConserved` (`PoolConserved`) and
`ClosesCleanly` (`NothingBusy`) whatever the program does. `AddressedRight`
(`RanksAddressed`) has the hypothesis `SameRanks`: the communicator of a
context is a prefix of that of the first context of each of its members, see
the note on `CommOf` above; the constants of the run satisfy it. `TagsMatch`
(`TagsAgree`) holds for all addresses of context objects and all tags that are
natural numbers (`NumbersAssumption`). The invariant has a
part for each question. `Places`: a process makes its contexts in order and
runs the exchange once, in the first one it is a member of. `Exchange`: every
message in transit is the report of one address to the root of the sender's
first context, or the table from that root; two processes that are members of
each other's first context have the same one, so that a receive by source alone
never takes one for the other, although exchanges of different contexts may
overlap. `Tagged`: a live context has the tag of its root. `Pool`: wrappers in
the queue and in the hands of running threads are distinct and, for scalable
endpoints, all there are. `Opens`: what is open is what `initialize` opened,
what threads added, and the regions of live contexts. At process exit the
threads have ended and no context lives, so the pool holds every wrapper and no
region is left; then the close order is checked part by part (`ClosePool`,
`CloseTx`, `CloseThree`), each part against what the parts before it leave open
(`CloseBoth`).

The inductive invariants were model-checked on the instances of the runs before
they were proved. Only model-checked are liveness and the fairness parts of the
refinements, which are out of the prover's reach; the refinement of
`RequestLifecycle` by the MPI, UCX and libfabric communicators and of
`UnsafeSharedPtr` by `FrontEnd`; and everything about `MpiCommunicator`,
`UcxCommunicator`, `LibfabricCommunicator` and `FrontEnd`.

## Not modelled

- Memory ordering of the barrier's relaxed operations.
- Exceptions: those thrown by callbacks, error returns of MPI, UCX, CUDA and
  NCCL, which throw, and errors of libfabric, which end the process (except a
  busy `fi_close`, which `ClosesCleanly` is about).
- Objects used after what they belong to: requests that outlive their
  communicator, communicators that outlive their context or are destroyed by
  another thread, moves over a live context.
- `scalableTxRx` endpoints and the try-locks of libfabric builds without
  `FI_THREAD_SAFE`.
- Message contents, device memory, and the external heap library.
- Rank topology, thread ids, pimpl and storage helpers: computed once or
  without shared state.
- Debug printing and counters for statistics: output only.
- The Fortran bindings: forwarding that reinterprets C++ objects as Fortran
  memory.
- Channels and RMA: not reachable from the public interface of this version.
