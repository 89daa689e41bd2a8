--------------------- MODULE LibfabricControllerProofs ---------------------
(***************************************************************************)
(* The libfabric controller, proved for any processes, contexts, threads   *)
(* and regions, any number of transmit contexts and every endpoint type:   *)
(* TxContextsConserved and ClosesCleanly whatever the program does,        *)
(* AddressedRight if the ranks of later contexts are those of the first,   *)
(* TagsMatch if tags and the addresses of contexts differ in 24 bits.      *)
(*                                                                         *)
(* The exchange of addresses needs no such condition.  The inductive       *)
(* invariant says that a process takes part in it once, for the first      *)
(* context it is a member of; that a message is a report of one address to *)
(* the root of the sender's first context or the table of all addresses    *)
(* from that root; and that two processes which are members of each        *)
(* other's first context have the same one, so neither kind of message is  *)
(* ever taken for the other.                                               *)
(***************************************************************************)
EXTENDS LibfabricController, SequenceLemmas

----------------------------------------------------------------------------
(* The inductive invariant.                                                *)

\* Inside the constructor of a context, and in its exchange of addresses.
Constructing(p) == pc[p] \notin {"main", "done", "terminated"}
Exchanging(p) == pc[p] \in {"sending", "receiving", "gather", "scatter", "scattering", "insert"}
Ended(p) == pc[p] \in {"done", "terminated"}

\* How many contexts of Order p is through with.
Passed(p) == IF Constructing(p) THEN made[p] - 1 ELSE made[p]

\* c is the first context that p is a member of.
First(p, c) ==
    \E i \in DOMAIN Order :
        Order[i] = c /\ Member(p, c) /\ \A j \in 1..(i - 1) : ~Member(p, Order[j])

\* The addresses of the first n ranks of c.
Addresses(c, n) == [k \in 1..n |-> Here(CommOf[c][k])]

\* A process makes the contexts one after the other; it has a controller from
\* its first one on.
Place(p) ==
    /\ Constructing(p) => /\ made[p] \in DOMAIN Order
                          /\ ctx[p] = Order[made[p]] /\ Member(p, ctx[p])
    /\ Exchanging(p) => First(p, ctx[p]) /\ av[p] = <<>>
    /\ \A c \in live[p] : Member(p, c) /\ \E j \in 1..Passed(p) : c = Order[j]
    /\ open[p] = {} => /\ ~Exchanging(p) /\ live[p] = {}
                       /\ Ended(p) \/ /\ av[p] = <<>>
                                      /\ \A j \in 1..Passed(p) : ~Member(p, Order[j])

Places == \A p \in Procs : Place(p)

\* A process that is not the root reports its address to the root of its first
\* context, from which it gets the table of all addresses.
Report(m) ==
    m.data = <<Here(m.from)>> /\ \E c \in Contexts : First(m.from, c) /\ m.to = Root(c)
Table(m) ==
    \E c \in Contexts :
        /\ First(m.from, c) /\ m.from = Root(c) /\ Member(m.to, c)
        /\ m.data = Addresses(c, Size(c))

\* Where the exchange of p is, and what comes of it.
Exchanged(p) ==
    LET c == ctx[p] IN
    /\ pc[p] \in {"sending", "receiving"} => p # Root(c)
    /\ pc[p] \in {"gather", "scatter", "scattering"} =>
        p = Root(c) /\ peer[p] \in 2..(Size(c) + 1)
    /\ pc[p] = "scattering" => peer[p] <= Size(c)
    /\ pc[p] = "gather" => localities[p] = Addresses(c, peer[p] - 1)
    /\ pc[p] \in {"scatter", "scattering", "insert"} => localities[p] = Addresses(c, Size(c))
    /\ open[p] # {} /\ ~Exchanging(p) =>
        \E f \in Contexts : First(p, f) /\ av[p] = Addresses(f, Size(f))

Exchange ==
    /\ \A m \in net : Report(m) \/ Table(m)
    /\ \A p \in Procs : Exchanged(p)

\* The tag of a context is the address of its object on rank 0, from MPI_Bcast
\* on.
TagOf(c) == This[Root(c)][c]

Tagged ==
    /\ \A c \in Contexts : m_ctxt_tag[Root(c)][c] \in {None, TagOf(c)}
    /\ \A p \in Procs :
        /\ \A c \in live[p] : m_ctxt_tag[p][c] = TagOf(c)
        /\ Constructing(p) /\ pc[p] # "bcast" => m_ctxt_tag[p][ctx[p]] = TagOf(ctx[p])

\* The numbers of the wrappers that exist in p.
Held(p) == {t \in Threads : ProcOf[t] = p /\ tl[t] # None}
Wrappers(p) == IF Scalable THEN 1..TxContexts ELSE Range(tx_endpoints[p])

\* What a thread has of the pool, and the pool itself.
Holds(t) ==
    tl[t] # None =>
        /\ endpoint_type \in {"threadlocalTx", "scalableTx"} /\ status[t] = "running"
        /\ open[ProcOf[t]] # {} /\ tl[t] \in Wrappers(ProcOf[t])
        /\ m_tx_endpoint[t] = Head(Wrapper(tl[t]))

Pooled(p) ==
    /\ IsInjective(tx_endpoints[p])
    /\ \A t, u \in Held(p) : tl[t] = tl[u] => t = u
    /\ ~Scalable => Range(tx_endpoints[p]) = 1..Len(tx_endpoints[p])
    /\ endpoint_type \in {"single", "multiple"} => tx_endpoints[p] = <<>>
    /\ Scalable /\ open[p] # {} =>
        /\ \A t \in Held(p) : tl[t] \notin Range(tx_endpoints[p])
        /\ \A i \in 1..TxContexts :
            i \in Range(tx_endpoints[p]) \/ \E t \in Held(p) : tl[t] = i
        /\ Range(tx_endpoints[p]) \subseteq 1..TxContexts

Pool == (\A t \in Threads : Holds(t)) /\ \A p \in Procs : Pooled(p)

\* What is open: what initialize opened and threads added, and the regions of
\* the live contexts.
Shared ==
    open_fabric \cup create_address_vector \cup create_rx_endpoint
    \cup bind_tx_queue_to_rx_endpoint \cup Range(CleanupTx)

Ours(p) == Shared \cup UNION {Range(Wrapper(i)) : i \in Wrappers(p)}

Registered(p) == {fi_register_memory(r) : r \in {x \in Regions : HeapOf[x] = p /\ segment[x] # None}}

Opens ==
    /\ \A r \in Regions : segment[r] # None => segment[r] \in live[HeapOf[r]]
    /\ \A p \in Procs : open[p] # {} => open[p] = Ours(p) \cup Registered(p)

IInv == TypeOK /\ Places /\ Exchange /\ Tagged /\ Pool /\ Opens /\ ClosesCleanly

----------------------------------------------------------------------------
(* The constants and the objects.                                          *)

\* Ranks are processes, the root is rank 1 and no other.
LEMMA RankFacts ==
    ASSUME NEW c \in Contexts
    PROVE  /\ Size(c) \in Nat \ {0} /\ DOMAIN CommOf[c] = 1..Size(c)
           /\ Root(c) \in Procs /\ Member(Root(c), c)
           /\ \A k \in 1..Size(c) : CommOf[c][k] \in Procs /\ Member(CommOf[c][k], c)
           /\ \A k \in 1..Size(c) : CommOf[c][k] = Root(c) => k = 1
<1>1. CommOf[c] \in Seq(Procs) /\ CommOf[c] # <<>> /\ IsInjective(CommOf[c])
  BY ControllerAssumption, Zenon
<1>2. Len(CommOf[c]) \in Nat \ {0} /\ DOMAIN CommOf[c] = 1..Len(CommOf[c])
  BY <1>1
<1> QED
  BY <1>1, <1>2 DEF Size, Root, Member, Range, IsInjective

\* The list of the contexts names each of them once.
LEMMA OrderFacts ==
    /\ Len(Order) \in Nat /\ DOMAIN Order = 1..Len(Order)
    /\ \A i \in DOMAIN Order : Order[i] \in Contexts
    /\ \A i, j \in DOMAIN Order : Order[i] = Order[j] => i = j
<1>1. Order \in Seq(Contexts) /\ IsInjective(Order)
  BY ControllerAssumption, Zenon
<1> QED
  BY <1>1 DEF IsInjective

\* Processes that are members of each other's first context have the same one.
LEMMA FirstSame ==
    ASSUME NEW p, NEW q, NEW c, NEW d, First(p, c), First(q, d), Member(q, c), Member(p, d)
    PROVE  c = d
<1>1. PICK i \in DOMAIN Order : Order[i] = c /\ \A k \in 1..(i - 1) : ~Member(p, Order[k])
  BY Zenon DEF First
<1>2. PICK j \in DOMAIN Order : Order[j] = d /\ \A k \in 1..(j - 1) : ~Member(q, Order[k])
  BY Zenon DEF First
<1>3. i \in Nat \ {0} /\ j \in Nat \ {0}
  BY OrderFacts
<1>4. ~(i < j) /\ ~(j < i)
  BY <1>1, <1>2, <1>3
<1> QED
  BY <1>1, <1>2, <1>3, <1>4

\* The objects of a wrapper, and of the endpoints that threads share.
LEMMA WrapperFacts ==
    ASSUME NEW i \in Nat \ {0}
    PROVE  /\ Head(Wrapper(i)) = IF Scalable THEN <<"stx", i>> ELSE <<"tl", i>>
           /\ Wrapper(i)[1] = Head(Wrapper(i)) /\ Wrapper(i)[2] = <<"tx_cq", i>>
           /\ Range(Wrapper(i)) = {Head(Wrapper(i)), <<"tx_cq", i>>}
           /\ Range(Wrapper(i)) \subseteq Objects /\ Head(Wrapper(i)) \in Objects
<1> DEFINE a == IF Scalable THEN <<"stx", i>> ELSE <<"tl", i>>
<1>1. Wrapper(i) = <<a, <<"tx_cq", i>>>>
  BY Zenon DEF Wrapper, new_endpoint_active, create_completion_queue
<1>2. a \in Objects /\ <<"tx_cq", i>> \in Objects
  BY Zenon DEF Objects
<1> HIDE DEF a
<1>3. Range(Wrapper(i)) = {a, <<"tx_cq", i>>}
  BY <1>1 DEF Range
<1>4. Head(Wrapper(i)) = a
  BY <1>1
<1> QED
  BY <1>1, <1>2, <1>3, <1>4 DEF a

\* What cleanup of the transmit endpoint closes, for each endpoint type.
LEMMA TxFacts ==
    /\ endpoint_type = "multiple" =>
        CleanupTx = <<<<"ep_tx", 0>>, <<"ep_tx_cq", 0>>>> /\ Range(CleanupTx) = {<<"ep_tx", 0>>, <<"ep_tx_cq", 0>>}
    /\ Scalable => CleanupTx = <<<<"ep_sx", 0>>>> /\ Range(CleanupTx) = {<<"ep_sx", 0>>}
    /\ endpoint_type # "multiple" /\ ~Scalable => CleanupTx = <<>> /\ Range(CleanupTx) = {}
    /\ Range(CleanupTx) \subseteq Objects
<1>1. CASE endpoint_type = "multiple"
  <2>1. CleanupTx = <<<<"ep_tx", 0>>, <<"ep_tx_cq", 0>>>>
    BY <1>1, Zenon DEF CleanupTx, Scalable, new_endpoint_active, create_completion_queue
  <2>2. Range(CleanupTx) = {<<"ep_tx", 0>>, <<"ep_tx_cq", 0>>}
    BY <2>1 DEF Range
  <2> QED
    BY <1>1, <2>1, <2>2 DEF Scalable, Objects
<1>2. CASE Scalable
  <2>1. CleanupTx = <<<<"ep_sx", 0>>>>
    BY <1>2, Zenon DEF CleanupTx, Scalable, new_endpoint_scalable
  <2>2. Range(CleanupTx) = {<<"ep_sx", 0>>}
    BY <2>1 DEF Range
  <2> QED
    BY <1>2, <2>1, <2>2 DEF Scalable, Objects
<1>3. CASE endpoint_type # "multiple" /\ ~Scalable
  <2>1. CleanupTx = <<>>
    BY <1>3, Zenon DEF CleanupTx
  <2> QED
    BY <1>3, <2>1 DEF Range
<1> QED
  BY <1>1, <1>2, <1>3, Zenon

\* What initialize opens besides the transmit contexts, and with them.
LEMMA SharedFacts ==
    /\ Shared = {<<"fabric", 0>>, <<"domain", 0>>, <<"av", 0>>, <<"ep_rx", 0>>, <<"rx_cq", 0>>,
                 <<"dummy_cq", 0>>} \cup Range(CleanupTx)
    /\ Shared \subseteq Objects /\ <<"fabric", 0>> \in Shared
    /\ Opened = Shared \cup UNION {Range(Wrapper(i)) : i \in IF Scalable THEN 1..TxContexts ELSE {}}
    /\ Opened \subseteq Objects
<1>1. Shared = {<<"fabric", 0>>, <<"domain", 0>>, <<"av", 0>>, <<"ep_rx", 0>>, <<"rx_cq", 0>>,
                <<"dummy_cq", 0>>} \cup Range(CleanupTx)
  BY Zenon DEF Shared, open_fabric, create_address_vector, create_rx_endpoint,
         bind_tx_queue_to_rx_endpoint, new_endpoint_active, create_completion_queue
<1>2. Shared \subseteq Objects
  BY <1>1, TxFacts DEF Objects
<1>3. Opened = Shared \cup UNION {Range(Wrapper(i)) : i \in IF Scalable THEN 1..TxContexts ELSE {}}
  BY Zenon DEF Opened, Shared
<1>4. \A i \in 1..TxContexts : Range(Wrapper(i)) \subseteq Objects
  BY WrapperFacts, ControllerAssumption
<1> QED
  BY <1>1, <1>2, <1>3, <1>4

----------------------------------------------------------------------------
(* Types.                                                                  *)

\* A main thread moves, the others do not.
LEMMA GotoFacts ==
    ASSUME TypeOK, NEW p \in Procs, NEW l \in Labels, Goto(p, l)
    PROVE  pc' \in [Procs -> Labels] /\ pc'[p] = l /\ \A q \in Procs \ {p} : pc'[q] = pc[q]
BY Zenon DEF TypeOK, Goto

\* The places a main thread can be in.
LEMMA LabelFacts ==
    /\ {"main", "bcast", "init", "sending", "receiving"} \subseteq Labels
    /\ {"gather", "scatter", "scattering", "insert", "done", "terminated"} \subseteq Labels
BY Zenon DEF Labels

\* The context that NewContext makes.
LEMMA NextContext ==
    ASSUME TypeOK, NEW p \in Procs, NewContext(p)
    PROVE  /\ made[p] + 1 \in DOMAIN Order /\ Order[made[p] + 1] \in Contexts
           /\ made'[p] = made[p] + 1 /\ made' \in [Procs -> 0..Len(Order)]
<1>1. made[p] \in 0..Len(Order) /\ made[p] < Len(Order)
  BY Zenon DEF TypeOK, NewContext
<1>2. made[p] + 1 \in 1..Len(Order)
  BY <1>1, OrderFacts
<1>3. made' = [made EXCEPT ![p] = @ + 1]
  BY Zenon DEF NewContext
<1>4. made' \in [Procs -> 0..Len(Order)] /\ made'[p] = made[p] + 1
  BY <1>2, <1>3, OrderFacts DEF TypeOK
<1> QED
  BY <1>2, <1>4, OrderFacts, Zenon

\* The steps of a constructor around the exchange keep the types.
LEMMA SetupTypes ==
    ASSUME TypeOK, NEW p \in Procs,
           NewContext(p) \/ Bcast(p) \/ ReuseController(p) \/ SendReturns(p) \/ ScatterReturns(p),
           pc[p] \notin {"main", "done", "terminated"} => ctx[p] \in Contexts
    PROVE  TypeOK'
<1>1. CASE NewContext(p)
  <2> DEFINE c == Order[made[p] + 1]
  <2>1. c \in Contexts /\ made' \in [Procs -> 0..Len(Order)]
    BY <1>1, NextContext, Zenon
  <2>2. CASE Member(p, c)
    <3>1. /\ ctx' = [ctx EXCEPT ![p] = c] /\ Goto(p, "bcast")
          /\ m_ctxt_tag' = [m_ctxt_tag EXCEPT ![p][c] = This[p][c]]
      BY <1>1, <2>2, Zenon DEF NewContext
    <3> HIDE DEF c
    <3>2. This[p][c] \in CtxtTag
      BY <2>1 DEF CtxtTag
    <3>3. ctx' \in [Procs -> Contexts \cup {None}] /\ m_ctxt_tag' \in [Procs -> [Contexts -> CtxtTag]]
      BY <2>1, <3>1, <3>2, Zenon DEF TypeOK
    <3>4. pc' \in [Procs -> Labels]
      BY <3>1, GotoFacts, LabelFacts, Zenon
    <3> QED
      BY <1>1, <2>1, <3>3, <3>4, Zenon DEF NewContext, TypeOK, exchange, objects, threads
  <2>3. CASE ~Member(p, c)
    <3>1. UNCHANGED <<ctx, m_ctxt_tag, pc>>
      BY <1>1, <2>3, Zenon DEF NewContext
    <3> QED
      BY <1>1, <2>1, <3>1, Zenon DEF NewContext, TypeOK, exchange, objects, threads
  <2> QED
    BY <2>2, <2>3, Zenon
<1>2. CASE Bcast(p)
  <2>1. ctx[p] \in Contexts /\ Root(ctx[p]) \in Procs
    BY <1>2, RankFacts, Zenon DEF Bcast
  <2>2. m_ctxt_tag' \in [Procs -> [Contexts -> CtxtTag]]
    BY <1>2, <2>1 DEF Bcast, BcastTag, TypeOK
  <2>3. pc' \in [Procs -> Labels]
    BY <1>2, GotoFacts, LabelFacts, Zenon DEF Bcast
  <2> QED
    BY <1>2, <2>2, <2>3, Zenon DEF Bcast, TypeOK, exchange, objects, threads
<1>3. CASE ReuseController(p)
  <2>1. ctx[p] \in Contexts
    BY <1>3, Zenon DEF ReuseController
  <2>2. live' \in [Procs -> SUBSET Contexts]
    BY <1>3, <2>1, Zenon DEF ReuseController, TypeOK
  <2>3. pc' \in [Procs -> Labels]
    BY <1>3, GotoFacts, LabelFacts, Zenon DEF ReuseController
  <2> QED
    BY <1>3, <2>2, <2>3, Zenon DEF ReuseController, TypeOK, exchange, objects, threads
<1>4. CASE SendReturns(p)
  <2>1. pc' \in [Procs -> Labels]
    BY <1>4, GotoFacts, LabelFacts, Zenon DEF SendReturns
  <2> QED
    BY <1>4, <2>1, Zenon DEF SendReturns, TypeOK, exchange, objects, threads
<1>5. CASE ScatterReturns(p)
  <2>1. pc' \in [Procs -> Labels]
    BY <1>5, GotoFacts, LabelFacts, Zenon DEF ScatterReturns
  <2>2. peer' \in [Procs -> Nat]
    BY <1>5 DEF ScatterReturns, TypeOK
  <2> QED
    BY <1>5, <2>1, <2>2, Zenon DEF ScatterReturns, TypeOK, objects, threads
<1> QED
  BY <1>1, <1>2, <1>3, <1>4, <1>5, Zenon

\* controller_base::initialize keeps the types.
LEMMA InitializeTypes ==
    ASSUME TypeOK, NEW p \in Procs, Initialize(p), ctx[p] \in Contexts
    PROVE  TypeOK'
<1>1. open' \in [Procs -> SUBSET Objects]
  BY SharedFacts, Zenon DEF Initialize, TypeOK
<1>2. tx_endpoints' \in [Procs -> Seq(Nat \ {0})]
  <2> DEFINE s == IF Scalable THEN [i \in 1..TxContexts |-> i] ELSE <<>>
  <2>1. s \in Seq(Nat \ {0})
    <3>1. CASE Scalable
      <4>1. s = [i \in 1..TxContexts |-> i] /\ TxContexts \in Nat
        BY <3>1, ControllerAssumption, Zenon
      <4> QED
        BY <4>1
    <3>2. CASE ~Scalable
      BY <3>2
    <3> QED
      BY <3>1, <3>2, Zenon
  <2>2. tx_endpoints' = [tx_endpoints EXCEPT ![p] = s]
    BY Zenon DEF Initialize
  <2> HIDE DEF s
  <2> QED
    BY <2>1, <2>2, Zenon DEF TypeOK
<1>3. Root(ctx[p]) \in Procs /\ <<Here(p)>> \in Seq(Located) /\ FirstPeer \in Nat
  BY RankFacts DEF FirstPeer, Located
<1>4. CASE p = Root(ctx[p])
  <2>1. pc' \in [Procs -> Labels]
    BY <1>4, GotoFacts, LabelFacts, Zenon DEF Initialize
  <2>2. /\ localities' = [localities EXCEPT ![p] = <<Here(p)>>]
        /\ peer' = [peer EXCEPT ![p] = FirstPeer] /\ net' = net
    BY <1>4, Zenon DEF Initialize
  <2>3. localities' \in [Procs -> Seq(Located)] /\ peer' \in [Procs -> Nat]
    BY <1>3, <2>2, Zenon DEF TypeOK
  <2> QED
    BY <1>1, <1>2, <2>1, <2>2, <2>3, Zenon DEF Initialize, TypeOK, threads
<1>5. CASE p # Root(ctx[p])
  <2>1. pc' \in [Procs -> Labels]
    BY <1>5, GotoFacts, LabelFacts, Zenon DEF Initialize
  <2>2. [from |-> p, to |-> Root(ctx[p]), data |-> <<Here(p)>>] \in Message
    BY <1>3, Zenon DEF Message
  <2>3. net' \subseteq Message
    BY <1>5, <2>2, Zenon DEF Initialize, TypeOK
  <2>4. UNCHANGED <<localities, peer>>
    BY <1>5, Zenon DEF Initialize
  <2> QED
    BY <1>1, <1>2, <2>1, <2>3, <2>4, Zenon DEF Initialize, TypeOK, threads
<1> QED
  BY <1>4, <1>5, Zenon

\* The steps of MPI_exchange_localities keep the types.
LEMMA ExchangeTypes ==
    ASSUME TypeOK, NEW p \in Procs, Gather(p) \/ Scatter(p) \/ ReceiveAll(p) \/ Insert(p),
           ctx[p] \in Contexts, pc[p] = "scatter" => peer[p] \in Nat \ {0}
    PROVE  TypeOK'
<1>1. CASE Gather(p)
  <2>1. CASE peer[p] <= Size(ctx[p])
    <3>1. PICK m \in net : /\ net' = net \ {m}
                           /\ localities' = [localities EXCEPT ![p] = @ \o m.data]
      BY <1>1, <2>1, Zenon DEF Gather
    <3>2. localities[p] \in Seq(Located) /\ m.data \in Seq(Located)
      BY Zenon DEF TypeOK, Message
    <3>3. localities[p] \o m.data \in Seq(Located)
      BY <3>2
    <3>4. localities' \in [Procs -> Seq(Located)] /\ net' \subseteq net
      BY <3>1, <3>3, Zenon DEF TypeOK
    <3>5. peer' = [peer EXCEPT ![p] = @ + 1] /\ pc' = pc
      BY <1>1, <2>1, Zenon DEF Gather
    <3>6. peer' \in [Procs -> Nat]
      BY <3>5 DEF TypeOK
    <3> QED
      BY <1>1, <3>4, <3>5, <3>6, Zenon DEF Gather, TypeOK, objects, threads
  <2>2. CASE ~(peer[p] <= Size(ctx[p]))
    <3>1. pc' \in [Procs -> Labels]
      BY <1>1, <2>2, GotoFacts, LabelFacts, Zenon DEF Gather
    <3>2. peer' = [peer EXCEPT ![p] = FirstPeer] /\ UNCHANGED <<localities, net>>
      BY <1>1, <2>2, Zenon DEF Gather
    <3>3. peer' \in [Procs -> Nat]
      BY <3>2, Zenon DEF TypeOK, FirstPeer
    <3> QED
      BY <1>1, <3>1, <3>2, <3>3, Zenon DEF Gather, TypeOK, objects, threads
  <2> QED
    BY <2>1, <2>2, Zenon
<1>2. CASE Scatter(p)
  <2>1. CASE peer[p] <= Size(ctx[p])
    <3>1. CommOf[ctx[p]][peer[p]] \in Procs
      BY <1>2, <2>1, RankFacts DEF Scatter
    <3>2. [from |-> p, to |-> CommOf[ctx[p]][peer[p]], data |-> localities[p]] \in Message
      BY <3>1, Zenon DEF TypeOK, Message
    <3>3. pc' \in [Procs -> Labels]
      BY <1>2, <2>1, GotoFacts, LabelFacts, Zenon DEF Scatter
    <3> QED
      <4>1. net' \subseteq Message
        BY <1>2, <2>1, <3>2, Zenon DEF Scatter, TypeOK
      <4> QED
        BY <1>2, <3>3, <4>1, Zenon DEF Scatter, TypeOK, objects, threads
  <2>2. CASE ~(peer[p] <= Size(ctx[p]))
    <3>1. pc' \in [Procs -> Labels]
      BY <1>2, <2>2, GotoFacts, LabelFacts, Zenon DEF Scatter
    <3> QED
      <4>1. net' = net
        BY <1>2, <2>2, Zenon DEF Scatter
      <4> QED
        BY <1>2, <3>1, <4>1, Zenon DEF Scatter, TypeOK, objects, threads
  <2> QED
    BY <2>1, <2>2, Zenon
<1>3. CASE ReceiveAll(p)
  <2>1. pc' \in [Procs -> Labels]
    BY <1>3, GotoFacts, LabelFacts, Zenon DEF ReceiveAll
  <2>2. PICK m \in net : net' = net \ {m} /\ localities' = [localities EXCEPT ![p] = m.data]
    BY <1>3, Zenon DEF ReceiveAll
  <2>3. localities' \in [Procs -> Seq(Located)] /\ net' \subseteq net
    <3>1. localities \in [Procs -> Seq(Located)] /\ m \in Message
      BY <2>2, Zenon DEF TypeOK
    <3>2. m.data \in Seq(Located)
      BY <3>1, Zenon DEF Message
    <3> QED
      BY <2>2, <3>1, <3>2, Zenon
  <2> QED
    BY <1>3, <2>1, <2>3, Zenon DEF ReceiveAll, TypeOK, objects, threads
<1>4. CASE Insert(p)
  <2>1. av[p] \o localities[p] \in Seq(Located)
    BY DEF TypeOK
  <2>2. pc' \in [Procs -> Labels]
    BY <1>4, GotoFacts, LabelFacts, Zenon DEF Insert
  <2>3. av' \in [Procs -> Seq(Located)] /\ live' \in [Procs -> SUBSET Contexts]
    BY <1>4, <2>1, Zenon DEF Insert, insert_address, TypeOK
  <2> QED
    BY <1>4, <2>2, <2>3, Zenon DEF Insert, TypeOK, objects, threads
<1> QED
  BY <1>1, <1>2, <1>3, <1>4, Zenon

\* A thread that starts, gets a communicator or ends keeps the types.
LEMMA ThreadTypes ==
    ASSUME TypeOK, NEW t \in Threads, StartThread(t) \/ GetCommunicator(t) \/ ExitThread(t)
    PROVE  TypeOK'
<1> DEFINE p == ProcOf[t]
<1>1. p \in Procs /\ tx_endpoints[p] \in Seq(Nat \ {0})
  BY ControllerAssumption, Zenon DEF TypeOK
<1>2. CASE StartThread(t)
  <2>1. status' \in [Threads -> {"new", "running", "exited"}]
    BY <1>2, Zenon DEF StartThread, TypeOK
  <2> QED
    BY <1>2, <2>1, Zenon DEF StartThread, TypeOK, setup, exchange, objects
<1>3. CASE GetCommunicator(t)
  <2>1. CASE SharedTx(t)
    <3>1. /\ get_rx_endpoint \in Objects
          /\ endpoint_type = "multiple" => Head(CleanupTx) \in Objects
      BY TxFacts DEF get_rx_endpoint, Objects
    <3>2. (IF endpoint_type = "single" THEN get_rx_endpoint ELSE Head(CleanupTx)) \in Objects
      BY <2>1, <3>1, Zenon DEF SharedTx
    <3>3. m_tx_endpoint' \in [Threads -> Objects \cup {None}]
      BY <2>1, <3>2, Zenon DEF SharedTx, TypeOK
    <3> QED
      BY <1>3, <2>1, <3>3, Zenon DEF GetCommunicator, SharedTx, TypeOK, setup, exchange
  <2>2. CASE ThreadlocalTx(t)
    <3> DEFINE new == Len(tx_endpoints[p]) + 1
    <3>1. new \in Nat \ {0} /\ Append(tx_endpoints[p], new) \in Seq(Nat \ {0})
      BY <1>1
    <3>2. /\ open' = [open EXCEPT ![p] = @ \cup Range(Wrapper(new))]
          /\ tx_endpoints' = [tx_endpoints EXCEPT ![p] = Append(@, new)]
          /\ tl' = [tl EXCEPT ![t] = new]
          /\ m_tx_endpoint' = [m_tx_endpoint EXCEPT ![t] = Head(Wrapper(new))]
      BY <2>2, Zenon DEF ThreadlocalTx
    <3> HIDE DEF new, p
    <3>3. Range(Wrapper(new)) \subseteq Objects /\ Head(Wrapper(new)) \in Objects
      BY <3>1, WrapperFacts, Zenon
    <3>4. open' \in [Procs -> SUBSET Objects]
      BY <1>1, <3>2, <3>3, Zenon DEF TypeOK
    <3>5. tx_endpoints' \in [Procs -> Seq(Nat \ {0})]
      BY <1>1, <3>1, <3>2, Zenon DEF TypeOK
    <3>6. tl' \in [Threads -> (Nat \ {0}) \cup {None}] /\ m_tx_endpoint' \in [Threads -> Objects \cup {None}]
      BY <3>1, <3>2, <3>3, Zenon DEF TypeOK
    <3> QED
      BY <1>3, <3>4, <3>5, <3>6, Zenon DEF GetCommunicator, TypeOK, setup, exchange
  <2>3. CASE ScalableTx(t)
    <3> DEFINE first == Head(tx_endpoints[p])
    <3>1. first \in Nat \ {0} /\ Tail(tx_endpoints[p]) \in Seq(Nat \ {0})
      BY <1>1, <2>3 DEF ScalableTx
    <3>2. /\ tx_endpoints' = [tx_endpoints EXCEPT ![p] = Tail(@)]
          /\ tl' = [tl EXCEPT ![t] = first] /\ open' = open
          /\ m_tx_endpoint' = [m_tx_endpoint EXCEPT ![t] = Head(Wrapper(first))]
      BY <2>3, Zenon DEF ScalableTx
    <3> HIDE DEF first, p
    <3>3. Head(Wrapper(first)) \in Objects
      BY <3>1, WrapperFacts, Zenon
    <3>4. tx_endpoints' \in [Procs -> Seq(Nat \ {0})]
      BY <1>1, <3>1, <3>2, Zenon DEF TypeOK
    <3>5. tl' \in [Threads -> (Nat \ {0}) \cup {None}] /\ m_tx_endpoint' \in [Threads -> Objects \cup {None}]
      BY <3>1, <3>2, <3>3, Zenon DEF TypeOK
    <3> QED
      BY <1>3, <3>2, <3>4, <3>5, Zenon DEF GetCommunicator, TypeOK, setup, exchange
  <2> QED
    BY <1>3, <2>1, <2>2, <2>3, Zenon DEF GetCommunicator
<1>4. CASE ExitThread(t)
  <2> DEFINE pool == IF PushesBack(t) THEN Append(tx_endpoints[p], tl[t]) ELSE tx_endpoints[p]
  <2>1. pool \in Seq(Nat \ {0})
    <3>1. CASE PushesBack(t)
      <4>1. tl[t] \in Nat \ {0}
        BY <3>1, Zenon DEF PushesBack, TypeOK
      <4> QED
        BY <1>1, <3>1, <4>1
    <3>2. CASE ~PushesBack(t)
      BY <1>1, <3>2, Zenon
    <3> QED
      BY <3>1, <3>2, Zenon
  <2>2. tx_endpoints' = [tx_endpoints EXCEPT ![p] = pool]
    BY <1>4, Zenon DEF ExitThread
  <2> HIDE DEF pool
  <2>3. tx_endpoints' \in [Procs -> Seq(Nat \ {0})]
    BY <1>1, <2>1, <2>2, Zenon DEF TypeOK
  <2>4. /\ status' \in [Threads -> {"new", "running", "exited"}]
        /\ tl' \in [Threads -> (Nat \ {0}) \cup {None}]
        /\ m_tx_endpoint' \in [Threads -> Objects \cup {None}]
    BY <1>4, Zenon DEF ExitThread, TypeOK
  <2> QED
    BY <1>4, <2>3, <2>4, Zenon DEF ExitThread, TypeOK, setup, exchange
<1> QED
  BY <1>2, <1>3, <1>4, Zenon

\* make_region and the release of a region keep the types.
LEMMA RegionTypes ==
    ASSUME TypeOK, NEW r \in Regions, MakeRegion(r) \/ FreeRegion(r)
    PROVE  TypeOK'
<1>1. HeapOf[r] \in Procs /\ fi_register_memory(r) \in Objects
  BY ControllerAssumption, Zenon DEF fi_register_memory, Objects
<1>2. open' \in [Procs -> SUBSET Objects]
  <2>1. CASE MakeRegion(r)
    BY <1>1, <2>1, Zenon DEF MakeRegion, TypeOK
  <2>2. CASE FreeRegion(r)
    BY <1>1, <2>2, Zenon DEF FreeRegion, TypeOK
  <2> QED
    BY <2>1, <2>2, Zenon
<1>3. segment' \in [Regions -> Contexts \cup {None}]
  <2>1. CASE MakeRegion(r)
    <3>1. PICK c \in live[HeapOf[r]] : segment' = [segment EXCEPT ![r] = c]
      BY <2>1, Zenon DEF MakeRegion
    <3>2. c \in Contexts
      BY <1>1, Zenon DEF TypeOK
    <3> QED
      BY <3>1, <3>2, Zenon DEF TypeOK
  <2>2. CASE FreeRegion(r)
    BY <2>2, Zenon DEF FreeRegion, TypeOK
  <2> QED
    BY <2>1, <2>2, Zenon
<1> QED
  BY <1>2, <1>3, Zenon DEF MakeRegion, FreeRegion, TypeOK, setup, exchange, threads

\* The destructors of context and controller keep the types.
LEMMA EndTypes ==
    ASSUME TypeOK, NEW p \in Procs, DestroyContext(p) \/ ExitProcess(p)
    PROVE  TypeOK'
<1>1. CASE DestroyContext(p)
  <2>1. PICK c \in live[p] :
           /\ live' = [live EXCEPT ![p] = @ \ {c}]
           /\ segment' = [r \in Regions |-> IF r \in HeapRegions(p, c) THEN None ELSE segment[r]]
           /\ open' = [open EXCEPT ![p] = @ \ {fi_register_memory(r) : r \in HeapRegions(p, c)}]
    BY <1>1, Zenon DEF DestroyContext
  <2>2. live' \in [Procs -> SUBSET Contexts] /\ segment' \in [Regions -> Contexts \cup {None}]
    BY <2>1, Zenon DEF TypeOK
  <2>3. open' \in [Procs -> SUBSET Objects]
    BY <2>1, Zenon DEF TypeOK
  <2> QED
    BY <1>1, <2>2, <2>3, Zenon DEF DestroyContext, TypeOK, exchange, threads
<1>2. CASE ExitProcess(p)
  <2>1. pc' \in [Procs -> Labels]
    BY <1>2, GotoFacts, LabelFacts, Zenon DEF ExitProcess, Close
  <2>2. open' \in [Procs -> SUBSET Objects]
    <3>1. PICK closed : closed = Range(CloseOrder(p))
      BY Zenon
    <3>2. open' = open \/ open' = [open EXCEPT ![p] = @ \ closed]
      BY <1>2, <3>1, Zenon DEF ExitProcess, Close
    <3>3. open \in [Procs -> SUBSET Objects]
      BY Zenon DEF TypeOK
    <3>4. CASE open' = open
      BY <3>3, <3>4, Zenon
    <3>5. CASE open' = [open EXCEPT ![p] = @ \ closed]
      BY <3>3, <3>5, Zenon
    <3> QED
      BY <3>2, <3>4, <3>5, Zenon
  <2> QED
    BY <1>2, <2>1, <2>2, Zenon DEF ExitProcess, TypeOK, exchange, threads
<1> QED
  BY <1>1, <1>2, Zenon

----------------------------------------------------------------------------
(* What the steps leave alone.                                             *)

\* A step that is not about q.
Same(q) ==
    /\ pc'[q] = pc[q] /\ ctx'[q] = ctx[q] /\ made'[q] = made[q] /\ live'[q] = live[q]
    /\ av'[q] = av[q] /\ peer'[q] = peer[q] /\ localities'[q] = localities[q]
    /\ open'[q] = {} <=> open[q] = {}
    /\ m_ctxt_tag'[q] = m_ctxt_tag[q]

Step(p) ==
    \/ NewContext(p) \/ Creating(p) \/ SendReturns(p) \/ ScatterReturns(p)
    \/ DestroyContext(p) \/ ExitProcess(p)

\* A step of one main thread is not about another process.
LEMMA OthersKept ==
    ASSUME TypeOK, NEW p \in Procs, Step(p), NEW q \in Procs \ {p}
    PROVE  Same(q)
<1> USE DEF TypeOK, Same, Goto, exchange, objects, threads
<1>1. CASE NewContext(p)
  BY <1>1, Zenon DEF NewContext
<1>2. CASE Bcast(p)
  BY <1>2, Zenon DEF Bcast
<1>3. CASE ReuseController(p)
  BY <1>3, Zenon DEF ReuseController
<1>4. CASE Initialize(p)
  BY <1>4, Zenon DEF Initialize
<1>5. CASE Gather(p)
  BY <1>5, Zenon DEF Gather
<1>6. CASE Scatter(p)
  BY <1>6, Zenon DEF Scatter
<1>7. CASE ReceiveAll(p)
  BY <1>7, Zenon DEF ReceiveAll
<1>8. CASE Insert(p)
  BY <1>8, Zenon DEF Insert
<1>9. CASE SendReturns(p)
  BY <1>9, Zenon DEF SendReturns
<1>10. CASE ScatterReturns(p)
  BY <1>10, Zenon DEF ScatterReturns
<1>11. CASE DestroyContext(p)
  BY <1>11, Zenon DEF DestroyContext
<1>12. CASE ExitProcess(p)
  BY <1>12, Zenon DEF ExitProcess, Close
<1> QED
  BY <1>1, <1>2, <1>3, <1>4, <1>5, <1>6, <1>7, <1>8, <1>9, <1>10, <1>11, <1>12, Zenon DEF Step, Creating

\* The fabric stays open whatever regions are deregistered.
LEMMA FabricOpen ==
    ASSUME IInv, NEW p \in Procs, open[p] # {}
    PROVE  <<"fabric", 0>> \in open[p] /\ \A r : <<"fabric", 0>> # fi_register_memory(r)
<1>1. <<"fabric", 0>> \in Shared
  BY Zenon DEF Shared, open_fabric
<1>2. open[p] = Ours(p) \cup Registered(p)
  BY Zenon DEF IInv, Opens
<1>3. \A r : <<"fabric", 0>> # fi_register_memory(r)
  BY Zenon DEF fi_register_memory
<1> QED
  BY <1>1, <1>2, <1>3, Zenon DEF Ours

\* A process with a context has a controller.
LEMMA LiveOpen ==
    ASSUME IInv, NEW p \in Procs, live[p] # {}
    PROVE  open[p] # {}
BY Zenon DEF IInv, Places, Place

\* What threads do is not about the main threads.
LEMMA ThreadsKept ==
    ASSUME IInv, NEW t \in Threads, StartThread(t) \/ GetCommunicator(t) \/ ExitThread(t)
    PROVE  /\ \A q \in Procs : Same(q)
           /\ UNCHANGED <<endpoint_type, net, segment, live, pc, m_ctxt_tag>>
<1>1. UNCHANGED <<setup, exchange, segment>>
  BY Zenon DEF StartThread, GetCommunicator, ExitThread
<1>2. ASSUME NEW q \in Procs PROVE open'[q] = {} <=> open[q] = {}
  <2>1. CASE open' = open
    BY <2>1, Zenon
  <2>2. CASE GetCommunicator(t) /\ ThreadlocalTx(t)
    <3>1. open[ProcOf[t]] # {}
      BY <2>2, LiveOpen, ControllerAssumption, Zenon DEF GetCommunicator
    <3> QED
      <4>1. open \in [Procs -> SUBSET Objects]
        BY Zenon DEF IInv, TypeOK
      <4>2. PICK new : open' = [open EXCEPT ![ProcOf[t]] = @ \cup new]
        BY <2>2, Zenon DEF ThreadlocalTx
      <4> QED
        BY <3>1, <4>1, <4>2, Zenon
  <2> QED
    BY <2>1, <2>2, Zenon DEF StartThread, GetCommunicator, SharedTx, ScalableTx, ExitThread, objects
<1> QED
  BY <1>1, <1>2, Zenon DEF Same, setup, exchange

\* Regions are not about the main threads.
LEMMA RegionsKept ==
    ASSUME IInv, NEW r \in Regions, MakeRegion(r) \/ FreeRegion(r)
    PROVE  \A q \in Procs : Same(q)
<1>1. UNCHANGED <<setup, exchange>>
  BY Zenon DEF MakeRegion, FreeRegion
<1>2. HeapOf[r] \in Procs
  BY ControllerAssumption, Zenon
<1>3. ASSUME NEW q \in Procs PROVE open'[q] = {} <=> open[q] = {}
  <2>1. CASE MakeRegion(r)
    <3>1. live[HeapOf[r]] # {}
      BY <2>1, Zenon DEF MakeRegion
    <3>2. open[HeapOf[r]] # {}
      BY <1>2, <3>1, LiveOpen, Zenon
    <3> QED
      <4>1. open \in [Procs -> SUBSET Objects]
        BY Zenon DEF IInv, TypeOK
      <4>2. PICK new : open' = [open EXCEPT ![HeapOf[r]] = @ \cup {new}]
        BY <2>1, Zenon DEF MakeRegion
      <4> QED
        BY <3>2, <4>1, <4>2, Zenon
  <2>2. CASE FreeRegion(r)
    <3>1. open' = [open EXCEPT ![HeapOf[r]] = @ \ {fi_register_memory(r)}]
      BY <2>2, Zenon DEF FreeRegion
    <3>2. CASE q # HeapOf[r]
      BY <3>1, <3>2, Zenon DEF IInv, TypeOK
    <3>3. CASE q = HeapOf[r]
      BY <3>1, <3>3, FabricOpen, Zenon DEF IInv, TypeOK
    <3> QED
      BY <3>2, <3>3, Zenon
  <2> QED
    BY <2>1, <2>2, Zenon
<1> QED
  BY <1>1, <1>3, Zenon DEF Same, setup, exchange

----------------------------------------------------------------------------
(* The steps keep the invariant.                                           *)

\* A process whose main thread does nothing keeps its place.
LEMMA PlaceKept ==
    ASSUME NEW q, Place(q), Same(q)
    PROVE  Place(q)'
BY Zenon DEF Place, Same, Constructing, Exchanging, Ended, Passed

\* The context under construction.
LEMMA Constructed ==
    ASSUME TypeOK, NEW p \in Procs, Place(p), pc[p] \notin {"main", "done", "terminated"}
    PROVE  /\ made[p] \in DOMAIN Order /\ made[p] \in Nat \ {0} /\ Passed(p) = made[p] - 1
           /\ ctx[p] = Order[made[p]] /\ ctx[p] \in Contexts /\ Member(p, ctx[p])
BY OrderFacts DEF Place, Constructing, Passed

\* The constructor of a context is entered, or passed over by a process that is no member.
LEMMA NewContextPlace ==
    ASSUME TypeOK, NEW p \in Procs, Place(p), NewContext(p)
    PROVE  Place(p)'
<1> DEFINE c == Order[made[p] + 1]
<1>1. /\ made[p] \in Nat /\ made[p] + 1 \in DOMAIN Order /\ c \in Contexts
      /\ made'[p] = made[p] + 1
  BY NextContext DEF TypeOK
<1>2. pc[p] = "main" /\ Passed(p) = made[p]
  BY Zenon DEF NewContext, Passed, Constructing
<1>3. live' = live /\ av' = av /\ open' = open
  BY Zenon DEF NewContext, exchange, objects
<1>4. CASE Member(p, c)
  <2>1. ctx'[p] = c /\ pc'[p] = "bcast"
    BY <1>4, Zenon DEF NewContext, Goto, TypeOK
  <2>2. Constructing(p)' /\ ~Exchanging(p)' /\ Passed(p)' = made[p]
    BY <1>1, <2>1 DEF Constructing, Exchanging, Passed
  <2> QED
    BY <1>1, <1>2, <1>3, <1>4, <2>1, <2>2, Zenon DEF Place, Ended
<1>5. CASE ~Member(p, c)
  <2>1. pc'[p] = "main"
    BY <1>2, <1>5, Zenon DEF NewContext
  <2>2. ~Constructing(p)' /\ ~Exchanging(p)' /\ Passed(p)' = made[p] + 1
    BY <1>1, <2>1, Zenon DEF Constructing, Exchanging, Passed
  <2>3. \A j \in 1..(made[p] + 1) : j \in 1..made[p] \/ j = made[p] + 1
    BY <1>1
  <2>4. \A d \in live[p] : Member(p, d) /\ \E j \in 1..(made[p] + 1) : d = Order[j]
    BY <1>1, <1>2 DEF Place
  <2>5. open[p] = {} => live[p] = {} /\ av[p] = <<>> /\ \A j \in 1..(made[p] + 1) : ~Member(p, Order[j])
    BY <1>2, <1>5, <2>3, Zenon DEF Place, Ended
  <2> QED
    BY <1>3, <2>2, <2>4, <2>5, Zenon DEF Place
<1> QED
  BY <1>4, <1>5, Zenon

\* Steps inside a constructor, before and in the exchange of the addresses.
LEMMA WithinPlace ==
    ASSUME TypeOK, NEW p \in Procs, Place(p),
           Bcast(p) \/ Gather(p) \/ Scatter(p) \/ ReceiveAll(p) \/ SendReturns(p) \/ ScatterReturns(p)
    PROVE  Place(p)'
<1>1. UNCHANGED <<ctx, made, live, av, open>>
  BY Zenon DEF Bcast, Gather, Scatter, ReceiveAll, SendReturns, ScatterReturns, exchange, objects
<1>2. Constructing(p) /\ Constructing(p)' /\ (Exchanging(p)' <=> Exchanging(p))
  <2>1. CASE Bcast(p)
    BY <2>1, Zenon DEF Bcast, Goto, TypeOK, Constructing, Exchanging
  <2>2. CASE Gather(p)
    BY <2>2, Zenon DEF Gather, Goto, TypeOK, Constructing, Exchanging
  <2>3. CASE Scatter(p)
    BY <2>3, Zenon DEF Scatter, Goto, TypeOK, Constructing, Exchanging
  <2>4. CASE ReceiveAll(p)
    BY <2>4, Zenon DEF ReceiveAll, Goto, TypeOK, Constructing, Exchanging
  <2>5. CASE SendReturns(p)
    BY <2>5, Zenon DEF SendReturns, Goto, TypeOK, Constructing, Exchanging
  <2>6. CASE ScatterReturns(p)
    BY <2>6, Zenon DEF ScatterReturns, Goto, TypeOK, Constructing, Exchanging
  <2> QED
    BY <2>1, <2>2, <2>3, <2>4, <2>5, <2>6, Zenon
<1>3. ~Ended(p) /\ Passed(p)' = Passed(p)
  BY <1>1, <1>2, Zenon DEF Ended, Constructing, Passed
<1> QED
  BY <1>1, <1>2, <1>3, Zenon DEF Place

\* initialize runs in the first context of the process only.
LEMMA InitializePlace ==
    ASSUME TypeOK, NEW p \in Procs, Place(p), Initialize(p)
    PROVE  Place(p)'
<1>1. pc[p] = "init" /\ open[p] = {} /\ UNCHANGED <<ctx, made, live, av>>
  BY Zenon DEF Initialize
<1>2. pc'[p] \in {"gather", "sending"}
  BY Zenon DEF Initialize, Goto, TypeOK
<1>3. open'[p] # {}
  <2>1. open'[p] = Opened
    BY Zenon DEF Initialize, TypeOK
  <2> QED
    BY <2>1, SharedFacts, Zenon
<1>4. Constructing(p) /\ Constructing(p)' /\ Exchanging(p)' /\ Passed(p)' = Passed(p)
  BY <1>1, <1>2, Zenon DEF Constructing, Exchanging, Passed
<1>5. /\ made[p] \in DOMAIN Order /\ Passed(p) = made[p] - 1
      /\ ctx[p] = Order[made[p]] /\ Member(p, ctx[p])
  BY <1>1, Constructed, Zenon
<1>6. av[p] = <<>> /\ \A j \in 1..(made[p] - 1) : ~Member(p, Order[j])
  BY <1>1, <1>5, Zenon DEF Place, Ended
<1>7. First(p, ctx[p])
  BY <1>5, <1>6, Zenon DEF First
<1> QED
  BY <1>1, <1>3, <1>4, <1>6, <1>7, Zenon DEF Place

\* The constructor returns.
LEMMA MadePlace ==
    ASSUME TypeOK, NEW p \in Procs, Place(p), ReuseController(p) \/ Insert(p)
    PROVE  Place(p)' /\ open'[p] # {}
<1>1. /\ pc[p] \in {"init", "insert"} /\ pc'[p] = "main"
      /\ live'[p] = live[p] \cup {ctx[p]} /\ made' = made
  BY Zenon DEF ReuseController, Insert, Goto, TypeOK
<1>2. /\ made[p] \in Nat \ {0} /\ Passed(p) = made[p] - 1
      /\ ctx[p] = Order[made[p]] /\ Member(p, ctx[p])
  BY <1>1, Constructed, Zenon
<1>3. open'[p] # {}
  BY Zenon DEF ReuseController, Insert, Place, Exchanging, objects
<1>4. ~Constructing(p)' /\ ~Exchanging(p)' /\ Passed(p)' = made[p]
  BY <1>1, Zenon DEF Constructing, Exchanging, Passed
<1>5. \A c \in live'[p] : Member(p, c) /\ \E j \in 1..made[p] : c = Order[j]
  BY <1>1, <1>2 DEF Place
<1> QED
  BY <1>3, <1>4, <1>5, Zenon DEF Place

\* A context is destroyed, or the process ends.
LEMMA EndPlace ==
    ASSUME IInv, NEW p \in Procs, DestroyContext(p) \/ ExitProcess(p)
    PROVE  Place(p)'
<1>1. Place(p) /\ pc[p] = "main" /\ UNCHANGED <<ctx, made, av>>
  BY Zenon DEF IInv, Places, DestroyContext, ExitProcess, exchange
<1>2. CASE DestroyContext(p)
  <2>1. PICK c \in live[p] :
           /\ live' = [live EXCEPT ![p] = @ \ {c}]
           /\ open' = [open EXCEPT ![p] = @ \ {fi_register_memory(r) : r \in HeapRegions(p, c)}]
    BY <1>2, Zenon DEF DestroyContext
  <2>2. open[p] # {}
    BY <2>1, LiveOpen, Zenon
  <2>3. open'[p] = open[p] \ {fi_register_memory(r) : r \in HeapRegions(p, c)}
    BY <2>1, Zenon DEF IInv, TypeOK
  <2>4. open'[p] # {}
    BY <2>2, <2>3, FabricOpen, Zenon
  <2>5. live'[p] \subseteq live[p] /\ pc' = pc
    BY <1>2, <2>1, Zenon DEF DestroyContext, IInv, TypeOK
  <2> QED
    BY <1>1, <2>4, <2>5, Zenon DEF Place, Constructing, Exchanging, Passed
<1>3. CASE ExitProcess(p)
  <2>1. pc'[p] \in {"done", "terminated"} /\ live' = live /\ live[p] = {}
    BY <1>3, Zenon DEF ExitProcess, Close, Goto, IInv, TypeOK
  <2>2. ~Constructing(p)' /\ ~Exchanging(p)' /\ Ended(p)'
    BY <2>1, Zenon DEF Constructing, Exchanging, Ended
  <2> QED
    BY <2>1, <2>2, Zenon DEF Place
<1> QED
  BY <1>2, <1>3, Zenon

\* Every step of a main thread keeps the places.
LEMMA StepPlaces ==
    ASSUME IInv, NEW p \in Procs, Step(p)
    PROVE  Places'
<1>1. TypeOK /\ \A q \in Procs : Place(q)
  BY Zenon DEF IInv, Places
<1>2. Place(p)'
  BY <1>1, NewContextPlace, WithinPlace, InitializePlace, MadePlace, EndPlace, Zenon DEF Step, Creating
<1>3. ASSUME NEW q \in Procs \ {p} PROVE Place(q)'
  BY <1>1, <1>3, OthersKept, PlaceKept, Zenon
<1> QED
  BY <1>2, <1>3, Zenon DEF Places

\* The exchange of a process whose main thread does nothing is where it was.
LEMMA ExchangedKept ==
    ASSUME NEW q, Exchanged(q), Same(q)
    PROVE  Exchanged(q)'
BY Zenon DEF Exchanged, Same, Exchanging

\* The addresses of the first n ranks.
LEMMA AddressTypes ==
    ASSUME NEW c \in Contexts, NEW n \in 0..Size(c)
    PROVE  Addresses(c, n) \in Seq(Located) /\ Len(Addresses(c, n)) = n
<1>1. n \in Nat /\ \A k \in 1..n : Here(CommOf[c][k]) \in Located
  BY RankFacts DEF Located
<1> QED
  BY <1>1 DEF Addresses

\* Appending to a sequence, as a function.
LEMMA OneMore ==
    ASSUME NEW S, NEW s \in Seq(S), NEW x \in S
    PROVE  s \o <<x>> = [i \in 1..(Len(s) + 1) |-> IF i = Len(s) + 1 THEN x ELSE s[i]]
<1>1. /\ s \o <<x>> \in Seq(S) /\ Len(s) \in Nat /\ DOMAIN (s \o <<x>>) = 1..(Len(s) + 1)
      /\ \A i \in 1..(Len(s) + 1) : (s \o <<x>>)[i] = IF i = Len(s) + 1 THEN x ELSE s[i]
  OBVIOUS
<1> QED
  BY <1>1

\* The root appends the address of the next rank.
LEMMA AddressesGrow ==
    ASSUME NEW c \in Contexts, NEW n \in 1..Size(c)
    PROVE  Addresses(c, n - 1) \o <<Here(CommOf[c][n])>> = Addresses(c, n)
<1>1. n - 1 \in 0..Size(c) /\ n \in Nat /\ Here(CommOf[c][n]) \in Located
  BY RankFacts DEF Located
<1>2. PICK s : s = Addresses(c, n - 1)
  BY Zenon
<1>3. s \in Seq(Located) /\ Len(s) = n - 1
  BY <1>1, <1>2, AddressTypes, Zenon
<1>4. s \o <<Here(CommOf[c][n])>>
        = [k \in 1..(Len(s) + 1) |-> IF k = Len(s) + 1 THEN Here(CommOf[c][n]) ELSE s[k]]
  BY <1>1, <1>3, OneMore
<1>5. \A k \in 1..n : k # n => s[k] = Here(CommOf[c][k])
  BY <1>1, <1>2 DEF Addresses
<1>6. Len(s) + 1 = n
  BY <1>1, <1>3
<1> QED
  BY <1>2, <1>4, <1>5, <1>6 DEF Addresses

\* A process that gathers gets reports, one that waits for the table gets it.
LEMMA GatherMatches ==
    ASSUME IInv, NEW p \in Procs, pc[p] = "gather", peer[p] <= Size(ctx[p]),
           NEW m \in net, FromPeer(p, m)
    PROVE  m.data = <<Here(CommOf[ctx[p]][peer[p]])>>
<1> DEFINE c == ctx[p]
           q == CommOf[c][peer[p]]
<1>1. c \in Contexts /\ First(p, c)
  BY Constructed, Zenon DEF IInv, Places, Place, Exchanging
<1>2. p = Root(c) /\ peer[p] \in 2..Size(c)
  BY RankFacts, <1>1 DEF IInv, TypeOK, Exchange, Exchanged
<1>3. m.to = p /\ m.from = q /\ Member(q, c) /\ q # Root(c)
  BY <1>1, <1>2, RankFacts DEF FromPeer
<1>4. ~Table(m)
  <2> SUFFICES ASSUME Table(m) PROVE FALSE
    BY Zenon
  <2>1. PICK d \in Contexts : First(q, d) /\ q = Root(d) /\ Member(p, d)
    BY <1>3, Zenon DEF Table
  <2>2. c = d
    BY <1>1, <1>3, <2>1, FirstSame, Zenon
  <2> QED
    BY <1>3, <2>1, <2>2, Zenon
<1> QED
  BY <1>3, <1>4, Zenon DEF IInv, Exchange, Report

\* What a process receives from the root of its context is the whole table.
LEMMA ReceiveMatches ==
    ASSUME IInv, NEW p \in Procs, pc[p] = "receiving", NEW m \in net,
           m.to = p, m.from = Root(ctx[p])
    PROVE  m.data = Addresses(ctx[p], Size(ctx[p]))
<1> DEFINE c == ctx[p]
<1>1. c \in Contexts /\ First(p, c) /\ Member(p, c)
  BY Constructed, Zenon DEF IInv, Places, Place, Exchanging
<1>2. p # Root(c) /\ Member(Root(c), c)
  BY <1>1, RankFacts, Zenon DEF IInv, Exchange, Exchanged
<1>3. ~Report(m)
  <2> SUFFICES ASSUME Report(m) PROVE FALSE
    BY Zenon
  <2>1. PICK d \in Contexts : First(Root(c), d) /\ p = Root(d)
    BY Zenon DEF Report
  <2>2. Member(p, d)
    BY <2>1, RankFacts, Zenon
  <2>3. c = d
    BY <1>1, <1>2, <2>1, <2>2, FirstSame, Zenon
  <2> QED
    BY <1>2, <2>1, <2>3, Zenon
<1>4. PICK d \in Contexts : First(Root(c), d) /\ Member(p, d) /\ m.data = Addresses(d, Size(d))
  BY <1>3, Zenon DEF IInv, Exchange, Table
<1>5. c = d
  BY <1>1, <1>2, <1>4, FirstSame, Zenon
<1> QED
  BY <1>4, <1>5, Zenon

\* Steps outside the exchange.
LEMMA OutsideExchanged ==
    ASSUME IInv, NEW p \in Procs,
           \/ NewContext(p) \/ Bcast(p) \/ ReuseController(p)
           \/ DestroyContext(p) \/ ExitProcess(p)
    PROVE  Exchanged(p)' /\ net' = net
<1>1. av' = av /\ net' = net
  BY Zenon DEF NewContext, Bcast, ReuseController, DestroyContext, ExitProcess, exchange
<1>2. pc[p] \in {"main", "bcast", "init"}
  BY Zenon DEF NewContext, Bcast, ReuseController, DestroyContext, ExitProcess
<1>3. pc'[p] \in {"main", "bcast", "init", "done", "terminated"}
  <2> USE DEF IInv, TypeOK, Goto
  <2>1. CASE NewContext(p)
    BY <2>1, Zenon DEF NewContext
  <2>2. CASE Bcast(p)
    BY <2>2, Zenon DEF Bcast
  <2>3. CASE ReuseController(p)
    BY <2>3, Zenon DEF ReuseController
  <2>4. CASE DestroyContext(p)
    BY <2>4, Zenon DEF DestroyContext
  <2>5. CASE ExitProcess(p)
    BY <2>5, Zenon DEF ExitProcess, Close
  <2> QED
    BY <2>1, <2>2, <2>3, <2>4, <2>5, Zenon
<1>4. open'[p] # {} => open[p] # {}
  <2>1. CASE open' = open
    BY <2>1, Zenon
  <2>2. CASE DestroyContext(p)
    BY <2>2 DEF DestroyContext, IInv, TypeOK
  <2>3. CASE ExitProcess(p)
    BY <2>3 DEF ExitProcess, Close, IInv, TypeOK
  <2> QED
    BY <2>1, <2>2, <2>3, Zenon DEF NewContext, Bcast, ReuseController, objects
<1> QED
  BY <1>1, <1>2, <1>3, <1>4, Zenon DEF IInv, Exchange, Exchanged, Exchanging

\* What the invariant says of a process in the exchange.
LEMMA InExchange ==
    ASSUME IInv, NEW p \in Procs, Exchanging(p)
    PROVE  /\ ctx[p] \in Contexts /\ First(p, ctx[p]) /\ Member(p, ctx[p]) /\ av[p] = <<>>
           /\ Size(ctx[p]) \in Nat \ {0} /\ peer[p] \in Nat /\ localities[p] \in Seq(Located)
<1>1. TypeOK /\ Place(p) /\ pc[p] \notin {"main", "done", "terminated"}
  BY Zenon DEF IInv, Places, Exchanging
<1>2. ctx[p] \in Contexts /\ Member(p, ctx[p])
  BY <1>1, Constructed, Zenon
<1> QED
  BY <1>1, <1>2, RankFacts, Zenon DEF Place, TypeOK

\* initialize: the root starts with its own address, any other process reports its own.
LEMMA InitializeExchanged ==
    ASSUME IInv, NEW p \in Procs, Initialize(p)
    PROVE  Exchanged(p)' /\ \A m \in net' : Report(m) \/ Table(m)
<1> DEFINE c == ctx[p]
<1>1. /\ c \in Contexts /\ Size(c) \in Nat \ {0} /\ c = Order[made[p]] /\ Member(p, c)
      /\ made[p] \in DOMAIN Order
  BY Constructed, RankFacts, Zenon DEF IInv, Places, Initialize
<1>2. First(p, c)
  <2>1. \A j \in 1..(made[p] - 1) : ~Member(p, Order[j])
    BY Zenon DEF IInv, Places, Place, Initialize, Constructing, Passed, Ended
  <2> QED
    BY <1>1, <2>1, Zenon DEF First
<1>3. ctx'[p] = c
  BY Zenon DEF Initialize
<1>4. CASE p = Root(c)
  <2>1. pc'[p] = "gather" /\ peer'[p] = 2 /\ localities'[p] = <<Here(p)>> /\ net' = net
    BY <1>4, Zenon DEF Initialize, Goto, FirstPeer, IInv, TypeOK
  <2>2. <<Here(p)>> = Addresses(c, 1)
    BY <1>4 DEF Addresses, Root
  <2> QED
    BY <1>1, <1>3, <1>4, <2>1, <2>2 DEF Exchanged, Exchanging, IInv, Exchange
<1>5. CASE p # Root(c)
  <2>1. pc'[p] = "sending" /\ net' = net \cup {[from |-> p, to |-> Root(c), data |-> <<Here(p)>>]}
    BY <1>5, Zenon DEF Initialize, Goto, IInv, TypeOK
  <2>2. Report([from |-> p, to |-> Root(c), data |-> <<Here(p)>>])
    BY <1>1, <1>2, Zenon DEF Report
  <2>3. Exchanged(p)'
    BY <1>3, <1>5, <2>1, Zenon DEF Exchanged, Exchanging
  <2> QED
    BY <2>1, <2>2, <2>3, Zenon DEF IInv, Exchange
<1> QED
  BY <1>4, <1>5, Zenon

\* The root receives the address of the next rank, from that rank.
LEMMA GatherExchanged ==
    ASSUME IInv, NEW p \in Procs, Gather(p)
    PROVE  Exchanged(p)' /\ net' \subseteq net
<1> DEFINE c == ctx[p]
<1>1. pc[p] = "gather" /\ Exchanging(p) /\ ctx' = ctx
  BY Zenon DEF Gather, Exchanging
<1>2. c \in Contexts /\ Size(c) \in Nat \ {0}
  BY <1>1, InExchange, Zenon
<1>3. p = Root(c) /\ peer[p] \in 2..(Size(c) + 1) /\ localities[p] = Addresses(c, peer[p] - 1)
  BY <1>1, Zenon DEF IInv, Exchange, Exchanged
<1>4. CASE peer[p] <= Size(c)
  <2>1. PICK m \in net : /\ FromPeer(p, m) /\ net' = net \ {m}
                         /\ localities' = [localities EXCEPT ![p] = @ \o m.data]
                         /\ peer' = [peer EXCEPT ![p] = @ + 1] /\ pc' = pc
    BY <1>4, Zenon DEF Gather
  <2>2. m.data = <<Here(CommOf[c][peer[p]])>>
    BY <1>1, <1>4, <2>1, GatherMatches, Zenon
  <2>3. localities'[p] = localities[p] \o m.data /\ peer'[p] = peer[p] + 1
    <3>1. localities \in [Procs -> Seq(Located)] /\ peer \in [Procs -> Nat]
      BY Zenon DEF IInv, TypeOK
    <3> QED
      BY <2>1, <3>1, Zenon
  <2>4. localities'[p] = Addresses(c, peer[p])
    <3>1. peer[p] \in 1..Size(c)
      BY <1>2, <1>3, <1>4
    <3>2. Addresses(c, peer[p] - 1) \o <<Here(CommOf[c][peer[p]])>> = Addresses(c, peer[p])
      BY <1>2, <3>1, AddressesGrow, Zenon
    <3> QED
      BY <1>3, <2>2, <2>3, <3>2, Zenon
  <2>5. peer'[p] \in 2..(Size(c) + 1) /\ peer'[p] - 1 = peer[p]
    BY <1>2, <1>3, <1>4, <2>3
  <2>6. pc'[p] = "gather" /\ net' \subseteq net
    BY <1>1, <2>1, Zenon
  <2> QED
    BY <1>1, <1>3, <2>4, <2>5, <2>6, Zenon DEF Exchanged, Exchanging
<1>5. CASE ~(peer[p] <= Size(c))
  <2>1. peer'[p] = 2 /\ pc'[p] = "scatter" /\ localities' = localities /\ net' = net
    BY <1>5, Zenon DEF Gather, Goto, FirstPeer, IInv, TypeOK
  <2>2. peer[p] - 1 = Size(c) /\ 2 \in 2..(Size(c) + 1)
    BY <1>2, <1>3, <1>5
  <2>3. localities[p] = Addresses(c, Size(c))
    BY <1>3, <2>2, Zenon
  <2> QED
    BY <1>1, <1>3, <2>1, <2>2, <2>3, Zenon DEF Exchanged, Exchanging
<1> QED
  BY <1>4, <1>5, Zenon

\* The root sends the whole table to the next rank.
LEMMA ScatterExchanged ==
    ASSUME IInv, NEW p \in Procs, Scatter(p)
    PROVE  Exchanged(p)' /\ \A m \in net' : Report(m) \/ Table(m)
<1> DEFINE c == ctx[p]
           q == CommOf[c][peer[p]]
<1>1. pc[p] = "scatter" /\ Exchanging(p) /\ UNCHANGED <<ctx, localities, peer>>
  BY Zenon DEF Scatter, Exchanging
<1>2. c \in Contexts /\ First(p, c) /\ Size(c) \in Nat \ {0}
  BY <1>1, InExchange, Zenon
<1>3. p = Root(c) /\ peer[p] \in 2..(Size(c) + 1) /\ localities[p] = Addresses(c, Size(c))
  BY <1>1, Zenon DEF IInv, Exchange, Exchanged
<1>4. CASE peer[p] <= Size(c)
  <2>1. /\ net' = net \cup {[from |-> p, to |-> q, data |-> localities[p]]}
        /\ pc'[p] = "scattering"
    BY <1>4, Zenon DEF Scatter, Goto, IInv, TypeOK
  <2>2. Member(q, c)
    BY <1>2, <1>3, <1>4, RankFacts
  <2>3. Table([from |-> p, to |-> q, data |-> localities[p]])
    BY <1>2, <1>3, <2>2, Zenon DEF Table
  <2>4. Exchanged(p)'
    BY <1>1, <1>3, <1>4, <2>1, Zenon DEF Exchanged, Exchanging
  <2> QED
    BY <2>1, <2>3, <2>4, Zenon DEF IInv, Exchange
<1>5. CASE ~(peer[p] <= Size(c))
  <2>1. net' = net /\ pc'[p] = "insert"
    BY <1>5, Zenon DEF Scatter, Goto, IInv, TypeOK
  <2> QED
    BY <1>1, <1>3, <2>1, Zenon DEF Exchanged, Exchanging, IInv, Exchange
<1> QED
  BY <1>4, <1>5, Zenon

\* An MPI_Send returns.
LEMMA ReturnsExchanged ==
    ASSUME IInv, NEW p \in Procs, SendReturns(p) \/ ScatterReturns(p)
    PROVE  Exchanged(p)' /\ net' = net
<1> DEFINE c == ctx[p]
<1>1. CASE SendReturns(p)
  <2>1. pc[p] = "sending" /\ pc'[p] = "receiving" /\ ctx' = ctx /\ net' = net
    BY <1>1, Zenon DEF SendReturns, Goto, IInv, TypeOK, exchange
  <2> QED
    BY <2>1, Zenon DEF Exchanged, Exchanging, IInv, Exchange
<1>2. CASE ScatterReturns(p)
  <2>1. /\ pc[p] = "scattering" /\ pc'[p] = "scatter" /\ UNCHANGED <<ctx, net, localities>>
        /\ peer'[p] = peer[p] + 1
    BY <1>2, Zenon DEF ScatterReturns, Goto, IInv, TypeOK
  <2>2. c \in Contexts /\ Size(c) \in Nat \ {0}
    BY <2>1, InExchange, Zenon DEF Exchanging
  <2>3. /\ p = Root(c) /\ peer[p] \in 2..(Size(c) + 1) /\ peer[p] <= Size(c)
        /\ localities[p] = Addresses(c, Size(c))
    BY <2>1, Zenon DEF IInv, Exchange, Exchanged
  <2>4. peer'[p] \in 2..(Size(c) + 1)
    BY <2>1, <2>2, <2>3
  <2> QED
    BY <2>1, <2>3, <2>4, Zenon DEF Exchanged, Exchanging
<1> QED
  BY <1>1, <1>2, Zenon

\* The table arrives.
LEMMA ReceiveExchanged ==
    ASSUME IInv, NEW p \in Procs, ReceiveAll(p)
    PROVE  Exchanged(p)' /\ net' \subseteq net
<1>1. PICK m \in net : /\ m.to = p /\ m.from = Root(ctx[p]) /\ net' = net \ {m}
                       /\ localities' = [localities EXCEPT ![p] = m.data]
  BY Zenon DEF ReceiveAll
<1>2. pc[p] = "receiving" /\ pc'[p] = "insert" /\ ctx' = ctx
  BY Zenon DEF ReceiveAll, Goto, IInv, TypeOK
<1>3. localities'[p] = Addresses(ctx[p], Size(ctx[p]))
  BY <1>1, <1>2, ReceiveMatches, Zenon DEF IInv, TypeOK
<1> QED
  BY <1>1, <1>2, <1>3, Zenon DEF Exchanged, Exchanging

\* fi_av_insert puts the addresses of all ranks into the address vector, by rank.
LEMMA InsertExchanged ==
    ASSUME IInv, NEW p \in Procs, Insert(p)
    PROVE  Exchanged(p)' /\ net' = net
<1>1. /\ pc[p] = "insert" /\ pc'[p] = "main" /\ net' = net
      /\ av'[p] = av[p] \o localities[p]
  BY Zenon DEF Insert, insert_address, Goto, IInv, TypeOK
<1>2. /\ ctx[p] \in Contexts /\ First(p, ctx[p]) /\ av[p] = <<>>
      /\ localities[p] \in Seq(Located)
  BY <1>1, InExchange, Zenon DEF Exchanging
<1>3. localities[p] = Addresses(ctx[p], Size(ctx[p]))
  BY <1>1, Zenon DEF IInv, Exchange, Exchanged
<1>4. <<>> \o localities[p] = localities[p]
  BY <1>2
<1>5. av'[p] = Addresses(ctx[p], Size(ctx[p]))
  BY <1>1, <1>2, <1>3, <1>4, Zenon
<1> QED
  BY <1>1, <1>2, <1>5, Zenon DEF Exchanged

\* Every step of a main thread keeps the exchange.
LEMMA StepExchange ==
    ASSUME IInv, NEW p \in Procs, Step(p)
    PROVE  Exchange'
<1>1. Exchanged(p)' /\ \A m \in net' : Report(m) \/ Table(m)
  BY OutsideExchanged, InitializeExchanged, GatherExchanged, ScatterExchanged, ReturnsExchanged,
     ReceiveExchanged, InsertExchanged, Zenon DEF Step, Creating, IInv, Exchange
<1>2. ASSUME NEW q \in Procs \ {p} PROVE Exchanged(q)'
  BY <1>2, OthersKept, ExchangedKept, Zenon DEF IInv, Exchange
<1>3. \A m : (Report(m)' <=> Report(m)) /\ (Table(m)' <=> Table(m))
  BY Zenon
<1> QED
  BY <1>1, <1>2, <1>3, Zenon DEF Exchange

\* MPI_Bcast gives every rank the tag of the root before the context is used.
LEMMA StepTagged ==
    ASSUME IInv, NEW p \in Procs, Step(p)
    PROVE  Tagged'
<1> DEFINE Tag(q) == /\ \A c \in live[q] : m_ctxt_tag[q][c] = TagOf(c)
                     /\ Constructing(q) /\ pc[q] # "bcast" => m_ctxt_tag[q][ctx[q]] = TagOf(ctx[q])
           Roots == \A c \in Contexts : m_ctxt_tag[Root(c)][c] \in {None, TagOf(c)}
<1>1. TypeOK /\ Roots /\ \A q \in Procs : Tag(q)
  BY Zenon DEF IInv, Tagged
<1>2. ASSUME NEW q \in Procs \ {p} PROVE Tag(q)'
  <2>1. Same(q)
    BY <1>1, <1>2, OthersKept, Zenon
  <2> QED
    BY <1>1, <2>1 DEF Same, Constructing
<1>3. CASE NewContext(p)
  <2> DEFINE c == Order[made[p] + 1]
  <2>1. c \in Contexts /\ made[p] + 1 \in DOMAIN Order /\ live' = live /\ pc[p] = "main"
    BY <1>1, <1>3, NextContext, Zenon DEF NewContext
  <2>2. CASE Member(p, c)
    <3>1. m_ctxt_tag' = [m_ctxt_tag EXCEPT ![p][c] = This[p][c]] /\ pc'[p] = "bcast"
      BY <1>1, <1>3, <2>2, Zenon DEF NewContext, Goto, TypeOK
    <3>2. c \notin live[p]
      <4>1. made[p] \in Nat /\ Passed(p) = made[p]
        BY <1>1, <2>1, OrderFacts DEF TypeOK, Passed, Constructing
      <4>2. ASSUME c \in live[p] PROVE FALSE
        <5>1. PICK j \in 1..made[p] : c = Order[j]
          BY <4>1, <4>2 DEF IInv, Places, Place
        <5>2. j \in DOMAIN Order /\ j # made[p] + 1
          BY <2>1, <4>1, OrderFacts
        <5> QED
          BY <2>1, <5>1, <5>2, OrderFacts, Zenon
      <4> QED
        BY <4>2, Zenon
    <3> HIDE DEF c
    <3>3. ASSUME NEW q \in Procs, NEW d \in Contexts
          PROVE  m_ctxt_tag'[q][d] = IF q = p /\ d = c THEN This[p][c] ELSE m_ctxt_tag[q][d]
      <4>1. m_ctxt_tag \in [Procs -> [Contexts -> CtxtTag]]
        BY <1>1, Zenon DEF TypeOK
      <4> QED
        BY <2>1, <3>1, <4>1, Zenon
    <3>4. Tag(p)'
      BY <1>1, <2>1, <3>1, <3>2, <3>3, Zenon DEF TypeOK
    <3>5. Roots'
      <4> SUFFICES ASSUME NEW d \in Contexts PROVE m_ctxt_tag'[Root(d)][d] \in {None, TagOf(d)}
        BY Zenon
      <4>1. Root(d) \in Procs
        BY RankFacts, Zenon
      <4> QED
        BY <1>1, <3>3, <4>1, Zenon DEF TagOf
    <3> QED
      BY <1>2, <3>4, <3>5, Zenon DEF Tagged
  <2>3. CASE ~Member(p, c)
    <3>1. UNCHANGED <<m_ctxt_tag, pc>>
      BY <1>3, <2>3, Zenon DEF NewContext
    <3> QED
      BY <1>1, <1>2, <2>1, <3>1, Zenon DEF Tagged, Constructing
  <2> QED
    BY <2>2, <2>3, Zenon
<1>4. CASE Bcast(p)
  <2> DEFINE c == ctx[p]
  <2>1. c \in Contexts /\ Root(c) \in Procs /\ pc'[p] = "init" /\ UNCHANGED <<ctx, live>>
    BY <1>1, <1>4, Constructed, RankFacts, Zenon DEF IInv, Places, Bcast, Goto, TypeOK
  <2>2. m_ctxt_tag[Root(c)][c] = TagOf(c)
    BY <1>1, <1>4, <2>1, Zenon DEF Bcast
  <2>3. m_ctxt_tag' = [m_ctxt_tag EXCEPT ![p][c] = TagOf(c)]
    BY <1>4, <2>2, Zenon DEF Bcast, BcastTag
  <2>4. ASSUME NEW q \in Procs, NEW d \in Contexts
        PROVE  m_ctxt_tag'[q][d] = IF q = p /\ d = c THEN TagOf(c) ELSE m_ctxt_tag[q][d]
    <3>1. m_ctxt_tag \in [Procs -> [Contexts -> CtxtTag]]
      BY <1>1, Zenon DEF TypeOK
    <3> QED
      BY <2>1, <2>3, <3>1, Zenon
  <2>5. Tag(p)'
    <3>1. live'[p] = live[p] /\ ctx'[p] = c /\ live[p] \subseteq Contexts
      BY <1>1, <2>1, Zenon DEF TypeOK
    <3>2. \A d \in live[p] : m_ctxt_tag'[p][d] = TagOf(d)
      BY <1>1, <2>4, <3>1
    <3> QED
      BY <2>1, <2>4, <3>1, <3>2, Zenon
  <2>6. Roots'
    BY <1>1, <2>4, RankFacts, Zenon
  <2> QED
    BY <1>2, <2>5, <2>6, Zenon DEF Tagged
<1>5. CASE ~NewContext(p) /\ ~Bcast(p)
  <2>1. m_ctxt_tag' = m_ctxt_tag /\ ctx' = ctx
    BY <1>5, Zenon DEF Step, Creating, ReuseController, Initialize, Gather, Scatter, ReceiveAll, Insert,
                SendReturns, ScatterReturns, DestroyContext, ExitProcess
  <2>2. /\ Constructing(p)' /\ pc'[p] # "bcast" => Constructing(p) /\ pc[p] # "bcast"
        /\ live'[p] \subseteq live[p] \cup (IF Constructing(p) /\ pc[p] # "bcast" THEN {ctx[p]} ELSE {})
    <3> USE DEF TypeOK, Constructing, Goto
    <3>1. CASE ReuseController(p)
      BY <1>1, <3>1, Zenon DEF ReuseController
    <3>2. CASE Initialize(p)
      BY <1>1, <3>2, Zenon DEF Initialize
    <3>3. CASE Gather(p)
      BY <1>1, <3>3, Zenon DEF Gather
    <3>4. CASE Scatter(p)
      BY <1>1, <3>4, Zenon DEF Scatter
    <3>5. CASE ReceiveAll(p)
      BY <1>1, <3>5, Zenon DEF ReceiveAll
    <3>6. CASE Insert(p)
      BY <1>1, <3>6, Zenon DEF Insert
    <3>7. CASE SendReturns(p) \/ ScatterReturns(p)
      BY <1>1, <3>7, Zenon DEF SendReturns, ScatterReturns
    <3>8. CASE DestroyContext(p)
      BY <1>1, <3>8 DEF DestroyContext
    <3>9. CASE ExitProcess(p)
      BY <1>1, <3>9, Zenon DEF ExitProcess, Close
    <3> QED
      BY <1>5, <3>1, <3>2, <3>3, <3>4, <3>5, <3>6, <3>7, <3>8, <3>9, Zenon DEF Step, Creating
  <2>3. Tag(p)'
    BY <1>1, <2>1, <2>2, Zenon
  <2> QED
    BY <1>1, <1>2, <2>1, <2>3, Zenon DEF Tagged
<1> QED
  BY <1>3, <1>4, <1>5, Zenon

----------------------------------------------------------------------------
(* The pool.                                                               *)

\* The endpoint type, and with it the wrappers, stay what they are.
LEMMA ScalableKept ==
    ASSUME endpoint_type' = endpoint_type
    PROVE  Scalable' = Scalable /\ \A i : Wrapper(i)' = Wrapper(i)
BY Zenon DEF Scalable, Wrapper

\* The wrappers that exist depend on the pool only.
LEMMA WrappersKept ==
    ASSUME endpoint_type' = endpoint_type, NEW p, tx_endpoints'[p] = tx_endpoints[p]
    PROVE  Wrappers(p)' = Wrappers(p)
BY ScalableKept DEF Wrappers

\* What keeps the part of a process, and of a thread.
LEMMA PooledKept ==
    ASSUME endpoint_type' = endpoint_type, NEW p \in Procs, Pooled(p),
           tx_endpoints'[p] = tx_endpoints[p], open'[p] # {} => open[p] # {},
           \A t \in Threads : ProcOf[t] = p => tl'[t] = tl[t]
    PROVE  Pooled(p)'
<1>1. Held(p)' = Held(p) /\ \A t \in Held(p) : tl'[t] = tl[t]
  BY Zenon DEF Held
<1> QED
  BY <1>1, ScalableKept DEF Pooled

\* A thread keeps what it holds.
LEMMA HoldsKept ==
    ASSUME endpoint_type' = endpoint_type, NEW t \in Threads, Holds(t),
           tl'[t] = tl[t], m_tx_endpoint'[t] = m_tx_endpoint[t],
           tl[t] # None => /\ status'[t] = status[t] /\ open'[ProcOf[t]] # {}
                           /\ tl[t] \in Wrappers(ProcOf[t])'
    PROVE  Holds(t)'
BY ScalableKept, Zenon DEF Holds

\* A step that is not about the pool.
LEMMA PoolSame ==
    ASSUME IInv, UNCHANGED <<endpoint_type, tx_endpoints, tl, m_tx_endpoint>>,
           \A t \in Threads : tl[t] # None => status'[t] = status[t] /\ open'[ProcOf[t]] # {},
           \A p \in Procs : open'[p] # {} => open[p] # {}
    PROVE  Pool'
<1>1. ASSUME NEW p \in Procs PROVE Pooled(p)'
  BY PooledKept, Zenon DEF IInv, Pool
<1>2. ASSUME NEW t \in Threads PROVE Holds(t)'
  <2>1. Wrappers(ProcOf[t])' = Wrappers(ProcOf[t])
    BY WrappersKept, Zenon
  <2> QED
    BY <2>1, HoldsKept, Zenon DEF IInv, Pool, Holds
<1> QED
  BY <1>1, <1>2, Zenon DEF Pool

\* The pool of a process is filled when its controller is made.
LEMMA InitializePool ==
    ASSUME IInv, NEW p \in Procs, Initialize(p)
    PROVE  Pool'
<1>1. /\ UNCHANGED <<endpoint_type, status, tl, m_tx_endpoint>> /\ open[p] = {}
      /\ open' = [open EXCEPT ![p] = Opened]
      /\ tx_endpoints' = [tx_endpoints EXCEPT
                            ![p] = IF Scalable THEN [i \in 1..TxContexts |-> i] ELSE <<>>]
  BY Zenon DEF Initialize, threads
<1>2. ASSUME NEW t \in Threads, ProcOf[t] = p PROVE tl[t] = None
  BY <1>1, <1>2, Zenon DEF IInv, Pool, Holds
<1>3. ASSUME NEW q \in Procs \ {p}
      PROVE  tx_endpoints'[q] = tx_endpoints[q] /\ open'[q] = open[q]
  BY <1>1, <1>3, Zenon DEF IInv, TypeOK
<1>4. Pooled(p)'
  <2>1. Held(p)' = {}
    BY <1>1, <1>2, Zenon DEF Held
  <2>2. CASE Scalable
    <3>1. tx_endpoints'[p] = [i \in 1..TxContexts |-> i]
      BY <1>1, <2>2, Zenon DEF IInv, TypeOK
    <3>2. IsInjective(tx_endpoints'[p]) /\ Range(tx_endpoints'[p]) = 1..TxContexts
      BY <3>1 DEF IsInjective, Range
    <3> QED
      BY <1>1, <2>1, <2>2, <3>2, ScalableKept, Zenon DEF Pooled, Scalable
  <2>3. CASE ~Scalable
    <3>1. tx_endpoints'[p] = <<>>
      BY <1>1, <2>3, Zenon DEF IInv, TypeOK
    <3>2. IsInjective(tx_endpoints'[p]) /\ Range(tx_endpoints'[p]) = 1..Len(tx_endpoints'[p])
      <4>1. 1..Len(<<>>) = {} /\ Range(<<>>) = {} /\ IsInjective(<<>>)
        BY DEF IsInjective, Range
      <4> QED
        BY <3>1, <4>1, Zenon
    <3>3. ~Scalable'
      BY <1>1, <2>3, ScalableKept, Zenon
    <3> QED
      BY <2>1, <3>1, <3>2, <3>3, Zenon DEF Pooled
  <2> QED
    BY <2>2, <2>3, Zenon
<1>5. ASSUME NEW q \in Procs \ {p} PROVE Pooled(q)'
  BY <1>1, <1>3, <1>5, PooledKept, Zenon DEF IInv, Pool
<1>6. ASSUME NEW t \in Threads PROVE Holds(t)'
  <2>1. CASE ProcOf[t] = p
    BY <1>1, <1>2, <2>1, Zenon DEF Holds
  <2>2. CASE ProcOf[t] # p
    <3>1. ProcOf[t] \in Procs \ {p}
      BY <2>2, ControllerAssumption, Zenon
    <3>2. Wrappers(ProcOf[t])' = Wrappers(ProcOf[t]) /\ open'[ProcOf[t]] = open[ProcOf[t]]
      BY <1>1, <1>3, <3>1, WrappersKept, Zenon
    <3> QED
      <4>1. Holds(t)
        BY Zenon DEF IInv, Pool
      <4> QED
        BY <1>1, <3>2, <4>1, HoldsKept, Zenon DEF Holds
  <2> QED
    BY <2>1, <2>2, Zenon
<1> QED
  BY <1>4, <1>5, <1>6, Zenon DEF Pool

\* No other step of a process touches it; when one ends no thread has a part.
LEMMA StepPool ==
    ASSUME IInv, NEW p \in Procs, Step(p)
    PROVE  Pool'
<1>1. CASE Initialize(p)
  BY <1>1, InitializePool, Zenon
<1>2. CASE ~Initialize(p)
  <2>1. UNCHANGED <<endpoint_type, tx_endpoints, tl, m_tx_endpoint, status>>
    BY <1>2, Zenon DEF Step, Creating, NewContext, Bcast, ReuseController, Gather, Scatter, ReceiveAll,
              Insert, SendReturns, ScatterReturns, DestroyContext, ExitProcess, objects, threads
  <2>2. ASSUME NEW q \in Procs \ {p} PROVE open'[q] = {} <=> open[q] = {}
    BY <2>2, OthersKept, Zenon DEF IInv, Same
  <2>3. /\ open'[p] # {} => open[p] # {}
        /\ open'[p] = {} => open[p] = {} \/ \A t \in Threads : ProcOf[t] = p => tl[t] = None
    <3>1. CASE DestroyContext(p)
      <4>1. PICK c \in live[p] :
                open' = [open EXCEPT ![p] = @ \ {fi_register_memory(r) : r \in HeapRegions(p, c)}]
        BY <3>1, Zenon DEF DestroyContext
      <4>2. open'[p] = open[p] \ {fi_register_memory(r) : r \in HeapRegions(p, c)}
        BY <4>1, Zenon DEF IInv, TypeOK
      <4> QED
        BY <4>2, FabricOpen, Zenon
    <3>2. CASE ExitProcess(p)
      <4>1. \A t \in Threads : ProcOf[t] = p => status[t] # "running"
        BY <3>2, Zenon DEF ExitProcess
      <4>2. \A t \in Threads : ProcOf[t] = p => tl[t] = None
        BY <4>1, Zenon DEF IInv, Pool, Holds
      <4>3. open'[p] \subseteq open[p]
        BY <3>2, Zenon DEF ExitProcess, Close, IInv, TypeOK
      <4> QED
        BY <4>2, <4>3, Zenon
    <3>3. CASE ~DestroyContext(p) /\ ~ExitProcess(p)
      <4>1. open' = open
        BY <1>2, <3>3, Zenon DEF Step, Creating, NewContext, Bcast, ReuseController, Gather, Scatter,
                ReceiveAll, Insert, SendReturns, ScatterReturns, objects
      <4> QED
        BY <4>1, Zenon
    <3> QED
      BY <3>1, <3>2, <3>3, Zenon
  <2>4. \A q \in Procs : open'[q] # {} => open[q] # {}
    BY <2>2, <2>3, Zenon
  <2>5. ASSUME NEW t \in Threads, tl[t] # None PROVE open'[ProcOf[t]] # {}
    <3>1. open[ProcOf[t]] # {} /\ ProcOf[t] \in Procs
      BY <2>5, ControllerAssumption, Zenon DEF IInv, Pool, Holds
    <3> QED
      BY <2>2, <2>3, <2>5, <3>1, Zenon
  <2> QED
    BY <2>1, <2>4, <2>5, PoolSame, Zenon
<1> QED
  BY <1>1, <1>2, Zenon

\* Regions are not about the pool.
LEMMA RegionPool ==
    ASSUME IInv, NEW r \in Regions, MakeRegion(r) \/ FreeRegion(r)
    PROVE  Pool'
<1>1. UNCHANGED <<endpoint_type, tx_endpoints, status, tl, m_tx_endpoint>>
  BY Zenon DEF MakeRegion, FreeRegion, setup, threads
<1>2. \A p \in Procs : open'[p] = {} <=> open[p] = {}
  BY RegionsKept, Zenon DEF Same
<1>3. \A t \in Threads : tl[t] # None => open[ProcOf[t]] # {} /\ ProcOf[t] \in Procs
  <2>1. \A t \in Threads : Holds(t) /\ ProcOf[t] \in Procs
    BY ControllerAssumption, Zenon DEF IInv, Pool
  <2> QED
    BY <2>1, Zenon DEF Holds
<1> QED
  BY <1>1, <1>2, <1>3, PoolSame, Zenon

\* A thread that has no communicator has no wrapper either.
LEMMA NoneHeld ==
    ASSUME IInv, NEW t \in Threads, m_tx_endpoint[t] = None
    PROVE  tl[t] = None
<1>1. tl[t] # None => tl[t] \in Nat \ {0} /\ m_tx_endpoint[t] = Head(Wrapper(tl[t]))
  BY Zenon DEF IInv, TypeOK, Pool, Holds
<1>2. tl[t] # None => Head(Wrapper(tl[t])) \in Objects
  BY <1>1, WrapperFacts, Zenon
<1> QED
  BY <1>1, <1>2, ControllerAssumption, Zenon

\* The step of a thread leaves the pools of the other processes alone.
LEMMA OthersPool ==
    ASSUME IInv, NEW t \in Threads, endpoint_type' = endpoint_type,
           \A q \in Procs : open'[q] = {} <=> open[q] = {},
           \A q \in Procs \ {ProcOf[t]} : tx_endpoints'[q] = tx_endpoints[q],
           \A u \in Threads \ {t} : /\ tl'[u] = tl[u] /\ m_tx_endpoint'[u] = m_tx_endpoint[u]
                                    /\ status'[u] = status[u],
           \A u \in Threads \ {t} : ProcOf[u] = ProcOf[t] /\ tl[u] # None => tl[u] \in Wrappers(ProcOf[t])',
           Pooled(ProcOf[t])', Holds(t)'
    PROVE  Pool'
<1>1. ASSUME NEW q \in Procs \ {ProcOf[t]} PROVE Pooled(q)'
  <2>1. \A u \in Threads : ProcOf[u] = q => u # t
    BY Zenon
  <2> QED
    BY <2>1, PooledKept, Zenon DEF IInv, Pool
<1>2. ASSUME NEW u \in Threads \ {t} PROVE Holds(u)'
  <2>1. ProcOf[u] \in Procs
    BY ControllerAssumption, Zenon
  <2>2. tl[u] # None => tl[u] \in Wrappers(ProcOf[u])'
    <3>1. CASE ProcOf[u] = ProcOf[t]
      BY <3>1, Zenon
    <3>2. CASE ProcOf[u] # ProcOf[t]
      <4>1. Wrappers(ProcOf[u])' = Wrappers(ProcOf[u])
        BY <2>1, <3>2, WrappersKept, Zenon
      <4> QED
        BY <4>1 DEF IInv, Pool, Holds
    <3> QED
      BY <3>1, <3>2, Zenon
  <2>3. tl[u] # None => open'[ProcOf[u]] # {}
    BY <2>1, Zenon DEF IInv, Pool, Holds
  <2> QED
    BY <2>2, <2>3, HoldsKept, Zenon DEF IInv, Pool
<1> QED
  BY <1>1, <1>2, Zenon DEF Pool

\* A thread makes a wrapper of its own ...
LEMMA ThreadlocalPool ==
    ASSUME IInv, NEW t \in Threads, GetCommunicator(t), ThreadlocalTx(t)
    PROVE  Pool'
<1> DEFINE p == ProcOf[t]
<1>0. PICK new : new = Len(tx_endpoints[p]) + 1
  BY Zenon
<1>1. /\ p \in Procs /\ endpoint_type = "threadlocalTx" /\ ~Scalable /\ status[t] = "running"
      /\ UNCHANGED <<endpoint_type, status>> /\ tl[t] = None
  BY NoneHeld, ControllerAssumption, Zenon DEF GetCommunicator, ThreadlocalTx, Scalable, setup
<1>2. /\ tx_endpoints[p] \in Seq(Nat \ {0}) /\ new \in Nat \ {0} /\ IsInjective(tx_endpoints[p])
      /\ Range(tx_endpoints[p]) = 1..Len(tx_endpoints[p]) /\ Len(tx_endpoints[p]) \in Nat
  BY <1>0, <1>1 DEF IInv, TypeOK, Pool, Pooled
<1>3. new \notin Range(tx_endpoints[p]) /\ Range(tx_endpoints[p]) \cup {new} = 1..new
  BY <1>0, <1>2
<1>4. /\ tx_endpoints' = [tx_endpoints EXCEPT ![p] = Append(@, new)]
      /\ tl' = [tl EXCEPT ![t] = new]
      /\ m_tx_endpoint' = [m_tx_endpoint EXCEPT ![t] = Head(Wrapper(new))]
  BY <1>0, Zenon DEF ThreadlocalTx
<1>5. open[p] # {} /\ \A q \in Procs : open'[q] = {} <=> open[q] = {}
  BY <1>1, LiveOpen, ThreadsKept, Zenon DEF Same, GetCommunicator
<1>6. tx_endpoints'[p] = Append(tx_endpoints[p], new) /\ tl'[t] = new /\ m_tx_endpoint'[t] = Head(Wrapper(new))
  BY <1>1, <1>4, Zenon DEF IInv, TypeOK
<1>7. /\ IsInjective(tx_endpoints'[p]) /\ Range(tx_endpoints'[p]) = Range(tx_endpoints[p]) \cup {new}
      /\ Len(tx_endpoints'[p]) = new
  BY <1>0, <1>2, <1>3, <1>6, AppendNew
<1>8. /\ \A q \in Procs \ {p} : tx_endpoints'[q] = tx_endpoints[q]
      /\ \A u \in Threads \ {t} : tl'[u] = tl[u] /\ m_tx_endpoint'[u] = m_tx_endpoint[u]
  BY <1>1, <1>4, Zenon DEF IInv, TypeOK
<1>9. Held(p)' = Held(p) \cup {t} /\ t \notin Held(p)
  BY <1>1, <1>2, <1>6, <1>8, ControllerAssumption DEF Held
<1>10. ~Scalable' /\ Wrappers(p)' = Range(tx_endpoints[p]) \cup {new} /\ Wrapper(new)' = Wrapper(new)
  BY <1>1, <1>7, ScalableKept DEF Wrappers
<1>11. \A u \in Held(p) : tl[u] \in Range(tx_endpoints[p])
  BY <1>1, Zenon DEF IInv, Pool, Holds, Held, Wrappers
<1>12. Pooled(p)'
  <2>1. \A u, v \in Held(p)' : tl'[u] = tl'[v] => u = v
    <3>1. \A u \in Held(p) : u \in Threads \ {t} /\ tl'[u] = tl[u] /\ tl[u] # new
      BY <1>3, <1>8, <1>9, <1>11, Zenon DEF Held
    <3> QED
      BY <1>1, <1>6, <1>9, <3>1 DEF IInv, Pool, Pooled
  <2>2. Range(tx_endpoints'[p]) = 1..Len(tx_endpoints'[p])
    BY <1>3, <1>7, Zenon
  <2>3. endpoint_type' \notin {"single", "multiple"}
    BY <1>1, Zenon
  <2> QED
    BY <1>7, <1>10, <2>1, <2>2, <2>3, Zenon DEF Pooled
<1>13. Holds(t)'
  BY <1>1, <1>5, <1>6, <1>10, Zenon DEF Holds
<1>14. \A u \in Threads \ {t} : ProcOf[u] = p /\ tl[u] # None => tl[u] \in Wrappers(p)'
  BY <1>10, <1>11, Zenon DEF Held
<1> QED
  BY <1>1, <1>5, <1>8, <1>12, <1>13, <1>14, OthersPool, Zenon

\* ... or takes the first of the pool ...
LEMMA ScalablePool ==
    ASSUME IInv, NEW t \in Threads, GetCommunicator(t), ScalableTx(t)
    PROVE  Pool'
<1> DEFINE p == ProcOf[t]
<1>0. PICK new : new = Head(tx_endpoints[p])
  BY Zenon
<1>1. /\ p \in Procs /\ Scalable /\ status[t] = "running" /\ tx_endpoints[p] # <<>>
      /\ UNCHANGED <<endpoint_type, status, open>> /\ tl[t] = None
  BY NoneHeld, ControllerAssumption, Zenon DEF GetCommunicator, ScalableTx, setup
<1>2. open[p] # {}
  BY <1>1, LiveOpen, Zenon DEF GetCommunicator
<1>3. /\ tx_endpoints[p] \in Seq(Nat \ {0}) /\ IsInjective(tx_endpoints[p])
      /\ Range(tx_endpoints[p]) \subseteq 1..TxContexts
      /\ \A u \in Held(p) : tl[u] \notin Range(tx_endpoints[p])
  BY <1>1, <1>2, Zenon DEF IInv, TypeOK, Pool, Pooled
<1>4. /\ new \in Nat \ {0} /\ new \in Range(tx_endpoints[p]) /\ IsInjective(Tail(tx_endpoints[p]))
      /\ Range(Tail(tx_endpoints[p])) = Range(tx_endpoints[p]) \ {new}
  BY <1>0, <1>1, <1>3, TailRest, Zenon
<1>5. /\ tx_endpoints' = [tx_endpoints EXCEPT ![p] = Tail(@)]
      /\ tl' = [tl EXCEPT ![t] = new]
      /\ m_tx_endpoint' = [m_tx_endpoint EXCEPT ![t] = Head(Wrapper(new))]
  BY <1>0, Zenon DEF ScalableTx
<1>6. /\ tx_endpoints'[p] = Tail(tx_endpoints[p]) /\ tl'[t] = new /\ m_tx_endpoint'[t] = Head(Wrapper(new))
      /\ \A q \in Procs \ {p} : tx_endpoints'[q] = tx_endpoints[q]
      /\ \A u \in Threads \ {t} : tl'[u] = tl[u] /\ m_tx_endpoint'[u] = m_tx_endpoint[u]
  BY <1>1, <1>5, Zenon DEF IInv, TypeOK
<1>7. Held(p)' = Held(p) \cup {t} /\ t \notin Held(p)
  BY <1>1, <1>4, <1>6, ControllerAssumption DEF Held
<1>8. Scalable' /\ Wrappers(p)' = Wrappers(p) /\ new \in Wrappers(p) /\ Wrapper(new)' = Wrapper(new)
  BY <1>1, <1>3, <1>4, ScalableKept, Zenon DEF Wrappers
<1>9. Pooled(p)'
  <2>1. \A u \in Held(p) : u \in Threads \ {t} /\ tl'[u] = tl[u] /\ tl[u] # new
    BY <1>3, <1>4, <1>6, <1>7, Zenon DEF Held
  <2>2. \A u, v \in Held(p)' : tl'[u] = tl'[v] => u = v
    BY <1>1, <1>6, <1>7, <2>1 DEF IInv, Pool, Pooled
  <2>3. \A u \in Held(p)' : tl'[u] \notin Range(tx_endpoints'[p])
    BY <1>3, <1>4, <1>6, <1>7, <2>1, Zenon
  <2>4. ASSUME NEW i \in 1..TxContexts
        PROVE  i \in Range(tx_endpoints'[p]) \/ \E u \in Held(p)' : tl'[u] = i
    <3>1. i \in Range(tx_endpoints[p]) \/ \E u \in Held(p) : tl[u] = i
      BY <1>1, <1>2 DEF IInv, Pool, Pooled
    <3> QED
      BY <1>4, <1>6, <1>7, <2>1, <3>1, Zenon
  <2>5. IsInjective(tx_endpoints'[p]) /\ Range(tx_endpoints'[p]) \subseteq 1..TxContexts
    BY <1>3, <1>4, <1>6, Zenon
  <2>6. endpoint_type' \notin {"single", "multiple"}
    BY <1>1, Zenon DEF Scalable
  <2> QED
    BY <1>8, <2>2, <2>3, <2>4, <2>5, <2>6, Zenon DEF Pooled
<1>10. Holds(t)'
  BY <1>1, <1>2, <1>6, <1>8, Zenon DEF Holds, Scalable
<1>11. \A u \in Threads \ {t} : ProcOf[u] = p /\ tl[u] # None => tl[u] \in Wrappers(p)'
  BY <1>8, Zenon DEF IInv, Pool, Holds
<1> QED
  BY <1>1, <1>6, <1>9, <1>10, <1>11, OthersPool, Zenon

\* ... which it gives back at its end.
LEMMA ExitPool ==
    ASSUME IInv, NEW t \in Threads, ExitThread(t)
    PROVE  Pool'
<1> DEFINE p == ProcOf[t]
<1>1. /\ p \in Procs /\ UNCHANGED <<endpoint_type, open>>
      /\ tx_endpoints' = [tx_endpoints EXCEPT ![p] = IF PushesBack(t) THEN Append(@, tl[t]) ELSE @]
      /\ tl' = [tl EXCEPT ![t] = None] /\ m_tx_endpoint' = [m_tx_endpoint EXCEPT ![t] = None]
      /\ status' = [status EXCEPT ![t] = "exited"]
  BY ControllerAssumption, Zenon DEF ExitThread, setup
<1>2. /\ tl'[t] = None /\ \A q \in Procs \ {p} : tx_endpoints'[q] = tx_endpoints[q]
      /\ \A u \in Threads \ {t} : /\ tl'[u] = tl[u] /\ m_tx_endpoint'[u] = m_tx_endpoint[u]
                                  /\ status'[u] = status[u]
      /\ tx_endpoints'[p] = IF PushesBack(t) THEN Append(tx_endpoints[p], tl[t]) ELSE tx_endpoints[p]
  BY <1>1, Zenon DEF IInv, TypeOK
<1>3. Held(p)' = Held(p) \ {t}
  BY <1>2, ControllerAssumption DEF Held
<1>4. Holds(t)'
  <2>1. tl'[t] = None
    BY <1>2, Zenon
  <2> QED
    BY <2>1, Zenon DEF Holds
<1>5. CASE PushesBack(t)
  <2>1. Scalable /\ t \in Held(p) /\ open[p] # {} /\ tl[t] \in 1..TxContexts
    BY <1>5, Zenon DEF PushesBack, Held, IInv, Pool, Holds, Wrappers
  <2>2. /\ tx_endpoints[p] \in Seq(Nat \ {0}) /\ IsInjective(tx_endpoints[p])
        /\ tl[t] \in Nat \ {0} /\ tl[t] \notin Range(tx_endpoints[p])
    <3>1. tx_endpoints[p] \in Seq(Nat \ {0}) /\ tl[t] \in Nat \ {0}
      BY <1>1, <2>1, Zenon DEF Held, IInv, TypeOK
    <3> QED
      BY <1>1, <2>1, <3>1, Zenon DEF IInv, Pool, Pooled
  <2>3. /\ IsInjective(tx_endpoints'[p]) /\ Range(tx_endpoints'[p]) = Range(tx_endpoints[p]) \cup {tl[t]}
    BY <1>2, <1>5, <2>2, AppendNew
  <2>4. Scalable' /\ Wrappers(p)' = Wrappers(p)
    BY <1>1, <2>1, ScalableKept, Zenon DEF Wrappers
  <2>5. Pooled(p)
    BY <1>1, Zenon DEF IInv, Pool
  <2>6. Pooled(p)'
    <3>1. \A u \in Held(p)' : u \in Held(p) /\ tl'[u] = tl[u] /\ tl[u] # tl[t]
      BY <1>2, <1>3, <2>1, <2>5, Zenon DEF Held, Pooled
    <3>2. \A u \in Held(p) \ {t} : u \in Held(p)' /\ tl'[u] = tl[u]
      BY <1>2, <1>3, Zenon DEF Held
    <3>3. \A u, v \in Held(p)' : tl'[u] = tl'[v] => u = v
      BY <2>5, <3>1, Zenon DEF Pooled
    <3>4. \A u \in Held(p)' : tl'[u] \notin Range(tx_endpoints'[p])
      BY <2>1, <2>3, <2>5, <3>1, Zenon DEF Pooled
    <3>5. ASSUME NEW i \in 1..TxContexts
          PROVE  i \in Range(tx_endpoints'[p]) \/ \E u \in Held(p)' : tl'[u] = i
      BY <2>1, <2>3, <2>5, <3>2, Zenon DEF Pooled
    <3>6. Range(tx_endpoints'[p]) \subseteq 1..TxContexts
      BY <2>1, <2>3, <2>5, Zenon DEF Pooled
    <3>7. endpoint_type' \notin {"single", "multiple"}
      BY <1>1, <2>1, Zenon DEF Scalable
    <3> QED
      BY <2>3, <2>4, <3>3, <3>4, <3>5, <3>6, <3>7, Zenon DEF Pooled
  <2>7. \A u \in Threads \ {t} : ProcOf[u] = p /\ tl[u] # None => tl[u] \in Wrappers(p)'
    BY <2>4, Zenon DEF IInv, Pool, Holds
  <2> QED
    BY <1>1, <1>2, <1>4, <2>6, <2>7, OthersPool, Zenon
<1>6. CASE ~PushesBack(t)
  <2>1. tx_endpoints'[p] = tx_endpoints[p] /\ Wrappers(p)' = Wrappers(p) /\ Scalable' = Scalable
    BY <1>1, <1>2, <1>6, WrappersKept, ScalableKept, Zenon
  <2>2. Pooled(p)
    BY <1>1, Zenon DEF IInv, Pool
  <2>3. Scalable => t \notin Held(p)
    BY <1>6, Zenon DEF PushesBack, Held
  <2>4. \A u \in Held(p)' : u \in Held(p) /\ tl'[u] = tl[u]
    BY <1>2, <1>3, Zenon DEF Held
  <2>5. Scalable => \A u \in Held(p) : u \in Held(p)' /\ tl'[u] = tl[u]
    BY <1>3, <2>3, <2>4, Zenon
  <2>6. Pooled(p)'
    <3>1. \A u, v \in Held(p)' : tl'[u] = tl'[v] => u = v
      BY <2>2, <2>4, Zenon DEF Pooled
    <3>2. Scalable /\ open[p] # {} =>
            /\ \A u \in Held(p)' : tl'[u] \notin Range(tx_endpoints[p])
            /\ \A i \in 1..TxContexts :
                i \in Range(tx_endpoints[p]) \/ \E u \in Held(p)' : tl'[u] = i
            /\ Range(tx_endpoints[p]) \subseteq 1..TxContexts
      BY <2>2, <2>4, <2>5, Zenon DEF Pooled
    <3> QED
      BY <1>1, <2>1, <2>2, <3>1, <3>2, Zenon DEF Pooled
  <2>7. \A u \in Threads \ {t} : ProcOf[u] = p /\ tl[u] # None => tl[u] \in Wrappers(p)'
    BY <2>1, Zenon DEF IInv, Pool, Holds
  <2> QED
    BY <1>1, <1>2, <1>4, <2>6, <2>7, OthersPool, Zenon
<1> QED
  BY <1>5, <1>6, Zenon

\* Every step of a thread keeps the pool.
LEMMA ThreadPool ==
    ASSUME IInv, NEW t \in Threads, StartThread(t) \/ GetCommunicator(t) \/ ExitThread(t)
    PROVE  Pool'
<1>1. \A u \in Threads : tl[u] # None => ProcOf[u] \in Procs /\ open[ProcOf[u]] # {} /\ status[u] = "running"
  BY ControllerAssumption, Zenon DEF IInv, Pool, Holds
<1>2. CASE StartThread(t)
  <2>1. /\ UNCHANGED <<endpoint_type, tx_endpoints, tl, m_tx_endpoint, open>> /\ tl[t] = None
        /\ status' = [status EXCEPT ![t] = "running"]
    BY <1>1, <1>2, Zenon DEF StartThread, setup, objects
  <2>2. \A u \in Threads : tl[u] # None => status'[u] = status[u]
    BY <2>1, Zenon DEF IInv, TypeOK
  <2> QED
    BY <1>1, <2>1, <2>2, PoolSame, Zenon
<1>3. CASE GetCommunicator(t) /\ SharedTx(t)
  <2>1. /\ UNCHANGED <<endpoint_type, tx_endpoints, tl, open>>
        /\ \A u \in Threads : tl[u] = None
    BY <1>3, Zenon DEF GetCommunicator, SharedTx, setup, IInv, Pool, Holds
  <2>2. \A p \in Procs : Pooled(p)'
    BY <2>1, PooledKept, Zenon DEF IInv, Pool
  <2>3. \A u \in Threads : Holds(u)'
    BY <2>1, Zenon DEF Holds
  <2> QED
    BY <2>2, <2>3, Zenon DEF Pool
<1> QED
  BY <1>2, <1>3, ThreadlocalPool, ScalablePool, ExitPool, Zenon DEF GetCommunicator

----------------------------------------------------------------------------
(* What is open.                                                           *)

\* The objects of the controller after a step, in terms of the wrappers.
LEMMA OursKept ==
    ASSUME endpoint_type' = endpoint_type, NEW p
    PROVE  Ours(p)' = Shared \cup UNION {Range(Wrapper(i)) : i \in Wrappers(p)'}
<1>1. Shared' = Shared
  BY Zenon DEF Shared, CleanupTx, Scalable
<1> QED
  BY <1>1, ScalableKept, Zenon DEF Ours

\* The objects of the controller depend on the pool only.
LEMMA OursSame ==
    ASSUME endpoint_type' = endpoint_type, NEW p, tx_endpoints'[p] = tx_endpoints[p]
    PROVE  Ours(p)' = Ours(p)
BY OursKept, WrappersKept, Zenon DEF Ours

\* The controller's own objects are no regions.
LEMMA OursNoRegion ==
    ASSUME IInv, NEW p \in Procs
    PROVE  \A o \in Ours(p) : o[1] # "mr" /\ \A r : o # fi_register_memory(r)
<1>1. \A o \in Shared : o[1] # "mr"
  BY SharedFacts, TxFacts
<1>2. ASSUME NEW i \in Wrappers(p) PROVE \A o \in Range(Wrapper(i)) : o[1] # "mr"
  <2>1. Range(tx_endpoints[p]) \subseteq Nat \ {0}
    BY RangeInSet, Zenon DEF IInv, TypeOK
  <2>2. i \in Nat \ {0}
    BY <1>2, <2>1, ControllerAssumption DEF Wrappers
  <2> QED
    BY <2>2, WrapperFacts
<1>3. \A o \in Ours(p) : o[1] # "mr"
  BY <1>1, <1>2, Zenon DEF Ours
<1> QED
  BY <1>3 DEF fi_register_memory

\* A step that opens and closes nothing and keeps the live contexts.
LEMMA OpensSame ==
    ASSUME IInv, UNCHANGED <<endpoint_type, tx_endpoints, segment, open>>,
           \A p \in Procs : live[p] \subseteq live'[p]
    PROVE  Opens'
<1>1. \A r \in Regions : HeapOf[r] \in Procs
  BY ControllerAssumption, Zenon
<1>2. \A p \in Procs : Ours(p)' = Ours(p) /\ Registered(p)' = Registered(p)
  BY OursSame, Zenon DEF Registered
<1> QED
  BY <1>1, <1>2, Zenon DEF IInv, Opens

\* initialize opens the objects of the controller, and no region yet.
LEMMA InitializeOpens ==
    ASSUME IInv, NEW p \in Procs, Initialize(p)
    PROVE  Opens'
<1>1. /\ UNCHANGED <<endpoint_type, segment, live>> /\ open[p] = {}
      /\ open' = [open EXCEPT ![p] = Opened]
      /\ tx_endpoints' = [tx_endpoints EXCEPT
                            ![p] = IF Scalable THEN [i \in 1..TxContexts |-> i] ELSE <<>>]
  BY Zenon DEF Initialize
<1>2. /\ open'[p] = Opened
      /\ tx_endpoints'[p] = IF Scalable THEN [i \in 1..TxContexts |-> i] ELSE <<>>
      /\ \A q \in Procs \ {p} : open'[q] = open[q] /\ tx_endpoints'[q] = tx_endpoints[q]
  BY <1>1, Zenon DEF IInv, TypeOK
<1>3. Registered(p)' = {}
  <2>1. live[p] = {}
    BY <1>1, Zenon DEF IInv, Places, Place
  <2>2. \A r \in Regions : HeapOf[r] = p => segment[r] = None
    BY <2>1, Zenon DEF IInv, Opens
  <2> QED
    BY <1>1, <2>2, Zenon DEF Registered
<1>4. Ours(p)' = Opened
  <2>1. Wrappers(p)' = IF Scalable THEN 1..TxContexts ELSE {}
    <3>1. Range(<<>>) = {}
      BY DEF Range
    <3>2. Scalable' = Scalable
      BY <1>1, ScalableKept, Zenon
    <3>3. ~Scalable => tx_endpoints'[p] = <<>>
      BY <1>2, Zenon
    <3> QED
      BY <3>1, <3>2, <3>3, Zenon DEF Wrappers
  <2> QED
    BY <1>1, <2>1, OursKept, SharedFacts, Zenon
<1>5. ASSUME NEW q \in Procs, open'[q] # {} PROVE open'[q] = Ours(q)' \cup Registered(q)'
  <2>1. CASE q = p
    BY <1>2, <1>3, <1>4, <2>1, Zenon
  <2>2. CASE q # p
    <3>1. Ours(q)' = Ours(q) /\ Registered(q)' = Registered(q)
      BY <1>1, <1>2, <2>2, OursSame, Zenon DEF Registered
    <3> QED
      BY <1>2, <1>5, <2>2, <3>1, Zenon DEF IInv, Opens
  <2> QED
    BY <2>1, <2>2, Zenon
<1>6. \A r \in Regions : segment'[r] # None => segment'[r] \in live'[HeapOf[r]]
  BY <1>1, Zenon DEF IInv, Opens
<1> QED
  BY <1>5, <1>6, Zenon DEF Opens

\* The heap of a context deregisters what it has registered.
LEMMA DestroyOpens ==
    ASSUME IInv, NEW p \in Procs, DestroyContext(p)
    PROVE  Opens'
<1>1. PICK c \in live[p] :
        /\ live' = [live EXCEPT ![p] = @ \ {c}]
        /\ segment' = [r \in Regions |-> IF r \in HeapRegions(p, c) THEN None ELSE segment[r]]
        /\ open' = [open EXCEPT ![p] = @ \ {fi_register_memory(r) : r \in HeapRegions(p, c)}]
  BY Zenon DEF DestroyContext
<1>2. UNCHANGED <<endpoint_type, tx_endpoints>>
  BY Zenon DEF DestroyContext
<1>3. ASSUME NEW r \in Regions
      PROVE  /\ segment'[r] # None <=> segment[r] # None /\ ~(HeapOf[r] = p /\ segment[r] = c)
             /\ segment'[r] # None => segment'[r] = segment[r]
  BY <1>1, Zenon DEF HeapRegions
<1>4. ASSUME NEW r \in Regions, segment'[r] # None PROVE segment'[r] \in live'[HeapOf[r]]
  <2>1. HeapOf[r] \in Procs /\ segment[r] \in live[HeapOf[r]]
    BY <1>3, <1>4, ControllerAssumption, Zenon DEF IInv, Opens
  <2> QED
    BY <1>1, <1>3, <1>4, <2>1, Zenon DEF IInv, TypeOK
<1>5. ASSUME NEW q \in Procs, open'[q] # {} PROVE open'[q] = Ours(q)' \cup Registered(q)'
  <2>1. Ours(q)' = Ours(q)
    BY <1>2, OursSame, Zenon
  <2>2. CASE q = p
    <3>1. open'[p] = open[p] \ {fi_register_memory(r) : r \in HeapRegions(p, c)}
      BY <1>1, Zenon DEF IInv, TypeOK
    <3>2. open[p] = Ours(p) \cup Registered(p)
      BY <1>5, <2>2, <3>1, Zenon DEF IInv, Opens
    <3>3. Registered(p)' = Registered(p) \ {fi_register_memory(r) : r \in HeapRegions(p, c)}
      BY <1>3 DEF Registered, HeapRegions, fi_register_memory
    <3>4. \A o \in Ours(p) : o \notin {fi_register_memory(r) : r \in HeapRegions(p, c)}
      BY OursNoRegion, Zenon
    <3> QED
      BY <2>1, <2>2, <3>1, <3>2, <3>3, <3>4, Zenon
  <2>3. CASE q # p
    <3>1. open'[q] = open[q]
      BY <1>1, <2>3, Zenon DEF IInv, TypeOK
    <3>2. Registered(q)' = Registered(q)
      BY <1>3, <2>3, Zenon DEF Registered
    <3> QED
      BY <1>5, <2>1, <3>1, <3>2, Zenon DEF IInv, Opens
  <2> QED
    BY <2>2, <2>3, Zenon
<1> QED
  BY <1>4, <1>5, Zenon DEF Opens

\* make_region registers with the domain, the release of a region undoes it.
LEMMA RegionOpens ==
    ASSUME IInv, NEW r \in Regions, MakeRegion(r) \/ FreeRegion(r)
    PROVE  Opens'
<1> DEFINE p == HeapOf[r]
<1>1. p \in Procs /\ UNCHANGED <<endpoint_type, tx_endpoints, live>>
  BY ControllerAssumption, Zenon DEF MakeRegion, FreeRegion, setup
<1>2. ASSUME NEW x \in Regions \ {r} PROVE segment'[x] = segment[x]
  BY <1>2, Zenon DEF MakeRegion, FreeRegion, IInv, TypeOK
<1>3. \A q \in Procs : Ours(q)' = Ours(q)
  BY <1>1, OursSame, Zenon
<1>4. \A q \in Procs \ {p} : open'[q] = open[q] /\ Registered(q)' = Registered(q)
  <2>1. \A q \in Procs \ {p} : open'[q] = open[q]
    BY Zenon DEF MakeRegion, FreeRegion, IInv, TypeOK
  <2> QED
    BY <1>2, <2>1, Zenon DEF Registered
<1>5. open[p] # {} <=> open'[p] # {}
  BY <1>1, RegionsKept, Zenon DEF Same
<1>6. open'[p] # {} => open'[p] = Ours(p) \cup Registered(p)'
  <2>1. open[p] # {} => open[p] = Ours(p) \cup Registered(p)
    BY <1>1, Zenon DEF IInv, Opens
  <2>2. CASE MakeRegion(r)
    <3>1. open'[p] = open[p] \cup {fi_register_memory(r)} /\ segment'[r] # None
      <4>1. PICK c \in live[p] : segment' = [segment EXCEPT ![r] = c]
        BY <2>2, Zenon DEF MakeRegion
      <4>2. c # None
        BY <1>1, <4>1, ControllerAssumption DEF IInv, TypeOK
      <4>3. open' = [open EXCEPT ![p] = @ \cup {fi_register_memory(r)}]
        BY <2>2, Zenon DEF MakeRegion
      <4> QED
        BY <1>1, <4>1, <4>2, <4>3, Zenon DEF IInv, TypeOK
    <3>2. Registered(p)' = Registered(p) \cup {fi_register_memory(r)}
      BY <1>2, <3>1 DEF Registered
    <3> QED
      BY <1>5, <2>1, <3>1, <3>2, Zenon
  <2>3. CASE FreeRegion(r)
    <3>1. open'[p] = open[p] \ {fi_register_memory(r)} /\ segment'[r] = None
      BY <1>1, <2>3, Zenon DEF FreeRegion, IInv, TypeOK
    <3>2. Registered(p)' = Registered(p) \ {fi_register_memory(r)}
      BY <1>2, <3>1 DEF Registered, fi_register_memory
    <3>3. \A o \in Ours(p) : o # fi_register_memory(r)
      BY <1>1, OursNoRegion, Zenon
    <3> QED
      BY <1>5, <2>1, <3>1, <3>2, <3>3, Zenon
  <2> QED
    BY <2>2, <2>3, Zenon
<1>7. segment'[r] # None => segment'[r] \in live[p]
  BY <1>1, Zenon DEF MakeRegion, FreeRegion, IInv, TypeOK
<1> QED
  BY <1>1, <1>2, <1>3, <1>4, <1>6, <1>7, Zenon DEF IInv, Opens

\* A thread that makes a wrapper opens its objects.
LEMMA ThreadOpens ==
    ASSUME IInv, NEW t \in Threads, StartThread(t) \/ GetCommunicator(t) \/ ExitThread(t)
    PROVE  Opens'
<1> DEFINE p == ProcOf[t]
<1>1. p \in Procs /\ UNCHANGED <<endpoint_type, segment, live>>
  BY ThreadsKept, ControllerAssumption, Zenon
<1>2. ASSUME NEW q \in Procs, open'[q] = open[q], Wrappers(q)' = Wrappers(q), open'[q] # {}
      PROVE  open'[q] = Ours(q)' \cup Registered(q)'
  <2>1. Ours(q)' = Ours(q) /\ Registered(q)' = Registered(q)
    BY <1>1, <1>2, OursKept, Zenon DEF Registered, Ours
  <2> QED
    BY <1>2, <2>1, Zenon DEF IInv, Opens
<1>3. \A r \in Regions : segment'[r] # None => segment'[r] \in live'[HeapOf[r]]
  BY <1>1, Zenon DEF IInv, Opens
<1>4. CASE Scalable /\ open' = open
  <2>1. \A q \in Procs : Wrappers(q)' = Wrappers(q)
    BY <1>1, <1>4, ScalableKept, Zenon DEF Wrappers
  <2> QED
    BY <1>2, <1>3, <1>4, <2>1, Zenon DEF Opens
<1>5. CASE tx_endpoints' = tx_endpoints /\ open' = open
  <2>1. \A q \in Procs : Wrappers(q)' = Wrappers(q)
    BY <1>1, <1>5, WrappersKept, Zenon
  <2> QED
    BY <1>2, <1>3, <1>5, <2>1, Zenon DEF Opens
<1>6. CASE GetCommunicator(t) /\ ThreadlocalTx(t)
  <2>1. PICK new : new = Len(tx_endpoints[p]) + 1
    BY Zenon
  <2>2. /\ open' = [open EXCEPT ![p] = @ \cup Range(Wrapper(new))] /\ ~Scalable
        /\ tx_endpoints' = [tx_endpoints EXCEPT ![p] = Append(@, new)]
    BY <1>6, <2>1, Zenon DEF ThreadlocalTx, Scalable
  <2>3. /\ open'[p] = open[p] \cup Range(Wrapper(new)) /\ tx_endpoints'[p] = Append(tx_endpoints[p], new)
        /\ \A q \in Procs \ {p} : open'[q] = open[q] /\ tx_endpoints'[q] = tx_endpoints[q]
    BY <1>1, <2>2, Zenon DEF IInv, TypeOK
  <2>4. open[p] # {}
    BY <1>1, <1>6, LiveOpen, Zenon DEF GetCommunicator
  <2>5. Wrappers(p)' = Wrappers(p) \cup {new}
    <3>1. /\ tx_endpoints[p] \in Seq(Nat \ {0}) /\ IsInjective(tx_endpoints[p]) /\ new \in Nat \ {0}
          /\ new \notin Range(tx_endpoints[p])
      <4>1. tx_endpoints \in [Procs -> Seq(Nat \ {0})] /\ Pooled(p)
        BY <1>1, Zenon DEF IInv, TypeOK, Pool
      <4> QED
        BY <1>1, <2>1, <2>2, <4>1 DEF Pooled
    <3>2. Range(tx_endpoints'[p]) = Range(tx_endpoints[p]) \cup {new}
      BY <2>3, <3>1, AppendNew
    <3> QED
      BY <1>1, <2>2, <3>2, ScalableKept DEF Wrappers
  <2>6. open'[p] = Ours(p)' \cup Registered(p)'
    <3>1. Ours(p)' = Ours(p) \cup Range(Wrapper(new))
      BY <1>1, <2>5, OursKept DEF Ours
    <3>2. Registered(p)' = Registered(p)
      BY <1>1, Zenon DEF Registered
    <3>3. open[p] = Ours(p) \cup Registered(p)
      BY <1>1, <2>4, Zenon DEF IInv, Opens
    <3> QED
      BY <2>3, <3>1, <3>2, <3>3, Zenon
  <2>7. \A q \in Procs \ {p} : Wrappers(q)' = Wrappers(q)
    BY <1>1, <2>3, WrappersKept, Zenon
  <2> QED
    BY <1>2, <1>3, <2>3, <2>6, <2>7 DEF Opens
<1>7. CASE ExitThread(t) /\ ~Scalable
  <2>1. /\ open' = open
        /\ tx_endpoints' = [tx_endpoints EXCEPT ![p] = IF PushesBack(t) THEN Append(@, tl[t]) ELSE @]
    BY <1>7, Zenon DEF ExitThread
  <2>2. tx_endpoints' = tx_endpoints
    BY <1>1, <1>7, <2>1, Zenon DEF PushesBack, IInv, TypeOK
  <2> QED
    BY <1>5, <2>1, <2>2, Zenon
<1>8. CASE ExitThread(t) /\ Scalable
  BY <1>4, <1>8, Zenon DEF ExitThread
<1>9. CASE StartThread(t) \/ (GetCommunicator(t) /\ SharedTx(t))
  BY <1>5, <1>9, Zenon DEF StartThread, SharedTx, objects
<1>10. CASE GetCommunicator(t) /\ ScalableTx(t)
  BY <1>4, <1>10, Zenon DEF ScalableTx
<1> QED
  BY <1>6, <1>7, <1>8, <1>9, <1>10, Zenon DEF GetCommunicator

----------------------------------------------------------------------------
(* The end of a process.                                                   *)

\* The order of the calls: the wrappers in the pool, the endpoint for sends, the
\* endpoint for receives, the rest.
LEMMA PoolOrder ==
    ASSUME TypeOK, NEW p \in Procs
    PROVE  LET n == Len(tx_endpoints[p]) IN
           /\ n \in Nat /\ CleanupPool(p) \in Seq(Objects) /\ Len(CleanupPool(p)) = 2 * n
           /\ \A j \in 1..n : /\ CleanupPool(p)[2 * j - 1] = Head(Wrapper(tx_endpoints[p][j]))
                              /\ CleanupPool(p)[2 * j] = <<"tx_cq", tx_endpoints[p][j]>>
           /\ \A k \in 1..(2 * n) : \E j \in 1..n : k = 2 * j - 1 \/ k = 2 * j
<1>1. PICK s \in Seq(Nat \ {0}) : s = tx_endpoints[p]
  BY Zenon DEF TypeOK
<1> DEFINE n == Len(s)
           E(k) == Wrapper(s[(k + 1) \div 2])[IF k % 2 = 1 THEN 1 ELSE 2]
<1>2. n \in Nat /\ \A j \in 1..n : s[j] \in Nat \ {0}
  OBVIOUS
<1>3. CleanupPool(p) = [k \in 1..(2 * n) |-> E(k)]
  BY <1>1, Zenon DEF CleanupPool
<1>4. ASSUME NEW j \in 1..n
      PROVE  /\ 2 * j - 1 \in 1..(2 * n) /\ 2 * j \in 1..(2 * n)
             /\ ((2 * j - 1) + 1) \div 2 = j /\ (2 * j + 1) \div 2 = j
             /\ (2 * j - 1) % 2 = 1 /\ (2 * j) % 2 = 0
  BY <1>2
<1>5. ASSUME NEW j \in 1..n
      PROVE  E(2 * j - 1) = Head(Wrapper(s[j])) /\ E(2 * j) = <<"tx_cq", s[j]>>
  <2>1. Wrapper(s[j])[1] = Head(Wrapper(s[j])) /\ Wrapper(s[j])[2] = <<"tx_cq", s[j]>>
    BY <1>2, WrapperFacts, Zenon
  <2> QED
    BY <1>4, <2>1, Zenon
<1>6. ASSUME NEW k \in 1..(2 * n) PROVE \E j \in 1..n : k = 2 * j - 1 \/ k = 2 * j
  <2>1. (k + 1) \div 2 \in 1..n /\ (k = 2 * ((k + 1) \div 2) - 1 \/ k = 2 * ((k + 1) \div 2))
    BY <1>2
  <2> QED
    BY <2>1, Zenon
<1>7. ASSUME NEW k \in 1..(2 * n) PROVE E(k) \in Objects
  <2>1. PICK j \in 1..n : k = 2 * j - 1 \/ k = 2 * j
    BY <1>6, Zenon
  <2>2. Head(Wrapper(s[j])) \in Objects /\ <<"tx_cq", s[j]>> \in Objects
    BY <1>2, WrapperFacts, Zenon
  <2> HIDE DEF E
  <2> QED
    BY <1>5, <2>1, <2>2, Zenon
<1> HIDE DEF E
<1>8. 2 * n \in Nat /\ CleanupPool(p) \in Seq(Objects) /\ Len(CleanupPool(p)) = 2 * n
  BY <1>2, <1>3, <1>7
<1>9. \A j \in 1..n : CleanupPool(p)[2 * j - 1] = E(2 * j - 1) /\ CleanupPool(p)[2 * j] = E(2 * j)
  BY <1>3, <1>4, Zenon
<1> QED
  BY <1>1, <1>2, <1>5, <1>6, <1>8, <1>9, Zenon

\* fi_close of a sequence of objects, O being open.
BusyIn(O, s) ==
    \E k \in DOMAIN s : \E o \in O \ {s[j] : j \in 1..(k - 1)} : Refers(o, s[k])

\* One sequence after another, element by element.
LEMMA ConcatAt ==
    ASSUME NEW S, NEW a \in Seq(S), NEW b \in Seq(S)
    PROVE  /\ a \o b \in Seq(S) /\ Len(a) \in Nat /\ Len(b) \in Nat
           /\ DOMAIN a = 1..Len(a) /\ DOMAIN b = 1..Len(b) /\ DOMAIN (a \o b) = 1..(Len(a) + Len(b))
           /\ \A i \in 1..Len(a) : (a \o b)[i] = a[i]
           /\ \A i \in 1..Len(b) : (a \o b)[Len(a) + i] = b[i]
OBVIOUS

\* One sequence after the other is closed if the second is without what the
\* first closes.
LEMMA CloseBoth ==
    ASSUME NEW S, NEW a \in Seq(S), NEW b \in Seq(S), NEW O,
           ~BusyIn(O, a), ~BusyIn(O \ Range(a), b)
    PROVE  a \o b \in Seq(S) /\ Range(a \o b) = Range(a) \cup Range(b) /\ ~BusyIn(O, a \o b)
<1>a. PICK c : c = a \o b
  BY Zenon
<1>b. PICK m : m = Len(a)
  BY Zenon
<1>c. PICK n : n = Len(b)
  BY Zenon
<1>1. /\ c \in Seq(S) /\ m \in Nat /\ n \in Nat
      /\ DOMAIN a = 1..m /\ DOMAIN b = 1..n /\ DOMAIN c = 1..(m + n)
      /\ \A i \in 1..m : c[i] = a[i]
      /\ \A i \in 1..n : c[m + i] = b[i]
  BY <1>a, <1>b, <1>c, ConcatAt
<1>2. ASSUME NEW k \in 1..(m + n) PROVE k \in 1..m \/ (k - m \in 1..n /\ k = m + (k - m))
  BY <1>1
<1>3. \A i \in 1..m : i \in 1..(m + n)
  BY <1>1
<1>4. \A i \in 1..n : m + i \in 1..(m + n)
  BY <1>1
<1>5. Range(c) = Range(a) \cup Range(b)
  <2>1. ASSUME NEW k \in DOMAIN c PROVE c[k] \in Range(a) \cup Range(b)
    <3>1. k \in 1..(m + n)
      BY <1>1, <2>1, Zenon
    <3>2. CASE k \in 1..m
      BY <1>1, <3>2, Zenon DEF Range
    <3>3. CASE k - m \in 1..n /\ k = m + (k - m)
      <4>1. PICK i \in 1..n : k = m + i
        BY <3>3, Zenon
      <4>2. c[k] = b[i]
        BY <1>1, <4>1, Zenon
      <4> QED
        BY <1>1, <4>2, Zenon DEF Range
    <3> QED
      BY <1>2, <3>1, <3>2, <3>3, Zenon
  <2>2. ASSUME NEW i \in DOMAIN a PROVE a[i] \in Range(c)
    BY <1>1, <1>3, <2>2, Zenon DEF Range
  <2>3. ASSUME NEW i \in DOMAIN b PROVE b[i] \in Range(c)
    BY <1>1, <1>4, <2>3, Zenon DEF Range
  <2> QED
    BY <2>1, <2>2, <2>3, Zenon DEF Range
<1>6. ASSUME NEW k \in 1..(m + n), NEW o \in O \ {c[j] : j \in 1..(k - 1)}, Refers(o, c[k]) PROVE FALSE
  <2>1. CASE k \in 1..m
    <3>1. \A j \in 1..(k - 1) : j \in 1..m
      BY <1>1, <2>1
    <3>2. o \notin {a[j] : j \in 1..(k - 1)}
      BY <1>1, <1>6, <3>1, Zenon
    <3> QED
      BY <1>1, <1>6, <2>1, <3>2, Zenon DEF BusyIn
  <2>2. CASE k - m \in 1..n /\ k = m + (k - m)
    <3>1. PICK i \in 1..n : i = k - m /\ k = m + i
      BY <2>2, Zenon
    <3>2. o \notin Range(a)
      <4>1. \A j \in 1..m : j \in 1..(k - 1)
        BY <1>1, <3>1
      <4> QED
        BY <1>1, <4>1, Zenon DEF Range
    <3>3. o \notin {b[j] : j \in 1..(i - 1)}
      <4>1. \A j \in 1..(i - 1) : j \in 1..n /\ m + j \in 1..(k - 1)
        BY <1>1, <3>1
      <4> QED
        BY <1>1, <4>1, Zenon
    <3> QED
      BY <1>1, <1>6, <3>1, <3>2, <3>3, Zenon DEF BusyIn
  <2> QED
    BY <1>2, <2>1, <2>2, Zenon
<1> QED
  BY <1>a, <1>1, <1>5, <1>6, Zenon DEF BusyIn

\* Three objects are closed, each after those that refer to it.
LEMMA CloseThree ==
    ASSUME NEW a, NEW b, NEW c, NEW O, \A o \in O : ~Refers(o, a),
           \A o \in O \ {a} : ~Refers(o, b), \A o \in O \ {a, b} : ~Refers(o, c)
    PROVE  ~BusyIn(O, <<a, b, c>>)
<1>1. ASSUME NEW k \in 1..3, NEW o \in O \ {<<a, b, c>>[j] : j \in 1..(k - 1)} PROVE ~Refers(o, <<a, b, c>>[k])
  <2>1. CASE k = 1
    BY <2>1, Zenon
  <2>2. CASE k = 2
    <3>1. 1 \in 1..(k - 1)
      BY <2>2
    <3>2. o # a
      BY <1>1, <3>1
    <3> QED
      BY <2>2, <3>2, Zenon
  <2>3. CASE k = 3
    <3>1. 1 \in 1..(k - 1) /\ 2 \in 1..(k - 1)
      BY <2>3
    <3>2. o # a /\ o # b
      BY <1>1, <3>1
    <3> QED
      BY <2>3, <3>2, Zenon
  <2> QED
    BY <2>1, <2>2, <2>3
<1>2. DOMAIN <<a, b, c>> = 1..3
  OBVIOUS
<1> QED
  BY <1>1, <1>2, Zenon DEF BusyIn

\* What refers to an object, regions apart.
LEMMA RefersFacts ==
    ASSUME NEW o, o[1] # "mr"
    PROVE  /\ \A i : ~Refers(o, <<"stx", i>>) /\ ~Refers(o, <<"tl", i>>)
           /\ \A i : Refers(o, <<"tx_cq", i>>) => o[1] \in {"tl", "stx"} /\ o[2] = i
           /\ Refers(o, <<"ep_sx", 0>>) => o[1] = "stx"
           /\ ~Refers(o, <<"ep_tx", 0>>) /\ ~Refers(o, <<"ep_rx", 0>>)
           /\ Refers(o, <<"ep_tx_cq", 0>>) => o[1] = "ep_tx"
           /\ Refers(o, <<"rx_cq", 0>>) => o[1] = "ep_rx"
           /\ Refers(o, <<"dummy_cq", 0>>) => o[1] = "ep_rx"
           /\ Refers(o, <<"av", 0>>) => o[1] \in {"ep_rx", "ep_tx", "ep_sx", "tl"}
           /\ Refers(o, <<"domain", 0>>) => o \notin {<<"fabric", 0>>, <<"domain", 0>>}
           /\ Refers(o, <<"fabric", 0>>) => o = <<"domain", 0>>
BY Zenon DEF Refers, Binds, new_endpoint_scalable

\* The kinds of the controller's own objects.
LEMMA OursKinds ==
    ASSUME IInv, NEW p \in Procs, NEW o \in Ours(p)
    PROVE  /\ o[1] # "mr"
           /\ \/ \E i \in Wrappers(p) : i \in Nat \ {0} /\ (o = Head(Wrapper(i)) \/ o = <<"tx_cq", i>>)
              \/ o \in Shared
<1>1. \A i \in Wrappers(p) : i \in Nat \ {0}
  <2>1. Range(tx_endpoints[p]) \subseteq Nat \ {0}
    BY RangeInSet, Zenon DEF IInv, TypeOK
  <2> QED
    BY <2>1, ControllerAssumption DEF Wrappers
<1>2. \A i \in Wrappers(p) : Range(Wrapper(i)) = {Head(Wrapper(i)), <<"tx_cq", i>>}
  BY <1>1, WrapperFacts, Zenon
<1> QED
  BY <1>1, <1>2, OursNoRegion DEF Ours

\* The wrappers of the pool are closed, each its endpoint before its queue.
LEMMA ClosePool ==
    ASSUME IInv, NEW p \in Procs
    PROVE  /\ CleanupPool(p) \in Seq(Objects) /\ ~BusyIn(Ours(p), CleanupPool(p))
           /\ \A i \in Range(tx_endpoints[p]) :
                Head(Wrapper(i)) \in Range(CleanupPool(p)) /\ <<"tx_cq", i>> \in Range(CleanupPool(p))
<1> DEFINE s == tx_endpoints[p]
           n == Len(s)
           P == CleanupPool(p)
<1>1. /\ n \in Nat /\ P \in Seq(Objects) /\ Len(P) = 2 * n
      /\ \A j \in 1..n : P[2 * j - 1] = Head(Wrapper(s[j])) /\ P[2 * j] = <<"tx_cq", s[j]>>
      /\ \A k \in 1..(2 * n) : \E j \in 1..n : k = 2 * j - 1 \/ k = 2 * j
  BY PoolOrder, Zenon DEF IInv
<1>2. s \in Seq(Nat \ {0}) /\ DOMAIN s = 1..n /\ \A j \in 1..n : s[j] \in Nat \ {0}
  BY DEF IInv, TypeOK
<1> HIDE DEF s, n, P
<1>3. DOMAIN P = 1..(2 * n)
  BY <1>1
<1>4. ASSUME NEW j \in 1..n PROVE 2 * j - 1 \in 1..(2 * n) /\ 2 * j \in 1..(2 * n) /\ 2 * j - 1 \in 1..(2 * j - 1)
  BY <1>1
<1>5. ASSUME NEW k \in 1..(2 * n), NEW o \in Ours(p) \ {P[j] : j \in 1..(k - 1)}, Refers(o, P[k]) PROVE FALSE
  <2>1. PICK j \in 1..n : k = 2 * j - 1 \/ k = 2 * j
    BY <1>1, Zenon
  <2>2. o[1] # "mr" /\ s[j] \in Nat \ {0}
    BY <1>2, OursKinds, Zenon
  <2>3. CASE k = 2 * j - 1
    <3>1. P[k] = <<"stx", s[j]>> \/ P[k] = <<"tl", s[j]>>
      BY <1>1, <2>2, <2>3, WrapperFacts, Zenon
    <3>2. ~Refers(o, <<"stx", s[j]>>) /\ ~Refers(o, <<"tl", s[j]>>)
      BY <2>2, RefersFacts, Zenon
    <3> QED
      BY <1>5, <3>1, <3>2, Zenon
  <2>4. CASE k = 2 * j
    <3>1. P[k] = <<"tx_cq", s[j]>> /\ P[k - 1] = Head(Wrapper(s[j])) /\ k - 1 \in 1..(k - 1)
      BY <1>1, <2>4, <1>4, Zenon
    <3>2. o[1] \in {"tl", "stx"} /\ o[2] = s[j]
      BY <1>5, <2>2, <3>1, RefersFacts, Zenon
    <3>3. o \notin Shared
      BY <3>2, SharedFacts, TxFacts
    <3>4. PICK i \in Wrappers(p) : i \in Nat \ {0} /\ (o = Head(Wrapper(i)) \/ o = <<"tx_cq", i>>)
      BY <3>3, OursKinds, Zenon
    <3>5. o = Head(Wrapper(i)) /\ o[2] = i
      BY <3>2, <3>4, WrapperFacts
    <3> QED
      BY <3>1, <3>2, <3>5, Zenon
  <2> QED
    BY <2>1, <2>3, <2>4, Zenon
<1>6. ASSUME NEW i \in Range(s) PROVE Head(Wrapper(i)) \in Range(P) /\ <<"tx_cq", i>> \in Range(P)
  <2>1. PICK j \in 1..n : i = s[j]
    BY <1>2, <1>6, Zenon DEF Range
  <2> QED
    BY <1>1, <1>3, <1>4, <2>1, Zenon DEF Range
<1> QED
  BY <1>1, <1>3, <1>5, <1>6, Zenon DEF BusyIn, s, n, P

\* Then the endpoint for sends ...
LEMMA CloseTx ==
    CleanupTx \in Seq(Objects) /\ ~BusyIn(Shared, CleanupTx)
<1>1. ASSUME NEW o \in Shared PROVE o[1] # "mr" /\ o[1] # "stx" /\ (o[1] = "ep_tx" => o = <<"ep_tx", 0>>)
  BY <1>1, SharedFacts, TxFacts
<1>2. CASE endpoint_type = "multiple"
  <2>1. CleanupTx = <<<<"ep_tx", 0>>, <<"ep_tx_cq", 0>>>>
    BY <1>2, TxFacts, Zenon
  <2>2. ASSUME NEW k \in 1..2, NEW o \in Shared \ {CleanupTx[j] : j \in 1..(k - 1)}
        PROVE  ~Refers(o, CleanupTx[k])
    <3>1. CASE k = 1
      BY <1>1, <2>1, <3>1, RefersFacts, Zenon
    <3>2. CASE k = 2
      <4>1. 1 \in 1..(k - 1) /\ CleanupTx[1] = <<"ep_tx", 0>> /\ CleanupTx[2] = <<"ep_tx_cq", 0>>
        BY <2>1, <3>2
      <4>2. o # <<"ep_tx", 0>>
        BY <2>2, <4>1, Zenon
      <4> QED
        BY <1>1, <3>2, <4>1, <4>2, RefersFacts, Zenon
    <3> QED
      BY <3>1, <3>2
  <2>3. CleanupTx \in Seq(Objects) /\ DOMAIN CleanupTx = 1..2
    BY <2>1 DEF Objects
  <2> QED
    BY <2>2, <2>3, Zenon DEF BusyIn
<1>3. CASE Scalable
  <2>1. CleanupTx = <<<<"ep_sx", 0>>>>
    BY <1>3, TxFacts, Zenon
  <2>2. CleanupTx \in Seq(Objects) /\ DOMAIN CleanupTx = {1} /\ CleanupTx[1] = <<"ep_sx", 0>>
    BY <2>1 DEF Objects
  <2>3. \A o \in Shared : ~Refers(o, CleanupTx[1])
    BY <1>1, <2>2, RefersFacts, Zenon
  <2> QED
    BY <2>2, <2>3, Zenon DEF BusyIn
<1>4. CASE endpoint_type # "multiple" /\ ~Scalable
  <2>1. CleanupTx = <<>>
    BY <1>4, TxFacts, Zenon
  <2> QED
    BY <2>1 DEF BusyIn
<1> QED
  BY <1>2, <1>3, <1>4, Zenon

\* A sequence of three.
LEMMA ThreeFacts ==
    ASSUME NEW S, NEW x \in S, NEW y \in S, NEW z \in S
    PROVE  <<x, y, z>> \in Seq(S) /\ Range(<<x, y, z>>) = {x, y, z}
BY DEF Range

\* ... the endpoint for receives, and the rest: nothing is busy, nothing is left.
LEMMA Closing ==
    ASSUME IInv, NEW p \in Procs, open[p] = Ours(p), Wrappers(p) = Range(tx_endpoints[p])
    PROVE  open[p] \subseteq Range(CloseOrder(p)) /\ ~Busy(p, CloseOrder(p))
<1> DEFINE P == CleanupPool(p)
           T == CleanupTx
           R == <<<<"ep_rx", 0>>, <<"rx_cq", 0>>, <<"dummy_cq", 0>>>>
           Q == <<<<"av", 0>>, <<"domain", 0>>, <<"fabric", 0>>>>
           O == open[p]
           Rest == {<<"av", 0>>, <<"domain", 0>>, <<"fabric", 0>>}
<1>1. P \in Seq(Objects) /\ T \in Seq(Objects) /\ ~BusyIn(O, P)
  BY ClosePool, CloseTx, Zenon
<1>2. O \ Range(P) \subseteq Shared
  <2>1. \A i \in Wrappers(p) : Head(Wrapper(i)) \in Range(P) /\ <<"tx_cq", i>> \in Range(P)
    BY ClosePool, Zenon
  <2> HIDE DEF P
  <2>2. ASSUME NEW o \in O \ Range(P) PROVE o \in Shared
    <3>1. o \in Ours(p) /\ o \notin Range(P)
      BY <2>2, Zenon
    <3>2. \/ \E i \in Wrappers(p) : i \in Nat \ {0} /\ (o = Head(Wrapper(i)) \/ o = <<"tx_cq", i>>)
          \/ o \in Shared
      BY <3>1, OursKinds, Zenon
    <3> QED
      BY <2>1, <3>1, <3>2, Zenon
  <2> QED
    BY <2>2, Zenon
<1>3. ~BusyIn(O \ Range(P), T)
  BY <1>2, CloseTx, Zenon DEF BusyIn
<1> HIDE DEF P, T, O
<1>4. P \o T \in Seq(Objects) /\ Range(P \o T) = Range(P) \cup Range(T) /\ ~BusyIn(O, P \o T)
  BY <1>1, <1>3, CloseBoth, Zenon
<1>5. PICK a \in Seq(Objects) : a = P \o T
  BY <1>4, Zenon
<1>6. O \ Range(a) \subseteq Rest \cup {<<"ep_rx", 0>>, <<"rx_cq", 0>>, <<"dummy_cq", 0>>}
  BY <1>2, <1>4, <1>5, SharedFacts, Zenon DEF T
<1>7. /\ R \in Seq(Objects) /\ Range(R) = {<<"ep_rx", 0>>, <<"rx_cq", 0>>, <<"dummy_cq", 0>>}
      /\ Q \in Seq(Objects) /\ Range(Q) = Rest
  <2>1. /\ <<"ep_rx", 0>> \in Objects /\ <<"rx_cq", 0>> \in Objects /\ <<"dummy_cq", 0>> \in Objects
        /\ <<"av", 0>> \in Objects /\ <<"domain", 0>> \in Objects /\ <<"fabric", 0>> \in Objects
    BY Zenon DEF Objects
  <2>2. PICK x, y, z : x = <<"ep_rx", 0>> /\ y = <<"rx_cq", 0>> /\ z = <<"dummy_cq", 0>>
    BY Zenon
  <2>3. <<x, y, z>> \in Seq(Objects) /\ Range(<<x, y, z>>) = {x, y, z}
    <3>1. x \in Objects /\ y \in Objects /\ z \in Objects
      BY <2>1, <2>2, Zenon
    <3> QED
      BY <3>1, ThreeFacts
  <2>4. PICK u, v, w : u = <<"av", 0>> /\ v = <<"domain", 0>> /\ w = <<"fabric", 0>>
    BY Zenon
  <2>5. <<u, v, w>> \in Seq(Objects) /\ Range(<<u, v, w>>) = {u, v, w}
    <3>1. u \in Objects /\ v \in Objects /\ w \in Objects
      BY <2>1, <2>4, Zenon
    <3> QED
      BY <3>1, ThreeFacts
  <2> QED
    BY <2>2, <2>3, <2>4, <2>5, Zenon
<1>8. ~BusyIn(O \ Range(a), R)
  <2>1. \A o \in O \ Range(a) : o[1] # "mr" /\ (o[1] = "ep_rx" => o = <<"ep_rx", 0>>)
    BY <1>6
  <2> QED
    <3>1. \A o \in O \ Range(a) : ~Refers(o, <<"ep_rx", 0>>)
      BY <2>1, RefersFacts, Zenon
    <3>2. \A o \in (O \ Range(a)) \ {<<"ep_rx", 0>>} : ~Refers(o, <<"rx_cq", 0>>) /\ ~Refers(o, <<"dummy_cq", 0>>)
      BY <2>1, RefersFacts, Zenon
    <3> QED
      BY <3>1, <3>2, CloseThree, Zenon
<1>9. (O \ Range(a)) \ Range(R) \subseteq Rest
  BY <1>6, <1>7, Zenon
<1>10. ~BusyIn((O \ Range(a)) \ Range(R), Q)
  <2>1. \A o \in (O \ Range(a)) \ Range(R) :
            o[1] # "mr" /\ o[1] \notin {"ep_rx", "ep_tx", "ep_sx", "tl"}
    BY <1>9
  <2> HIDE DEF R
  <2>2. ASSUME NEW o \in (O \ Range(a)) \ Range(R)
        PROVE  /\ ~Refers(o, <<"av", 0>>)
               /\ ~Refers(o, <<"domain", 0>>) \/ o = <<"av", 0>>
               /\ ~Refers(o, <<"fabric", 0>>) \/ o = <<"domain", 0>>
    BY <1>9, <2>1, RefersFacts, Zenon
  <2> QED
    BY <2>2, CloseThree, Zenon
<1> HIDE DEF R, Q
<1>11. a \o R \in Seq(Objects) /\ Range(a \o R) = Range(a) \cup Range(R) /\ ~BusyIn(O, a \o R)
  <2>1. ~BusyIn(O, a)
    BY <1>4, <1>5, Zenon
  <2> QED
    BY <1>7, <1>8, <2>1, CloseBoth, Zenon
<1>12. PICK b \in Seq(Objects) : b = a \o R
  BY <1>11, Zenon
<1>13. O \ Range(b) = (O \ Range(a)) \ Range(R) /\ ~BusyIn(O, b)
  BY <1>11, <1>12, Zenon
<1>14. b \o Q \in Seq(Objects) /\ Range(b \o Q) = Range(b) \cup Range(Q) /\ ~BusyIn(O, b \o Q)
  <2>1. b \in Seq(Objects) /\ Q \in Seq(Objects) /\ ~BusyIn(O, b)
    BY <1>7, <1>12, <1>13, Zenon
  <2>2. ~BusyIn(O \ Range(b), Q)
    BY <1>10, <1>13, Zenon
  <2> QED
    BY <2>1, <2>2, CloseBoth, Zenon
<1>15. CloseOrder(p) = b \o Q
  BY <1>5, <1>12, Zenon DEF CloseOrder, CleanupRx, get_rx_endpoint, P, T, R, Q
<1>16. O \subseteq Range(b \o Q)
  BY <1>7, <1>9, <1>13, <1>14, Zenon
<1> QED
  BY <1>14, <1>15, <1>16, Zenon DEF Busy, BusyIn, O

\* ~controller_base: the threads have given their transmit contexts back and no region is
\* left, so everything is closed.
LEMMA ExitCloses ==
    ASSUME IInv, NEW p \in Procs, ExitProcess(p)
    PROVE  open'[p] = {} /\ pc'[p] = "done"
<1>1. live[p] = {} /\ Close(p) /\ \A t \in Threads : ProcOf[t] = p => status[t] # "running"
  BY Zenon DEF ExitProcess
<1>2. CASE open[p] = {}
  <2>1. ~Busy(p, CloseOrder(p))
    BY <1>2, Zenon DEF Busy
  <2> QED
    BY <1>1, <1>2, <2>1 DEF Close, Goto, IInv, TypeOK
<1>3. CASE open[p] # {}
  <2>1. Held(p) = {}
    BY <1>1, Zenon DEF Held, IInv, Pool, Holds
  <2>2. Wrappers(p) = Range(tx_endpoints[p])
    BY <1>3, <2>1, Zenon DEF IInv, Pool, Pooled, Wrappers
  <2>3. Registered(p) = {}
    BY <1>1, Zenon DEF IInv, Opens, Registered
  <2>4. open[p] = Ours(p)
    BY <1>3, <2>3, Zenon DEF IInv, Opens
  <2>5. open[p] \subseteq Range(CloseOrder(p)) /\ ~Busy(p, CloseOrder(p))
    BY <2>2, <2>4, Closing, Zenon
  <2> QED
    BY <1>1, <2>5 DEF Close, Goto, IInv, TypeOK
<1> QED
  BY <1>2, <1>3, Zenon

\* Every step of a main thread keeps what is open; only the last one closes.
LEMMA StepOpens ==
    ASSUME IInv, NEW p \in Procs, Step(p)
    PROVE  Opens' /\ ClosesCleanly'
<1>1. CASE Initialize(p)
  <2>1. pc'[p] \in {"gather", "sending"}
    BY <1>1, Zenon DEF Initialize, Goto, IInv, TypeOK
  <2> QED
    BY <1>1, <2>1, InitializeOpens, OthersKept DEF IInv, ClosesCleanly, Same
<1>2. CASE DestroyContext(p)
  <2>1. pc' = pc /\ pc[p] = "main"
    BY <1>2, Zenon DEF DestroyContext
  <2> QED
    BY <1>2, <2>1, DestroyOpens, OthersKept, Zenon DEF IInv, ClosesCleanly, Same
<1>3. CASE ExitProcess(p)
  <2>1. open'[p] = {} /\ pc'[p] = "done"
    BY <1>3, ExitCloses, Zenon
  <2>2. UNCHANGED <<endpoint_type, live, tx_endpoints, segment>>
    BY <1>3, Zenon DEF ExitProcess
  <2>3. \A q \in Procs \ {p} : open'[q] = open[q]
    BY <1>3, Zenon DEF ExitProcess, Close, IInv, TypeOK
  <2>4. \A q \in Procs : Ours(q)' = Ours(q) /\ Registered(q)' = Registered(q)
    BY <2>2, OursSame, Zenon DEF Registered
  <2>5. Opens'
    BY <2>1, <2>2, <2>3, <2>4, Zenon DEF IInv, Opens
  <2> QED
    BY <2>1, <2>5, OthersKept DEF IInv, ClosesCleanly, Same
<1>4. CASE ~Initialize(p) /\ ~DestroyContext(p) /\ ~ExitProcess(p)
  <2>1. UNCHANGED <<endpoint_type, tx_endpoints, segment, open>>
    BY <1>4, Zenon DEF Step, Creating, NewContext, Bcast, ReuseController, Gather, Scatter, ReceiveAll,
              Insert, SendReturns, ScatterReturns, objects
  <2>2. live[p] \subseteq live'[p] /\ pc'[p] \notin {"done", "terminated"}
    <3> USE DEF IInv, TypeOK, Goto
    <3>1. CASE NewContext(p)
      BY <3>1, Zenon DEF NewContext
    <3>2. CASE Bcast(p)
      BY <3>2, Zenon DEF Bcast
    <3>3. CASE ReuseController(p)
      BY <3>3, Zenon DEF ReuseController
    <3>4. CASE Gather(p)
      BY <3>4, Zenon DEF Gather
    <3>5. CASE Scatter(p)
      BY <3>5, Zenon DEF Scatter
    <3>6. CASE ReceiveAll(p)
      BY <3>6, Zenon DEF ReceiveAll
    <3>7. CASE Insert(p)
      BY <3>7, Zenon DEF Insert
    <3>8. CASE SendReturns(p) \/ ScatterReturns(p)
      BY <3>8, Zenon DEF SendReturns, ScatterReturns
    <3> QED
      BY <1>4, <3>1, <3>2, <3>3, <3>4, <3>5, <3>6, <3>7, <3>8, Zenon DEF Step, Creating
  <2>3. \A q \in Procs : live[q] \subseteq live'[q]
    BY <2>2, OthersKept, Zenon DEF IInv, Same
  <2>4. Opens'
    BY <2>1, <2>3, OpensSame, Zenon
  <2> QED
    BY <2>2, <2>4, OthersKept, Zenon DEF IInv, ClosesCleanly, Same
<1> QED
  BY <1>1, <1>2, <1>3, <1>4, Zenon

\* Threads and regions leave contexts, exchange and tags alone.
LEMMA SameKept ==
    ASSUME IInv, \A q \in Procs : Same(q), UNCHANGED <<net, live, m_ctxt_tag>>
    PROVE  Places' /\ Exchange' /\ Tagged' /\ ClosesCleanly'
<1>1. Places'
  BY PlaceKept, Zenon DEF IInv, Places
<1>2. \A m : (Report(m)' <=> Report(m)) /\ (Table(m)' <=> Table(m))
  BY Zenon
<1>3. Exchange'
  BY <1>2, ExchangedKept, Zenon DEF IInv, Exchange
<1>4. Tagged'
  BY DEF IInv, Tagged, Same, Constructing
<1>5. ClosesCleanly'
  BY Zenon DEF IInv, ClosesCleanly, Same
<1> QED
  BY <1>1, <1>3, <1>4, <1>5, Zenon

\* A program starts with no context and no controller.
LEMMA InitInv == Init => IInv
<1> SUFFICES ASSUME Init PROVE IInv
  BY Zenon
<1> USE DEF Init
<1>1. TypeOK
  BY ControllerAssumption DEF TypeOK, Labels, CtxtTag
<1>2. Places
  BY DEF Places, Place, Constructing, Exchanging, Passed
<1>3. Exchange
  BY Zenon DEF Exchange, Exchanged, Exchanging
<1>4. Tagged
  <2>1. \A c \in Contexts : m_ctxt_tag[Root(c)][c] = None
    BY RankFacts, Zenon
  <2> QED
    BY <2>1, Zenon DEF Tagged, Constructing
<1>5. Pool
  <2>1. \A p \in Procs : Held(p) = {} /\ tx_endpoints[p] = <<>> /\ open[p] = {}
    BY Zenon DEF Held
  <2>2. IsInjective(<<>>) /\ Range(<<>>) = 1..Len(<<>>)
    BY DEF IsInjective, Range
  <2> QED
    BY <2>1, <2>2, Zenon DEF Pool, Holds, Pooled
<1>6. Opens
  BY Zenon DEF Opens
<1>7. ClosesCleanly
  BY Zenon DEF ClosesCleanly
<1> QED
  BY <1>1, <1>2, <1>3, <1>4, <1>5, <1>6, <1>7, Zenon DEF IInv

\* Every step of a main thread keeps the types.
LEMMA StepTypes ==
    ASSUME IInv, NEW p \in Procs, Step(p)
    PROVE  TypeOK'
<1>1. TypeOK /\ (pc[p] \notin {"main", "done", "terminated"} => ctx[p] \in Contexts)
  BY Constructed, Zenon DEF IInv, Places
<1>2. CASE NewContext(p) \/ Bcast(p) \/ ReuseController(p) \/ SendReturns(p) \/ ScatterReturns(p)
  BY <1>1, <1>2, SetupTypes, Zenon
<1>3. CASE Initialize(p)
  BY <1>1, <1>3, InitializeTypes, Zenon DEF Initialize
<1>4. CASE Gather(p) \/ Scatter(p) \/ ReceiveAll(p) \/ Insert(p)
  <2>1. ctx[p] \in Contexts
    BY <1>1, <1>4, Zenon DEF Gather, Scatter, ReceiveAll, Insert
  <2>2. pc[p] = "scatter" => peer[p] \in Nat \ {0}
    BY <2>1, RankFacts DEF IInv, Exchange, Exchanged
  <2> QED
    BY <1>1, <1>4, <2>1, <2>2, ExchangeTypes, Zenon
<1>5. CASE DestroyContext(p) \/ ExitProcess(p)
  BY <1>1, <1>5, EndTypes, Zenon
<1> QED
  BY <1>2, <1>3, <1>4, <1>5, Zenon DEF Step, Creating

\* Every step keeps the invariant.
LEMMA NextInv == IInv /\ [Next]_vars => IInv'
<1> SUFFICES ASSUME IInv, [Next]_vars PROVE IInv'
  BY Zenon
<1>1. ASSUME NEW p \in Procs, Step(p) PROVE IInv'
  BY <1>1, StepTypes, StepPlaces, StepExchange, StepTagged, StepPool, StepOpens, Zenon DEF IInv
<1>2. ASSUME NEW t \in Threads, StartThread(t) \/ GetCommunicator(t) \/ ExitThread(t) PROVE IInv'
  <2>1. TypeOK'
    BY <1>2, ThreadTypes, Zenon DEF IInv
  <2>2. Places' /\ Exchange' /\ Tagged' /\ ClosesCleanly'
    BY <1>2, ThreadsKept, SameKept, Zenon
  <2> QED
    BY <1>2, <2>1, <2>2, ThreadPool, ThreadOpens, Zenon DEF IInv
<1>3. ASSUME NEW r \in Regions, MakeRegion(r) \/ FreeRegion(r) PROVE IInv'
  <2>1. TypeOK'
    BY <1>3, RegionTypes, Zenon DEF IInv
  <2>2. UNCHANGED <<net, live, m_ctxt_tag>>
    BY <1>3, Zenon DEF MakeRegion, FreeRegion, setup, exchange
  <2>3. Places' /\ Exchange' /\ Tagged' /\ ClosesCleanly'
    BY <1>3, <2>2, RegionsKept, SameKept, Zenon
  <2> QED
    BY <1>3, <2>1, <2>3, RegionPool, RegionOpens, Zenon DEF IInv
<1>4. CASE UNCHANGED vars
  <2>1. /\ UNCHANGED <<endpoint_type, tx_endpoints, tl, m_tx_endpoint, status, segment, open>>
        /\ UNCHANGED <<net, live, m_ctxt_tag, pc, ctx, made, av, peer, localities>>
    BY <1>4, Zenon DEF vars, setup, exchange, objects, threads
  <2>2. TypeOK'
    BY <2>1, Zenon DEF IInv, TypeOK
  <2>3. Places' /\ Exchange' /\ Tagged' /\ ClosesCleanly'
    BY <2>1, SameKept, Zenon DEF Same
  <2>4. Pool'
    <3>1. \A t \in Threads : tl[t] # None => open[ProcOf[t]] # {}
      BY Zenon DEF IInv, Pool, Holds
    <3> QED
      BY <2>1, <3>1, PoolSame, Zenon
  <2>5. Opens'
    BY <2>1, OpensSame, Zenon
  <2> QED
    BY <2>2, <2>3, <2>4, <2>5, Zenon DEF IInv
<1>5. Next => \/ \E p \in Procs : Step(p)
              \/ \E t \in Threads : StartThread(t) \/ GetCommunicator(t) \/ ExitThread(t)
              \/ \E r \in Regions : MakeRegion(r) \/ FreeRegion(r)
  BY Zenon DEF Next, Step
<1> QED
  BY <1>1, <1>2, <1>3, <1>4, <1>5, Zenon

----------------------------------------------------------------------------
(* The theorems.                                                           *)

\* The invariant holds in every state the controllers of a program reach.
THEOREM Invariance == Spec => []IInv
BY InitInv, NextInv, PTL DEF Spec

\* get_tx_endpoint and ~stack_endpoint neither lose nor duplicate a transmit
\* context, for any number of threads, whatever they do in whatever order.
THEOREM PoolConserved == Spec => []TxContextsConserved
<1>1. IInv => TxContextsConserved
  <2> SUFFICES ASSUME IInv PROVE TxContextsConserved
    BY Zenon
  <2>1. ASSUME NEW p \in Procs, NEW t \in Held(p), NEW u \in Held(p),
               m_tx_endpoint[t] = m_tx_endpoint[u]
        PROVE  t = u
    <3>1. /\ t \in Threads /\ tl[t] \in Nat \ {0} /\ m_tx_endpoint[t] = Head(Wrapper(tl[t]))
          /\ u \in Threads /\ tl[u] \in Nat \ {0} /\ m_tx_endpoint[u] = Head(Wrapper(tl[u]))
      BY Zenon DEF Held, IInv, TypeOK, Pool, Holds
    <3>2. tl[t] = tl[u]
      <4>1. \A i \in Nat \ {0} : Head(Wrapper(i))[2] = i
        BY WrapperFacts
      <4> QED
        BY <2>1, <3>1, <4>1, Zenon
    <3> QED
      BY <2>1, <3>2, Zenon DEF IInv, Pool, Pooled
  <2>2. ASSUME NEW p \in Procs, Scalable, open[p] # {}
        PROVE  /\ Range(tx_endpoints[p]) \cap {tl[t] : t \in Held(p)} = {}
               /\ Range(tx_endpoints[p]) \cup {tl[t] : t \in Held(p)} = 1..TxContexts
    <3>1. Pooled(p)
      BY Zenon DEF IInv, Pool
    <3>2. \A t \in Held(p) : tl[t] \in 1..TxContexts
      BY <2>2, Zenon DEF Held, IInv, Pool, Holds, Wrappers
    <3> QED
      BY <2>2, <3>1, <3>2 DEF Pooled
  <2>3. \A p \in Procs : IsInjective(tx_endpoints[p])
    BY Zenon DEF IInv, Pool, Pooled
  <2> QED
    BY <2>1, <2>2, <2>3, Zenon DEF TxContextsConserved, IInv, Held
<1> QED
  BY <1>1, Invariance, PTL

\* ~controller_base never finds an object busy and leaves none open, whatever
\* the endpoint type, the number of threads and the regions they registered.
THEOREM NothingBusy == Spec => []ClosesCleanly
<1>1. IInv => ClosesCleanly
  BY Zenon DEF IInv
<1> QED
  BY <1>1, Invariance, PTL

\* The ranks of every context are those of the first context of its members:
\* what a program must respect for the rank to be the index of an address.
SameRanks ==
    \A p \in Procs : \A f, c \in Contexts :
        First(p, f) /\ Member(p, c) =>
            Size(c) <= Size(f) /\ \A r \in 1..Size(c) : CommOf[c][r] = CommOf[f][r]

\* With such communicators rank r of a context is entry r of the address
\* vector that the controller of the first context filled.
THEOREM RanksAddressed == SameRanks => (Spec => []AddressedRight)
<1> SUFFICES ASSUME SameRanks PROVE Spec => []AddressedRight
  BY Zenon
<1>1. IInv => AddressedRight
  <2> SUFFICES ASSUME IInv, NEW p \in Procs, NEW c \in live[p], NEW r \in 1..Size(c)
               PROVE  r <= Len(av[p]) /\ av[p][r] = Here(CommOf[c][r])
    BY Zenon DEF AddressedRight
  <2>1. c \in Contexts /\ Member(p, c) /\ open[p] # {} /\ Place(p) /\ Exchanged(p)
    BY Zenon DEF IInv, TypeOK, Places, Place, Exchange
  <2>2. PICK j \in 1..Passed(p) : c = Order[j]
    BY <2>1, Zenon DEF Place
  <2>3. ~Exchanging(p)
    <3> SUFFICES ASSUME Exchanging(p) PROVE FALSE
      BY Zenon
    <3>1. First(p, ctx[p]) /\ Constructing(p)
      BY <2>1, Zenon DEF Place, Exchanging, Constructing
    <3>2. made[p] \in DOMAIN Order /\ ctx[p] = Order[made[p]] /\ j \in 1..(made[p] - 1)
      BY <2>1, <2>2, <3>1, Zenon DEF Place, Passed
    <3>3. \A i \in DOMAIN Order : Order[i] = Order[made[p]] => i = made[p]
      BY <3>2, ControllerAssumption, Zenon DEF IsInjective
    <3> QED
      BY <2>1, <2>2, <3>1, <3>2, <3>3, Zenon DEF First
  <2>4. PICK f \in Contexts : First(p, f) /\ av[p] = Addresses(f, Size(f))
    BY <2>1, <2>3, Zenon DEF Exchanged
  <2>5. Size(c) <= Size(f) /\ CommOf[c][r] = CommOf[f][r]
    BY <2>1, <2>4, Zenon DEF SameRanks
  <2>6. Size(f) \in Nat /\ Size(c) \in Nat
    BY <2>1, RankFacts, Zenon
  <2>7. r \in 1..Size(f) /\ Len(av[p]) = Size(f)
    BY <2>4, <2>5, <2>6, AddressTypes
  <2> QED
    BY <2>4, <2>5, <2>6, <2>7 DEF Addresses
<1> QED
  BY <1>1, Invariance, PTL

\* The broadcast leaves every rank of a context with the root's address, so a
\* match of two wire tags depends on the addresses of the two roots and on the
\* tags only: on 24 bits of each, whatever the addresses and the tags are.
THEOREM TagsAgree == Spec => []TagsMatch
<1>1. \A a, b \in Nat : Low24(a) = Low24(b) <=> Low24(a - b) = 0
  BY DEF Low24
<1>2. IInv => TagsMatch
  <2> SUFFICES ASSUME IInv, NEW p \in Procs, NEW q \in Procs, NEW c \in live[p], NEW d \in live[q],
                      NEW t \in Tags, NEW u \in Tags
               PROVE  make_tag64(t, m_ctxt_tag[p][c]) = make_tag64(u, m_ctxt_tag[q][d]) <=>
                          Low24(TagOf(c) - TagOf(d)) = 0 /\ Low24(t - u) = 0
    BY Zenon DEF TagsMatch, TagOf
  <2>1. /\ m_ctxt_tag[p][c] = TagOf(c) /\ m_ctxt_tag[q][d] = TagOf(d)
        /\ c \in Contexts /\ d \in Contexts /\ Root(c) \in Procs /\ Root(d) \in Procs
    BY RankFacts, Zenon DEF IInv, TypeOK, Tagged
  <2>2. TagOf(c) \in Nat /\ TagOf(d) \in Nat /\ t \in Nat /\ u \in Nat
    BY <2>1, NumbersAssumption, Zenon DEF TagOf
  <2>3. /\ Low24(TagOf(c)) = Low24(TagOf(d)) <=> Low24(TagOf(c) - TagOf(d)) = 0
        /\ Low24(t) = Low24(u) <=> Low24(t - u) = 0
    BY <1>1, <2>2, Zenon
  <2> QED
    BY <2>1, <2>3, Zenon DEF make_tag64
<1> QED
  BY <1>2, Invariance, PTL

=============================================================================
