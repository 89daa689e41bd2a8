------------------------- MODULE UcxEndpointsProofs -------------------------
(***************************************************************************)
(* The endpoints of the UCX backend for any number of ranks, any           *)
(* communicators and routes and any permutation of the PMIx ranks: the     *)
(* three safety properties of UcxEndpoints.                                *)
(*                                                                         *)
(* None is inductive.  ConnectsRight rests on what a rank that has left    *)
(* the constructor knows of the others (Exchanged), PeersFinished on how   *)
(* far apart the destructor's barriers let the ranks be (Phases), and      *)
(* FreedOnce on which handles the loop over the handles still holds        *)
(* (Handles).                                                              *)
(***************************************************************************)
EXTENDS UcxEndpoints, FiniteSetTheorems, TLAPS

\* A rank that left the constructor can find every rank: from its own map, or
\* through the store every rank has put its address into.
Exchanged ==
    \A r \in Ranks :
        IF usePmi
        THEN /\ step[r] # "bcast"
             /\ step[r] # "db" => known[r] = PmiRank /\ store[PmiRank[r]] = r
             /\ step[r] \notin {"db", "fence"} => \A q \in Ranks : step[q] # "db"
        ELSE /\ step[r] \notin {"db", "fence"}
             /\ \A k \in Ranks : k < round[r] => known[r][k] = k
             /\ IF step[r] = "bcast" THEN round[r] < Size ELSE round[r] = Size

\* A rank past the non-blocking barrier has seen every rank enter it.
Phases ==
    \A r, q \in Ranks :
        step[r] \in {"last", "gone"} => step[q] \in {"ibarrier", "last", "gone"}

Closed == {"ibarrier", "last", "gone"}

\* A pending request was freed when its rank is past the loop, and before that
\* it was not and, inside the loop, its handle is still to be looked at.
Handles ==
    /\ \A e \in Routes :
        /\ handle[e] = "none" => freed[e] = 0
        /\ handle[e] = "pending" => freed[e] = IF step[e[1]] \in Closed THEN 1 ELSE 0
        /\ handle[e] = "pending" /\ step[e[1]] = "close"
            => e \in pass[e[1]] \/ e \in again[e[1]]
        /\ handle[e] = "none" /\ step[e[1]] \in Closed \union {"barrier", "close"}
            => ep[e] = "none"
        /\ handle[e] # "none" => ep[e] # "none"
    /\ \A r \in Ranks : \A e \in again[r] :
        handle[e] = "pending" /\ e[1] = r /\ step[r] = "close" /\ e \notin pass[r]
    /\ \A r \in Ranks : \A e \in pass[r] : handle[e] # "none" /\ e[1] = r

IInv == TypeOK /\ Exchanged /\ Phases /\ Handles /\ ConnectsRight

Steps == {"db", "fence", "bcast", "run", "barrier", "close", "ibarrier", "last", "gone"}

\* The steps of a rank, numbered.
LEMMA OrderFacts ==
    /\ DOMAIN Order = Steps
    /\ Order["db"] = 0 /\ Order["fence"] = 1 /\ Order["bcast"] = 1 /\ Order["run"] = 2
    /\ Order["barrier"] = 3 /\ Order["close"] = 4 /\ Order["ibarrier"] = 5
    /\ Order["last"] = 6 /\ Order["gone"] = 7
BY DEF Order, Steps

\* Ranks are numbers below Size, which stands for an address not known yet.
LEMMA RankFacts ==
    /\ Size \in Nat
    /\ \A r \in Ranks : r \in Nat /\ r < Size /\ r \in 0 .. Size
    /\ \A k \in Nat : k < Size => k \in Ranks
    /\ Unset \in 0 .. Size
<1>1. Size \in Nat
  BY RanksAssumption, FS_CardinalityType DEF Size
<1>2. Ranks = 0 .. (Size - 1)
  BY RanksAssumption
<1> QED
  BY <1>1, <1>2 DEF Unset

\* A route goes from a rank and a communicator to a rank.
LEMMA RouteFacts ==
    ASSUME NEW e \in Routes
    PROVE  e[1] \in Ranks /\ e[2] \in Comms /\ e[3] \in Ranks
BY RoutesAssumption

\* What MPI_Barrier, MPI_Ibarrier and PMIx_Fence ensure when they return.
LEMMA ReachedFacts ==
    ASSUME TypeOK
    PROVE  /\ Reached("fence") => \A q \in Ranks : step[q] # "db"
           /\ Reached("ibarrier") => \A q \in Ranks : step[q] \in Closed
<1>1. \A q \in Ranks : step[q] \in Steps
  BY OrderFacts DEF TypeOK
<1>2. Reached("fence") => \A q \in Ranks : step[q] # "db"
  BY OrderFacts DEF Reached
<1>3. ASSUME Reached("ibarrier"), NEW q \in Ranks PROVE step[q] \in Closed
  <2>1. Order[step[q]] >= 5
    BY <1>3, OrderFacts DEF Reached
  <2> QED
    BY <1>1, <2>1, OrderFacts DEF Steps, Closed
<1> QED
  BY <1>2, <1>3

-----------------------------------------------------------------------------
\* A rank that runs finds the right address, by either address database.
LEMMA FindsRight ==
    ASSUME TypeOK, Exchanged, NEW r \in Ranks, NEW k \in Ranks, step[r] = "run"
    PROVE  Find(r, k) = k
<1>1. CASE usePmi
  <2>1. step[k] # "db" /\ known[r] = PmiRank
    BY <1>1 DEF Exchanged
  <2>2. store[PmiRank[k]] = k
    BY <1>1, <2>1 DEF Exchanged
  <2> QED
    BY <1>1, <2>1, <2>2 DEF Find, get
<1>2. CASE ~usePmi
  <2>1. round[r] = Size /\ k < Size
    BY <1>2, RankFacts DEF Exchanged
  <2>2. known[r][k] = k
    BY <1>2, <2>1 DEF Exchanged
  <2> QED
    BY <1>2, <2>2 DEF Find
<1> QED
  BY <1>1, <1>2 DEF TypeOK

\* The initial state satisfies the invariant.
LEMMA InitIInv == Init => IInv
<1> SUFFICES ASSUME Init PROVE IInv
  OBVIOUS
<1>1. TypeOK
  BY RankFacts, OrderFacts DEF Init, TypeOK, NoComm, Steps
<1>2. Exchanged
  <2> SUFFICES ASSUME NEW r \in Ranks
               PROVE  Exchanged!(r)
    BY DEF Exchanged
  <2>1. round[r] = 0 /\ 0 < Size
    BY RankFacts DEF Init
  <2>2. step[r] = IF usePmi THEN "db" ELSE "bcast"
    BY DEF Init
  <2> QED
    BY <2>1, <2>2, RankFacts
<1>3. Phases
  BY DEF Init, Phases
<1>4. Handles
  BY RouteFacts DEF Init, Handles, Closed
<1>5. ConnectsRight
  BY DEF Init, ConnectsRight
<1> QED
  BY <1>1, <1>2, <1>3, <1>4, <1>5 DEF IInv

-----------------------------------------------------------------------------
(* The exchange of addresses.                                              *)

\* One broadcast of address_db_mpi::init.
LEMMA BcastStep == ASSUME IInv, NEW r \in Ranks, Bcast(r) PROVE IInv'
<1>1. /\ TypeOK /\ Exchanged /\ ~usePmi /\ step[r] = "bcast" /\ round[r] < Size
      /\ round[r] \in Ranks /\ round[r] \in Nat
  <2>1. TypeOK /\ Exchanged /\ step[r] = "bcast" /\ ~usePmi
    BY DEF IInv, Bcast, Exchanged
  <2>2. round[r] < Size /\ round[r] \in Nat
    BY <2>1, RankFacts DEF Exchanged, TypeOK
  <2> QED
    BY <2>1, <2>2, RankFacts
<1>2. /\ known' = [known EXCEPT ![r][round[r]] = round[r]]
      /\ round' = [round EXCEPT ![r] = round[r] + 1]
      /\ step' = IF round[r] + 1 = Size THEN [step EXCEPT ![r] = "run"] ELSE step
      /\ UNCHANGED <<usePmi, store, comm, addr, ep, handle, freed, pass, again, late>>
  BY DEF Bcast, Goto, closing
<1>3. TypeOK'
  BY <1>1, <1>2, RankFacts, OrderFacts DEF TypeOK, Steps
<1>4. Exchanged'
  <2>1. ASSUME NEW q \in Ranks
        PROVE  /\ step'[q] \notin {"db", "fence"}
               /\ \A k \in Ranks : k < round'[q] => known'[q][k] = k
               /\ IF step'[q] = "bcast" THEN round'[q] < Size ELSE round'[q] = Size
    <3>1. CASE q = r
      <4>1. step'[r] \notin {"db", "fence"}
        BY <1>1, <1>2 DEF TypeOK
      <4>2. ASSUME NEW k \in Ranks, k < round'[r] PROVE known'[r][k] = k
        <5>1. round'[r] = round[r] + 1 /\ k \in Nat
          BY <1>1, <1>2, RankFacts DEF TypeOK
        <5>2. CASE k = round[r]
          BY <1>1, <1>2, <5>2 DEF TypeOK
        <5>3. CASE k < round[r]
          <6>1. known[r][k] = k
            BY <1>1, <5>3 DEF Exchanged
          <6> QED
            BY <1>1, <1>2, <5>3, <6>1 DEF TypeOK
        <5> QED
          BY <1>1, <4>2, <5>1, <5>2, <5>3
      <4>3. IF step'[r] = "bcast" THEN round'[r] < Size ELSE round'[r] = Size
        BY <1>1, <1>2, RankFacts DEF TypeOK
      <4> QED
        BY <3>1, <4>1, <4>2, <4>3
    <3>2. CASE q # r
      <4>1. step'[q] = step[q] /\ round'[q] = round[q] /\ known'[q] = known[q]
        BY <1>2, <3>2, <1>1 DEF TypeOK
      <4> QED
        BY <1>1, <4>1 DEF Exchanged
    <3> QED
      BY <3>1, <3>2
  <2> QED
    BY <1>1, <1>2, <2>1 DEF Exchanged
<1>5. Phases'
  BY <1>1, <1>2 DEF IInv, Phases, TypeOK
<1>6. Handles'
  <2>1. \A q \in Ranks : step'[q] = step[q] \/ (step[q] = "bcast" /\ step'[q] = "run")
    BY <1>1, <1>2 DEF TypeOK
  <2> QED
    BY <1>2, <2>1, RouteFacts DEF IInv, Handles, Closed
<1>7. ConnectsRight'
  BY <1>2 DEF IInv, ConnectsRight
<1> QED
  BY <1>3, <1>4, <1>5, <1>6, <1>7 DEF IInv

\* A rank puts its address under its PMIx rank.
LEMMA MapRanksStep == ASSUME IInv, NEW r \in Ranks, MapRanks(r) PROVE IInv'
<1>1. TypeOK /\ Exchanged /\ step[r] = "db" /\ usePmi /\ PmiRank[r] \in Ranks
  BY PmiRankAssumption DEF IInv, MapRanks, Exchanged
<1>2. /\ known' = [known EXCEPT ![r] = PmiRank] /\ store' = [store EXCEPT ![PmiRank[r]] = r]
      /\ step' = [step EXCEPT ![r] = "fence"]
      /\ UNCHANGED <<usePmi, round, comm, addr, ep, handle, freed, pass, again, late>>
  BY DEF MapRanks, set, Goto, closing
<1>3. TypeOK'
  <2>1. known' \in [Ranks -> [Ranks -> 0 .. Size]]
    <3>1. PmiRank \in [Ranks -> 0 .. Size]
      BY PmiRankAssumption, RankFacts
    <3> QED
      BY <1>1, <1>2, <3>1, Zenon DEF TypeOK
  <2>2. store' \in [Ranks -> 0 .. Size] /\ step' \in [Ranks -> DOMAIN Order]
    BY <1>1, <1>2, RankFacts, OrderFacts DEF TypeOK, Steps
  <2> QED
    BY <1>1, <1>2, <2>1, <2>2 DEF TypeOK
<1>4. Exchanged'
  <2>1. ASSUME NEW q \in Ranks
        PROVE  /\ step'[q] # "bcast"
               /\ step'[q] # "db" => known'[q] = PmiRank /\ store'[PmiRank[q]] = q
               /\ step'[q] \notin {"db", "fence"} => \A k \in Ranks : step'[k] # "db"
    <3>1. CASE q = r
      BY <1>1, <1>2, <3>1 DEF TypeOK
    <3>2. CASE q # r
      <4>1. step'[q] = step[q] /\ known'[q] = known[q] /\ store'[PmiRank[q]] = store[PmiRank[q]]
        BY <1>1, <1>2, <3>2, PmiRankAssumption DEF TypeOK
      <4> QED
        BY <1>1, <1>2, <4>1 DEF Exchanged, TypeOK
    <3> QED
      BY <3>1, <3>2
  <2> QED
    BY <1>1, <1>2, <2>1 DEF Exchanged
<1>5. Phases'
  BY <1>1, <1>2 DEF IInv, Phases, TypeOK
<1>6. Handles'
  <2>1. \A q \in Ranks : step'[q] = step[q] \/ (step[q] = "db" /\ step'[q] = "fence")
    BY <1>1, <1>2 DEF TypeOK
  <2> QED
    BY <1>2, <2>1, RouteFacts DEF IInv, Handles, Closed
<1>7. ConnectsRight'
  BY <1>2 DEF IInv, ConnectsRight
<1> QED
  BY <1>3, <1>4, <1>5, <1>6, <1>7 DEF IInv

\* PMIx_Fence.
LEMMA FenceStep == ASSUME IInv, NEW r \in Ranks, Fence(r) PROVE IInv'
<1>1. TypeOK /\ Exchanged /\ step[r] = "fence" /\ usePmi /\ \A q \in Ranks : step[q] # "db"
  BY ReachedFacts DEF IInv, Fence, Exchanged
<1>2. /\ step' = [step EXCEPT ![r] = "run"]
      /\ UNCHANGED <<usePmi, round, known, store, comm, addr, ep, handle, freed, pass, again, late>>
  BY DEF Fence, Goto, setup, closing
<1>3. TypeOK'
  BY <1>1, <1>2, OrderFacts DEF TypeOK, Steps
<1>4. Exchanged'
  BY <1>1, <1>2 DEF Exchanged, TypeOK
<1>5. Phases'
  BY <1>1, <1>2 DEF IInv, Phases, TypeOK
<1>6. Handles'
  <2>1. \A q \in Ranks : step'[q] = step[q] \/ (step[q] = "fence" /\ step'[q] = "run")
    BY <1>1, <1>2 DEF TypeOK
  <2> QED
    BY <1>2, <2>1, RouteFacts DEF IInv, Handles, Closed
<1>7. ConnectsRight'
  BY <1>2 DEF IInv, ConnectsRight
<1> QED
  BY <1>3, <1>4, <1>5, <1>6, <1>7 DEF IInv

\* The maps and the store are final: later steps of the ranks do not disturb them.
LEMMA ExchangedKept ==
    ASSUME TypeOK, Exchanged, NEW r \in Ranks, NEW p, UNCHANGED setup,
           step[r] \notin {"db", "fence", "bcast"}, p \notin {"db", "fence", "bcast"},
           step' = [step EXCEPT ![r] = p] \/ step' = step
    PROVE  Exchanged'
<1>1. UNCHANGED <<usePmi, round, known, store>>
  BY DEF setup
<1>2. \A q \in Ranks : step'[q] = step[q] \/ (q = r /\ step'[q] = p)
  BY DEF TypeOK
<1> QED
  BY <1>1, <1>2 DEF Exchanged

-----------------------------------------------------------------------------
(* The life of communicators and endpoints.                                *)

\* Steps that leave the ranks, the addresses and the handles alone.
LEMMA QuietStep ==
    ASSUME IInv, TypeOK', UNCHANGED <<setup, step, addr, closing>>,
           \A e \in Routes : ep'[e] = "none" <=> ep[e] = "none"
    PROVE  IInv'
<1>1. UNCHANGED <<usePmi, round, known, store, step, addr, handle, freed, pass, again>>
  BY DEF setup, closing
<1>2. Exchanged' /\ Phases'
  BY <1>1 DEF IInv, Exchanged, Phases
<1>3. Handles'
  BY <1>1 DEF IInv, Handles
<1>4. ConnectsRight'
  BY <1>1 DEF IInv, ConnectsRight
<1> QED
  BY <1>2, <1>3, <1>4 DEF IInv

\* A communicator is made, progressed or destroyed.
LEMMA CommunicatorStep ==
    ASSUME IInv, NEW r \in Ranks, NEW c \in Comms,
           GetCommunicator(r, c) \/ Progress(r, c) \/ DestroyCommunicator(r, c)
    PROVE  IInv'
<1>1. UNCHANGED <<setup, step, addr, closing>>
  BY DEF GetCommunicator, Progress, DestroyCommunicator
<1>2. TypeOK'
  <2>1. UNCHANGED <<usePmi, round, known, store, step, addr, handle, freed, pass, again, late>>
    BY <1>1 DEF setup, closing
  <2>2. comm' \in [Ranks -> [Comms -> {"none", "alive", "dying"}]]
    <3>1. comm' = comm \/ \E s \in {"alive", "dying"} : comm' = [comm EXCEPT ![r][c] = s]
      BY DEF GetCommunicator, Progress, DestroyCommunicator
    <3>2. ASSUME NEW s \in {"alive", "dying"}, comm' = [comm EXCEPT ![r][c] = s]
          PROVE  comm' \in [Ranks -> [Comms -> {"none", "alive", "dying"}]]
      <4>1. [comm[r] EXCEPT ![c] = s] \in [Comms -> {"none", "alive", "dying"}]
        BY DEF IInv, TypeOK
      <4>2. comm' = [comm EXCEPT ![r] = [comm[r] EXCEPT ![c] = s]]
        BY <3>2
      <4> QED
        BY <4>1, <4>2 DEF IInv, TypeOK
    <3> QED
      BY <3>1, <3>2 DEF IInv, TypeOK
  <2>3. ep' \in [Routes -> {"none", "open", "failed", "wire", "acked", "closed"}]
    <3>1. CASE Progress(r, c)
      BY <3>1 DEF IInv, TypeOK, Progress, ReceiverProgress
    <3>2. CASE ~Progress(r, c)
      BY <3>2 DEF IInv, TypeOK, GetCommunicator, DestroyCommunicator
    <3> QED
      BY <3>1, <3>2
  <2> QED
    BY <2>1, <2>2, <2>3 DEF IInv, TypeOK
<1>3. \A e \in Routes : ep'[e] = "none" <=> ep[e] = "none"
  BY DEF GetCommunicator, Progress, DestroyCommunicator, ReceiverProgress
<1> QED
  BY <1>1, <1>2, <1>3, QuietStep

\* The first use of a rank connects an endpoint.
LEMMA ConnectStep == ASSUME IInv, NEW e \in Routes, Connect(e) PROVE IInv'
<1>1. TypeOK /\ Exchanged /\ e[1] \in Ranks /\ e[3] \in Ranks /\ step[e[1]] = "run" /\ ep[e] = "none"
  BY RouteFacts DEF IInv, Connect
<1>2. /\ addr' = [addr EXCEPT ![e] = e[3]] /\ ep' = [ep EXCEPT ![e] = "open"]
      /\ UNCHANGED <<usePmi, round, known, store, step, comm, handle, freed, pass, again, late>>
  BY <1>1, FindsRight, Zenon DEF Connect, setup, closing
<1>3. TypeOK'
  BY <1>1, <1>2, RankFacts DEF TypeOK
<1>4. Exchanged' /\ Phases'
  BY <1>2 DEF IInv, Exchanged, Phases
<1>5. Handles'
  <2>1. \A f \in Routes : f # e => ep'[f] = ep[f]
    BY <1>1, <1>2 DEF TypeOK
  <2>2. ep'[e] = "open"
    BY <1>1, <1>2 DEF TypeOK
  <2> QED
    BY <1>1, <1>2, <2>1, <2>2 DEF IInv, Handles, Closed
<1>6. ConnectsRight'
  BY <1>1, <1>2 DEF IInv, ConnectsRight, TypeOK
<1> QED
  BY <1>3, <1>4, <1>5, <1>6 DEF IInv

\* What closing does to an endpoint and its handle, outside of the loop.
LEMMA CloseEndpointStep == ASSUME IInv, NEW e \in Routes, CloseEndpoint(e) PROVE IInv'
<1>1. /\ TypeOK /\ Handles /\ e[1] \in Ranks /\ handle[e] = "none" /\ ep[e] = "open" /\ freed[e] = 0
      /\ step[e[1]] \notin Closed \union {"barrier", "close"}
  BY RouteFacts DEF IInv, CloseEndpoint, Handles
<1>2. UNCHANGED <<usePmi, round, known, store, step, comm, addr, pass, again, late>>
  BY DEF CloseEndpoint, setup
<1>3. /\ ep' \in [Routes -> {"none", "open", "failed", "wire", "acked", "closed"}]
      /\ \A f \in Routes : ep'[f] = "none" <=> ep[f] = "none"
  <2>1. CASE \E s \in {"closed", "failed"} : ep' = [ep EXCEPT ![e] = s]
    BY <1>1, <2>1 DEF TypeOK
  <2>2. CASE \E s \in {"wire", "acked"} : ep' = SenderProgress(e, [ep EXCEPT ![e] = s])
    BY <1>1, <2>2 DEF TypeOK, SenderProgress
  <2> QED
    BY <2>1, <2>2 DEF CloseEndpoint
<1>4. \/ handle' = [handle EXCEPT ![e] = "done"] /\ freed' = freed
      \/ handle' = [handle EXCEPT ![e] = "done"] /\ freed' = [freed EXCEPT ![e] = 1]
      \/ handle' = [handle EXCEPT ![e] = "pending"] /\ freed' = freed
  <2>1. CASE \E s \in {"closed", "failed"} :
                /\ handle' = [handle EXCEPT ![e] = "done"] /\ UNCHANGED freed
    BY <2>1
  <2>2. CASE \E s : ChecksStatus(e, s)
    <3>1. PICK s : ChecksStatus(e, s)
      BY <2>2
    <3>2. CASE s[e] # "closed"
      BY <1>1, <3>1, <3>2 DEF ChecksStatus, TypeOK
    <3>3. CASE s[e] = "closed"
      BY <1>1, <3>1, <3>3 DEF ChecksStatus, TypeOK
    <3> QED
      BY <3>2, <3>3
  <2> QED
    BY <2>1, <2>2 DEF CloseEndpoint
<1>5. TypeOK'
  BY <1>1, <1>2, <1>3, <1>4 DEF TypeOK
<1>6. Exchanged' /\ Phases'
  BY <1>2 DEF IInv, Exchanged, Phases
<1>7. Handles'
  <2>1. \A f \in Routes : f # e => handle'[f] = handle[f] /\ freed'[f] = freed[f]
    BY <1>1, <1>4 DEF TypeOK
  <2>2. handle'[e] # "none" /\ (handle'[e] = "pending" => freed'[e] = 0)
    BY <1>1, <1>4 DEF TypeOK
  <2>3. ASSUME NEW f \in Routes
        PROVE  /\ handle'[f] = "none" => freed'[f] = 0
               /\ handle'[f] = "pending" => freed'[f] = IF step'[f[1]] \in Closed THEN 1 ELSE 0
               /\ handle'[f] = "pending" /\ step'[f[1]] = "close"
                    => f \in pass'[f[1]] \/ f \in again'[f[1]]
               /\ handle'[f] = "none" /\ step'[f[1]] \in Closed \union {"barrier", "close"}
                    => ep'[f] = "none"
               /\ handle'[f] # "none" => ep'[f] # "none"
    <3>1. CASE f = e
      BY <1>1, <1>2, <1>3, <2>2, <3>1
    <3>2. CASE f # e
      BY <1>1, <1>2, <1>3, <2>1, <3>2 DEF Handles
    <3> QED
      BY <3>1, <3>2
  <2>4. \A r \in Ranks : \A f \in again'[r] :
            handle'[f] = "pending" /\ f[1] = r /\ step'[r] = "close" /\ f \notin pass'[r]
    BY <1>1, <1>2, <2>1 DEF Handles, TypeOK
  <2>5. \A r \in Ranks : \A f \in pass'[r] : handle'[f] # "none" /\ f[1] = r
    BY <1>1, <1>2, <2>1, <2>2 DEF Handles, TypeOK
  <2> QED
    BY <2>3, <2>4, <2>5 DEF Handles, Closed
<1>8. ConnectsRight'
  BY <1>2, <1>3 DEF IInv, ConnectsRight
<1> QED
  BY <1>5, <1>6, <1>7, <1>8 DEF IInv

-----------------------------------------------------------------------------
(* The destructor of the context.                                          *)

\* ~context_impl is entered.
LEMMA DestroyContextStep == ASSUME IInv, NEW r \in Ranks, DestroyContext(r) PROVE IInv'
<1>1. TypeOK /\ Exchanged /\ Handles /\ Phases /\ step[r] = "run"
  BY DEF IInv, DestroyContext
<1>2. /\ step' = [step EXCEPT ![r] = "barrier"]
      /\ UNCHANGED <<usePmi, round, known, store, comm, addr, ep, handle, freed, pass, again, late>>
  BY DEF DestroyContext, Goto, setup, closing
<1>3. TypeOK'
  BY <1>1, <1>2, OrderFacts DEF TypeOK, Steps
<1>4. Exchanged'
  <2>1. UNCHANGED setup
    BY <1>2 DEF setup
  <2>2. step[r] \notin {"db", "fence", "bcast"} /\ "barrier" \notin {"db", "fence", "bcast"}
    BY <1>1
  <2> QED
    BY <1>1, <1>2, <2>1, <2>2, ExchangedKept, Zenon
<1>5. Phases'
  BY <1>1, <1>2 DEF Phases, TypeOK
<1>6. Handles'
  <2>1. \A q \in Ranks : step'[q] = IF q = r THEN "barrier" ELSE step[q]
    BY <1>1, <1>2 DEF TypeOK
  <2>2. \A e \in Routes : e[1] = r /\ handle[e] = "none" => ep[e] = "none"
    BY DEF DestroyContext, OfRank
  <2> QED
    BY <1>1, <1>2, <2>1, <2>2, RouteFacts DEF Handles, Closed
<1>7. ConnectsRight'
  BY <1>2 DEF IInv, ConnectsRight
<1> QED
  BY <1>3, <1>4, <1>5, <1>6, <1>7 DEF IInv

\* Its MPI_Barrier is left.
LEMMA LeaveBarrierStep == ASSUME IInv, NEW r \in Ranks, LeaveBarrier(r) PROVE IInv'
<1> DEFINE handles == {e \in OfRank(r) : handle[e] # "none"}
           p == IF handles = {} THEN "ibarrier" ELSE "close"
<1>1. TypeOK /\ Exchanged /\ Handles /\ Phases /\ step[r] = "barrier"
  BY DEF IInv, LeaveBarrier
<1>2. /\ step' = [step EXCEPT ![r] = p] /\ pass' = [pass EXCEPT ![r] = handles]
      /\ UNCHANGED <<usePmi, round, known, store, comm, addr, ep, handle, freed, again, late>>
  BY DEF LeaveBarrier, Goto, setup
<1>3. TypeOK'
  <2>1. handles \in SUBSET Routes /\ p \in Steps
    BY DEF OfRank, Steps
  <2> HIDE DEF handles, p
  <2> QED
    BY <1>1, <1>2, <2>1, OrderFacts DEF TypeOK
<1>4. Exchanged'
  <2>1. p \notin {"db", "fence", "bcast"}
    OBVIOUS
  <2> HIDE DEF p
  <2> QED
    BY <1>1, <1>2, <2>1, ExchangedKept, Zenon DEF setup
<1>5. Phases'
  BY <1>1, <1>2 DEF Phases, TypeOK
<1>6. Handles'
  <2>1. /\ \A q \in Ranks : step'[q] = IF q = r THEN p ELSE step[q]
        /\ \A q \in Ranks : pass'[q] = IF q = r THEN handles ELSE pass[q]
    BY <1>1, <1>2 DEF TypeOK
  <2>2. again[r] = {}
    BY <1>1 DEF Handles
  <2>3. \A e \in Routes : e \in handles <=> e[1] = r /\ handle[e] # "none"
    BY DEF OfRank
  <2>4. \A e \in handles : e[1] = r /\ handle[e] # "none"
    BY DEF OfRank
  <2>5. p \in {"ibarrier", "close"} /\ (p = "ibarrier" <=> handles = {})
    OBVIOUS
  <2> HIDE DEF handles, p
  <2>6. ASSUME NEW e \in Routes
        PROVE  /\ handle[e] = "none" => freed[e] = 0
               /\ handle[e] = "pending" => freed[e] = IF step'[e[1]] \in Closed THEN 1 ELSE 0
               /\ handle[e] = "pending" /\ step'[e[1]] = "close"
                    => e \in pass'[e[1]] \/ e \in again[e[1]]
               /\ handle[e] = "none" /\ step'[e[1]] \in Closed \union {"barrier", "close"}
                    => ep[e] = "none"
               /\ handle[e] # "none" => ep[e] # "none"
    <3>1. CASE e[1] = r
      BY <1>1, <2>1, <2>3, <2>5, <3>1 DEF Handles, Closed
    <3>2. CASE e[1] # r
      BY <1>1, <2>1, <3>2, RouteFacts DEF Handles
    <3> QED
      BY <3>1, <3>2
  <2>7. \A q \in Ranks : \A e \in again[q] :
            handle[e] = "pending" /\ e[1] = q /\ step'[q] = "close" /\ e \notin pass'[q]
    BY <1>1, <2>1, <2>2 DEF Handles
  <2>8. \A q \in Ranks : \A e \in pass'[q] : handle[e] # "none" /\ e[1] = q
    BY <1>1, <2>1, <2>4 DEF Handles
  <2> QED
    BY <1>2, <2>6, <2>7, <2>8 DEF Handles, Closed
<1>7. ConnectsRight'
  BY <1>2 DEF IInv, ConnectsRight
<1> QED
  BY <1>3, <1>4, <1>5, <1>6, <1>7 DEF IInv

\* One handle of a pass is progressed.
LEMMA CheckHandleStep == ASSUME IInv, NEW r \in Ranks, CheckHandle(r) PROVE IInv'
<1>1. PICK h \in pass[r] :
        /\ pass' = [pass EXCEPT ![r] = @ \ {h}]
        /\ IF handle[h] = "pending"
           THEN /\ ep' = SenderProgress(h, ReceiverProgress(r, ep))
                /\ ChecksStatus(h, SenderProgress(h, ReceiverProgress(r, ep)))
           ELSE ep' = ReceiverProgress(r, ep) /\ UNCHANGED <<handle, freed>>
        /\ again' = [again EXCEPT ![r] = IF handle'[h] = "pending" THEN @ \union {h} ELSE @]
  BY Zenon DEF CheckHandle
<1>2. TypeOK /\ Exchanged /\ Handles /\ Phases /\ step[r] = "close" /\ h \in Routes
  BY DEF IInv, CheckHandle, TypeOK
<1>3. h[1] = r /\ handle[h] # "none"
  BY <1>2 DEF Handles
<1>4. UNCHANGED <<usePmi, round, known, store, step, comm, addr, late>>
  BY DEF CheckHandle, setup
<1>5. /\ ep' \in [Routes -> {"none", "open", "failed", "wire", "acked", "closed"}]
      /\ \A e \in Routes : ep'[e] = "none" <=> ep[e] = "none"
  <2>1. CASE handle[h] = "pending"
    <3> DEFINE received == ReceiverProgress(r, ep)
    <3>1. /\ received \in [Routes -> {"none", "open", "failed", "wire", "acked", "closed"}]
          /\ \A e \in Routes : received[e] = "none" <=> ep[e] = "none"
      BY <1>2 DEF TypeOK, ReceiverProgress
    <3>2. ep' = SenderProgress(h, received)
      BY <1>1, <2>1
    <3> HIDE DEF received
    <3> QED
      BY <3>1, <3>2 DEF SenderProgress
  <2>2. CASE handle[h] # "pending"
    BY <1>1, <1>2, <2>2 DEF TypeOK, ReceiverProgress
  <2> QED
    BY <2>1, <2>2
<1>6. \/ handle' = handle /\ freed' = freed
      \/ /\ handle[h] = "pending" /\ freed[h] = 0
         /\ handle' = [handle EXCEPT ![h] = "done"] /\ freed' = [freed EXCEPT ![h] = 1]
  <2>1. CASE handle[h] = "pending"
    <3> DEFINE s == SenderProgress(h, ReceiverProgress(r, ep))
    <3>1. freed[h] = 0
      BY <1>2, <1>3, <2>1 DEF Handles, Closed
    <3>2. ChecksStatus(h, s)
      BY <1>1, <2>1
    <3> HIDE DEF s
    <3>3. CASE s[h] # "closed"
      BY <1>2, <2>1, <3>1, <3>2, <3>3 DEF ChecksStatus, TypeOK
    <3>4. CASE s[h] = "closed"
      BY <1>2, <2>1, <3>1, <3>2, <3>4 DEF ChecksStatus, TypeOK
    <3> QED
      BY <3>3, <3>4
  <2>2. CASE handle[h] # "pending"
    BY <1>1, <2>2
  <2> QED
    BY <2>1, <2>2
<1>7. TypeOK'
  <2>1. pass' \in [Ranks -> SUBSET Routes] /\ again' \in [Ranks -> SUBSET Routes]
    BY <1>1, <1>2 DEF TypeOK
  <2>2. handle' \in [Routes -> {"none", "pending", "done"}] /\ freed' \in [Routes -> 0 .. 1]
    <3>1. CASE handle' = handle /\ freed' = freed
      BY <1>2, <3>1 DEF TypeOK
    <3>2. CASE handle' = [handle EXCEPT ![h] = "done"] /\ freed' = [freed EXCEPT ![h] = 1]
      BY <1>2, <3>2 DEF TypeOK
    <3> QED
      BY <1>6, <3>1, <3>2
  <2> QED
    BY <1>2, <1>4, <1>5, <2>1, <2>2 DEF TypeOK
<1>8. Exchanged' /\ Phases'
  BY <1>2, <1>4 DEF Exchanged, Phases
<1>9. Handles'
  <2>1. /\ \A e \in Routes : e # h => handle'[e] = handle[e] /\ freed'[e] = freed[e]
        /\ handle'[h] # "none" /\ (handle'[h] = "pending" => handle[h] = "pending" /\ freed'[h] = freed[h])
    BY <1>2, <1>3, <1>6 DEF TypeOK
  <2>2. /\ \A q \in Ranks : pass'[q] = IF q = r THEN pass[q] \ {h} ELSE pass[q]
        /\ \A q \in Ranks : again'[q] = IF q = r /\ handle'[h] = "pending"
                                        THEN again[q] \union {h} ELSE again[q]
    BY <1>1, <1>2, Zenon DEF TypeOK
  <2>3. ASSUME NEW e \in Routes
        PROVE  /\ handle'[e] = "none" => freed'[e] = 0
               /\ handle'[e] = "pending" => freed'[e] = IF step[e[1]] \in Closed THEN 1 ELSE 0
               /\ handle'[e] = "pending" /\ step[e[1]] = "close"
                    => e \in pass'[e[1]] \/ e \in again'[e[1]]
               /\ handle'[e] = "none" /\ step[e[1]] \in Closed \union {"barrier", "close"}
                    => ep'[e] = "none"
               /\ handle'[e] # "none" => ep'[e] # "none"
    <3>1. /\ e[1] \in Ranks
          /\ handle[e] = "none" => freed[e] = 0
          /\ handle[e] = "pending" => freed[e] = IF step[e[1]] \in Closed THEN 1 ELSE 0
          /\ handle[e] = "pending" /\ step[e[1]] = "close" => e \in pass[e[1]] \/ e \in again[e[1]]
          /\ handle[e] = "none" /\ step[e[1]] \in Closed \union {"barrier", "close"}
               => ep[e] = "none"
          /\ handle[e] # "none" => ep[e] # "none"
      BY <1>2, RouteFacts DEF Handles
    <3>2. CASE e = h
      <4>1. handle'[h] = "pending" => h \in again'[h[1]]
        BY <1>3, <2>2, Zenon
      <4>2. ep'[h] # "none"
        BY <1>2, <1>3, <1>5, <3>1, <3>2
      <4> QED
        BY <2>1, <3>1, <3>2, <4>1, <4>2
    <3>3. CASE e # h
      <4>1. handle'[e] = handle[e] /\ freed'[e] = freed[e] /\ (ep'[e] = "none" <=> ep[e] = "none")
        BY <1>5, <2>1, <3>3
      <4>2. /\ e \in pass[e[1]] => e \in pass'[e[1]]
            /\ e \in again[e[1]] => e \in again'[e[1]]
        BY <2>2, <3>1, <3>3, Zenon
      <4> QED
        BY <3>1, <4>1, <4>2
    <3> QED
      BY <3>2, <3>3
  <2>4. ASSUME NEW q \in Ranks, NEW e \in again'[q]
        PROVE  handle'[e] = "pending" /\ e[1] = q /\ step[q] = "close" /\ e \notin pass'[q]
    <3>1. CASE e = h
      <4>1. q = r
        BY <1>2, <1>3, <2>2, <2>4, <3>1, Zenon DEF Handles
      <4>2. h \notin again[r]
        BY <1>2 DEF Handles
      <4> QED
        BY <1>2, <1>3, <2>2, <2>4, <3>1, <4>1, <4>2, Zenon
    <3>2. CASE e # h
      <4>1. e \in again[q] /\ e \in Routes
        <5>1. again[q] \subseteq Routes
          BY <1>2 DEF TypeOK
        <5>2. again'[q] \subseteq again[q] \union {h}
          BY <2>2, Zenon
        <5> QED
          BY <2>4, <3>2, <5>1, <5>2
      <4>2. handle[e] = "pending" /\ e[1] = q /\ step[q] = "close" /\ e \notin pass[q]
        BY <1>2, <4>1 DEF Handles
      <4>3. handle'[e] = handle[e] /\ e \notin pass'[q]
        BY <2>1, <2>2, <3>2, <4>1, <4>2, Zenon
      <4> QED
        BY <4>2, <4>3
    <3> QED
      BY <3>1, <3>2
  <2>5. ASSUME NEW q \in Ranks, NEW e \in pass'[q] PROVE handle'[e] # "none" /\ e[1] = q
    <3>1. e \in pass[q] /\ e \in Routes
      BY <1>2, <2>2, <2>5, Zenon DEF TypeOK
    <3> QED
      BY <1>2, <1>3, <2>1, <3>1 DEF Handles
  <2> QED
    BY <1>4, <2>3, <2>4, <2>5 DEF Handles, Closed
<1>10. ConnectsRight'
  BY <1>4, <1>5 DEF IInv, ConnectsRight
<1> QED
  BY <1>7, <1>8, <1>9, <1>10 DEF IInv

\* Time passes in the loop that closes endpoints.
LEMMA ElapseStep == ASSUME IInv, NEW r \in Ranks, Elapse(r) PROVE IInv'
<1>1. /\ late' = [late EXCEPT ![r] = TRUE]
      /\ UNCHANGED <<usePmi, round, known, store, step, comm, addr, ep, handle, freed, pass, again>>
  BY DEF Elapse, setup
<1>2. TypeOK'
  BY <1>1 DEF IInv, TypeOK
<1>3. Exchanged'
  BY <1>1 DEF IInv, Exchanged
<1>4. Phases'
  BY <1>1 DEF IInv, Phases
<1>5. Handles'
  BY <1>1 DEF IInv, Handles
<1>6. ConnectsRight'
  BY <1>1 DEF IInv, ConnectsRight
<1> QED
  BY <1>2, <1>3, <1>4, <1>5, <1>6 DEF IInv

\* The loop has gone over the endpoints once.
LEMMA EndPassStep == ASSUME IInv, NEW r \in Ranks, EndPass(r) PROVE IInv'
<1>1. TypeOK /\ Exchanged /\ Handles /\ Phases /\ step[r] = "close" /\ pass[r] = {}
  BY DEF IInv, EndPass
<1>2. /\ again' = [again EXCEPT ![r] = {}]
      /\ UNCHANGED <<usePmi, round, known, store, comm, addr, ep, handle, late>>
  BY DEF EndPass, setup
<1>3. \A q \in Ranks : again'[q] = IF q = r THEN {} ELSE again[q]
  BY <1>1, <1>2, SMTT(30) DEF TypeOK
<1>4. ConnectsRight'
  BY <1>2 DEF IInv, ConnectsRight
<1>5. CASE LeavesLoop(r)
  <2>1. freed' = FreeRest(r) /\ step' = [step EXCEPT ![r] = "ibarrier"] /\ pass' = pass
    BY <1>5 DEF EndPass, Goto
  <2>2. \A e \in Routes : freed'[e] = IF e \in again[r] THEN freed[e] + 1 ELSE freed[e]
    <3> SUFFICES ASSUME NEW e \in Routes
                 PROVE  freed'[e] = IF e \in again[r] THEN freed[e] + 1 ELSE freed[e]
      OBVIOUS
    <3>1. freed[e] \in 0 .. 1
      BY <1>1 DEF TypeOK
    <3>2. freed'[e] = freed[e] + (IF e \in again[r] THEN 1 ELSE 0)
      BY <2>1 DEF FreeRest
    <3> QED
      BY <3>1, <3>2
  <2>3. \A q \in Ranks : step'[q] = IF q = r THEN "ibarrier" ELSE step[q]
    BY <1>1, <2>1 DEF TypeOK
  <2>4. \A e \in again[r] : e \in Routes /\ handle[e] = "pending" /\ e[1] = r /\ freed[e] = 0
    <3> SUFFICES ASSUME NEW e \in again[r]
                 PROVE  e \in Routes /\ handle[e] = "pending" /\ e[1] = r /\ freed[e] = 0
      OBVIOUS
    <3>1. e \in Routes
      BY <1>1 DEF TypeOK
    <3>2. handle[e] = "pending" /\ e[1] = r
      BY <1>1 DEF Handles
    <3>3. step[e[1]] \notin Closed
      BY <1>1, <3>2 DEF Closed
    <3> QED
      BY <1>1, <3>1, <3>2, <3>3 DEF Handles
  <2>5. TypeOK'
    <3>1. freed' \in [Routes -> 0 .. 1]
      <4>1. \A e \in Routes : freed'[e] \in 0 .. 1
        <5>1. \A e \in Routes : freed[e] \in 0 .. 1
          BY <1>1 DEF TypeOK
        <5> QED
          BY <2>2, <2>4, <5>1
      <4>2. freed' = [e \in Routes |-> freed'[e]]
        BY <2>1 DEF FreeRest
      <4> QED
        BY <4>1, <4>2
    <3>2. step' \in [Ranks -> DOMAIN Order] /\ again' \in [Ranks -> SUBSET Routes]
      BY <1>1, <1>2, <2>1, OrderFacts DEF TypeOK, Steps
    <3> QED
      BY <1>1, <1>2, <2>1, <3>1, <3>2 DEF TypeOK
  <2>6. Exchanged'
    <3>1. UNCHANGED setup
      BY <1>2 DEF setup
    <3>2. step[r] \notin {"db", "fence", "bcast"} /\ "ibarrier" \notin {"db", "fence", "bcast"}
      BY <1>1
    <3> QED
      BY <1>1, <2>1, <3>1, <3>2, ExchangedKept, Zenon
  <2>7. Phases'
    BY <1>1, <2>3 DEF Phases
  <2>8. Handles'
    <3>1. ASSUME NEW e \in Routes
          PROVE  /\ handle[e] = "none" => freed'[e] = 0
                 /\ handle[e] = "pending" => freed'[e] = IF step'[e[1]] \in Closed THEN 1 ELSE 0
                 /\ handle[e] = "pending" /\ step'[e[1]] = "close"
                      => e \in pass[e[1]] \/ e \in again'[e[1]]
                 /\ handle[e] = "none" /\ step'[e[1]] \in Closed \union {"barrier", "close"}
                      => ep[e] = "none"
                 /\ handle[e] # "none" => ep[e] # "none"
      <4>1. CASE e[1] = r
        <5>1. handle[e] = "pending" => e \in again[r]
          BY <1>1, <4>1 DEF Handles
        <5>2. step'[e[1]] = "ibarrier" /\ "ibarrier" \in Closed
          BY <2>3, <4>1 DEF Closed
        <5>3. handle[e] = "none" => freed[e] = 0 /\ ep[e] = "none" /\ e \notin again[r]
          BY <1>1, <2>4, <4>1 DEF Handles
        <5>4. handle[e] # "none" => ep[e] # "none"
          BY <1>1 DEF Handles
        <5> QED
          BY <2>2, <2>4, <5>1, <5>2, <5>3, <5>4
      <4>2. CASE e[1] # r
        <5>1. e[1] \in Ranks /\ e \notin again[r]
          BY <2>4, <4>2, RouteFacts
        <5>2. freed'[e] = freed[e] /\ step'[e[1]] = step[e[1]] /\ again'[e[1]] = again[e[1]]
          BY <1>3, <2>2, <2>3, <4>2, <5>1
        <5> QED
          BY <1>1, <5>2 DEF Handles
      <4> QED
        BY <4>1, <4>2
    <3>2. \A q \in Ranks : \A e \in again'[q] :
              handle[e] = "pending" /\ e[1] = q /\ step'[q] = "close" /\ e \notin pass[q]
      BY <1>1, <1>3, <2>3 DEF Handles
    <3>3. \A q \in Ranks : \A e \in pass[q] : handle[e] # "none" /\ e[1] = q
      BY <1>1 DEF Handles
    <3> QED
      BY <1>2, <2>1, <3>1, <3>2, <3>3 DEF Handles, Closed
  <2> QED
    BY <1>4, <2>5, <2>6, <2>7, <2>8 DEF IInv
<1>6. CASE ~LeavesLoop(r)
  <2>1. UNCHANGED <<step, freed>> /\ pass' = [pass EXCEPT ![r] = again[r]]
    BY <1>6 DEF EndPass
  <2>2. \A q \in Ranks : pass'[q] = IF q = r THEN again[r] ELSE pass[q]
    BY <1>1, <2>1 DEF TypeOK
  <2>3. TypeOK'
    BY <1>1, <1>2, <2>1, SMTT(30) DEF TypeOK
  <2>4. Exchanged' /\ Phases'
    BY <1>1, <1>2, <2>1 DEF Exchanged, Phases
  <2>5. Handles'
    <3>1. ASSUME NEW e \in Routes
          PROVE  handle[e] = "pending" /\ step[e[1]] = "close"
                   => e \in pass'[e[1]] \/ e \in again'[e[1]]
      BY <1>1, <1>3, <2>2, RouteFacts DEF Handles
    <3>2. \A q \in Ranks : \A e \in again'[q] :
              handle[e] = "pending" /\ e[1] = q /\ step[q] = "close" /\ e \notin pass'[q]
      BY <1>1, <1>3, <2>2 DEF Handles
    <3>3. \A q \in Ranks : \A e \in pass'[q] : handle[e] # "none" /\ e[1] = q
      BY <1>1, <2>2 DEF Handles
    <3> QED
      BY <1>1, <1>2, <2>1, <3>1, <3>2, <3>3 DEF Handles
  <2> QED
    BY <1>4, <2>3, <2>4, <2>5 DEF IInv
<1> QED
  BY <1>5, <1>6

\* The steps past the loop only move the rank on, or progress its receiver.
LEMMA PastLoopStep ==
    ASSUME IInv, NEW r \in Ranks, NEW p \in {"last", "gone"}, step[r] \in {"ibarrier", "last"},
           \A q \in Ranks : step[q] \in Closed,
           step' = [step EXCEPT ![r] = p],
           ep' = ep \/ ep' = ReceiverProgress(r, ep),
           UNCHANGED <<setup, comm, addr, closing>>
    PROVE  IInv'
<1>1. TypeOK /\ Exchanged /\ Handles /\ Phases
  BY DEF IInv
<1>2. UNCHANGED <<usePmi, round, known, store, comm, addr, handle, freed, pass, again, late>>
  BY DEF setup, closing
<1>3. /\ ep' \in [Routes -> {"none", "open", "failed", "wire", "acked", "closed"}]
      /\ \A e \in Routes : ep'[e] = "none" <=> ep[e] = "none"
  BY <1>1 DEF TypeOK, ReceiverProgress
<1>4. \A q \in Ranks : step'[q] = IF q = r THEN p ELSE step[q]
  BY <1>1 DEF TypeOK
<1>5. TypeOK'
  BY <1>1, <1>2, <1>3, OrderFacts DEF TypeOK, Steps
<1>6. Exchanged'
  BY <1>1, ExchangedKept, Zenon
<1>7. Phases'
  BY <1>4 DEF Phases, Closed
<1>8. Handles'
  <2>1. \A q \in Ranks : step'[q] \in Closed /\ step'[q] # "close" /\ step[q] # "close"
    BY <1>4 DEF Closed
  <2> QED
    BY <1>1, <1>2, <1>3, <2>1, RouteFacts DEF Handles
<1>9. ConnectsRight'
  BY <1>2, <1>3 DEF IInv, ConnectsRight
<1> QED
  BY <1>5, <1>6, <1>7, <1>8, <1>9 DEF IInv

\* MPI_Ibarrier is tested while workers are progressed.
LEMMA TestBarrierStep == ASSUME IInv, NEW r \in Ranks, TestBarrier(r) PROVE IInv'
<1>1. CASE Met("ibarrier")
  <2>1. \A q \in Ranks : step[q] \in Closed
    BY <1>1, ReachedFacts DEF IInv, Met
  <2> QED
    BY <1>1, <2>1, PastLoopStep DEF TestBarrier, Goto
<1>2. CASE ~Met("ibarrier")
  <2>1. UNCHANGED <<setup, step, comm, addr, closing>> /\ ep' = ReceiverProgress(r, ep)
    BY <1>2 DEF TestBarrier
  <2>2. TypeOK'
    BY <2>1 DEF IInv, TypeOK, ReceiverProgress, setup, closing
  <2>3. \A e \in Routes : ep'[e] = "none" <=> ep[e] = "none"
    BY <2>1 DEF ReceiverProgress
  <2> QED
    BY <2>1, <2>2, <2>3, QuietStep
<1> QED
  BY <1>1, <1>2

\* The last MPI_Barrier is left.
LEMMA LeaveLastStep == ASSUME IInv, NEW r \in Ranks, LeaveLast(r) PROVE IInv'
<1>1. \A q \in Ranks : step[q] \in Closed
  BY DEF IInv, LeaveLast, Phases, Closed
<1> QED
  BY <1>1, PastLoopStep, Zenon DEF LeaveLast, Goto

-----------------------------------------------------------------------------
\* Every step preserves the invariant.
LEMMA IInvStep == IInv /\ [Next]_vars => IInv'
<1> SUFFICES ASSUME IInv, [Next]_vars PROVE IInv'
  OBVIOUS
<1>1. ASSUME NEW r \in Ranks, Bcast(r) \/ MapRanks(r) \/ Fence(r) PROVE IInv'
  BY <1>1, BcastStep, MapRanksStep, FenceStep
<1>2. ASSUME NEW r \in Ranks, DestroyContext(r) \/ Elapse(r) \/ Teardown(r) PROVE IInv'
  BY <1>2, DestroyContextStep, ElapseStep, LeaveBarrierStep, CheckHandleStep, EndPassStep,
     TestBarrierStep, LeaveLastStep DEF Teardown
<1>3. ASSUME NEW r \in Ranks, NEW c \in Comms,
             GetCommunicator(r, c) \/ Progress(r, c) \/ DestroyCommunicator(r, c)
      PROVE  IInv'
  BY <1>3, CommunicatorStep
<1>4. ASSUME NEW e \in Routes, Connect(e) \/ CloseEndpoint(e) PROVE IInv'
  BY <1>4, ConnectStep, CloseEndpointStep
<1>5. CASE UNCHANGED vars
  <2>1. UNCHANGED <<usePmi, step, round, known, store, comm, addr, ep, handle, freed, pass,
                    again, late>>
    BY <1>5 DEF vars
  <2>2. TypeOK'
    BY <2>1 DEF IInv, TypeOK
  <2>3. Exchanged'
    BY <2>1 DEF IInv, Exchanged
  <2>4. Phases'
    BY <2>1 DEF IInv, Phases
  <2>5. Handles'
    BY <2>1 DEF IInv, Handles
  <2>6. ConnectsRight'
    BY <2>1 DEF IInv, ConnectsRight
  <2> QED
    BY <2>2, <2>3, <2>4, <2>5, <2>6 DEF IInv
<1> QED
  BY <1>1, <1>2, <1>3, <1>4, <1>5 DEF Next

\* The invariant holds in every reachable state.
LEMMA IInvHolds == Spec => []IInv
BY InitIInv, IInvStep, PTL DEF Spec

\* worker_t::connect opens an endpoint to the right receive worker, by either
\* address database, for any number of ranks and any PMIx ranks.
THEOREM EndpointsConnectRight == Spec => []ConnectsRight
<1>1. IInv => ConnectsRight
  BY DEF IInv
<1> QED
  BY <1>1, IInvHolds, PTL

\* A close request is freed once: by close_handle::progress, by either
\* destructor, or after the timeout of ~context_impl.
THEOREM CloseRequestsFreedOnce == Spec => []FreedOnce
<1>1. IInv => FreedOnce
  BY RouteFacts DEF IInv, TypeOK, Handles, FreedOnce, Closed
<1> QED
  BY <1>1, IInvHolds, PTL

\* The barriers of ~context_impl keep a receive worker alive until no rank is
\* still closing an endpoint connected to it.
THEOREM ReceiversOutliveClosing == Spec => []PeersFinished
<1>1. IInv => PeersFinished
  <2> SUFFICES ASSUME IInv, NEW e \in Routes, ep[e] # "none", step[addr[e]] = "gone"
               PROVE  Order[step[e[1]]] > Order["close"]
    BY DEF PeersFinished
  <2>1. addr[e] \in Ranks /\ e[1] \in Ranks
    BY RouteFacts DEF IInv, ConnectsRight
  <2>2. step[e[1]] \in {"ibarrier", "last", "gone"}
    BY <2>1 DEF IInv, Phases
  <2> QED
    BY <2>2, OrderFacts
<1> QED
  BY <1>1, IInvHolds, PTL
=============================================================================
