--------------------------- MODULE BarrierProofs ---------------------------
(***************************************************************************)
(* Proofs about Barrier for any number of ranks, threads and calls.        *)
(*                                                                         *)
(* A rank alternates between two phases.  Going up, its threads enter call *)
(* k+1 while slow ones may still spin at the end of call k.  Going down,   *)
(* all its threads are in call k and leave it.  In each phase the counter  *)
(* that is in use counts the threads that have passed its compare-exchange *)
(* and the other counter has its reset value; that is why one pair of      *)
(* counters can serve every call.                                          *)
(***************************************************************************)
EXTENDS Barrier, FiniteSetTheorems, TLAPS

UpLocs == {"idle", "load1", "cas1", "spin1", "store1", "spin2"}
DownLocs == {"spin1", "wait2", "ibarrier", "test", "load2", "cas2", "spin2", "store2"}

Counted1(r) == {t \in Threads : pc[r][t] \in {"spin1", "store1"}}
Counted2(r) == {t \in Threads : pc[r][t] \in {"spin2", "store2"}}

\* A thread of rank r is past the wait for the rank barrier.
Opened(r) == \E t \in Threads : pc[r][t] \in {"load2", "cas2", "spin2", "store2"}

\* Every rank has posted at least the MPI_Ibarrier of the first k calls.
AllPosted(k) == \A s \in Ranks : FullCalls(k) <= posted[s]

\* All threads have made k calls; call k+1 is being entered.
Up(r, k) ==
    /\ b_count[r] = Cardinality(Counted1(r))
    /\ b_count2[r] = m_threads
    /\ posted[r] = FullCalls(k)
    /\ AllPosted(k)
    /\ \A t \in Threads :
          /\ pc[r][t] \in UpLocs
          /\ calls[r][t] = IF pc[r][t] \in {"idle", "spin2"} THEN k ELSE k + 1
          /\ pc[r][t] = "store1" => b_count[r] = m_threads
    /\ \A t, u \in Threads :
          pc[r][t] = "store1" /\ pc[r][u] = "store1" => t = u

\* All threads are in call k, past the up-count.
Down(r, k) ==
    /\ k \in 1..MaxCalls
    /\ b_count[r] = 0
    /\ b_count2[r] = m_threads - Cardinality(Counted2(r))
    /\ posted[r] = IF \E t \in Threads : pc[r][t] = "ibarrier"
                   THEN FullCalls(k) - 1 ELSE FullCalls(k)
    /\ AllPosted(IF Opened(r) THEN k ELSE k - 1)
    /\ \A t \in Threads :
          /\ pc[r][t] \in DownLocs
          /\ calls[r][t] = k
          /\ pc[r][t] = "test" => req[r][t] = FullCalls(k)
          /\ pc[r][t] \in {"ibarrier", "test"} => Kind[k] = "full"
          /\ pc[r][t] = "store2" => b_count2[r] = 0
    /\ \A t, u \in Threads :
          /\ pc[r][t] = "store2" /\ pc[r][u] = "store2" => t = u
          /\ pc[r][t] \in {"ibarrier", "test"} /\ t # u
                => pc[r][u] \in {"spin1", "wait2"}

Phase(r) == \E k \in 0..MaxCalls : Up(r, k) \/ Down(r, k)

PhaseInv == \A r \in Ranks : Phase(r)

\* The inductive invariant.
IInv == TypeOK /\ PhaseInv

----------------------------------------------------------------------------
(* Counting threads and calls.                                             *)

\* A set of threads is finite; it is all of Threads when it has m_threads
\* members, and leaves room for one more when a thread is missing.
LEMMA ThreadSets ==
    ASSUME NEW S \in SUBSET Threads
    PROVE  /\ IsFiniteSet(S)
           /\ Cardinality(S) \in 0..m_threads
           /\ Cardinality(S) = m_threads => S = Threads
           /\ Cardinality(S) = 0 => S = {}
           /\ m_threads \in Nat /\ m_threads > 0
<1>1. IsFiniteSet(Threads) /\ Threads # {}
  BY BarrierAssumption, Zenon
<1>2. /\ IsFiniteSet(S)
      /\ Cardinality(S) <= Cardinality(Threads)
      /\ Cardinality(Threads) = Cardinality(S) => Threads = S
  BY <1>1, FS_Subset, Zenon
<1>3. Cardinality(S) \in Nat /\ Cardinality(Threads) \in Nat
  BY <1>1, <1>2, FS_CardinalityType, Zenon
<1>4. /\ Cardinality(S) = 0 => S = {}
      /\ Cardinality(Threads) # 0
  BY <1>1, <1>2, FS_EmptySet, Zenon
<1> QED
  BY <1>2, <1>3, <1>4 DEF m_threads

\* Counting one more thread.
LEMMA OneMore ==
    ASSUME NEW S \in SUBSET Threads, NEW t \in Threads, t \notin S
    PROVE  /\ Cardinality(S \cup {t}) = Cardinality(S) + 1
           /\ Cardinality(S) + 1 <= m_threads
<1>1. IsFiniteSet(S)
  BY ThreadSets, Zenon
<1>2. Cardinality(S \cup {t}) = Cardinality(S) + 1
  BY <1>1, FS_AddElement, Zenon
<1>3. S \cup {t} \in SUBSET Threads
  BY Zenon
<1>4. Cardinality(S \cup {t}) \in 0..m_threads
  BY <1>3, ThreadSets, Zenon
<1> QED
  BY <1>2, <1>4, ThreadSets

\* FullCalls counts up by one at each call to operator().
LEMMA FullCallsStep ==
    ASSUME NEW k \in 0..MaxCalls, k < MaxCalls
    PROVE  FullCalls(k + 1) =
              IF Kind[k + 1] = "full" THEN FullCalls(k) + 1 ELSE FullCalls(k)
<1> DEFINE F(n) == {j \in 1..n : Kind[j] = "full"}
<1> MaxCalls \in Nat /\ k \in Nat
  BY BarrierAssumption
<1>1. IsFiniteSet(1..k)
  BY FS_Interval
<1>2. F(k) \in SUBSET (1..k)
  BY Zenon
<1>3. IsFiniteSet(F(k))
  BY <1>1, <1>2, FS_Subset, Zenon
<1>4. k + 1 \notin F(k)
  OBVIOUS
<1>5. CASE Kind[k + 1] = "full"
  <2>1. F(k + 1) = F(k) \cup {k + 1}
    BY <1>5
  <2>2. Cardinality(F(k) \cup {k + 1}) = Cardinality(F(k)) + 1
    BY <1>3, <1>4, FS_AddElement, Zenon
  <2> QED
    BY <1>5, <2>1, <2>2, Zenon DEF FullCalls
<1>6. CASE Kind[k + 1] # "full"
  <2>1. F(k + 1) = F(k)
    BY <1>6
  <2> QED
    BY <1>6, <2>1, Zenon DEF FullCalls
<1> QED
  BY <1>5, <1>6, Zenon

\* FullCalls is a natural number and grows with the number of calls.
LEMMA FullCallsMonotone ==
    ASSUME NEW j \in 0..MaxCalls, NEW k \in 0..MaxCalls, j <= k
    PROVE  FullCalls(j) \in Nat /\ FullCalls(k) \in Nat /\ FullCalls(j) <= FullCalls(k)
<1> DEFINE F(n) == {i \in 1..n : Kind[i] = "full"}
<1> MaxCalls \in Nat /\ j \in Nat /\ k \in Nat
  BY BarrierAssumption
<1>1. IsFiniteSet(1..k)
  BY FS_Interval
<1>2. F(k) \in SUBSET (1..k) /\ F(j) \in SUBSET F(k)
  OBVIOUS
<1>3. IsFiniteSet(F(k))
  BY <1>1, <1>2, FS_Subset, Zenon
<1>4. IsFiniteSet(F(j)) /\ Cardinality(F(j)) <= Cardinality(F(k))
  BY <1>2, <1>3, FS_Subset, Zenon
<1>5. Cardinality(F(j)) \in Nat /\ Cardinality(F(k)) \in Nat
  BY <1>3, <1>4, FS_CardinalityType, Zenon
<1> QED
  BY <1>4, <1>5, Zenon DEF FullCalls

\* Counting no more full calls than in the first k, a full call is among them.
LEMMA FullCallsOrder ==
    ASSUME NEW j \in 1..MaxCalls, NEW k \in 0..MaxCalls,
           Kind[j] = "full", FullCalls(j) <= FullCalls(k)
    PROVE  j <= k
<1> MaxCalls \in Nat /\ j \in Nat /\ k \in Nat
  BY BarrierAssumption
<1> SUFFICES ASSUME k < j PROVE FALSE
  OBVIOUS
<1>1. j - 1 \in 0..MaxCalls /\ j - 1 < MaxCalls /\ k <= j - 1
  OBVIOUS
<1>2. FullCalls(k) <= FullCalls(j - 1) /\ FullCalls(k) \in Nat /\ FullCalls(j - 1) \in Nat
  BY <1>1, FullCallsMonotone, Zenon
<1>3. FullCalls((j - 1) + 1) = FullCalls(j - 1) + 1
  BY <1>1, FullCallsStep
<1> QED
  BY <1>2, <1>3

----------------------------------------------------------------------------
(* The invariant holds initially and every step preserves it.  A step of   *)
(* rank r disturbs the phase of the other ranks only through posted, which *)
(* never decreases.                                                        *)

\* A new barrier object is going up to the first call.
LEMMA InitIInv == Init => IInv
<1> SUFFICES ASSUME Init PROVE IInv
  BY Zenon
<1>1. m_threads \in Nat /\ m_threads > 0 /\ MaxCalls \in Nat
  BY ThreadSets, BarrierAssumption, Zenon
<1>2. TypeOK
  BY <1>1 DEF Init, TypeOK, Locations
<1>3. ASSUME NEW r \in Ranks PROVE Up(r, 0)
  <2>1. Counted1(r) = {} /\ Cardinality({}) = 0
    BY FS_EmptySet, Zenon DEF Init, Counted1
  <2>2. FullCalls(0) = 0
    <3>1. {j \in 1..0 : Kind[j] = "full"} = {}
      OBVIOUS
    <3> QED
      BY <3>1, FS_EmptySet, Zenon DEF FullCalls
  <2> QED
    BY <2>1, <2>2 DEF Init, Up, UpLocs, AllPosted
<1> QED
  BY <1>1, <1>2, <1>3 DEF IInv, PhaseInv, Phase

\* Rank s takes no part in the step.
Same(s) ==
    /\ b_count'[s] = b_count[s] /\ b_count2'[s] = b_count2[s]
    /\ posted'[s] = posted[s] /\ pc'[s] = pc[s]
    /\ req'[s] = req[s] /\ calls'[s] = calls[s]

\* A rank that takes no part in the step stays in its phase.
LEMMA OtherRank ==
    ASSUME TypeOK, TypeOK', NEW s \in Ranks, NEW k \in 0..MaxCalls, Same(s),
           \A q \in Ranks : posted[q] <= posted'[q],
           Up(s, k) \/ Down(s, k)
    PROVE  (Up(s, k) \/ Down(s, k))'
<1>1. ASSUME NEW j \in 0..MaxCalls, AllPosted(j) PROVE AllPosted(j)'
  <2>1. FullCalls(j) \in Nat
    BY FullCallsMonotone, BarrierAssumption
  <2> QED
    BY <1>1, <2>1 DEF AllPosted, TypeOK
<1>2. Counted1(s)' = Counted1(s) /\ Counted2(s)' = Counted2(s) /\ Opened(s)' = Opened(s)
  BY Zenon DEF Same, Counted1, Counted2, Opened
<1>3. CASE Up(s, k)
  BY <1>1, <1>2, <1>3, Zenon DEF Up, Same
<1>4. CASE Down(s, k)
  <2>1. (k - 1) \in 0..MaxCalls
    BY <1>4, BarrierAssumption DEF Down
  <2>2. AllPosted(IF Opened(s) THEN k ELSE k - 1)'
    BY <1>1, <1>2, <1>4, <2>1, Zenon DEF Down
  <2> QED
    BY <1>2, <1>4, <2>2 DEF Down, Same
<1> QED
  BY <1>3, <1>4, Zenon

\* Going up: a thread enters the call or reads the counter.
LEMMA UpQuiet ==
    ASSUME TypeOK, NEW r \in Ranks, NEW t \in Threads, NEW k \in 0..MaxCalls, Up(r, k),
           Call(r, t) \/ Load1(r, t) \/ Retry1(r, t) \/ Spin2(r, t)
    PROVE  TypeOK' /\ Up(r, k)'
<1> USE DEF TypeOK, Locations
<1> MaxCalls \in Nat /\ m_threads \in Nat
  BY BarrierAssumption, ThreadSets, Zenon
<1>1. TypeOK'
  <2>1. CASE Call(r, t)
    BY <2>1 DEF Call, Goto
  <2>2. CASE Load1(r, t)
    BY <2>2, Zenon DEF Load1, Goto
  <2>3. CASE Retry1(r, t)
    BY <2>3, Zenon DEF Retry1
  <2>4. CASE Spin2(r, t)
    BY <2>4, Zenon DEF Spin2, Goto
  <2> QED
    BY <2>1, <2>2, <2>3, <2>4, Zenon
<1>2. /\ b_count' = b_count /\ b_count2' = b_count2 /\ posted' = posted
      /\ AllPosted(k)'
  BY Zenon DEF Call, Load1, Retry1, Spin2, Up, AllPosted
<1>3. Counted1(r)' = Counted1(r)
  BY DEF Call, Load1, Retry1, Spin2, Goto, Counted1
<1>4. \A u \in Threads :
          /\ pc'[r][u] \in UpLocs
          /\ calls'[r][u] = IF pc'[r][u] \in {"idle", "spin2"} THEN k ELSE k + 1
          /\ pc'[r][u] = "store1" => pc[r][u] = "store1"
  BY DEF Call, Load1, Retry1, Spin2, Goto, Up, UpLocs
<1> QED
  BY <1>1, <1>2, <1>3, <1>4, Zenon DEF Up

\* Going up: a thread is counted.
LEMMA UpCount ==
    ASSUME TypeOK, NEW r \in Ranks, NEW t \in Threads, NEW k \in 0..MaxCalls, Up(r, k),
           Count1(r, t)
    PROVE  TypeOK' /\ Up(r, k)'
<1> USE DEF TypeOK, Locations
<1> MaxCalls \in Nat /\ m_threads \in Nat
  BY BarrierAssumption, ThreadSets, Zenon
<1>1. t \notin Counted1(r) /\ Counted1(r) \in SUBSET Threads
  BY Zenon DEF Count1, Goto, Counted1
<1>2. Counted1(r)' = Counted1(r) \cup {t}
  BY DEF Count1, Goto, Counted1
<1>3. /\ b_count[r] + 1 <= m_threads
      /\ b_count'[r] = b_count[r] + 1
      /\ b_count'[r] = Cardinality(Counted1(r)')
  BY <1>1, <1>2, OneMore, Zenon DEF Count1, Up
<1>4. TypeOK'
  BY <1>3 DEF Count1, Goto
<1>5. \A u \in Threads : pc[r][u] # "store1"
  BY <1>3 DEF Up
<1>6. \A u \in Threads :
          /\ pc'[r][u] \in UpLocs
          /\ calls'[r][u] = IF pc'[r][u] \in {"idle", "spin2"} THEN k ELSE k + 1
          /\ pc'[r][u] = "store1" => u = t /\ b_count'[r] = m_threads
  <2>1. pc'[r][t] = IF b_count[r] = m_threads - 1 THEN "store1" ELSE "spin1"
    BY Zenon DEF Count1, Goto
  <2>2. \A u \in Threads \ {t} : pc'[r][u] = pc[r][u]
    BY Zenon DEF Count1, Goto
  <2>3. pc'[r][t] = "store1" => b_count'[r] = m_threads
    BY <1>3, <2>1
  <2>4. calls' = calls /\ pc[r][t] = "cas1"
    BY Zenon DEF Count1, Goto
  <2> QED
    BY <1>5, <2>1, <2>2, <2>3, <2>4, Zenon DEF Up, UpLocs
<1>7. b_count2'[r] = m_threads /\ posted' = posted /\ AllPosted(k)'
  BY Zenon DEF Count1, Up, AllPosted
<1> QED
  BY <1>3, <1>4, <1>6, <1>7, Zenon DEF Up

\* The last thread counted turns the rank round: all threads are in call
\* k + 1.
LEMMA UpTurn ==
    ASSUME TypeOK, NEW r \in Ranks, NEW t \in Threads, NEW k \in 0..MaxCalls, Up(r, k),
           Store1(r, t)
    PROVE  TypeOK' /\ k + 1 \in 0..MaxCalls /\ Down(r, k + 1)'
<1> USE DEF TypeOK, Locations
<1> MaxCalls \in Nat /\ m_threads \in Nat
  BY BarrierAssumption, ThreadSets, Zenon
<1>1. Counted1(r) = Threads
  <2>1. Counted1(r) \in SUBSET Threads /\ Cardinality(Counted1(r)) = m_threads
    BY Zenon DEF Store1, Goto, Up, Counted1
  <2> QED
    BY <2>1, ThreadSets, Zenon
<1>2. /\ \A u \in Threads : pc[r][u] \in {"spin1", "store1"} /\ calls[r][u] = k + 1
      /\ \A u \in Threads \ {t} : pc[r][u] = "spin1"
  BY <1>1, Zenon DEF Counted1, Up, Store1, Goto
<1>3. k + 1 \in 1..MaxCalls
  BY <1>2
<1>4. TypeOK'
  BY DEF Store1, Goto
<1>5. /\ \A u \in Threads \ {t} : pc'[r][u] = "spin1"
      /\ pc'[r][t] = IF Kind[k + 1] = "full" THEN "ibarrier" ELSE "load2"
      /\ calls' = calls /\ posted' = posted /\ b_count2' = b_count2 /\ b_count'[r] = 0
  BY <1>2, Zenon DEF Store1, Goto, InFull
<1>6. Counted2(r)' = {} /\ Cardinality({}) = 0
  BY <1>5, FS_EmptySet, Zenon DEF Counted2
<1>7. FullCalls(k + 1) = IF Kind[k + 1] = "full" THEN FullCalls(k) + 1 ELSE FullCalls(k)
  BY <1>3, FullCallsStep
<1>8. FullCalls(k) \in Nat
  BY FullCallsMonotone
<1>9. posted'[r] = IF \E u \in Threads : pc'[r][u] = "ibarrier"
                   THEN FullCalls(k + 1) - 1 ELSE FullCalls(k + 1)
  <2>1. (\E u \in Threads : pc'[r][u] = "ibarrier") <=> Kind[k + 1] = "full"
    BY <1>5, Zenon
  <2>2. posted'[r] = FullCalls(k)
    BY <1>5, Zenon DEF Up
  <2> QED
    BY <1>7, <1>8, <2>1, <2>2
<1>10. AllPosted(IF Opened(r) THEN k + 1 ELSE (k + 1) - 1)'
  <2>1. Opened(r)' => Kind[k + 1] # "full"
    BY <1>5, Zenon DEF Opened
  <2>2. AllPosted(k)'
    BY <1>5, Zenon DEF Up, AllPosted
  <2>3. (k + 1) - 1 = k
    OBVIOUS
  <2> QED
    BY <2>1, <2>2, <2>3, <1>7, Zenon DEF AllPosted
<1>11. b_count2'[r] = m_threads - Cardinality(Counted2(r)')
  BY <1>5, <1>6 DEF Up
<1>12. \A u \in Threads :
          /\ pc'[r][u] \in DownLocs
          /\ calls'[r][u] = k + 1
          /\ pc'[r][u] # "test" /\ pc'[r][u] # "store2"
          /\ pc'[r][u] = "ibarrier" => u = t /\ Kind[k + 1] = "full"
  BY <1>2, <1>5, Zenon DEF DownLocs
<1> QED
  BY <1>3, <1>4, <1>5, <1>9, <1>10, <1>11, <1>12 DEF Down

\* Going up, no thread can leave the up-count: Spin1 waits for its reset.
LEMMA UpSpins ==
    ASSUME TypeOK, NEW r \in Ranks, NEW t \in Threads, NEW k \in 0..MaxCalls, Up(r, k)
    PROVE  ~Spin1(r, t)
<1> SUFFICES ASSUME Spin1(r, t) PROVE FALSE
  BY Zenon
<1>1. t \in Counted1(r) /\ Counted1(r) \in SUBSET Threads
  BY Zenon DEF Spin1, Goto, Counted1
<1>2. Cardinality(Counted1(r)) = 0
  BY Zenon DEF Spin1, Up
<1> QED
  BY <1>1, <1>2, ThreadSets, Zenon

\* Going down: what the counters, the posted barriers and the conjuncts on
\* threads are after a step that counts nobody.
LEMMA DownFrame ==
    ASSUME TypeOK, TypeOK', NEW r \in Ranks, NEW k \in 0..MaxCalls, Down(r, k),
           b_count' = b_count, b_count2' = b_count2, calls' = calls,
           posted' = posted, req' = req,
           \A u \in Threads :
              /\ pc'[r][u] \in DownLocs
              /\ pc'[r][u] \in {"ibarrier", "test", "spin2", "store2"}
                     <=> pc[r][u] \in {"ibarrier", "test", "spin2", "store2"}
              /\ pc'[r][u] \in {"ibarrier", "test", "spin2", "store2"}
                     => pc'[r][u] = pc[r][u],
           \A u, v \in Threads :
              pc'[r][u] \in {"ibarrier", "test"} /\ u # v => pc'[r][v] \in {"spin1", "wait2"},
           Opened(r)' => AllPosted(k)
    PROVE  Down(r, k)'
<1>1. Counted2(r)' = Counted2(r)
  BY Zenon DEF Counted2
<1>2. (\E u \in Threads : pc'[r][u] = "ibarrier") <=> (\E u \in Threads : pc[r][u] = "ibarrier")
  BY Zenon
<1>3. \A j : AllPosted(j)' <=> AllPosted(j)
  BY Zenon DEF AllPosted
<1>4. AllPosted(k) => AllPosted(k - 1)
  <2>1. k - 1 \in 0..MaxCalls /\ k - 1 <= k
    BY BarrierAssumption DEF Down
  <2>2. FullCalls(k - 1) <= FullCalls(k) /\ FullCalls(k - 1) \in Nat /\ FullCalls(k) \in Nat
    BY <2>1, FullCallsMonotone, Zenon
  <2> QED
    BY <2>2 DEF AllPosted, TypeOK
<1>5. AllPosted(IF Opened(r) THEN k ELSE k - 1)'
  BY <1>3, <1>4, Zenon DEF Down
<1> QED
  BY <1>1, <1>2, <1>5 DEF Down

\* Going down: a thread reads the counter, or leaves the wait for the reset
\* of the up-count.
LEMMA DownQuiet ==
    ASSUME TypeOK, NEW r \in Ranks, NEW t \in Threads, NEW k \in 0..MaxCalls, Down(r, k),
           Load2(r, t) \/ Retry2(r, t) \/ Spin1(r, t) \/ Wait2(r, t)
    PROVE  TypeOK' /\ Down(r, k)'
<1> USE DEF TypeOK, Locations
<1> MaxCalls \in Nat /\ m_threads \in Nat /\ k \in 1..MaxCalls
  BY BarrierAssumption, ThreadSets, Zenon DEF Down
<1>1. TypeOK'
  <2>1. CASE Load2(r, t)
    BY <2>1, Zenon DEF Load2, Goto
  <2>2. CASE Retry2(r, t)
    BY <2>2, Zenon DEF Retry2
  <2>3. CASE Spin1(r, t)
    BY <2>3, Zenon DEF Spin1, Goto
  <2>4. CASE Wait2(r, t)
    BY <2>4, Zenon DEF Wait2, Goto
  <2> QED
    BY <2>1, <2>2, <2>3, <2>4, Zenon
<1>2. /\ b_count' = b_count /\ b_count2' = b_count2 /\ calls' = calls
      /\ posted' = posted /\ req' = req
  BY Zenon DEF Load2, Retry2, Spin1, Wait2
<1>3. /\ pc'[r][t] \in DownLocs \ {"ibarrier", "test", "spin2", "store2"}
      /\ pc[r][t] \notin {"ibarrier", "test", "spin2", "store2"}
      /\ \A u \in Threads \ {t} : pc'[r][u] = pc[r][u]
  BY DEF Load2, Retry2, Spin1, Wait2, Goto, DownLocs
<1>4. Wait2(r, t) => \E u \in Threads : pc[r][u] \in {"spin2", "store2"}
  <2> SUFFICES ASSUME Wait2(r, t) PROVE Counted2(r) # {}
    BY Zenon DEF Counted2
  <2>1. Counted2(r) = {} => Cardinality(Counted2(r)) = 0
    BY FS_EmptySet, Zenon
  <2>2. b_count2[r] # m_threads /\ b_count2[r] = m_threads - Cardinality(Counted2(r))
    BY Zenon DEF Wait2, Down
  <2> QED
    BY <2>1, <2>2
<1>5. \A u, v \in Threads :
         pc'[r][u] \in {"ibarrier", "test"} /\ u # v => pc'[r][v] \in {"spin1", "wait2"}
  <2> SUFFICES ASSUME NEW u \in Threads, pc'[r][u] \in {"ibarrier", "test"}, u # t
               PROVE  pc'[r][t] \in {"spin1", "wait2"}
    BY <1>3, Zenon DEF Down
  <2>1. pc[r][u] \in {"ibarrier", "test"} /\ pc[r][t] \in {"spin1", "wait2"}
    BY <1>3, Zenon DEF Down
  <2>2. Kind[calls[r][t]] = "full"
    BY <2>1, Zenon DEF Down
  <2>3. ~Wait2(r, t)
    BY <1>4, <2>1, Zenon DEF Down
  <2> QED
    BY <2>1, <2>2, <2>3 DEF Load2, Retry2, Spin1, Goto, InFull
<1>6. Opened(r)' => AllPosted(k)
  <2>1. CASE Opened(r)
    BY <2>1, Zenon DEF Down
  <2>2. CASE ~Opened(r)
    <3> SUFFICES ASSUME Opened(r)' PROVE AllPosted(k)
      BY Zenon
    <3>1. pc[r][t] \notin {"load2", "cas2"} /\ ~Wait2(r, t)
      BY <1>4, <2>2, Zenon DEF Opened
    <3>2. Spin1(r, t)
      BY <3>1, Zenon DEF Load2, Retry2, Goto
    <3>3. Kind[k] # "full"
      <4>1. pc'[r][t] \in {"load2", "cas2", "spin2", "store2"}
        BY <1>3, <2>2, Zenon DEF Opened
      <4> QED
        BY <3>2, <4>1, Zenon DEF Spin1, Goto, InFull, Down
    <3>4. FullCalls((k - 1) + 1) = FullCalls(k - 1)
      <4>1. k - 1 \in 0..MaxCalls /\ k - 1 < MaxCalls /\ (k - 1) + 1 = k
        OBVIOUS
      <4> QED
        BY <3>3, <4>1, FullCallsStep, Zenon
    <3>5. (k - 1) + 1 = k
      OBVIOUS
    <3> QED
      BY <2>2, <3>4, <3>5, Zenon DEF Down, AllPosted
  <2> QED
    BY <2>1, <2>2, Zenon
<1>7. \A u \in Threads :
          /\ pc'[r][u] \in DownLocs
          /\ pc'[r][u] \in {"ibarrier", "test", "spin2", "store2"}
                 <=> pc[r][u] \in {"ibarrier", "test", "spin2", "store2"}
          /\ pc'[r][u] \in {"ibarrier", "test", "spin2", "store2"} => pc'[r][u] = pc[r][u]
  BY <1>3, Zenon DEF Down
<1> HIDE DEF TypeOK
<1> QED
  BY <1>1, <1>2, <1>5, <1>6, <1>7, DownFrame, Zenon

\* Going down: the thread in_node1 returned true to posts the MPI_Ibarrier.
LEMMA DownIbarrier ==
    ASSUME TypeOK, NEW r \in Ranks, NEW t \in Threads, NEW k \in 0..MaxCalls, Down(r, k),
           Ibarrier(r, t)
    PROVE  TypeOK' /\ Down(r, k)'
<1> USE DEF TypeOK, Locations
<1> MaxCalls \in Nat /\ m_threads \in Nat /\ k \in 1..MaxCalls
  BY BarrierAssumption, ThreadSets, Zenon DEF Down
<1>1. TypeOK'
  BY DEF Ibarrier, Goto
<1>2. FullCalls(k) \in Nat
  BY FullCallsMonotone
<1>3. /\ pc[r][t] = "ibarrier" /\ pc'[r][t] = "test"
      /\ \A u \in Threads \ {t} : pc'[r][u] = pc[r][u] /\ pc[r][u] \in {"spin1", "wait2"}
      /\ b_count' = b_count /\ b_count2' = b_count2 /\ calls' = calls
  BY Zenon DEF Ibarrier, Goto, Down
<1>4. /\ posted'[r] = FullCalls(k) /\ req'[r][t] = FullCalls(k)
      /\ \A q \in Ranks : posted[q] <= posted'[q]
  <2>1. posted[r] = FullCalls(k) - 1
    BY <1>3, Zenon DEF Down
  <2> QED
    BY <1>2, <2>1 DEF Ibarrier
<1>5. Counted2(r)' = Counted2(r) /\ ~Opened(r) /\ ~Opened(r)'
  BY <1>3, Zenon DEF Counted2, Opened
<1>6. AllPosted(k - 1)'
  <2>1. FullCalls(k - 1) \in Nat
    BY FullCallsMonotone
  <2> QED
    BY <1>1, <1>4, <1>5, <2>1 DEF Down, AllPosted
<1>7. Kind[k] = "full"
  BY <1>3, Zenon DEF Down
<1> QED
  BY <1>1, <1>3, <1>4, <1>5, <1>6, <1>7, Zenon DEF Down, DownLocs

\* Going down: MPI_Test reports completion, so every rank has posted the
\* MPI_Ibarrier of this call.
LEMMA DownTest ==
    ASSUME TypeOK, NEW r \in Ranks, NEW t \in Threads, NEW k \in 0..MaxCalls, Down(r, k),
           Test(r, t)
    PROVE  TypeOK' /\ Down(r, k)'
<1> USE DEF TypeOK, Locations
<1>1. TypeOK'
  BY Zenon DEF Test, Goto
<1>2. /\ pc[r][t] = "test" /\ pc'[r][t] = "load2"
      /\ \A u \in Threads \ {t} : pc'[r][u] = pc[r][u] /\ pc[r][u] \in {"spin1", "wait2"}
      /\ b_count' = b_count /\ b_count2' = b_count2 /\ calls' = calls
      /\ posted' = posted /\ req' = req
  BY Zenon DEF Test, Goto, Down
<1>3. AllPosted(k)'
  BY <1>2 DEF Test, IbarrierComplete, Down, AllPosted
<1>4. Counted2(r)' = Counted2(r) /\ Opened(r)'
  BY <1>2, Zenon DEF Counted2, Opened
<1>5. posted'[r] = FullCalls(k) /\ \A u \in Threads : pc'[r][u] # "ibarrier"
  BY <1>2, Zenon DEF Down
<1> QED
  BY <1>1, <1>2, <1>3, <1>4, <1>5, Zenon DEF Down, DownLocs

\* Going down: a thread is counted.
LEMMA DownCount ==
    ASSUME TypeOK, NEW r \in Ranks, NEW t \in Threads, NEW k \in 0..MaxCalls, Down(r, k),
           Count2(r, t)
    PROVE  TypeOK' /\ Down(r, k)'
<1> USE DEF TypeOK, Locations
<1> MaxCalls \in Nat /\ m_threads \in Nat
  BY BarrierAssumption, ThreadSets, Zenon
<1>1. t \notin Counted2(r) /\ Counted2(r) \in SUBSET Threads
  BY Zenon DEF Count2, Goto, Counted2
<1>2. Counted2(r)' = Counted2(r) \cup {t}
  BY DEF Count2, Goto, Counted2
<1>3. /\ b_count2[r] >= 1
      /\ b_count2'[r] = b_count2[r] - 1
      /\ b_count2'[r] = m_threads - Cardinality(Counted2(r)')
  <2>1. Cardinality(Counted2(r)) \in 0..m_threads
    BY <1>1, ThreadSets, Zenon
  <2>2. /\ Cardinality(Counted2(r)') = Cardinality(Counted2(r)) + 1
        /\ Cardinality(Counted2(r)) + 1 <= m_threads
    BY <1>1, <1>2, OneMore, Zenon
  <2> QED
    BY <2>1, <2>2 DEF Count2, Down
<1>4. TypeOK'
  BY <1>3 DEF Count2, Goto
<1>5. /\ pc[r][t] = "cas2" /\ \A u \in Threads \ {t} : pc'[r][u] = pc[r][u]
      /\ pc'[r][t] = IF b_count2[r] = 1 THEN "store2" ELSE "spin2"
      /\ b_count' = b_count /\ calls' = calls /\ posted' = posted /\ req' = req
  BY Zenon DEF Count2, Goto
<1>6. \A u \in Threads : pc[r][u] \notin {"store2", "ibarrier", "test"}
  <2> SUFFICES ASSUME NEW u \in Threads PROVE pc[r][u] \notin {"store2", "ibarrier", "test"}
    BY Zenon
  <2>1. pc[r][u] # "store2"
    BY <1>3 DEF Down
  <2>2. pc[r][u] \in {"ibarrier", "test"} /\ u # t => pc[r][t] \in {"spin1", "wait2"}
    BY Zenon DEF Down
  <2> QED
    BY <1>5, <2>1, <2>2, Zenon
<1>7. AllPosted(k)' /\ Opened(r)'
  BY <1>5, Zenon DEF Down, AllPosted, Opened
<1>8. posted'[r] = FullCalls(k) /\ \A u \in Threads : pc'[r][u] # "ibarrier"
  BY <1>5, <1>6 DEF Down
<1>9. pc'[r][t] = "store2" => b_count2'[r] = 0
  BY <1>3, <1>5
<1>10. \A u \in Threads :
          /\ pc'[r][u] \in DownLocs \ {"ibarrier", "test"}
          /\ calls'[r][u] = k
          /\ pc'[r][u] = "store2" => u = t /\ b_count2'[r] = 0
  BY <1>5, <1>6, <1>9 DEF Down, DownLocs
<1>11. k \in 1..MaxCalls /\ b_count'[r] = 0
  BY <1>5, Zenon DEF Down
<1> HIDE DEF TypeOK
<1> QED
  BY <1>3, <1>4, <1>7, <1>8, <1>10, <1>11, Zenon DEF Down

\* The last thread counted turns the rank round: all threads have made k
\* calls, and the others leave the k-th when they see the reset.
LEMMA DownTurn ==
    ASSUME TypeOK, NEW r \in Ranks, NEW t \in Threads, NEW k \in 0..MaxCalls, Down(r, k),
           Store2(r, t)
    PROVE  TypeOK' /\ Up(r, k)'
<1> USE DEF TypeOK, Locations
<1> MaxCalls \in Nat /\ m_threads \in Nat
  BY BarrierAssumption, ThreadSets, Zenon
<1>1. Counted2(r) = Threads
  <2>1. Counted2(r) \in SUBSET Threads
    BY Zenon DEF Counted2
  <2>2. Cardinality(Counted2(r)) \in 0..m_threads
    BY <2>1, ThreadSets, Zenon
  <2>3. 0 = m_threads - Cardinality(Counted2(r))
    BY Zenon DEF Store2, Goto, Down
  <2>4. \A c \in 0..m_threads : 0 = m_threads - c => c = m_threads
    OBVIOUS
  <2> QED
    BY <2>1, <2>2, <2>3, <2>4, ThreadSets, Zenon
<1>2. /\ pc[r][t] = "store2" /\ pc'[r][t] = "idle"
      /\ \A u \in Threads \ {t} : pc[r][u] = "spin2" /\ pc'[r][u] = "spin2"
      /\ b_count' = b_count /\ calls' = calls /\ posted' = posted
      /\ b_count2'[r] = m_threads
  BY <1>1, Zenon DEF Counted2, Store2, Goto, Down
<1>3. TypeOK'
  BY DEF Store2, Goto
<1>4. Counted1(r)' = {} /\ Cardinality({}) = 0
  BY <1>2, FS_EmptySet, Zenon DEF Counted1
<1>5. AllPosted(k)' /\ posted'[r] = FullCalls(k)
  <2>1. Opened(r) /\ \A u \in Threads : pc[r][u] # "ibarrier"
    BY <1>2, Zenon DEF Opened
  <2> QED
    BY <1>2, <2>1, Zenon DEF Down, AllPosted
<1>6. \A u \in Threads : calls'[r][u] = k
  BY <1>2, Zenon DEF Down
<1>7. b_count'[r] = Cardinality(Counted1(r)')
  BY <1>2, <1>4, Zenon DEF Down
<1> HIDE DEF TypeOK
<1> QED
  BY <1>2, <1>3, <1>5, <1>6, <1>7, Zenon DEF Up, UpLocs

\* Going down, no thread returns: Spin2 waits for the reset.
LEMMA DownSpins ==
    ASSUME TypeOK, NEW r \in Ranks, NEW t \in Threads, NEW k \in 0..MaxCalls, Down(r, k)
    PROVE  ~Spin2(r, t)
<1> SUFFICES ASSUME Spin2(r, t) PROVE FALSE
  BY Zenon
<1>1. t \in Counted2(r) /\ Counted2(r) \in SUBSET Threads
  BY Zenon DEF Spin2, Goto, Counted2
<1>2. /\ Cardinality(Counted2(r)) \in 0..m_threads /\ m_threads \in Nat
      /\ Cardinality(Counted2(r)) = 0 => Counted2(r) = {}
  BY <1>1, ThreadSets, Zenon
<1>3. m_threads = m_threads - Cardinality(Counted2(r))
  BY Zenon DEF Spin2, Down
<1> QED
  BY <1>1, <1>2, <1>3

\* Every step of a thread keeps the invariant.
LEMMA ThreadStep ==
    ASSUME IInv, NEW r \in Ranks, NEW t \in Threads, Call(r, t) \/ Inside(r, t)
    PROVE  IInv'
<1>1. TypeOK
  BY Zenon DEF IInv
<1>2. PICK k \in 0..MaxCalls : Up(r, k) \/ Down(r, k)
  BY Zenon DEF IInv, PhaseInv, Phase
<1>3. TypeOK' /\ Phase(r)'
  <2>1. CASE Up(r, k)
    <3>1. pc[r][t] \in UpLocs /\ ~Spin1(r, t)
      BY <1>1, <2>1, UpSpins, Zenon DEF Up
    <3>2. \/ Call(r, t) \/ Load1(r, t) \/ Retry1(r, t) \/ Spin2(r, t)
          \/ Count1(r, t) \/ Store1(r, t)
      BY <3>1, Zenon DEF Inside, UpLocs, Ibarrier, Test, Wait2, Load2, Count2, Retry2, Store2, Goto
    <3>3. TypeOK' /\ (Up(r, k)' \/ (k + 1 \in 0..MaxCalls /\ Down(r, k + 1)'))
      BY <1>1, <2>1, <3>2, UpQuiet, UpCount, UpTurn, Zenon
    <3> QED
      BY <3>3, Zenon DEF Phase
  <2>2. CASE Down(r, k)
    <3>1. pc[r][t] \in DownLocs /\ ~Spin2(r, t)
      BY <1>1, <2>2, DownSpins, Zenon DEF Down
    <3>2. \/ Load2(r, t) \/ Retry2(r, t) \/ Spin1(r, t) \/ Wait2(r, t)
          \/ Ibarrier(r, t) \/ Test(r, t) \/ Count2(r, t) \/ Store2(r, t)
      BY <3>1, Zenon DEF Inside, DownLocs, Call, Load1, Count1, Retry1, Store1, Goto
    <3>3. TypeOK' /\ (Up(r, k)' \/ Down(r, k)')
      BY <1>1, <2>2, <3>2, DownQuiet, DownIbarrier, DownTest, DownCount, DownTurn, Zenon
    <3> QED
      BY <3>3, Zenon DEF Phase
  <2> QED
    BY <1>2, <2>1, <2>2, Zenon
<1>4. \A q \in Ranks : posted[q] <= posted'[q]
  <2>1. CASE Ibarrier(r, t)
    BY <1>1, <2>1 DEF TypeOK, Ibarrier
  <2>2. CASE ~Ibarrier(r, t)
    <3>1. posted' = posted
      BY <2>2, Zenon DEF Call, Inside, Load1, Count1, Retry1, Store1, Spin1, Test, Wait2, Load2,
                  Count2, Retry2, Store2, Spin2
    <3> QED
      BY <1>1, <3>1 DEF TypeOK
  <2> QED
    BY <2>1, <2>2, Zenon
<1>5. ASSUME NEW s \in Ranks \ {r} PROVE Same(s)
  BY <1>1, Zenon DEF Same, TypeOK, Call, Inside, Load1, Count1, Retry1, Store1, Spin1, Ibarrier,
              Test, Wait2, Load2, Count2, Retry2, Store2, Spin2, Goto
<1>6. ASSUME NEW s \in Ranks \ {r} PROVE Phase(s)'
  <2>1. PICK j \in 0..MaxCalls : Up(s, j) \/ Down(s, j)
    BY Zenon DEF IInv, PhaseInv, Phase
  <2>2. (Up(s, j) \/ Down(s, j))'
    BY <1>1, <1>3, <1>4, <1>5, <2>1, OtherRank, Zenon
  <2> QED
    BY <2>2, Zenon DEF Phase
<1> QED
  BY <1>3, <1>6, Zenon DEF IInv, PhaseInv

----------------------------------------------------------------------------
\* The invariant of the barrier: a rank is always in one of the two phases.
THEOREM BarrierInvariant == Safety => []IInv
<1>1. IInv /\ [Next]_vars => IInv'
  <2> SUFFICES ASSUME IInv, [Next]_vars PROVE IInv'
    BY Zenon
  <2>1. ASSUME UNCHANGED vars PROVE IInv'
    <3>1. TypeOK /\ TypeOK' /\ \A q \in Ranks : posted[q] <= posted'[q] /\ Same(q)
      BY <2>1 DEF vars, IInv, TypeOK, Same
    <3>2. ASSUME NEW r \in Ranks PROVE Phase(r)'
      <4>1. PICK k \in 0..MaxCalls : Up(r, k) \/ Down(r, k)
        BY Zenon DEF IInv, PhaseInv, Phase
      <4>2. (Up(r, k) \/ Down(r, k))'
        BY <3>1, <4>1, OtherRank, Zenon
      <4> QED
        BY <4>2, Zenon DEF Phase
    <3> QED
      BY <3>1, <3>2, Zenon DEF IInv, PhaseInv
  <2> QED
    BY <2>1, ThreadStep, Zenon DEF Next, Terminated
<1> QED
  BY InitIInv, <1>1, PTL DEF Safety

\* b_count and b_count2 stay between 0 and m_threads whatever the threads
\* do: in_node2 never decrements its unsigned counter below 0.
THEOREM BarrierTypes == Safety => []TypeOK
<1>1. IInv => TypeOK
  BY Zenon DEF IInv
<1> QED
  BY <1>1, BarrierInvariant, PTL

\* The phase of a rank tells how many calls its threads have entered and how
\* many MPI_Ibarriers it has posted.
LEMMA PhaseEntered ==
    ASSUME NEW r \in Ranks, NEW t \in Threads, NEW k \in 0..MaxCalls, Up(r, k) \/ Down(r, k)
    PROVE  /\ calls[r][t] \in {k, k + 1}
           /\ posted[r] \in {FullCalls(k) - 1, FullCalls(k)}
<1>1. CASE Up(r, k)
  BY <1>1, Zenon DEF Up
<1>2. CASE Down(r, k)
  BY <1>2, Zenon DEF Down
<1> QED
  BY <1>1, <1>2, Zenon

\* Where a rank is tells what its threads and the other ranks have entered.
LEMMA PhaseSynchronised == IInv => CallsSynchronised
<1> SUFFICES ASSUME IInv, NEW r \in Ranks, NEW t \in Threads, NEW k \in 1..Returned(r, t),
                    NEW s \in Promise!Synchronised(r, k), NEW u \in Threads
             PROVE  k <= calls[s][u]
  BY Zenon DEF CallsSynchronised
<1> USE DEF IInv
<1> MaxCalls \in Nat
  BY BarrierAssumption, Zenon
<1>1. s \in Ranks /\ (s = r \/ Kind[k] = "full")
  BY Zenon DEF Promise!Synchronised
<1>2. PICK m \in 0..MaxCalls : Up(r, m) \/ Down(r, m)
  BY Zenon DEF PhaseInv, Phase
<1>3. PICK n \in 0..MaxCalls : Up(s, n) \/ Down(s, n)
  BY <1>1, Zenon DEF PhaseInv, Phase
<1>4. k <= (IF Up(r, m) THEN m ELSE m - 1)
  BY <1>2 DEF Up, Down, UpLocs, DownLocs, Returned
<1>5. CASE s = r
  <2>1. calls[r][u] \in {m, m + 1}
    BY <1>2, PhaseEntered, Zenon
  <2> QED
    BY <1>2, <1>4, <1>5, <2>1
<1>6. CASE Kind[k] = "full"
  <2>1. k \in 1..MaxCalls
    BY <1>4
  <2>2. FullCalls(k) \in Nat /\ AllPosted(k)
    <3>1. PICK i \in 0..MaxCalls : AllPosted(i) /\ k <= i
      <4>1. CASE Up(r, m)
        BY <1>4, <4>1, Zenon DEF Up
      <4>2. CASE ~Up(r, m)
        <5>1. AllPosted(m) \/ AllPosted(m - 1)
          BY <1>2, <4>2, Zenon DEF Down
        <5>2. m - 1 \in 0..MaxCalls /\ k <= m - 1
          BY <1>2, <1>4, <4>2 DEF Down
        <5> QED
          BY <5>1, <5>2
      <4> QED
        BY <4>1, <4>2, Zenon
    <3>2. FullCalls(k) <= FullCalls(i) /\ FullCalls(k) \in Nat /\ FullCalls(i) \in Nat
      BY <2>1, <3>1, FullCallsMonotone
    <3> QED
      BY <3>1, <3>2 DEF AllPosted, TypeOK
  <2>3. FullCalls(k) <= posted[s] /\ posted[s] \in Nat
    BY <1>1, <2>2, Zenon DEF AllPosted, TypeOK
  <2>4. FullCalls(n) \in Nat /\ posted[s] <= FullCalls(n)
    <3>1. FullCalls(n) \in Nat
      BY FullCallsMonotone
    <3>2. posted[s] \in {FullCalls(n) - 1, FullCalls(n)}
      BY <1>1, <1>3, PhaseEntered, Zenon
    <3> QED
      BY <3>1, <3>2
  <2>5. k <= n
    BY <1>6, <2>1, <2>2, <2>3, <2>4, FullCallsOrder
  <2>6. calls[s][u] \in {n, n + 1}
    BY <1>1, <1>3, PhaseEntered, Zenon
  <2> QED
    BY <2>1, <2>5, <2>6
<1> QED
  BY <1>1, <1>5, <1>6, Zenon

\* No thread returns from its k-th call before everybody it synchronises
\* with has entered the k-th call, for any number of ranks, threads and
\* calls of either kind.
THEOREM BarrierSynchronises == Safety => []CallsSynchronised
  BY PhaseSynchronised, BarrierInvariant, PTL

\* One thread per rank runs the rank barrier, and all ranks' n-th
\* MPI_Ibarrier belong to the same call.
THEOREM RankBarriersPair == Safety => []RankBarriersMatch
<1>1. IInv => RankBarriersMatch
  <2> SUFFICES ASSUME IInv, NEW r \in Ranks, NEW t \in Threads, pc[r][t] = "test"
               PROVE  /\ req[r][t] = FullCalls(calls[r][t])
                      /\ \A u \in Threads \ {t} : pc[r][u] \notin {"ibarrier", "test"}
    BY Zenon DEF RankBarriersMatch
  <2>1. PICK k \in 0..MaxCalls : Up(r, k) \/ Down(r, k)
    BY Zenon DEF IInv, PhaseInv, Phase
  <2>2. Down(r, k)
    BY <2>1, Zenon DEF Up, UpLocs
  <2> QED
    BY <2>2, Zenon DEF Down
<1> QED
  BY <1>1, BarrierInvariant, PTL

----------------------------------------------------------------------------
(* The safety part of the refinement: only Call and the two returning      *)
(* steps, Store2 and Spin2, are visible in the abstract barrier.           *)

\* Entering operator() or thread_barrier() is Enter.
LEMMA CallEnters ==
    ASSUME TypeOK, NEW r \in Ranks, NEW t \in Threads, Call(r, t)
    PROVE  Promise!Enter(r, t)
<1> USE DEF TypeOK
<1>1. /\ pc[r][t] = "idle" /\ pc' = [pc EXCEPT ![r][t] = "load1"]
      /\ calls[r][t] < MaxCalls /\ calls' = [calls EXCEPT ![r][t] = @ + 1]
  BY Zenon DEF Call, Goto
<1>2. ASSUME NEW s \in Ranks, NEW u \in Threads PROVE Returned(s, u)' = Returned(s, u)
  <2> MaxCalls \in Nat /\ calls[s][u] \in Nat
    BY BarrierAssumption
  <2>1. CASE s = r /\ u = t
    <3>1. pc'[s][u] = "load1" /\ calls'[s][u] = calls[s][u] + 1
      BY <1>1, <2>1, Zenon
    <3> QED
      BY <1>1, <2>1, <3>1 DEF Returned
  <2>2. CASE ~(s = r /\ u = t)
    <3>1. pc'[s][u] = pc[s][u] /\ calls'[s][u] = calls[s][u]
      BY <1>1, <2>2, Zenon
    <3> QED
      BY <3>1, Zenon DEF Returned
  <2> QED
    BY <2>1, <2>2, Zenon
<1>3. returned' = returned /\ returned[r][t] = calls[r][t]
  BY <1>1, <1>2 DEF returned, Returned
<1> QED
  BY <1>1, <1>3, Zenon DEF Promise!Enter

\* Returning from in_node2, and so from the call, is Leave.
LEMMA ReturnLeaves ==
    ASSUME TypeOK, CallsSynchronised', NEW r \in Ranks, NEW t \in Threads,
           Store2(r, t) \/ Spin2(r, t)
    PROVE  Promise!Leave(r, t)
<1> MaxCalls \in Nat
  BY BarrierAssumption, Zenon
<1>1. /\ pc[r][t] # "idle" /\ pc' = [pc EXCEPT ![r][t] = "idle"]
      /\ calls' = calls
  BY Zenon DEF Store2, Spin2, Goto
<1>2. calls[r][t] \in Nat /\ Returned(r, t) = calls[r][t] - 1 /\ Returned(r, t)' = calls[r][t]
  BY <1>1 DEF Returned, TypeOK
<1>3. ASSUME NEW s \in Ranks, NEW u \in Threads, <<s, u>> # <<r, t>>
      PROVE  Returned(s, u)' = Returned(s, u)
  BY <1>1, <1>3, Zenon DEF Returned, TypeOK
<1>4. returned' = [returned EXCEPT ![r][t] = @ + 1]
  <2>1. ASSUME NEW s \in Ranks, NEW u \in Threads
        PROVE  Returned(s, u)' = IF s = r /\ u = t THEN Returned(s, u) + 1 ELSE Returned(s, u)
    BY <1>2, <1>3
  <2> QED
    BY <2>1, Zenon DEF returned
<1>5. ASSUME NEW s \in Promise!Synchronised(r, calls[r][t]), NEW u \in Threads
      PROVE  calls[r][t] <= calls[s][u]
  <2>1. s \in Ranks
    BY Zenon DEF Promise!Synchronised
  <2>2. CASE calls[r][t] = 0
    BY <2>1, <2>2 DEF TypeOK
  <2>3. CASE calls[r][t] # 0
    <3>1. calls[r][t] \in 1..Returned(r, t)'
      BY <1>2, <2>3
    <3>2. calls[r][t] <= calls'[s][u]
      BY <3>1, Zenon DEF CallsSynchronised, Promise!Synchronised
    <3> QED
      BY <1>1, <3>2, Zenon
  <2> QED
    BY <2>2, <2>3, Zenon
<1>6. returned[r][t] < calls[r][t]
  BY <1>2 DEF returned
<1> QED
  BY <1>1, <1>4, <1>5, <1>6, Zenon DEF Promise!Leave

\* The two-counter barrier with the MPI_Ibarrier in between implements the
\* safety part of the abstract barrier: every step of a thread is Enter,
\* Leave or invisible.
THEOREM BarrierRefines == Safety => Promise!Safety
<1>1. Init => Promise!Init
  <2> SUFFICES ASSUME Init PROVE Promise!Init
    BY Zenon
  <2>1. \A r \in Ranks, t \in Threads : Returned(r, t) = 0
    BY Zenon DEF Init, Returned
  <2>2. returned = [r \in Ranks |-> [t \in Threads |-> 0]]
    BY <2>1, Zenon DEF returned
  <2> QED
    BY <2>2, Zenon DEF Init, Promise!Init
<1>2. IInv /\ IInv' /\ [Next]_vars => [Promise!Next]_Promise!vars
  <2> SUFFICES ASSUME IInv, IInv', [Next]_vars PROVE [Promise!Next]_Promise!vars
    BY Zenon
  <2>1. TypeOK /\ CallsSynchronised'
    <3>1. IInv' => CallsSynchronised'
      BY PhaseSynchronised, PTL
    <3> QED
      BY <3>1, Zenon DEF IInv
  <2>2. CASE UNCHANGED vars
    BY <2>2, Zenon DEF vars, Promise!vars, returned, Returned
  <2>3. ASSUME NEW r \in Ranks, NEW t \in Threads, Call(r, t)
        PROVE  Promise!Next
    BY <2>1, <2>3, CallEnters, Zenon DEF Promise!Next
  <2>4. ASSUME NEW r \in Ranks, NEW t \in Threads, Store2(r, t) \/ Spin2(r, t)
        PROVE  Promise!Next
    BY <2>1, <2>4, ReturnLeaves, Zenon DEF Promise!Next
  <2>5. ASSUME NEW r \in Ranks, NEW t \in Threads, Inside(r, t),
               ~Store2(r, t), ~Spin2(r, t)
        PROVE  UNCHANGED Promise!vars
    <3>1. /\ calls' = calls
          /\ \A s \in Ranks, u \in Threads : pc'[s][u] = "idle" <=> pc[s][u] = "idle"
      <4>1. CASE Retry1(r, t) \/ Retry2(r, t)
        BY <4>1, Zenon DEF Retry1, Retry2
      <4>2. CASE ~Retry1(r, t) /\ ~Retry2(r, t)
        <5>1. /\ calls' = calls
              /\ \E from, to \in Locations \ {"idle"} : Goto(r, t, from, to)
          <6>1. CASE Load1(r, t) \/ Count1(r, t) \/ Store1(r, t) \/ Spin1(r, t)
            BY <6>1, Zenon DEF Load1, Count1, Store1, Spin1, Locations
          <6>2. CASE Ibarrier(r, t) \/ Test(r, t) \/ Wait2(r, t)
            BY <6>2, Zenon DEF Ibarrier, Test, Wait2, Locations
          <6>3. CASE Load2(r, t) \/ Count2(r, t)
            BY <6>3, Zenon DEF Load2, Count2, Locations
          <6> QED
            BY <2>5, <4>2, <6>1, <6>2, <6>3, Zenon DEF Inside
        <5>2. pc \in [Ranks -> [Threads -> Locations]]
          BY <2>1, Zenon DEF TypeOK
        <5> QED
          BY <5>1, <5>2 DEF Goto
      <4> QED
        BY <4>1, <4>2, Zenon
    <3>2. \A s \in Ranks, u \in Threads : Returned(s, u)' = Returned(s, u)
      BY <3>1, Zenon DEF Returned
    <3> QED
      BY <3>1, <3>2, Zenon DEF Promise!vars, returned
  <2> QED
    BY <2>2, <2>3, <2>4, <2>5, Zenon DEF Next, Terminated
<1> QED
  BY <1>1, <1>2, BarrierInvariant, PTL DEF Safety, Promise!Safety
============================================================================
