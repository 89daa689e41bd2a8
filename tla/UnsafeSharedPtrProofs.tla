----------------------- MODULE UnsafeSharedPtrProofs -----------------------
(***************************************************************************)
(* Reference counting by unsafe_shared_ptr, proved for any finite set of   *)
(* pointers and any set of blocks.  FreedWithLast is not inductive alone:  *)
(* that destroy() sees the last pointer follows from CountExact.  The      *)
(* inductive invariant is the conjunction of both with TypeOK.             *)
(***************************************************************************)
EXTENDS UnsafeSharedPtr, Integers, FiniteSetTheorems, TLAPS

IInv == TypeOK /\ CountExact /\ FreedWithLast

\* The pointers that refer to b in the assignment f, and their number.
Ref(f, b) == {p \in Pointers : f[p] = b}
Refs(f, b) == Cardinality(Ref(f, b))
Is(b, v) == IF b = v THEN 1 ELSE 0

Finite == IsFiniteSet(Pointers) /\ Null \notin Blocks
Assignments == [Pointers -> Blocks \union {Null}]

\* Counts of pointers are natural numbers, and zero if there is none.
LEMMA RefsType ==
    ASSUME Finite, NEW f \in Assignments, NEW b
    PROVE  /\ IsFiniteSet(Ref(f, b)) /\ Refs(f, b) \in Nat
           /\ Refs(f, b) = 0 <=> Ref(f, b) = {}
<1>1. IsFiniteSet(Ref(f, b))
  BY FS_Subset DEF Finite, Ref
<1> QED
  BY <1>1, FS_CardinalityType, FS_EmptySet DEF Refs

\* Making q refer to v adds a pointer to v and takes one from what q referred to.
LEMMA Repoint ==
    ASSUME Finite, NEW f \in Assignments, NEW q \in Pointers, NEW v \in Blocks \union {Null},
           NEW b \in Blocks
    PROVE  Refs([f EXCEPT ![q] = v], b) = Refs(f, b) + Is(b, v) - Is(b, f[q])
<1> DEFINE g == [f EXCEPT ![q] = v]
<1>1. IsFiniteSet(Ref(f, b)) /\ Refs(f, b) \in Nat
  BY RefsType
<1>2. CASE b = v /\ b = f[q]
  <2>1. Ref(g, b) = Ref(f, b)
    BY <1>2 DEF Ref, Assignments
  <2> QED
    BY <1>1, <1>2, <2>1 DEF Refs, Is
<1>3. CASE b # v /\ b # f[q]
  <2>1. Ref(g, b) = Ref(f, b)
    BY <1>3 DEF Ref, Assignments
  <2> QED
    BY <1>1, <1>3, <2>1 DEF Refs, Is
<1>4. CASE b = v /\ b # f[q]
  <2>1. Ref(g, b) = Ref(f, b) \union {q} /\ q \notin Ref(f, b)
    BY <1>4 DEF Ref, Assignments
  <2>2. Cardinality(Ref(g, b)) = Cardinality(Ref(f, b)) + 1
    BY <1>1, <2>1, FS_AddElement, Zenon
  <2> QED
    BY <1>1, <1>4, <2>2 DEF Refs, Is
<1>5. CASE b # v /\ b = f[q]
  <2>1. Ref(g, b) = Ref(f, b) \ {q} /\ q \in Ref(f, b)
    BY <1>5 DEF Ref, Assignments
  <2>2. Cardinality(Ref(f, b) \ {q}) = Cardinality(Ref(f, b)) - 1
    <3> HIDE DEF g
    <3> QED
      BY <1>1, <2>1, FS_RemoveElement, Zenon
  <2>3. Cardinality(Ref(g, b)) = Cardinality(Ref(f, b)) - 1
    <3> HIDE DEF g
    <3> QED
      BY <2>1, <2>2
  <2> QED
    BY <1>1, <1>5, <2>3 DEF Refs, Is
<1> QED
  BY <1>2, <1>3, <1>4, <1>5

\* What the invariant says of a pointer that refers to a block: it is counted.
LEMMA CountedPointer ==
    ASSUME Finite, IInv, NEW p \in Pointers, ptr[p] # Null
    PROVE  ptr[p] \in Blocks /\ count[ptr[p]] \in Nat /\ count[ptr[p]] > 0 /\ life[ptr[p]] = "live"
<1>1. ptr[p] \in Blocks /\ count[ptr[p]] \in Nat
  BY DEF IInv, TypeOK
<1>2. p \in Ref(ptr, ptr[p])
  BY DEF Ref
<1>3. Refs(ptr, ptr[p]) \in Nat /\ Refs(ptr, ptr[p]) # 0
  BY <1>2, RefsType DEF IInv, TypeOK, Assignments
<1>4. count[ptr[p]] = Refs(ptr, ptr[p])
  BY <1>1 DEF IInv, CountExact, Referring, Refs, Ref
<1> QED
  BY <1>1, <1>3, <1>4 DEF IInv, FreedWithLast

\* The counts follow when one pointer q is made to refer to v.
LEMMA RepointCount ==
    ASSUME Finite, IInv, NEW q \in Pointers, NEW v \in Blocks \union {Null},
           ptr' = [ptr EXCEPT ![q] = v],
           \A b \in Blocks : count'[b] = count[b] + Is(b, v) - Is(b, ptr[q])
    PROVE  CountExact'
<1>1. ASSUME NEW b \in Blocks PROVE count'[b] = Cardinality(Referring(b)')
  <2>1. ptr \in Assignments /\ count[b] = Refs(ptr, b)
    BY DEF IInv, TypeOK, CountExact, Assignments, Referring, Refs, Ref
  <2>2. Refs([ptr EXCEPT ![q] = v], b) = Refs(ptr, b) + Is(b, v) - Is(b, ptr[q])
    BY <2>1, Repoint, Zenon
  <2>3. Cardinality(Referring(b)') = Refs([ptr EXCEPT ![q] = v], b)
    BY DEF Referring, Refs, Ref
  <2> QED
    BY <2>1, <2>2, <2>3
<1> QED
  BY <1>1 DEF CountExact

\* They follow when p's block is moved to q.
LEMMA MoveCount ==
    ASSUME Finite, IInv, NEW p \in Pointers, NEW q \in Pointers, p # q,
           ptr' = [ptr EXCEPT ![q] = ptr[p], ![p] = Null],
           \A b \in Blocks : count'[b] = count[b] - Is(b, ptr[q])
    PROVE  CountExact'
<1> DEFINE mid == [ptr EXCEPT ![q] = ptr[p]]
<1>1. ASSUME NEW b \in Blocks PROVE count'[b] = Cardinality(Referring(b)')
  <2>1. ptr \in Assignments /\ count[b] = Refs(ptr, b) /\ count[b] \in Nat
    BY DEF IInv, TypeOK, CountExact, Assignments, Referring, Refs, Ref
  <2>2. mid \in Assignments /\ mid[p] = ptr[p] /\ ptr[p] \in Blocks \union {Null}
    BY <2>1 DEF Assignments
  <2>3. Refs(mid, b) = Refs(ptr, b) + Is(b, ptr[p]) - Is(b, ptr[q])
    BY <2>1, <2>2, Repoint
  <2>4. Refs([mid EXCEPT ![p] = Null], b) = Refs(mid, b) + Is(b, Null) - Is(b, ptr[p])
    <3> HIDE DEF mid
    <3>1. Null \in Blocks \union {Null}
      OBVIOUS
    <3> QED
      BY <2>2, <3>1, Repoint
  <2>5. Is(b, Null) = 0
    BY DEF Is, Finite
  <2>6. ptr' = [mid EXCEPT ![p] = Null]
    OBVIOUS
  <2>7. Cardinality(Referring(b)') = Refs([mid EXCEPT ![p] = Null], b)
    BY <2>6 DEF Referring, Refs, Ref
  <2>8. Is(b, ptr[p]) \in Nat /\ Is(b, ptr[q]) \in Nat
    BY DEF Is
  <2> QED
    BY <2>1, <2>3, <2>4, <2>5, <2>7, <2>8
<1> QED
  BY <1>1 DEF CountExact

\* Each operation preserves the invariant, one step per action.
LEMMA PtrStep ==
    ASSUME Finite, IInv, Next
    PROVE  IInv'
<1> USE DEF Is
<1>1. ASSUME NEW p \in Pointers, NEW b \in Blocks, Make(p, b) PROVE IInv'
  <2>1. ptr[p] = Null /\ life[b] = "none" /\ count[b] = 0
    BY <1>1 DEF Make, IInv, TypeOK, FreedWithLast
  <2>2. TypeOK'
    BY <1>1 DEF Make, IInv, TypeOK
  <2>3. CountExact'
    <3>1. \A c \in Blocks : count'[c] = count[c] + Is(c, b) - Is(c, ptr[p])
      BY <1>1, <2>1 DEF Make, IInv, TypeOK, Finite
    <3>2. ptr' = [ptr EXCEPT ![p] = b] /\ b \in Blocks \union {Null}
      BY <1>1 DEF Make
    <3> HIDE DEF Is
    <3> QED
      BY <3>1, <3>2, RepointCount, Zenon
  <2>4. FreedWithLast'
    BY <1>1, <2>1 DEF Make, IInv, TypeOK, FreedWithLast
  <2> QED
    BY <2>2, <2>3, <2>4 DEF IInv
<1>2. ASSUME NEW q \in Pointers, NEW b \in Blocks \union {Null}, ptr[q] = Null,
             b # Null => life[b] = "live", Acquire(q, b)
      PROVE  IInv'
  <2>1. TypeOK'
    BY <1>2 DEF Acquire, IInv, TypeOK
  <2>2. CountExact'
    <3>1. \A c \in Blocks : count'[c] = count[c] + Is(c, b) - Is(c, ptr[q])
      BY <1>2 DEF Acquire, IInv, TypeOK, Finite
    <3> HIDE DEF Is
    <3> QED
      BY <1>2, <3>1, RepointCount, Zenon DEF Acquire
  <2>3. FreedWithLast'
    BY <1>2 DEF Acquire, IInv, TypeOK, FreedWithLast, Finite
  <2> QED
    BY <2>1, <2>2, <2>3 DEF IInv
<1>3. ASSUME NEW p \in Pointers, NEW q \in Pointers, CopyTo(p, q) PROVE IInv'
  <2>1. ptr[p] \in Blocks \union {Null} /\ (ptr[p] # Null => life[ptr[p]] = "live")
    BY CountedPointer DEF IInv, TypeOK
  <2> QED
    BY <1>2, <1>3, <2>1 DEF CopyTo
<1>4. ASSUME NEW q \in Pointers, NEW b \in Blocks, FromThis(q, b) PROVE IInv'
  BY <1>2, <1>4 DEF FromThis
<1>5. ASSUME NEW p \in Pointers, NEW q \in Pointers, MoveTo(p, q) PROVE IInv'
  <2>1. TypeOK' /\ FreedWithLast'
    BY <1>5 DEF MoveTo, IInv, TypeOK, FreedWithLast
  <2>2. CountExact'
    <3>1. \A c \in Blocks : count'[c] = count[c] - Is(c, ptr[q])
      BY <1>5 DEF MoveTo, IInv, TypeOK, Finite
    <3> QED
      BY <1>5, <3>1, MoveCount, Zenon DEF MoveTo
  <2> QED
    BY <2>1, <2>2 DEF IInv
<1>6. ASSUME NEW q \in Pointers, Destroy(q) PROVE IInv'
  <2>1. ptr[q] \in Blocks /\ count[ptr[q]] > 0
    BY <1>6, CountedPointer DEF Destroy
  <2>2. TypeOK' /\ FreedWithLast'
    BY <1>6, <2>1 DEF Destroy, Frees, IInv, TypeOK, FreedWithLast
  <2>3. CountExact'
    <3>1. \A c \in Blocks : count'[c] = count[c] + Is(c, Null) - Is(c, ptr[q])
      BY <1>6, <2>1 DEF Destroy, IInv, TypeOK, Finite
    <3>2. ptr' = [ptr EXCEPT ![q] = Null] /\ Null \in Blocks \union {Null}
      BY <1>6 DEF Destroy
    <3> QED
      BY <3>1, <3>2, RepointCount
  <2> QED
    BY <2>2, <2>3 DEF IInv
<1>7. ASSUME NEW p \in Pointers, NEW q \in Pointers, CopyAssign(p, q) PROVE IInv'
  <2>1. CASE ptr[q] = Null
    BY <1>3, <1>7, <2>1 DEF CopyAssign
  <2>2. CASE ptr[q] # Null /\ (p = q \/ ptr[p] = Null)
    BY <1>6, <1>7, <2>2 DEF CopyAssign
  <2>3. CASE ptr[q] # Null /\ p # q /\ ptr[p] # Null
    <3>1. /\ ptr[q] \in Blocks /\ count[ptr[q]] > 0 /\ life[ptr[q]] = "live"
          /\ ptr[p] \in Blocks /\ count[ptr[p]] > 0 /\ life[ptr[p]] = "live"
      BY <2>3, CountedPointer
    <3>2. TypeOK'
      BY <1>7, <2>3, <3>1 DEF CopyAssign, Frees, IInv, TypeOK
    <3>3. FreedWithLast'
      BY <1>7, <2>3, <3>1 DEF CopyAssign, Frees, IInv, TypeOK, FreedWithLast
    <3>4. CountExact'
      <4>1. \A c \in Blocks : count'[c] = count[c] + Is(c, ptr[p]) - Is(c, ptr[q])
        BY <1>7, <2>3, <3>1 DEF CopyAssign, IInv, TypeOK
      <4>2. ptr' = [ptr EXCEPT ![q] = ptr[p]] /\ ptr[p] \in Blocks \union {Null}
        BY <1>7, <2>3, <3>1 DEF CopyAssign
      <4> QED
        BY <4>1, <4>2, RepointCount
    <3> QED
      BY <3>2, <3>3, <3>4 DEF IInv
  <2> QED
    BY <2>1, <2>2, <2>3
<1>8. ASSUME NEW p \in Pointers, NEW q \in Pointers, MoveAssign(p, q) PROVE IInv'
  <2>1. CASE ptr[q] = Null
    BY <1>5, <1>8, <2>1 DEF MoveAssign
  <2>2. CASE ptr[q] # Null /\ (p = q \/ ptr[p] = Null)
    BY <1>6, <1>8, <2>2 DEF MoveAssign
  <2>3. CASE ptr[q] # Null /\ p # q /\ ptr[p] # Null
    <3>1. ptr[q] \in Blocks /\ count[ptr[q]] > 0
      BY <2>3, CountedPointer
    <3>2. TypeOK' /\ FreedWithLast'
      BY <1>8, <2>3, <3>1 DEF MoveAssign, Frees, IInv, TypeOK, FreedWithLast
    <3>3. CountExact'
      <4>1. \A c \in Blocks : count'[c] = count[c] - Is(c, ptr[q])
        BY <1>8, <2>3, <3>1 DEF MoveAssign, IInv, TypeOK
      <4> QED
        BY <1>8, <2>3, <4>1, MoveCount DEF MoveAssign
    <3> QED
      BY <3>2, <3>3 DEF IInv
  <2> QED
    BY <2>1, <2>2, <2>3
<1> QED
  BY <1>1, <1>3, <1>4, <1>5, <1>6, <1>7, <1>8 DEF Next

\* After every sequence of copies, moves, assignments (self-assignment too) and
\* destructions, m_ref_count is the number of pointers to the block, and free()
\* has run exactly for the blocks whose last pointer is gone.
THEOREM PointersCounted ==
    ASSUME Finite
    PROVE  Spec => [](CountExact /\ FreedWithLast)
<1>1. Init => IInv
  <2> SUFFICES ASSUME Init PROVE IInv
    OBVIOUS
  <2>1. TypeOK /\ FreedWithLast
    BY DEF Init, TypeOK, FreedWithLast
  <2>2. ASSUME NEW b \in Blocks PROVE Cardinality(Referring(b)) = 0
    <3>1. Referring(b) = {}
      BY DEF Init, Referring, Finite
    <3> QED
      BY <3>1, FS_EmptySet
  <2>3. CountExact
    BY <2>2 DEF Init, CountExact
  <2> QED
    BY <2>1, <2>3 DEF IInv
<1>2. IInv /\ [Next]_vars => IInv'
  <2>1. ASSUME IInv, UNCHANGED vars PROVE IInv'
    BY <2>1 DEF vars, IInv, TypeOK, CountExact, FreedWithLast, Referring
  <2> QED
    BY <2>1, PtrStep
<1>3. IInv => CountExact /\ FreedWithLast
  BY DEF IInv
<1> QED
  BY <1>1, <1>2, <1>3, PTL DEF Spec
=============================================================================
