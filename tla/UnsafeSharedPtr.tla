-------------------------- MODULE UnsafeSharedPtr --------------------------
(***************************************************************************)
(* include/oomph/util/unsafe_shared_ptr.hpp: the reference counted pointer *)
(* of one thread that owns the states of requests.  Pointers are the       *)
(* pointer variables of the program, Blocks the control blocks it may      *)
(* allocate, each once.                                                    *)
(***************************************************************************)
EXTENDS Naturals, FiniteSets

CONSTANTS Pointers, Blocks, Null

VARIABLES ptr,      \* ptr[p]: the block p refers to, or Null
          count,    \* count[b]: m_ref_count
          life      \* life[b]: "none", "live" or "freed"

vars == <<ptr, count, life>>

Init ==
    /\ ptr = [p \in Pointers |-> Null]
    /\ count = [b \in Blocks |-> 0]
    /\ life = [b \in Blocks |-> "none"]

\* The allocating constructor, used by make_shared and allocate_shared.
Make(p, b) ==
    /\ ptr[p] = Null /\ life[b] = "none"
    /\ ptr' = [ptr EXCEPT ![p] = b]
    /\ count' = [count EXCEPT ![b] = 1]
    /\ life' = [life EXCEPT ![b] = "live"]

\* m = b; if (m) ++m->m_ref_count
Acquire(q, b) ==
    /\ ptr' = [ptr EXCEPT ![q] = b]
    /\ count' = [c \in Blocks |-> IF c = b THEN count[c] + 1 ELSE count[c]]
    /\ UNCHANGED life

\* The copy constructor of q from p.
CopyTo(p, q) == ptr[q] = Null /\ Acquire(q, ptr[p])

\* enable_shared_from_this::shared_from_this, called on a live object.
FromThis(q, b) == ptr[q] = Null /\ life[b] = "live" /\ Acquire(q, b)

\* The move constructor of q from p.
MoveTo(p, q) ==
    /\ p # q /\ ptr[q] = Null
    /\ ptr' = [ptr EXCEPT ![q] = ptr[p], ![p] = Null]
    /\ UNCHANGED <<count, life>>

\* Mutant: the count is compared before it is decremented.
FreesLate(b) == count[b] = 0

\* if (--m->m_ref_count == 0) m->free()
Frees(b) == count[b] = 1

\* destroy(), which leaves q empty: the destructor.
Destroy(q) ==
    /\ ptr[q] # Null
    /\ ptr' = [ptr EXCEPT ![q] = Null]
    /\ count' = [count EXCEPT ![ptr[q]] = @ - 1]
    /\ life' = [life EXCEPT ![ptr[q]] = IF Frees(ptr[q]) THEN "freed" ELSE @]

\* Copy assignment q = p: destroy() and then the copy, which for p = q copies
\* the pointer that destroy() has just emptied.
CopyAssign(p, q) ==
    IF ptr[q] = Null THEN CopyTo(p, q)
    ELSE IF p = q \/ ptr[p] = Null THEN Destroy(q)
    ELSE /\ ptr' = [ptr EXCEPT ![q] = ptr[p]]
         /\ count' = [b \in Blocks |-> IF ptr[p] = ptr[q] THEN count[b]
                                       ELSE IF b = ptr[p] THEN count[b] + 1
                                       ELSE IF b = ptr[q] THEN count[b] - 1 ELSE count[b]]
         /\ life' = [life EXCEPT ![ptr[q]] = IF Frees(ptr[q]) /\ ptr[p] # ptr[q] THEN "freed" ELSE @]

\* Move assignment q = std::move(p): destroy() and then the exchange.
MoveAssign(p, q) ==
    IF ptr[q] = Null THEN MoveTo(p, q)
    ELSE IF p = q \/ ptr[p] = Null THEN Destroy(q)
    ELSE /\ ptr' = [ptr EXCEPT ![q] = ptr[p], ![p] = Null]
         /\ count' = [count EXCEPT ![ptr[q]] = @ - 1]
         /\ life' = [life EXCEPT ![ptr[q]] = IF Frees(ptr[q]) THEN "freed" ELSE @]

Next ==
    \/ \E p \in Pointers, b \in Blocks : Make(p, b) \/ FromThis(p, b)
    \/ \E p, q \in Pointers :
        CopyTo(p, q) \/ MoveTo(p, q) \/ CopyAssign(p, q) \/ MoveAssign(p, q)
    \/ \E q \in Pointers : Destroy(q)

Spec == Init /\ [][Next]_vars

----------------------------------------------------------------------------
TypeOK ==
    /\ ptr \in [Pointers -> Blocks \union {Null}]
    /\ count \in [Blocks -> Nat]
    /\ life \in [Blocks -> {"none", "live", "freed"}]

Referring(b) == {p \in Pointers : ptr[p] = b}

\* m_ref_count is the number of pointers to the block, after every sequence of
\* copies, moves and assignments (self-assignment included).
CountExact == \A b \in Blocks : count[b] = Cardinality(Referring(b))

\* An object is freed exactly when the last pointer to it is gone: none is left
\* to a freed object, and none that is live is without a pointer.
FreedWithLast == \A b \in Blocks : life[b] = "live" <=> count[b] > 0
=============================================================================
