--------------------------- MODULE SequenceLemmas ---------------------------
(***************************************************************************)
(* Sequences without repetitions, which the queues of requests and the     *)
(* stacks of calls are: what they hold when an element is added or taken.  *)
(***************************************************************************)
EXTENDS Integers, Sequences, Functions, TLAPS

\* A sequence that grows by a new element at its end.
LEMMA AppendNew ==
    ASSUME NEW S, NEW s \in Seq(S), NEW x \in S, IsInjective(s), x \notin Range(s)
    PROVE  /\ Append(s, x) \in Seq(S)
           /\ IsInjective(Append(s, x))
           /\ Range(Append(s, x)) = Range(s) \cup {x}
<1>1. /\ Append(s, x) \in Seq(S) /\ Len(s) \in Nat
      /\ DOMAIN s = 1..Len(s) /\ DOMAIN Append(s, x) = 1..(Len(s) + 1)
      /\ \A i \in 1..(Len(s) + 1) : Append(s, x)[i] = IF i = Len(s) + 1 THEN x ELSE s[i]
  OBVIOUS
<1>2. IsInjective(Append(s, x))
  BY <1>1 DEF IsInjective, Range
<1>3. Range(Append(s, x)) = Range(s) \cup {x}
  BY <1>1 DEF Range
<1> QED
  BY <1>1, <1>2, <1>3

\* A sequence that grows by a new element at its front.
LEMMA PushNew ==
    ASSUME NEW S, NEW s \in Seq(S), NEW x \in S, IsInjective(s), x \notin Range(s)
    PROVE  /\ <<x>> \o s \in Seq(S) /\ <<x>> \o s # <<>>
           /\ Head(<<x>> \o s) = x /\ Tail(<<x>> \o s) = s
           /\ IsInjective(<<x>> \o s)
           /\ Range(<<x>> \o s) = Range(s) \cup {x}
<1>1. /\ <<x>> \o s \in Seq(S) /\ Len(s) \in Nat
      /\ DOMAIN s = 1..Len(s) /\ DOMAIN (<<x>> \o s) = 1..(Len(s) + 1)
      /\ \A i \in 1..(Len(s) + 1) : (<<x>> \o s)[i] = IF i = 1 THEN x ELSE s[i - 1]
  OBVIOUS
<1>2. IsInjective(<<x>> \o s)
  BY <1>1 DEF IsInjective, Range
<1>3. Range(<<x>> \o s) = Range(s) \cup {x}
  <2>1. \A i \in DOMAIN s : i + 1 \in 1..(Len(s) + 1) /\ (<<x>> \o s)[i + 1] = s[i]
    BY <1>1
  <2>2. 1 \in 1..(Len(s) + 1)
    BY <1>1
  <2>3. Range(<<x>> \o s) \subseteq Range(s) \cup {x}
    BY <1>1 DEF Range
  <2>4. ASSUME NEW i \in DOMAIN s PROVE s[i] \in Range(<<x>> \o s)
    <3>1. i + 1 \in DOMAIN (<<x>> \o s) /\ (<<x>> \o s)[i + 1] = s[i]
      BY <1>1, <2>1
    <3> QED
      BY <3>1 DEF Range
  <2>5. x \in Range(<<x>> \o s)
    BY <1>1, <2>2 DEF Range
  <2> QED
    BY <2>3, <2>4, <2>5 DEF Range
<1> QED
  BY <1>1, <1>2, <1>3

\* A sequence that loses its first element.
LEMMA TailRest ==
    ASSUME NEW S, NEW s \in Seq(S), s # <<>>, IsInjective(s)
    PROVE  /\ Head(s) \in S /\ Head(s) \in Range(s)
           /\ Tail(s) \in Seq(S)
           /\ IsInjective(Tail(s))
           /\ Range(Tail(s)) = Range(s) \ {Head(s)}
<1>1. /\ Head(s) \in S /\ Tail(s) \in Seq(S) /\ Len(s) \in Nat \ {0} /\ Head(s) = s[1]
      /\ DOMAIN s = 1..Len(s) /\ DOMAIN Tail(s) = 1..(Len(s) - 1)
      /\ \A i \in 1..(Len(s) - 1) : Tail(s)[i] = s[i + 1]
  OBVIOUS
<1>2. IsInjective(Tail(s))
  BY <1>1 DEF IsInjective
<1>3. Range(Tail(s)) = Range(s) \ {Head(s)}
  <2>1. \A i \in DOMAIN s \ {1} : i - 1 \in 1..(Len(s) - 1) /\ Tail(s)[i - 1] = s[i] /\ s[i] # s[1]
    BY <1>1 DEF IsInjective
  <2>2. \A i \in 1..(Len(s) - 1) : i + 1 \in DOMAIN s \ {1}
    BY <1>1
  <2>3. Range(Tail(s)) \subseteq Range(s) \ {Head(s)}
    BY <1>1, <2>1, <2>2 DEF Range, IsInjective
  <2>4. ASSUME NEW i \in DOMAIN s, s[i] # Head(s) PROVE s[i] \in Range(Tail(s))
    <3>1. i - 1 \in DOMAIN Tail(s) /\ Tail(s)[i - 1] = s[i]
      BY <1>1, <2>1, <2>4
    <3> QED
      BY <3>1 DEF Range
  <2> QED
    BY <2>3, <2>4 DEF Range
<1> QED
  BY <1>1, <1>2, <1>3 DEF Range

\* The last element goes: the pop of a stack.
LEMMA FrontRest ==
    ASSUME NEW S, NEW s \in Seq(S), s # <<>>, IsInjective(s)
    PROVE  /\ s[Len(s)] \in S /\ s[Len(s)] \in Range(s)
           /\ SubSeq(s, 1, Len(s) - 1) \in Seq(S)
           /\ IsInjective(SubSeq(s, 1, Len(s) - 1))
           /\ Range(SubSeq(s, 1, Len(s) - 1)) = Range(s) \ {s[Len(s)]}
<1> DEFINE l == s[Len(s)]
           t == SubSeq(s, 1, Len(s) - 1)
<1>1. /\ Len(s) \in Nat \ {0} /\ DOMAIN s = 1..Len(s)
      /\ t \in Seq(S) /\ DOMAIN t = 1..(Len(s) - 1)
      /\ \A i \in 1..(Len(s) - 1) : t[i] = s[i]
  OBVIOUS
<1>2. l \in S
  BY <1>1
<1> HIDE DEF t
<1>3. IsInjective(t)
  BY <1>1 DEF IsInjective
<1>4. ASSUME NEW i \in DOMAIN t PROVE t[i] \in Range(s) \ {l}
  BY <1>1, <1>2 DEF Range, IsInjective
<1>5. ASSUME NEW i \in DOMAIN s, s[i] # l PROVE s[i] \in Range(t)
  <2>1. i \in DOMAIN t /\ t[i] = s[i]
    BY <1>1, <1>2, <1>5
  <2> QED
    BY <2>1 DEF Range
<1>6. Range(t) = Range(s) \ {l}
  BY <1>4, <1>5 DEF Range
<1>7. l \in Range(s)
  BY <1>1 DEF Range
<1> QED
  BY <1>1, <1>2, <1>3, <1>6, <1>7 DEF t

\* The element at k goes, and what was before it moves to the end.
LEMMA RotateRest ==
    ASSUME NEW S, NEW s \in Seq(S), NEW k \in DOMAIN s, IsInjective(s)
    PROVE  LET t == SubSeq(s, k + 1, Len(s)) \o SubSeq(s, 1, k - 1)
           IN  t \in Seq(S) /\ IsInjective(t) /\ Range(t) = Range(s) \ {s[k]}
<1> DEFINE a == SubSeq(s, k + 1, Len(s))
           b == SubSeq(s, 1, k - 1)
           t == a \o b
           n == Len(s) - k
<1>1. Len(s) \in Nat /\ DOMAIN s = 1..Len(s) /\ k \in 1..Len(s) /\ n \in Nat
  OBVIOUS
<1>2. a \in Seq(S) /\ Len(a) = n /\ \A i \in 1..n : a[i] = s[k + i]
  BY <1>1
<1>3. b \in Seq(S) /\ Len(b) = k - 1 /\ \A i \in 1..(k - 1) : b[i] = s[i]
  BY <1>1
<1> HIDE DEF a, b
<1>4. /\ t \in Seq(S) /\ DOMAIN t = 1..(Len(s) - 1)
      /\ \A i \in 1..(Len(s) - 1) : t[i] = IF i <= n THEN s[k + i] ELSE s[i - n]
  <2>1. t \in Seq(S) /\ Len(t) = n + (k - 1) /\ t = a \o b
    BY <1>1, <1>2, <1>3
  <2>0. \A i \in 1..(Len(a) + Len(b)) : t[i] = IF i <= Len(a) THEN a[i] ELSE b[i - Len(a)]
    BY <1>2, <1>3
  <2> HIDE DEF t
  <2>2. Len(t) = Len(s) - 1 /\ DOMAIN t = 1..(Len(s) - 1)
    <3>1. n + (k - 1) = Len(s) - 1
      BY <1>1
    <3>2. DOMAIN t = 1..Len(t)
      BY <2>1
    <3> QED
      BY <2>1, <3>1, <3>2
  <2>3. ASSUME NEW i \in 1..(Len(s) - 1)
        PROVE  t[i] = IF i <= n THEN s[k + i] ELSE s[i - n]
    <3>1. t[i] = IF i <= Len(a) THEN a[i] ELSE b[i - Len(a)]
      BY <1>1, <1>2, <1>3, <2>0
    <3>2. i <= n => a[i] = s[k + i]
      BY <1>1, <1>2
    <3>3. ~(i <= n) => (i - n) \in 1..(k - 1)
      BY <1>1
    <3> QED
      BY <1>2, <1>3, <3>1, <3>2, <3>3
  <2> QED
    BY <2>1, <2>2, <2>3
<1> DEFINE At(i) == IF i <= n THEN k + i ELSE i - n
<1>5. \A i \in DOMAIN t : t[i] = s[At(i)] /\ At(i) \in DOMAIN s /\ At(i) # k
  <2> SUFFICES ASSUME NEW i \in 1..(Len(s) - 1)
               PROVE  t[i] = s[At(i)] /\ At(i) \in 1..Len(s) /\ At(i) # k
    BY <1>1, <1>4
  <2>1. At(i) \in 1..Len(s) /\ At(i) # k
    BY <1>1
  <2>2. t[i] = s[At(i)]
    BY <1>4
  <2> QED
    BY <2>1, <2>2
<1>6. \A i, j \in DOMAIN t : At(i) = At(j) => i = j
  <2> SUFFICES ASSUME NEW i \in 1..(Len(s) - 1), NEW j \in 1..(Len(s) - 1), At(i) = At(j)
               PROVE  i = j
    BY <1>4
  <2> QED
    BY <1>1
<1>7. \A j \in DOMAIN s : j # k => \E i \in DOMAIN t : At(i) = j
  <2> SUFFICES ASSUME NEW j \in 1..Len(s), j # k PROVE \E i \in 1..(Len(s) - 1) : At(i) = j
    BY <1>1, <1>4
  <2>1. CASE j > k
    <3>1. (j - k) \in 1..(Len(s) - 1) /\ At(j - k) = j
      BY <1>1, <2>1
    <3> QED
      BY <3>1
  <2>2. CASE j < k
    <3>1. (j + n) \in 1..(Len(s) - 1) /\ At(j + n) = j
      BY <1>1, <2>2
    <3> QED
      BY <3>1
  <2> QED
    BY <1>1, <2>1, <2>2
<1> HIDE DEF t, At
<1>8. IsInjective(t)
  BY <1>5, <1>6 DEF IsInjective
<1>9. ASSUME NEW i \in DOMAIN t PROVE t[i] \in Range(s) \ {s[k]}
  BY <1>5 DEF Range, IsInjective
<1>10. ASSUME NEW j \in DOMAIN s, s[j] # s[k] PROVE s[j] \in Range(t)
  BY <1>5, <1>7, <1>10 DEF Range
<1>11. Range(t) = Range(s) \ {s[k]}
  BY <1>9, <1>10 DEF Range
<1> QED
  BY <1>4, <1>8, <1>11 DEF t, a, b

\* What is in a sequence over S is in S, and something is when it is not empty.
LEMMA RangeInSet ==
    ASSUME NEW S, NEW s \in Seq(S)
    PROVE  Range(s) \subseteq S /\ (s # <<>> <=> Range(s) # {})
<1>1. DOMAIN s = 1..Len(s) /\ Len(s) \in Nat /\ \A i \in 1..Len(s) : s[i] \in S
  OBVIOUS
<1>2. s # <<>> <=> Len(s) # 0
  OBVIOUS
<1>3. Len(s) # 0 <=> 1..Len(s) # {}
  <2>1. Len(s) # 0 => 1 \in 1..Len(s)
    BY <1>1
  <2> QED
    BY <1>1, <2>1
<1> QED
  BY <1>1, <1>2, <1>3 DEF Range
=============================================================================
