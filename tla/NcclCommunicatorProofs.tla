---------------------- MODULE NcclCommunicatorProofs ----------------------
(***************************************************************************)
(* The NCCL backend, proved for any communicators, requests, streams and   *)
(* pool of events, and any depth of nested calls: EventsExclusive and the  *)
(* refinement of RequestLifecycle whatever the user does, NotReadyEarly    *)
(* for users that keep the discipline of groups.                           *)
(*                                                                         *)
(* A frame of the stack is named by its height above the bottom, which no  *)
(* later call changes.  The inductive invariant says that every request    *)
(* that is posted and not ready is in one place, a queue or a frame; that  *)
(* nothing in the pool has an owner; and, under the discipline, that only  *)
(* the operations of the one active group own its event, that every other  *)
(* operation is waited for by the record of its own event, and that what a *)
(* frame has found is done.                                                *)
(***************************************************************************)
EXTENDS NcclCommunicator, SequenceLemmas, WellFoundedInduction

----------------------------------------------------------------------------
(* The inductive invariant.                                                *)

\* The calls that the stack may hold: of progress, which has found nothing
\* while it is about to look, and of a callback.
Progressing == {p \in [f : {"look", "found"}, c : Comms \cup {None}, q : {"send", "recv", "shared"},
                       left : Seq(Requests)] :
                    /\ p.q # "shared" => p.c \in Comms
                    /\ p.f = "look" => p.left = <<>>}

Frames == Progressing \cup [f : {"callback"}, r : Requests]

Types ==
    /\ TypeOK
    /\ m_group_info \in [Comms -> GroupInfo \cup {None}]
    /\ inflight \subseteq SUBSET Requests
    /\ deferred \subseteq posted
    /\ waits \in [Events -> SUBSET Requests]
    /\ pool \in Seq(Events) /\ fresh \subseteq Events
    /\ \A r \in posted : m_event[r] \in Events
    /\ m_self_ptr = posted \ m_ready
    /\ queue \in [Comms -> [{"send", "recv"} -> Seq(Requests)]]
    /\ m_req_queue \in Seq(Requests)
    /\ stack \in Seq(Frames)

\* The element at height j of a stack.
At(s, j) == s[Len(s) + 1 - j]

\* The heights at which request r is in its callback, and those at which it is
\* found and not yet called.
Heights == 1..Len(stack)
CallsOf(r) == {j \in Heights : At(stack, j).f = "callback" /\ At(stack, j).r = r}
LeftOf(r) == {j \in Heights : At(stack, j).f # "callback" /\ r \in Range(At(stack, j).left)}
Inside(r) == CallsOf(r) \cup LeftOf(r)

LeftOnce == \A j \in Heights : At(stack, j).f # "callback" => IsInjective(At(stack, j).left)

Waiting(r) == IF r \in SharedRecvs THEN r \in Range(m_req_queue)
                                   ELSE r \in Range(queue[PostedOn[r]][QueueOf(r)])

Queued ==
    /\ IsInjective(m_req_queue) /\ Range(m_req_queue) \subseteq SharedRecvs
    /\ \A c \in Comms, q \in {"send", "recv"} :
        /\ IsInjective(queue[c][q])
        /\ \A r \in Range(queue[c][q]) : r \notin SharedRecvs /\ PostedOn[r] = c /\ QueueOf(r) = q

\* Where the requests that are posted and not ready are: each in one place.
Placed ==
    \A r \in Requests :
        /\ r \in m_self_ptr <=> Waiting(r) \/ Inside(r) # {}
        /\ Inside(r) # {} => ~Waiting(r)
        /\ \A j, k \in Inside(r) : j = k

\* No event that can be popped has an owner.
Unowned(e) ==
    /\ \A r \in m_self_ptr \cup handle : m_event[r] # e
    /\ \A c \in Active : m_group_info[c].event # e

Pooled ==
    /\ IsInjective(pool)
    /\ Range(pool) \cap fresh = {}
    /\ \A e \in Range(pool) \cup fresh : Unowned(e)

IInv == Types /\ LeftOnce /\ Queued /\ Placed /\ Pooled

\* What the discipline of groups adds.
Grouped ==
    /\ Active # {} /\ stack # <<>> => Head(stack).f = "callback"
    /\ \A c, d \in Active : c = d
    /\ deferred # {} => \E c \in Active, r \in deferred : m_group_info[c].last = StreamOf[r]
    /\ \A c \in Active :
        /\ \A r \in deferred : m_event[r] = m_group_info[c].event
        /\ \A r \in m_self_ptr \cup handle : m_event[r] = m_group_info[c].event => r \in deferred

Recorded == \A r \in m_self_ptr \ deferred : r \in waits[m_event[r]]

Completed == \A r \in Requests : r \in m_ready \/ Inside(r) # {} => r \in done

DInv == Grouped /\ Recorded /\ Completed

----------------------------------------------------------------------------
(* Sequences.                                                              *)

\* The least-number principle, for proofs by induction: of a set of numbers
\* for which a fact fails, the least one is taken.
LEMMA LeastNat ==
    ASSUME NEW T \in SUBSET Nat, T # {}
    PROVE  \E n \in T : \A m \in T : n <= m
<1> DEFINE R == OpToRel(<, Nat)
<1>1. IsWellFoundedOn(R, Nat)
  BY NatLessThanWellFounded, Zenon
<1>2. \A m, n \in Nat : m < n => <<m, n>> \in R
  BY Zenon DEF OpToRel
<1> HIDE DEF R
<1>3. PICK n \in T : \A m \in T : ~(<<m, n>> \in R)
  BY <1>1, WFMin, Zenon
<1>4. \A m \in T : m \in Nat /\ n \in Nat
  BY Zenon
<1>5. \A m \in T : ~(m < n)
  BY <1>2, <1>3, <1>4, Zenon
<1>6. \A m \in T : n <= m
  BY <1>4, <1>5
<1> QED
  BY <1>6, Zenon

\* The recursion of Only has a solution.
LEMMA OnlyRecursion ==
    ASSUME NEW D, NEW s \in Seq(D), NEW S
    PROVE  \E g : /\ g = [i \in 0..Len(s) |->
                            IF i = 0 THEN <<>>
                            ELSE IF s[i] \in S THEN Append(g[i - 1], s[i]) ELSE g[i - 1]]
                  /\ Only(s, S) = g[Len(s)]
<1> DEFINE Step(x, i) == IF s[i] \in S THEN Append(x, s[i]) ELSE x
           Sol(g, n) == g = [i \in 0..n |-> IF i = 0 THEN <<>> ELSE Step(g[i - 1], i)]
           Bad == {n \in Nat : ~ \E g : Sol(g, n)}
<1>1. Bad = {}
  <2> SUFFICES ASSUME Bad # {} PROVE FALSE
    BY Zenon
  <2>1. PICK n \in Bad : \A m \in Bad : n <= m
    BY LeastNat, Zenon
  <2>2. CASE n = 0
    <3>1. Sol([i \in 0..n |-> <<>>], n)
      BY <2>2
    <3> QED
      BY <2>1, <3>1, Zenon
  <2>3. CASE n # 0
    <3>0. n \in Nat /\ n - 1 \in Nat /\ ~(n <= n - 1)
      BY <2>1, <2>3
    <3>1. PICK g : Sol(g, n - 1)
      <4>1. n - 1 \notin Bad
        BY <2>1, <3>0, Zenon
      <4> HIDE DEF Sol
      <4> QED
        BY <3>0, <4>1, Zenon
    <3> DEFINE h == [i \in 0..n |-> IF i = n THEN Step(g[n - 1], n) ELSE g[i]]
    <3> HIDE DEF Step
    <3>2. ASSUME NEW i \in 0..n PROVE h[i] = IF i = 0 THEN <<>> ELSE Step(h[i - 1], i)
      BY <2>1, <2>3, <3>1
    <3>3. Sol(h, n)
      BY <3>2, Zenon
    <3> QED
      BY <2>1, <3>3, Zenon
  <2> QED
    BY <2>2, <2>3, Zenon
<1>2. Len(s) \in Nat
  OBVIOUS
<1>3. PICK g : Sol(g, Len(s))
  BY <1>1, <1>2, Zenon
<1> QED
  BY <1>3, Zenon DEF Only

\* What Only keeps of a sequence that has no element twice.
LEMMA OnlyKeeps ==
    ASSUME NEW D, NEW s \in Seq(D), IsInjective(s), NEW S
    PROVE  /\ Only(s, S) \in Seq(D) /\ IsInjective(Only(s, S))
           /\ Range(Only(s, S)) = Range(s) \cap S
<1>1. PICK g : /\ g = [i \in 0..Len(s) |->
                            IF i = 0 THEN <<>>
                            ELSE IF s[i] \in S THEN Append(g[i - 1], s[i]) ELSE g[i - 1]]
               /\ Only(s, S) = g[Len(s)]
  BY OnlyRecursion, Zenon
<1>2. Len(s) \in Nat /\ DOMAIN s = 1..Len(s) /\ \A i \in 1..Len(s) : s[i] \in D
  OBVIOUS
<1>3. g[0] = <<>>
  BY <1>1, <1>2
<1>4. ASSUME NEW i \in 1..Len(s)
      PROVE  g[i] = IF s[i] \in S THEN Append(g[i - 1], s[i]) ELSE g[i - 1]
  <2> DEFINE E(x, k) == IF k = 0 THEN <<>>
                        ELSE IF s[k] \in S THEN Append(x[k - 1], s[k]) ELSE x[k - 1]
  <2>1. g = [k \in 0..Len(s) |-> E(g, k)]
    BY <1>1, Zenon
  <2>2. i \in 0..Len(s) /\ i # 0
    BY <1>2
  <2> HIDE DEF E
  <2>3. g[i] = E(g, i)
    BY <2>1, <2>2, Zenon
  <2> QED
    BY <2>2, <2>3, Zenon DEF E
<1> DEFINE From(i) == {s[k] : k \in 1..i} \cap S
           Good(i) == g[i] \in Seq(D) /\ IsInjective(g[i]) /\ Range(g[i]) = From(i)
           Bad == {i \in 0..Len(s) : ~Good(i)}
<1>5. Good(0)
  <2>1. 1..0 = {}
    OBVIOUS
  <2> QED
    BY <1>3, <2>1 DEF IsInjective, Range
<1>6. ASSUME NEW i \in 1..Len(s), Good(i - 1) PROVE Good(i)
  <2>1. i \in Nat /\ 1..i = (1..(i - 1)) \cup {i} /\ i \notin 1..(i - 1)
    BY <1>2
  <2>2. From(i) = From(i - 1) \cup ({s[i]} \cap S)
    BY <2>1, Zenon
  <2>3. s[i] \notin Range(g[i - 1])
    <3>1. \A k \in 1..(i - 1) : k \in DOMAIN s /\ k # i
      BY <1>2
    <3> QED
      BY <1>2, <1>6, <3>1, Zenon DEF IsInjective
  <2> HIDE DEF From
  <2>4. CASE s[i] \in S
    <3>1. g[i] = Append(g[i - 1], s[i]) /\ s[i] \in D
      BY <1>2, <1>4, <2>4, Zenon
    <3>2. g[i] \in Seq(D) /\ IsInjective(g[i]) /\ Range(g[i]) = Range(g[i - 1]) \cup {s[i]}
      BY <1>6, <2>3, <3>1, AppendNew
    <3> QED
      BY <1>6, <2>2, <2>4, <3>2, Zenon
  <2>5. CASE s[i] \notin S
    BY <1>4, <1>6, <2>2, <2>5, Zenon
  <2> QED
    BY <2>4, <2>5, Zenon
<1>7. Bad = {}
  <2> SUFFICES ASSUME Bad # {} PROVE FALSE
    BY Zenon
  <2> HIDE DEF Good
  <2>1. PICK i \in Bad : \A m \in Bad : i <= m
    <3>1. Bad \in SUBSET Nat
      BY <1>2
    <3> QED
      BY <3>1, LeastNat, Zenon
  <2>2. i \in 1..Len(s) /\ i - 1 \in 0..Len(s) /\ ~(i <= i - 1)
    BY <1>2, <1>5, <2>1
  <2>3. Good(i - 1)
    BY <2>1, <2>2, Zenon
  <2> QED
    BY <1>6, <2>1, <2>2, <2>3, Zenon
<1>8. Good(Len(s))
  <2> HIDE DEF Good
  <2> QED
    BY <1>2, <1>7
<1>9. From(Len(s)) = Range(s) \cap S
  BY <1>2, Zenon DEF Range
<1> QED
  BY <1>1, <1>8, <1>9, Zenon

\* A push leaves every height of a stack alone and adds one; a pop takes the
\* highest away.
LEMMA PushAt ==
    ASSUME NEW F, NEW s \in Seq(F), NEW x \in F
    PROVE  /\ <<x>> \o s \in Seq(F) /\ Len(<<x>> \o s) = Len(s) + 1
           /\ At(<<x>> \o s, Len(s) + 1) = x
           /\ \A j \in 1..Len(s) : At(<<x>> \o s, j) = At(s, j)
<1>1. /\ <<x>> \o s \in Seq(F) /\ Len(<<x>> \o s) = Len(s) + 1 /\ Len(s) \in Nat
      /\ (<<x>> \o s)[1] = x /\ \A i \in 1..Len(s) : (<<x>> \o s)[i + 1] = s[i]
  OBVIOUS
<1>2. ASSUME NEW j \in 1..Len(s) PROVE At(<<x>> \o s, j) = At(s, j)
  <2>1. Len(s) + 1 - j \in 1..Len(s) /\ (Len(s) + 1) + 1 - j = (Len(s) + 1 - j) + 1
    BY <1>1
  <2> QED
    BY <1>1, <2>1, Zenon DEF At
<1> QED
  BY <1>1, <1>2 DEF At

\* A sequence without its head: the heights of the rest.
LEMMA PopAt ==
    ASSUME NEW F, NEW s \in Seq(F), s # <<>>
    PROVE  /\ Tail(s) \in Seq(F) /\ Len(Tail(s)) = Len(s) - 1 /\ Len(s) \in Nat \ {0}
           /\ At(s, Len(s)) = Head(s) /\ Head(s) \in F
           /\ \A j \in 1..(Len(s) - 1) : At(Tail(s), j) = At(s, j)
<1>1. /\ Tail(s) \in Seq(F) /\ Len(Tail(s)) = Len(s) - 1 /\ Len(s) \in Nat \ {0}
      /\ Head(s) = s[1] /\ Head(s) \in F
      /\ \A i \in 1..(Len(s) - 1) : Tail(s)[i] = s[i + 1]
  OBVIOUS
<1>2. ASSUME NEW j \in 1..(Len(s) - 1) PROVE At(Tail(s), j) = At(s, j)
  <2>1. /\ (Len(s) - 1) + 1 - j \in 1..(Len(s) - 1)
        /\ ((Len(s) - 1) + 1 - j) + 1 = Len(s) + 1 - j
    BY <1>1
  <2> QED
    BY <1>1, <2>1, Zenon DEF At
<1>3. Len(s) + 1 - Len(s) = 1
  BY <1>1
<1> QED
  BY <1>1, <1>2, <1>3, Zenon DEF At

----------------------------------------------------------------------------
(* What the calls and returns do to the heights of the requests.           *)

SameInside == \A r \in Requests : CallsOf(r)' = CallsOf(r) /\ LeftOf(r)' = LeftOf(r)

\* The frames of the call stack: callbacks, and calls of progress.
LEMMA FrameFacts ==
    /\ \A p \in Frames : p.f # "callback" <=> p \in Progressing
    /\ \A p \in Progressing : p.left \in Seq(Requests)
    /\ \A p \in Frames : p.f = "callback" => p.r \in Requests
BY Zenon DEF Frames, Progressing

\* A call of progress is entered.
LEMMA Entered ==
    ASSUME stack \in Seq(Frames), LeftOnce, NEW x \in Progressing, x.left = <<>>,
           stack' = <<x>> \o stack
    PROVE  stack' \in Seq(Frames) /\ LeftOnce' /\ SameInside
<1>1. x \in Frames /\ x.f # "callback" /\ Len(stack) \in Nat
  BY FrameFacts DEF Frames
<1>2. /\ stack' \in Seq(Frames) /\ Len(stack') = Len(stack) + 1
      /\ At(stack', Len(stack) + 1) = x
      /\ \A j \in 1..Len(stack) : At(stack', j) = At(stack, j)
  BY <1>1, PushAt
<1>3. Heights' = Heights \cup {Len(stack) + 1} /\ Heights = 1..Len(stack)
  BY <1>1, <1>2 DEF Heights
<1>4. Range(x.left) = {} /\ IsInjective(x.left)
  BY DEF Range, IsInjective
<1>5. LeftOnce'
  BY <1>2, <1>3, <1>4, Zenon DEF LeftOnce
<1>6. SameInside
  BY <1>1, <1>2, <1>3, <1>4, Zenon DEF SameInside, CallsOf, LeftOf
<1> QED
  BY <1>2, <1>5, <1>6, Zenon

\* The innermost call of progress finds or has other requests to call.
LEMMA Replaced ==
    ASSUME stack \in Seq(Frames), LeftOnce, stack # <<>>, Head(stack) \in Progressing,
           NEW x \in Progressing, IsInjective(x.left),
           stack' = <<x>> \o Tail(stack)
    PROVE  /\ stack' \in Seq(Frames) /\ LeftOnce' /\ Len(stack') = Len(stack)
           /\ \A r \in Requests :
                /\ CallsOf(r)' = CallsOf(r)
                /\ LeftOf(r)' = IF r \in Range(x.left) THEN LeftOf(r) \cup {Len(stack)}
                                                      ELSE LeftOf(r) \ {Len(stack)}
<1>1. x \in Frames /\ x.f # "callback" /\ Head(stack).f # "callback"
  BY FrameFacts, Zenon DEF Frames
<1>2. /\ Tail(stack) \in Seq(Frames) /\ Len(Tail(stack)) = Len(stack) - 1
      /\ Len(stack) \in Nat \ {0} /\ At(stack, Len(stack)) = Head(stack)
      /\ \A j \in 1..(Len(stack) - 1) : At(Tail(stack), j) = At(stack, j)
  BY PopAt, Zenon
<1>3. /\ stack' \in Seq(Frames) /\ Len(stack') = Len(stack)
      /\ At(stack', Len(stack)) = x
      /\ \A j \in 1..(Len(stack) - 1) : At(stack', j) = At(stack, j)
  <2> DEFINE t == Tail(stack)
  <2>1. Len(t) + 1 = Len(stack) /\ Len(t) = Len(stack) - 1
    BY <1>2
  <2> HIDE DEF t
  <2>2. /\ <<x>> \o t \in Seq(Frames) /\ Len(<<x>> \o t) = Len(t) + 1
        /\ At(<<x>> \o t, Len(t) + 1) = x
        /\ \A j \in 1..Len(t) : At(<<x>> \o t, j) = At(t, j)
    <3>1. t \in Seq(Frames)
      BY <1>2, Zenon DEF t
    <3> QED
      BY <1>1, <3>1, PushAt
  <2>3. stack' = <<x>> \o t /\ \A j \in 1..(Len(stack) - 1) : At(t, j) = At(stack, j)
    BY <1>2, Zenon DEF t
  <2> QED
    BY <2>1, <2>2, <2>3, Zenon
<1>4. Heights' = Heights /\ Heights = (1..(Len(stack) - 1)) \cup {Len(stack)}
  BY <1>2, <1>3 DEF Heights
<1>5. LeftOnce'
  BY <1>1, <1>3, <1>4, Zenon DEF LeftOnce
<1>6. ASSUME NEW r \in Requests
      PROVE  /\ CallsOf(r)' = CallsOf(r)
             /\ LeftOf(r)' = IF r \in Range(x.left) THEN LeftOf(r) \cup {Len(stack)}
                                                   ELSE LeftOf(r) \ {Len(stack)}
  <2>1. CallsOf(r)' = CallsOf(r)
    BY <1>1, <1>2, <1>3, <1>4, Zenon DEF CallsOf
  <2>2. Len(stack) \in LeftOf(r)' <=> r \in Range(x.left)
    BY <1>1, <1>3, <1>4, Zenon DEF LeftOf
  <2>3. Len(stack) \notin 1..(Len(stack) - 1)
    BY <1>2
  <2>4. \A j : j # Len(stack) => (j \in LeftOf(r)' <=> j \in LeftOf(r))
    BY <1>3, <1>4, <2>3, Zenon DEF LeftOf
  <2> QED
    BY <2>1, <2>2, <2>4, Zenon
<1> QED
  BY <1>3, <1>5, <1>6, Zenon

\* The innermost call returns.
LEMMA Returned ==
    ASSUME stack \in Seq(Frames), LeftOnce, stack # <<>>, stack' = Tail(stack)
    PROVE  /\ stack' \in Seq(Frames) /\ LeftOnce'
           /\ \A r \in Requests : /\ CallsOf(r)' = CallsOf(r) \ {Len(stack)}
                                  /\ LeftOf(r)' = LeftOf(r) \ {Len(stack)}
<1>1. /\ Tail(stack) \in Seq(Frames) /\ Len(Tail(stack)) = Len(stack) - 1
      /\ Len(stack) \in Nat \ {0} /\ At(stack, Len(stack)) = Head(stack)
      /\ \A j \in 1..(Len(stack) - 1) : At(Tail(stack), j) = At(stack, j)
  BY PopAt, Zenon
<1>2. /\ Heights' = 1..(Len(stack) - 1) /\ Heights = (1..(Len(stack) - 1)) \cup {Len(stack)}
      /\ Len(stack) \notin 1..(Len(stack) - 1)
  BY <1>1 DEF Heights
<1>3. LeftOnce'
  BY <1>1, <1>2, Zenon DEF LeftOnce
<1>4. ASSUME NEW r \in Requests
      PROVE  /\ CallsOf(r)' = CallsOf(r) \ {Len(stack)}
             /\ LeftOf(r)' = LeftOf(r) \ {Len(stack)}
  <2>1. CallsOf(r)' = CallsOf(r) \ {Len(stack)}
    BY <1>1, <1>2, Zenon DEF CallsOf
  <2>2. LeftOf(r)' = LeftOf(r) \ {Len(stack)}
    BY <1>1, <1>2, Zenon DEF LeftOf
  <2> QED
    BY <2>1, <2>2, Zenon
<1> QED
  BY <1>1, <1>3, <1>4, Zenon

\* A call of progress that has nothing left to call goes to its next queue.
LEMMA Advanced ==
    ASSUME stack \in Seq(Frames), LeftOnce, stack # <<>>, Head(stack) \in Progressing,
           Head(stack).left = <<>>, Advance
    PROVE  stack' \in Seq(Frames) /\ LeftOnce' /\ SameInside
<1> DEFINE p == Head(stack)
<1>1. At(stack, Len(stack)) = p /\ Len(stack) \in Nat \ {0}
  BY PopAt, Zenon
<1>2. p.f # "callback" /\ Range(p.left) = {}
  BY FrameFacts DEF Frames, Range
<1>3. \A r \in Requests : Len(stack) \notin CallsOf(r) /\ Len(stack) \notin LeftOf(r)
  BY <1>1, <1>2, Zenon DEF CallsOf, LeftOf
<1>4. ASSUME NEW x \in Progressing, x.left = <<>>, stack' = <<x>> \o Tail(stack)
      PROVE  stack' \in Seq(Frames) /\ LeftOnce' /\ SameInside
  <2>1. Range(x.left) = {} /\ IsInjective(x.left)
    BY <1>4 DEF Range, IsInjective
  <2>2. /\ stack' \in Seq(Frames) /\ LeftOnce'
        /\ \A r \in Requests :
             /\ CallsOf(r)' = CallsOf(r)
             /\ LeftOf(r)' = IF r \in Range(x.left) THEN LeftOf(r) \cup {Len(stack)}
                                                   ELSE LeftOf(r) \ {Len(stack)}
    BY <1>4, <2>1, Replaced, Zenon
  <2> QED
    BY <1>3, <2>1, <2>2, Zenon DEF SameInside
<1>5. CASE p.q = "send"
  <2>1. ProgressFrame(p.c, "recv") \in Progressing /\ ProgressFrame(p.c, "recv").left = <<>>
    BY <1>5, Zenon DEF ProgressFrame, Progressing
  <2>2. stack' = <<ProgressFrame(p.c, "recv")>> \o Tail(stack)
    BY <1>5, Zenon DEF Advance
  <2> QED
    BY <1>4, <2>1, <2>2, Zenon
<1>6. CASE p.q = "recv"
  <2>1. ProgressFrame(p.c, "shared") \in Progressing /\ ProgressFrame(p.c, "shared").left = <<>>
    BY <1>6, Zenon DEF ProgressFrame, Progressing
  <2>2. stack' = <<ProgressFrame(p.c, "shared")>> \o Tail(stack)
    BY <1>6, Zenon DEF Advance
  <2> QED
    BY <1>4, <2>1, <2>2, Zenon
<1>7. CASE p.q # "send" /\ p.q # "recv"
  <2>1. stack' = Tail(stack)
    BY <1>7, Zenon DEF Advance
  <2>2. /\ stack' \in Seq(Frames) /\ LeftOnce'
        /\ \A r \in Requests : /\ CallsOf(r)' = CallsOf(r) \ {Len(stack)}
                               /\ LeftOf(r)' = LeftOf(r) \ {Len(stack)}
    BY <2>1, Returned, Zenon
  <2> QED
    BY <1>3, <2>2, Zenon DEF SameInside
<1> QED
  BY <1>5, <1>6, <1>7, Zenon

\* A call of progress calls the callback of the first request it has left.
LEMMA CalledFirst ==
    ASSUME stack \in Seq(Frames), LeftOnce, Call
    PROVE  LET r == Head(Head(stack).left) IN
           /\ stack' \in Seq(Frames) /\ LeftOnce'
           /\ r \in Requests /\ Len(stack) \in LeftOf(r) /\ Len(stack) \in Nat
           /\ \A s \in Requests :
                /\ CallsOf(s)' = IF s = r THEN CallsOf(s) \cup {Len(stack) + 1} ELSE CallsOf(s)
                /\ LeftOf(s)' = IF s = r THEN LeftOf(s) \ {Len(stack)} ELSE LeftOf(s)
<1> DEFINE p == Head(stack)
           r == Head(p.left)
           y == [p EXCEPT !.left = Tail(@)]
           x == [f |-> "callback", r |-> r]
           t == <<y>> \o Tail(stack)
<1>1. stack # <<>> /\ p.f = "found" /\ p.left # <<>> /\ stack' = <<x, y>> \o Tail(stack)
  BY Zenon DEF Call, Found
<1>2. /\ At(stack, Len(stack)) = p /\ p \in Progressing /\ Len(stack) \in Nat \ {0}
      /\ Tail(stack) \in Seq(Frames) /\ Len(Tail(stack)) = Len(stack) - 1
      /\ \A j \in 1..(Len(stack) - 1) : At(Tail(stack), j) = At(stack, j)
  BY <1>1, PopAt, FrameFacts, Zenon
<1>3. p.left \in Seq(Requests) /\ IsInjective(p.left) /\ p.f # "callback"
  BY <1>1, <1>2, FrameFacts DEF LeftOnce, Heights
<1>4. /\ r \in Requests /\ r \in Range(p.left)
      /\ Tail(p.left) \in Seq(Requests) /\ IsInjective(Tail(p.left))
      /\ Range(Tail(p.left)) = Range(p.left) \ {r}
  BY <1>1, <1>3, TailRest, Zenon
<1>5. x \in Frames /\ y \in Frames /\ y.f = p.f /\ y.left = Tail(p.left)
  <2>1. y \in Progressing /\ y.f = p.f /\ y.left = Tail(p.left)
    BY <1>1, <1>2, <1>4, Zenon DEF Progressing
  <2>2. x \in Frames
    BY <1>4, Zenon DEF Frames
  <2> QED
    BY <2>1, <2>2, Zenon DEF Frames
<1> HIDE DEF x, y
<1>6. stack' = <<x>> \o t
  BY <1>1, <1>2, <1>5
<1>7. /\ t \in Seq(Frames) /\ Len(t) = Len(stack) /\ At(t, Len(stack)) = y
      /\ \A j \in 1..(Len(stack) - 1) : At(t, j) = At(stack, j)
  <2> DEFINE u == Tail(stack)
  <2>1. Len(u) + 1 = Len(stack) /\ Len(u) = Len(stack) - 1
    BY <1>2
  <2> HIDE DEF u
  <2>2. /\ <<y>> \o u \in Seq(Frames) /\ Len(<<y>> \o u) = Len(u) + 1
        /\ At(<<y>> \o u, Len(u) + 1) = y
        /\ \A j \in 1..Len(u) : At(<<y>> \o u, j) = At(u, j)
    <3>1. u \in Seq(Frames)
      BY <1>2, Zenon DEF u
    <3> QED
      BY <1>5, <3>1, PushAt
  <2>3. t = <<y>> \o u /\ \A j \in 1..(Len(stack) - 1) : At(u, j) = At(stack, j)
    BY <1>2, Zenon DEF u
  <2> QED
    BY <2>1, <2>2, <2>3, Zenon
<1> HIDE DEF t
<1>8. /\ stack' \in Seq(Frames) /\ Len(stack') = Len(stack) + 1
      /\ At(stack', Len(stack) + 1) = x /\ At(stack', Len(stack)) = y
      /\ \A j \in 1..(Len(stack) - 1) : At(stack', j) = At(stack, j)
  <2>1. Len(stack) \in 1..Len(stack) /\ \A j \in 1..(Len(stack) - 1) : j \in 1..Len(stack)
    BY <1>2
  <2> QED
    <3>1. /\ <<x>> \o t \in Seq(Frames) /\ Len(<<x>> \o t) = Len(t) + 1
          /\ At(<<x>> \o t, Len(t) + 1) = x
          /\ \A j \in 1..Len(t) : At(<<x>> \o t, j) = At(t, j)
      BY <1>5, <1>7, PushAt
    <3> QED
      BY <1>6, <1>7, <2>1, <3>1, Zenon
<1>9. /\ Heights = (1..(Len(stack) - 1)) \cup {Len(stack)}
      /\ Heights' = Heights \cup {Len(stack) + 1}
      /\ Len(stack) \notin 1..(Len(stack) - 1) /\ Len(stack) + 1 \notin Heights
  BY <1>2, <1>8 DEF Heights
<1>10. x.f = "callback" /\ x.r = r
  BY Zenon DEF x
<1>11. LeftOnce'
  BY <1>4, <1>5, <1>8, <1>9, <1>10, Zenon DEF LeftOnce
<1>12. Len(stack) \in LeftOf(r)
  BY <1>2, <1>3, <1>4, <1>9, Zenon DEF LeftOf
<1>13. ASSUME NEW s \in Requests
       PROVE  /\ CallsOf(s)' = IF s = r THEN CallsOf(s) \cup {Len(stack) + 1} ELSE CallsOf(s)
              /\ LeftOf(s)' = IF s = r THEN LeftOf(s) \ {Len(stack)} ELSE LeftOf(s)
  <2>1. CallsOf(s)' = IF s = r THEN CallsOf(s) \cup {Len(stack) + 1} ELSE CallsOf(s)
    <3> HIDE DEF r, p
    <3>1. \A j \in Heights : j \in CallsOf(s)' <=> j \in CallsOf(s)
      BY <1>2, <1>3, <1>5, <1>8, <1>9, Zenon DEF CallsOf
    <3>2. Len(stack) + 1 \in CallsOf(s)' <=> s = r
      BY <1>8, <1>9, <1>10, Zenon DEF CallsOf
    <3>3. CallsOf(s) \subseteq Heights /\ CallsOf(s)' \subseteq Heights \cup {Len(stack) + 1}
      BY <1>9, Zenon DEF CallsOf
    <3>4. \A j : j \in CallsOf(s)' <=> j \in CallsOf(s) \/ (s = r /\ j = Len(stack) + 1)
      BY <1>9, <3>1, <3>2, <3>3, Zenon
    <3> QED
      BY <3>4, Zenon
  <2>2. LeftOf(s)' = IF s = r THEN LeftOf(s) \ {Len(stack)} ELSE LeftOf(s)
    <3> HIDE DEF r, p
    <3>1. \A j \in 1..(Len(stack) - 1) : j \in LeftOf(s)' <=> j \in LeftOf(s)
      BY <1>8, <1>9, Zenon DEF LeftOf
    <3>2. Len(stack) \in LeftOf(s) <=> s \in Range(p.left)
      BY <1>2, <1>3, <1>9, Zenon DEF LeftOf
    <3>3. Len(stack) \in LeftOf(s)' <=> s \in Range(p.left) \ {r}
      BY <1>3, <1>4, <1>5, <1>8, <1>9, Zenon DEF LeftOf
    <3>4. Len(stack) + 1 \notin LeftOf(s)'
      BY <1>8, <1>10, Zenon DEF LeftOf
    <3>5. LeftOf(s) \subseteq Heights /\ LeftOf(s)' \subseteq Heights \cup {Len(stack) + 1}
      BY <1>9, Zenon DEF LeftOf
    <3>6. \A j : j \in LeftOf(s)' <=> j \in LeftOf(s) /\ ~(s = r /\ j = Len(stack))
      BY <1>9, <3>1, <3>2, <3>3, <3>4, <3>5, Zenon
    <3> QED
      BY <3>6, Zenon
  <2> QED
    BY <2>1, <2>2, Zenon
<1> QED
  BY <1>2, <1>4, <1>8, <1>11, <1>12, <1>13, Zenon

----------------------------------------------------------------------------
(* What the steps leave alone.                                             *)

\* A step that leaves the call stack alone.
LEMMA StackKept ==
    ASSUME LeftOnce, UNCHANGED stack
    PROVE  LeftOnce' /\ SameInside
<1>1. Heights' = Heights
  BY Zenon DEF Heights
<1> QED
  BY <1>1, Zenon DEF LeftOnce, SameInside, CallsOf, LeftOf

\* A step that leaves the queues and the calls alone.
LEMMA QueuesKept ==
    ASSUME Queued, Placed, SameInside, UNCHANGED <<m_self_ptr, queue, m_req_queue>>
    PROVE  Queued' /\ Placed'
<1>1. Queued'
  BY Zenon DEF Queued
<1>2. \A r \in Requests : (Waiting(r)' <=> Waiting(r)) /\ Inside(r)' = Inside(r)
  BY Zenon DEF Waiting, SameInside, Inside
<1>3. Placed'
  BY <1>2 DEF Placed
<1> QED
  BY <1>1, <1>3, Zenon

\* A step that leaves the events and their owners alone.
LEMMA PoolKept ==
    ASSUME Pooled, UNCHANGED <<pool, fresh, m_self_ptr, handle, m_event, m_group_info>>
    PROVE  Pooled'
BY Zenon DEF Pooled, Unowned, Active

----------------------------------------------------------------------------
(* The pool.                                                               *)

\* cuda_event_pool::pop gives an event that is in the pool or new, and it is
\* not there any more.
LEMMA PopTakes ==
    ASSUME Types, Pooled, Pop
    PROVE  /\ Popped \in Events /\ Popped \in Range(pool) \cup fresh
           /\ pool' \in Seq(Events) /\ fresh' \subseteq Events
           /\ IsInjective(pool') /\ Range(pool') \cap fresh' = {}
           /\ Range(pool') \cup fresh' = (Range(pool) \cup fresh) \ {Popped}
<1>1. pool \in Seq(Events) /\ fresh \subseteq Events /\ IsInjective(pool) /\ Range(pool) \cap fresh = {}
  BY Zenon DEF Types, Pooled
<1>2. CASE pool = <<>>
  <2>1. Popped \in fresh /\ fresh' = fresh \ {Popped} /\ pool' = pool
    BY <1>2, Zenon DEF Pop, Popped
  <2>2. Range(pool) = {}
    BY <1>1, <1>2, RangeInSet, Zenon
  <2> QED
    BY <1>1, <2>1, <2>2, Zenon
<1>3. CASE pool # <<>>
  <2>1. Popped = pool[Len(pool)] /\ pool' = SubSeq(pool, 1, Len(pool) - 1) /\ fresh' = fresh
    BY <1>3, Zenon DEF Pop, Popped
  <2>2. /\ Popped \in Events /\ Popped \in Range(pool)
        /\ pool' \in Seq(Events) /\ IsInjective(pool') /\ Range(pool') = Range(pool) \ {Popped}
    BY <1>1, <1>3, <2>1, FrontRest, Zenon
  <2> QED
    BY <1>1, <2>1, <2>2, Zenon
<1> QED
  BY <1>2, <1>3, Zenon

\* An event is free when it has no owner.
LEMMA OwnersOf == \A x : Unowned(x) <=> Owners(x) = {}
BY Zenon DEF Unowned, Owners

\* An event whose owner o goes is back in the pool when o was its only owner.
LEMMA ReleasePools ==
    ASSUME Types, Pooled, NEW o, NEW e \in Events, o \in Owners(e), Release(e, o), fresh' = fresh,
           \A x \in Events : Owners(x)' = IF x = e THEN Owners(x) \ {o} ELSE Owners(x)
    PROVE  pool' \in Seq(Events) /\ Pooled'
<1>1. pool \in Seq(Events) /\ fresh \subseteq Events /\ Range(pool) \subseteq Events
  BY RangeInSet, Zenon DEF Types
<1>2. IsInjective(pool) /\ Range(pool) \cap fresh = {} /\ \A x \in Range(pool) \cup fresh : Owners(x) = {}
  BY OwnersOf, Zenon DEF Pooled
<1>3. e \notin Range(pool) \cup fresh
  BY <1>2, Zenon
<1>4. (\A x : Unowned(x) <=> Owners(x) = {})'
  BY OwnersOf, PTL
<1>5. CASE Owners(e) = {o}
  <2>1. pool' = Append(pool, e)
    BY <1>5, Zenon DEF Release, Returns
  <2>2. pool' \in Seq(Events) /\ IsInjective(pool') /\ Range(pool') = Range(pool) \cup {e}
    BY <1>1, <1>2, <1>3, <2>1, AppendNew, Zenon
  <2>3. \A x \in Range(pool') \cup fresh' : Unowned(x)'
    BY <1>1, <1>2, <1>4, <1>5, <2>2, Zenon
  <2>4. Range(pool') \cap fresh' = {}
    BY <1>2, <1>3, <2>2, Zenon
  <2> QED
    BY <2>2, <2>3, <2>4, Zenon DEF Pooled
<1>6. CASE Owners(e) # {o}
  <2>1. pool' = pool
    BY <1>6, Zenon DEF Release, Returns
  <2>2. \A x \in Range(pool') \cup fresh' : Unowned(x)'
    BY <1>1, <1>2, <1>4, <2>1, Zenon
  <2> QED
    BY <1>1, <1>2, <2>1, <2>2, Zenon DEF Pooled
<1> QED
  BY <1>5, <1>6, Zenon

----------------------------------------------------------------------------
(* The steps keep the invariant.  With it each of them shows what the      *)
(* other results need: whether callbacks begin or end, and that progress   *)
(* takes only requests whose event is ready.                               *)

Quiet ==
    /\ UNCHANGED <<posted, m_ready, scheduled>>
    /\ \A r \in Requests : CallsOf(r)' = CallsOf(r)

TakesReady ==
    \A r \in Requests :
        Inside(r)' # {} => Inside(r) # {} \/ (Waiting(r) /\ is_ready(m_event[r]))

\* A step that changes no call takes no request.
LEMMA SameTakesNone ==
    ASSUME SameInside
    PROVE  TakesReady
BY Zenon DEF SameInside, TakesReady, Inside

\* Calls and returns of progress change the stack and the queues only.
LEMMA StatesKept ==
    ASSUME IInv, UNCHANGED <<m_group_info, groups, events, device, states>>,
           queue' \in [Comms -> [{"send", "recv"} -> Seq(Requests)]],
           m_req_queue' \in Seq(Requests), stack' \in Seq(Frames)
    PROVE  Types' /\ Pooled'
<1>1. Types'
  BY Zenon DEF IInv, Types, TypeOK, events, device, states
<1>2. Pooled'
  BY PoolKept, Zenon DEF IInv, events, states
<1> QED
  BY <1>1, <1>2, Zenon DEF IInv, states

\* The queues of a communicator, the shared queue and the call stack.
LEMMA QueueTypes ==
    ASSUME Types
    PROVE  /\ queue \in [Comms -> [{"send", "recv"} -> Seq(Requests)]]
           /\ m_req_queue \in Seq(Requests) /\ stack \in Seq(Frames)
BY Zenon DEF Types

\* progress is called, by the program or from a callback.
LEMMA EnterStep ==
    ASSUME IInv, NEW c \in Comms \cup {None}, NEW q \in {"send", "shared"},
           q = "send" => c \in Comms, Enter(ProgressFrame(c, q))
    PROVE  IInv' /\ Quiet /\ SameInside
<1>1. ProgressFrame(c, q) \in Progressing /\ ProgressFrame(c, q).left = <<>>
  BY DEF ProgressFrame, Progressing
<1>2. stack' \in Seq(Frames) /\ LeftOnce' /\ SameInside
  BY <1>1, Entered, QueueTypes, Zenon DEF IInv, Enter
<1>3. Types' /\ Pooled'
  BY <1>2, StatesKept, QueueTypes, Zenon DEF IInv, Enter, queues
<1>4. Queued' /\ Placed'
  BY <1>2, QueuesKept, Zenon DEF IInv, Enter, queues, states
<1> QED
  BY <1>2, <1>3, <1>4, Zenon DEF IInv, Enter, Quiet, SameInside, states

\* progress goes on to the next queue, or returns.
LEMMA AdvanceStep ==
    ASSUME IInv, stack # <<>>, Head(stack) \in Progressing, Head(stack).left = <<>>, Advance,
           UNCHANGED <<m_group_info, groups, events, device, states, queue, m_req_queue>>
    PROVE  IInv' /\ Quiet /\ SameInside
<1>2. stack' \in Seq(Frames) /\ LeftOnce' /\ SameInside
  BY Advanced, QueueTypes, Zenon DEF IInv
<1>3. Types' /\ Pooled'
  BY <1>2, StatesKept, QueueTypes, Zenon DEF IInv
<1>4. Queued' /\ Placed'
  BY <1>2, QueuesKept, Zenon DEF IInv, states
<1> QED
  BY <1>2, <1>3, <1>4, Zenon DEF IInv, Quiet, SameInside, states

\* The innermost call is progress unless it is a callback.
LEMMA TopProgressing ==
    ASSUME IInv, stack # <<>>, Head(stack).f # "callback"
    PROVE  Head(stack) \in Progressing
BY PopAt, FrameFacts, QueueTypes, Zenon DEF IInv

\* progress has called all that it found in a queue.
LEMMA QueueDoneStep ==
    ASSUME IInv, QueueDone
    PROVE  IInv' /\ Quiet /\ TakesReady
BY AdvanceStep, TopProgressing, SameTakesNone, Zenon DEF QueueDone, Found

\* What progress finds goes from a queue into its frame.
LEMMA FoundSome ==
    ASSUME IInv, stack # <<>>, Head(stack) \in Progressing, Head(stack).left = <<>>,
           NEW x \in Progressing, IsInjective(x.left), stack' = <<x>> \o Tail(stack),
           m_self_ptr' = m_self_ptr,
           \A r \in Range(x.left) : Waiting(r),
           \A r \in Requests : Waiting(r)' <=> Waiting(r) /\ r \notin Range(x.left)
    PROVE  /\ stack' \in Seq(Frames) /\ LeftOnce' /\ Placed'
           /\ \A r \in Requests : /\ CallsOf(r)' = CallsOf(r)
                                  /\ Inside(r)' # {} => Inside(r) # {} \/ r \in Range(x.left)
<1>1. /\ stack' \in Seq(Frames) /\ LeftOnce'
      /\ \A r \in Requests :
            /\ CallsOf(r)' = CallsOf(r)
            /\ LeftOf(r)' = IF r \in Range(x.left) THEN LeftOf(r) \cup {Len(stack)}
                                                  ELSE LeftOf(r) \ {Len(stack)}
  BY Replaced, QueueTypes, Zenon DEF IInv
<1>2. At(stack, Len(stack)) = Head(stack) /\ Range(Head(stack).left) = {}
  BY PopAt, QueueTypes DEF IInv, Range
<1>3. \A r \in Requests : Len(stack) \notin LeftOf(r)
  BY <1>2, Zenon DEF LeftOf
<1>4. \A r \in Requests : Inside(r)' = IF r \in Range(x.left) THEN Inside(r) \cup {Len(stack)}
                                                             ELSE Inside(r)
  BY <1>1, <1>3, Zenon DEF Inside
<1>5. \A r \in Requests : r \in Range(x.left) => Inside(r) = {}
  BY Zenon DEF IInv, Placed
<1>6. Placed'
  BY <1>4, <1>5 DEF IInv, Placed
<1> QED
  BY <1>1, <1>4, <1>6, Zenon

\* The queue is split into what is ready and what is not.
LEMMA ReadySplit ==
    ASSUME NEW s \in Seq(Requests), IsInjective(s)
    PROVE  /\ Ready(s) \in Seq(Requests) /\ IsInjective(Ready(s))
           /\ NotReady(s) \in Seq(Requests) /\ IsInjective(NotReady(s))
           /\ Range(NotReady(s)) = Range(s) \ Range(Ready(s))
           /\ \A r : r \in Range(Ready(s)) <=> r \in Range(s) /\ is_ready(m_event[r])
<1>1. /\ Ready(s) \in Seq(Requests) /\ IsInjective(Ready(s))
      /\ Range(Ready(s)) = Range(s) \cap {r \in Range(s) : is_ready(m_event[r])}
  BY OnlyKeeps, Zenon DEF Ready
<1>2. /\ NotReady(s) \in Seq(Requests) /\ IsInjective(NotReady(s))
      /\ Range(NotReady(s)) = Range(s) \cap {r \in Range(s) : ~is_ready(m_event[r])}
  BY OnlyKeeps, Zenon DEF NotReady
<1> QED
  BY <1>1, <1>2, Zenon

\* progress takes what is ready out of a queue.
LEMMA LookStep ==
    ASSUME IInv, Look
    PROVE  IInv' /\ Quiet /\ TakesReady
<1> DEFINE p == Head(stack)
           s == queue[p.c][p.q]
           x == [p EXCEPT !.f = "found", !.left = Ready(s)]
<1>1. stack # <<>> /\ p.f = "look" /\ p.q \in {"send", "recv"}
  BY Zenon DEF Look, AtLook
<1>2. p \in Progressing /\ p.left = <<>> /\ p.c \in Comms
  <2>1. p \in Progressing
    BY <1>1, TopProgressing, Zenon
  <2> QED
    BY <1>1, <2>1, Zenon DEF Progressing
<1>3. CASE <<p.c, p.q>> \in in_progress \/ s = <<>>
  BY <1>1, <1>2, <1>3, AdvanceStep, SameTakesNone, Zenon DEF Look
<1>4. CASE ~(<<p.c, p.q>> \in in_progress \/ s = <<>>)
  <2>1. /\ queue' = [queue EXCEPT ![p.c][p.q] = NotReady(s)] /\ stack' = <<x>> \o Tail(stack)
        /\ UNCHANGED <<m_group_info, groups, events, device, states, m_req_queue>>
    BY <1>4, Zenon DEF Look
  <2>2. s \in Seq(Requests) /\ IsInjective(s) /\ Range(s) \subseteq Requests
    <3>1. s \in Seq(Requests) /\ IsInjective(s)
      BY <1>1, <1>2, QueueTypes DEF IInv, Queued
    <3> QED
      BY <3>1, RangeInSet, Zenon
  <2>3. /\ Ready(s) \in Seq(Requests) /\ IsInjective(Ready(s))
        /\ NotReady(s) \in Seq(Requests) /\ IsInjective(NotReady(s))
        /\ Range(NotReady(s)) = Range(s) \ Range(Ready(s))
        /\ \A r : r \in Range(Ready(s)) <=> r \in Range(s) /\ is_ready(m_event[r])
    BY <2>2, ReadySplit, Zenon
  <2>4. x \in Progressing /\ x.left = Ready(s)
    BY <1>2, <2>3, ZenonT(30) DEF Progressing
  <2> HIDE DEF x
  <2>5. /\ queue' \in [Comms -> [{"send", "recv"} -> Seq(Requests)]]
        /\ queue'[p.c][p.q] = NotReady(s)
        /\ \A c \in Comms, q \in {"send", "recv"} : <<c, q>> # <<p.c, p.q>> => queue'[c][q] = queue[c][q]
    BY <1>1, <1>2, <2>1, <2>3, QueueTypes, Zenon DEF IInv
  <2>6. \A r \in Range(s) : r \notin SharedRecvs /\ PostedOn[r] = p.c /\ QueueOf(r) = p.q
    BY <1>1, <1>2, Zenon DEF IInv, Queued
  <2>7. \A r \in Range(Ready(s)) : Waiting(r)
    BY <2>3, <2>6, Zenon DEF Waiting
  <2>8. ASSUME NEW r \in Requests PROVE Waiting(r)' <=> Waiting(r) /\ r \notin Range(Ready(s))
    <3>1. PostedOn[r] \in Comms /\ QueueOf(r) \in {"send", "recv"}
      BY NcclAssumption, Zenon DEF QueueOf
    <3>2. CASE r \in SharedRecvs
      BY <2>1, <2>3, <2>6, <3>2, ZenonT(30) DEF Waiting
    <3>3. CASE r \notin SharedRecvs /\ <<PostedOn[r], QueueOf(r)>> = <<p.c, p.q>>
      BY <2>3, <2>5, <3>3, ZenonT(30) DEF Waiting
    <3>4. CASE r \notin SharedRecvs /\ <<PostedOn[r], QueueOf(r)>> # <<p.c, p.q>>
      BY <2>3, <2>5, <2>6, <3>1, <3>4, Zenon DEF Waiting
    <3> QED
      BY <3>2, <3>3, <3>4, Zenon
  <2>9. /\ stack' \in Seq(Frames) /\ LeftOnce' /\ Placed'
        /\ \A r \in Requests : /\ CallsOf(r)' = CallsOf(r)
                               /\ Inside(r)' # {} => Inside(r) # {} \/ r \in Range(Ready(s))
    <3>1. m_self_ptr' = m_self_ptr
      BY <2>1, Zenon DEF states
    <3> HIDE DEF s, p
    <3> QED
      BY <1>1, <1>2, <2>1, <2>3, <2>4, <2>7, <2>8, <3>1, FoundSome, ZenonT(30) DEF p
  <2>10. Types' /\ Pooled'
    BY <2>1, <2>5, <2>9, StatesKept, QueueTypes, Zenon DEF IInv
  <2>11. Queued'
    <3>1. m_req_queue' = m_req_queue
      BY <2>1, Zenon
    <3>2. ASSUME NEW c \in Comms, NEW q \in {"send", "recv"}
          PROVE  /\ IsInjective(queue'[c][q])
                 /\ \A r \in Range(queue'[c][q]) : r \notin SharedRecvs /\ PostedOn[r] = c /\ QueueOf(r) = q
      <4>1. CASE <<c, q>> = <<p.c, p.q>>
        BY <2>3, <2>5, <2>6, <4>1, ZenonT(30)
      <4>2. CASE <<c, q>> # <<p.c, p.q>>
        BY <2>5, <4>2 DEF IInv, Queued
      <4> QED
        BY <4>1, <4>2, Zenon
    <3> QED
      BY <3>1, <3>2, Zenon DEF IInv, Queued, QueueOf
  <2>12. TakesReady
    BY <2>3, <2>7, <2>9, Zenon DEF TakesReady
  <2> QED
    BY <2>1, <2>9, <2>10, <2>11, <2>12, Zenon DEF IInv, Quiet, states
<1> QED
  BY <1>3, <1>4, Zenon

\* progress takes the first ready request out of the queue of shared receives.
LEMMA LookSharedStep ==
    ASSUME IInv, LookShared
    PROVE  IInv' /\ Quiet /\ TakesReady
<1> DEFINE p == Head(stack)
           s == m_req_queue
           ready == {i \in DOMAIN s : is_ready(m_event[s[i]])}
           k == CHOOSE i \in ready : \A j \in ready : i <= j
           x == [p EXCEPT !.f = "found", !.left = <<s[k]>>]
<1>1. stack # <<>> /\ p.f = "look" /\ p.q = "shared"
  BY Zenon DEF LookShared, AtLook
<1>2. p \in Progressing /\ p.left = <<>>
  <2>1. p \in Progressing
    BY <1>1, TopProgressing, Zenon
  <2> QED
    BY <1>1, <2>1, Zenon DEF Progressing
<1>3. CASE ready = {}
  BY <1>1, <1>2, <1>3, AdvanceStep, SameTakesNone, Zenon DEF LookShared
<1>4. CASE ready # {}
  <2>1. /\ m_req_queue' = SubSeq(s, k + 1, Len(s)) \o SubSeq(s, 1, k - 1)
        /\ stack' = <<x>> \o Tail(stack)
        /\ UNCHANGED <<m_group_info, groups, events, device, states, queue>>
    BY <1>4, Zenon DEF LookShared
  <2>2. s \in Seq(Requests) /\ IsInjective(s) /\ Range(s) \subseteq SharedRecvs
    BY QueueTypes, Zenon DEF IInv, Queued
  <2>3. k \in DOMAIN s /\ is_ready(m_event[s[k]])
    <3>1. ready \in SUBSET Nat
      BY <2>2
    <3>2. \E i \in ready : \A j \in ready : i <= j
      <4> HIDE DEF ready
      <4> QED
        BY <1>4, <3>1, LeastNat, Zenon
    <3>3. k \in ready
      <4> HIDE DEF ready
      <4> QED
        BY <3>2, Zenon
    <3> QED
      BY <3>3, Zenon
  <2> HIDE DEF ready, k
  <2>4. /\ m_req_queue' \in Seq(Requests) /\ IsInjective(m_req_queue')
        /\ Range(m_req_queue') = Range(s) \ {s[k]}
    BY <2>1, <2>2, <2>3, RotateRest, Zenon
  <2>5. s[k] \in Requests /\ s[k] \in Range(s) /\ s[k] \in SharedRecvs
    BY <2>2, <2>3 DEF Range
  <2>6. x \in Progressing /\ x.left = <<s[k]>> /\ IsInjective(x.left) /\ Range(x.left) = {s[k]}
    <3>1. <<s[k]>> \in Seq(Requests) /\ IsInjective(<<s[k]>>) /\ Range(<<s[k]>>) = {s[k]}
      BY <2>5 DEF IsInjective, Range
    <3>2. x \in Progressing /\ x.left = <<s[k]>>
      BY <1>2, <3>1, Zenon DEF Progressing
    <3> QED
      BY <3>1, <3>2, Zenon
  <2> HIDE DEF x
  <2>7. \A r \in Range(x.left) : Waiting(r)
    BY <2>5, <2>6, Zenon DEF Waiting
  <2>8. \A r \in Requests : Waiting(r)' <=> Waiting(r) /\ r \notin Range(x.left)
    BY <2>1, <2>4, <2>5, <2>6, Zenon DEF Waiting
  <2>9. /\ stack' \in Seq(Frames) /\ LeftOnce' /\ Placed'
        /\ \A r \in Requests : /\ CallsOf(r)' = CallsOf(r)
                               /\ Inside(r)' # {} => Inside(r) # {} \/ r \in Range(x.left)
    <3>1. m_self_ptr' = m_self_ptr
      BY <2>1, Zenon DEF states
    <3> QED
      BY <1>1, <1>2, <2>1, <2>6, <2>7, <2>8, <3>1, FoundSome, ZenonT(30)
  <2>10. Types' /\ Pooled'
    BY <2>1, <2>4, <2>9, StatesKept, QueueTypes, Zenon DEF IInv
  <2>11. Queued'
    BY <2>1, <2>2, <2>4, Zenon DEF IInv, Queued
  <2>12. TakesReady
    BY <2>3, <2>6, <2>7, <2>9, Zenon DEF TakesReady
  <2> QED
    BY <2>1, <2>9, <2>10, <2>11, <2>12, Zenon DEF IInv, Quiet, states
<1> QED
  BY <1>3, <1>4, Zenon

\* A callback is called, of one request that was posted and not called yet.
LEMMA CallStep ==
    ASSUME IInv, Call
    PROVE  /\ IInv' /\ TakesReady /\ UNCHANGED <<posted, m_ready, scheduled>>
           /\ \E r \in Requests :
                /\ r \in m_self_ptr /\ CallsOf(r) = {} /\ CallsOf(r)' # {}
                /\ \A s \in Requests \ {r} : CallsOf(s)' = CallsOf(s)
<1>1. PICK r \in Requests :
      /\ stack' \in Seq(Frames) /\ LeftOnce'
      /\ Len(stack) \in LeftOf(r) /\ Len(stack) \in Nat
      /\ \A s \in Requests :
            /\ CallsOf(s)' = IF s = r THEN CallsOf(s) \cup {Len(stack) + 1} ELSE CallsOf(s)
            /\ LeftOf(s)' = IF s = r THEN LeftOf(s) \ {Len(stack)} ELSE LeftOf(s)
  BY CalledFirst, QueueTypes, Zenon DEF IInv
<1>2. UNCHANGED <<m_group_info, groups, events, device, states, queues>>
  BY Zenon DEF Call
<1>3. Types' /\ Pooled'
  BY <1>1, <1>2, StatesKept, QueueTypes, Zenon DEF IInv, queues
<1>4. Queued' /\ \A s \in Requests : Waiting(s)' <=> Waiting(s)
  BY <1>2, Zenon DEF IInv, Queued, Waiting, queues
<1>5. Inside(r) = {Len(stack)} /\ CallsOf(r) = {}
  <2>1. CallsOf(r) \cap LeftOf(r) = {}
    BY Zenon DEF CallsOf, LeftOf
  <2> QED
    BY <1>1, <2>1 DEF IInv, Placed, Inside
<1>6. Inside(r)' = {Len(stack) + 1} /\ CallsOf(r)' = {Len(stack) + 1}
  BY <1>1, <1>5, Zenon DEF Inside
<1>7. \A s \in Requests \ {r} : Inside(s)' = Inside(s) /\ CallsOf(s)' = CallsOf(s)
  BY <1>1, Zenon DEF Inside
<1>8. Placed'
  <2>1. m_self_ptr' = m_self_ptr
    BY <1>2, Zenon DEF states
  <2>2. ASSUME NEW s \in Requests
        PROVE  /\ s \in m_self_ptr' <=> Waiting(s)' \/ Inside(s)' # {}
               /\ Inside(s)' # {} => ~Waiting(s)'
               /\ \A j, k \in Inside(s)' : j = k
    <3>1. CASE s = r
      BY <1>4, <1>5, <1>6, <2>1, <3>1, Zenon DEF IInv, Placed
    <3>2. CASE s # r
      BY <1>4, <1>7, <2>1, <3>2 DEF IInv, Placed
    <3> QED
      BY <3>1, <3>2, Zenon
  <2> QED
    BY <2>2, Zenon DEF Placed
<1>9. TakesReady
  BY <1>5, <1>6, <1>7, Zenon DEF TakesReady
<1>10. r \in m_self_ptr
  BY <1>1, <1>5, Zenon DEF IInv, Placed
<1> QED
  BY <1>1, <1>2, <1>3, <1>4, <1>5, <1>6, <1>7, <1>8, <1>9, <1>10, Zenon DEF IInv, states

\* A callback returns: its request is ready and no longer counted.
LEMMA CallbackReturnStep ==
    ASSUME IInv, CallbackReturn
    PROVE  /\ IInv'
           /\ posted' = posted /\ scheduled' = scheduled - 1
           /\ \E r \in Requests :
                /\ r \in m_self_ptr /\ CallsOf(r) # {} /\ CallsOf(r)' = {} /\ m_ready' = m_ready \cup {r}
                /\ m_self_ptr' = m_self_ptr \ {r}
                /\ \A s \in Requests \ {r} : CallsOf(s)' = CallsOf(s)
           /\ \A s \in Requests : Inside(s)' # {} => Inside(s) # {}
<1>1. PICK r : r = Head(stack).r
  BY Zenon
<1>2. /\ stack # <<>> /\ Head(stack).f = "callback" /\ stack' = Tail(stack)
      /\ m_ready' = m_ready \cup {r} /\ scheduled' = scheduled - 1 /\ m_self_ptr' = m_self_ptr \ {r}
      /\ IF r \in handle THEN UNCHANGED pool ELSE Release(m_event[r], r)
      /\ UNCHANGED <<m_group_info, groups, m_recorded, waits, fresh, device, posted, handle,
                     m_event, queues>>
  BY <1>1, Zenon DEF CallbackReturn
<1>3. /\ At(stack, Len(stack)) = Head(stack) /\ Len(stack) \in Nat \ {0} /\ r \in Requests
  BY <1>1, <1>2, PopAt, FrameFacts, QueueTypes, Zenon DEF IInv
<1>4. /\ stack' \in Seq(Frames) /\ LeftOnce'
      /\ \A s \in Requests : /\ CallsOf(s)' = CallsOf(s) \ {Len(stack)}
                             /\ LeftOf(s)' = LeftOf(s) \ {Len(stack)}
  BY <1>2, Returned, QueueTypes, Zenon DEF IInv
<1>5. \A s \in Requests : /\ Len(stack) \in CallsOf(s) <=> s = r
                         /\ Len(stack) \notin LeftOf(s)
  BY <1>1, <1>2, <1>3 DEF CallsOf, LeftOf, Heights
<1>6. Inside(r) = {Len(stack)} /\ CallsOf(r) # {} /\ CallsOf(r)' = {} /\ Inside(r)' = {}
  <2>1. Inside(r) = {Len(stack)}
    BY <1>3, <1>5 DEF IInv, Placed, Inside
  <2> QED
    BY <1>3, <1>4, <1>5, <2>1, Zenon DEF Inside
<1>7. \A s \in Requests \ {r} : CallsOf(s)' = CallsOf(s) /\ Inside(s)' = Inside(s)
  BY <1>4, <1>5, Zenon DEF Inside
<1>8. Queued' /\ \A s \in Requests : Waiting(s)' <=> Waiting(s)
  BY <1>2, Zenon DEF IInv, Queued, Waiting, queues
<1>9. r \in m_self_ptr /\ ~Waiting(r)
  BY <1>3, <1>6, Zenon DEF IInv, Placed
<1>10. Placed'
  <2>1. ASSUME NEW s \in Requests
        PROVE  /\ s \in m_self_ptr' <=> Waiting(s)' \/ Inside(s)' # {}
               /\ Inside(s)' # {} => ~Waiting(s)'
               /\ \A j, k \in Inside(s)' : j = k
    <3>1. CASE s = r
      BY <1>2, <1>6, <1>8, <1>9, <3>1, Zenon
    <3>2. CASE s # r
      BY <1>2, <1>7, <1>8, <3>2 DEF IInv, Placed
    <3> QED
      BY <3>1, <3>2, Zenon
  <2> QED
    BY <2>1, Zenon DEF Placed
<1>11. r \in posted /\ r \notin m_ready /\ m_event[r] \in Events
  BY <1>9, Zenon DEF IInv, Types
<1>12. pool' \in Seq(Events) /\ Pooled'
  <2>1. CASE r \in handle
    <3>1. m_self_ptr' \cup handle' = m_self_ptr \cup handle /\ pool' = pool
      BY <1>2, <2>1, Zenon
    <3> QED
      BY <1>2, <3>1, Zenon DEF IInv, Types, Pooled, Unowned, Active
  <2>2. CASE r \notin handle
    <3>1. r \in Owners(m_event[r])
      BY <1>9, Zenon DEF Owners
    <3>2. r \notin Comms
      BY <1>3, NcclAssumption, Zenon
    <3>3. \A x \in Events : Owners(x)' = IF x = m_event[r] THEN Owners(x) \ {r} ELSE Owners(x)
      BY <1>2, <1>9, <2>2, <3>2, Zenon DEF Owners, Active
    <3> QED
      BY <1>2, <1>11, <2>2, <3>1, <3>3, ReleasePools, Zenon DEF IInv
  <2> QED
    BY <2>1, <2>2, Zenon
<1>13. scheduled' \in Int
  BY <1>2 DEF IInv, Types, TypeOK
<1>14. Types'
  BY <1>2, <1>4, <1>11, <1>12, <1>13, Zenon DEF IInv, Types, TypeOK, device, queues
<1> QED
  BY <1>2, <1>3, <1>4, <1>6, <1>7, <1>8, <1>9, <1>10, <1>12, <1>13, <1>14, Zenon DEF IInv

\* A kernel ends on the device.
LEMMA KernelDoneStep ==
    ASSUME IInv, KernelDone
    PROVE  IInv' /\ Quiet /\ SameInside
<1>1. LeftOnce' /\ SameInside
  BY StackKept, Zenon DEF IInv, KernelDone
<1>2. Queued' /\ Placed'
  BY <1>1, QueuesKept, Zenon DEF IInv, KernelDone, queues, states
<1>3. Pooled'
  BY PoolKept, Zenon DEF IInv, KernelDone, events, states
<1>4. Types'
  BY Zenon DEF IInv, Types, TypeOK, KernelDone, events, states, queues
<1> QED
  BY <1>1, <1>2, <1>3, <1>4, Zenon DEF IInv, Quiet, SameInside, KernelDone, states

\* The steps of groups change neither states, queues nor the stack.
LEMMA GroupKept ==
    ASSUME IInv, UNCHANGED <<states, queues, stack>>
    PROVE  LeftOnce' /\ SameInside /\ Queued' /\ Placed' /\ Quiet
<1>1. LeftOnce' /\ SameInside
  BY StackKept, Zenon DEF IInv
<1>2. Queued' /\ Placed'
  BY <1>1, QueuesKept, Zenon DEF IInv, queues, states
<1> QED
  BY <1>1, <1>2, Zenon DEF IInv, Quiet, SameInside, states

\* What a communicator knows of its group.
LEMMA GroupFacts ==
    ASSUME Types, NEW c \in Comms
    PROVE  /\ m_group_info[c] # None =>
                m_group_info[c].event \in Events /\ m_group_info[c].last \in Streams \cup {None}
           /\ \A e \in Events, l \in Streams \cup {None} : [event |-> e, last |-> l] \in GroupInfo
           /\ None \notin GroupInfo
BY NcclAssumption, Zenon DEF Types, GroupInfo

\* The record of an event waits for kernels, and leaves the other events alone.
LEMMA RecordWaits ==
    ASSUME Types, NEW e \in Events, NEW s, NEW ks \in SUBSET SUBSET Requests, Record(e, s, ks)
    PROVE  /\ m_recorded' \in [Events -> BOOLEAN] /\ waits' \in [Events -> SUBSET Requests]
           /\ waits'[e] = UNION {k \in ks : \E r \in k : StreamOf[r] = s}
           /\ \A x \in Events \ {e} : waits'[x] = waits[x]
<1> DEFINE w == UNION {k \in ks : \E r \in k : StreamOf[r] = s}
<1>1. w \subseteq Requests
  BY Zenon
<1>2. waits' = [waits EXCEPT ![e] = w]
  BY Zenon DEF Record
<1> HIDE DEF w
<1>3. waits' \in [Events -> SUBSET Requests] /\ waits'[e] = w /\ \A x \in Events \ {e} : waits'[x] = waits[x]
  BY <1>1, <1>2, Zenon DEF Types
<1>4. m_recorded' \in [Events -> BOOLEAN]
  BY Zenon DEF Record, Types, TypeOK
<1> QED
  BY <1>3, <1>4, Zenon DEF w

\* start_group takes an event for the group.
LEMMA StartGroupStep ==
    ASSUME IInv, NEW c \in Comms, start_group(c)
    PROVE  IInv' /\ Quiet /\ SameInside
<1>1. /\ Popped \in Events /\ Popped \in Range(pool) \cup fresh
      /\ pool' \in Seq(Events) /\ fresh' \subseteq Events
      /\ IsInjective(pool') /\ Range(pool') \cap fresh' = {}
      /\ Range(pool') \cup fresh' = (Range(pool) \cup fresh) \ {Popped}
  BY PopTakes, Zenon DEF IInv, start_group
<1>2. LeftOnce' /\ SameInside /\ Queued' /\ Placed' /\ Quiet
  BY GroupKept, Zenon DEF start_group
<1> DEFINE g == [event |-> Popped, last |-> None]
<1>3. g \in GroupInfo /\ g # None /\ g.event = Popped
  BY <1>1, GroupFacts DEF IInv
<1> HIDE DEF g
<1>4. m_group_info' = [m_group_info EXCEPT ![c] = g] /\ m_group_info[c] = None
  BY Zenon DEF start_group, g
<1>5. m_group_info' \in [Comms -> GroupInfo \cup {None}]
  BY <1>3, <1>4, Zenon DEF IInv, Types
<1>6. groups' \in 0..MaxGroups
  BY NcclAssumption DEF IInv, Types, TypeOK, start_group
<1>7. Types'
  BY <1>1, <1>5, <1>6, Zenon DEF IInv, Types, TypeOK, start_group, device, states, queues
<1>8. \A d \in Comms : m_group_info'[d] # None => d = c \/ (d \in Active /\ m_group_info'[d] = m_group_info[d])
  BY <1>4, Zenon DEF IInv, Types, Active
<1>9. m_group_info'[c].event = Popped
  BY <1>3, <1>4, Zenon DEF IInv, Types
<1>10. \A e \in Range(pool') \cup fresh' : Unowned(e)'
  <2> SUFFICES ASSUME NEW e \in Range(pool') \cup fresh' PROVE Unowned(e)'
    BY Zenon
  <2>1. e # Popped /\ Unowned(e)
    BY <1>1, Zenon DEF IInv, Pooled
  <2>2. \A r \in (m_self_ptr \cup handle)' : m_event'[r] # e
    BY <2>1, Zenon DEF Unowned, start_group, states
  <2>3. \A d \in Active' : m_group_info'[d].event # e
    BY <1>8, <1>9, <2>1, Zenon DEF Unowned, Active
  <2> QED
    BY <2>2, <2>3, Zenon DEF Unowned
<1>11. Pooled'
  BY <1>1, <1>10, Zenon DEF Pooled
<1> QED
  BY <1>2, <1>7, <1>11, Zenon DEF IInv

\* end_group launches the group, records its event and gives up its share.
LEMMA EndGroupStep ==
    ASSUME IInv, NEW c \in Comms, end_group(c)
    PROVE  IInv' /\ Quiet /\ SameInside
<1> DEFINE e == m_group_info[c].event
<1>1. m_group_info[c] # None /\ e \in Events /\ c \in Active
  BY GroupFacts, Zenon DEF IInv, end_group, Active
<1>2. LeftOnce' /\ SameInside /\ Queued' /\ Placed' /\ Quiet
  BY GroupKept, Zenon DEF end_group
<1>3. m_group_info' = [m_group_info EXCEPT ![c] = None]
  BY Zenon DEF end_group
<1>4. /\ Active' = Active \ {c}
      /\ \A d \in Active' : m_group_info'[d] = m_group_info[d]
  BY <1>3, Zenon DEF IInv, Types, Active
<1>5. pool' \in Seq(Events) /\ Pooled'
  <2>1. c \in Owners(e) /\ c \notin Requests
    BY <1>1, NcclAssumption, Zenon DEF Owners
  <2>2. c \notin m_self_ptr \cup handle
    BY <2>1, Zenon DEF IInv, Types, TypeOK
  <2>3. \A x \in Events : Owners(x)' = IF x = e THEN Owners(x) \ {c} ELSE Owners(x)
    BY <1>1, <1>4, <2>2 DEF Owners, end_group, states
  <2> QED
    BY <1>1, <2>1, <2>3, ReleasePools, Zenon DEF IInv, end_group
<1>6. m_recorded' \in [Events -> BOOLEAN] /\ waits' \in [Events -> SUBSET Requests]
  <2>1. Launched(c) \subseteq SUBSET Requests
    BY Zenon DEF Launched, IInv, Types, TypeOK
  <2>2. CASE m_group_info[c].last # None
    BY <1>1, <2>1, <2>2, RecordWaits, Zenon DEF end_group, RecordedAfter, IInv
  <2>3. CASE m_group_info[c].last = None
    BY <2>3, Zenon DEF end_group, IInv, Types, TypeOK
  <2> QED
    BY <2>2, <2>3, Zenon
<1>7. inflight' \subseteq SUBSET Requests /\ deferred' \subseteq posted
  BY DEF end_group, Launched, IInv, Types, TypeOK
<1>8. m_group_info' \in [Comms -> GroupInfo \cup {None}]
  BY <1>3, Zenon DEF IInv, Types
<1>9. Types'
  BY <1>5, <1>6, <1>7, <1>8, Zenon DEF IInv, Types, TypeOK, end_group, states, queues
<1> QED
  BY <1>2, <1>5, <1>9, Zenon DEF IInv

\* A handle is dropped, and with it the last share of an event perhaps.
LEMMA DropStep ==
    ASSUME IInv, NEW r \in Requests, Drop(r)
    PROVE  IInv' /\ Quiet /\ SameInside
<1>1. LeftOnce' /\ SameInside
  BY StackKept, Zenon DEF IInv, Drop
<1>2. Queued' /\ Placed'
  BY <1>1, QueuesKept, Zenon DEF IInv, Drop, queues
<1>3. pool' \in Seq(Events) /\ Pooled'
  <2>1. CASE r \in m_self_ptr
    <3>1. m_self_ptr' \cup handle' = m_self_ptr \cup handle
      BY <2>1, Zenon DEF Drop
    <3> QED
      BY <2>1, <3>1, Zenon DEF Drop, IInv, Types, Pooled, Unowned, Active
  <2>2. CASE r \notin m_self_ptr
    <3>1. r \in Owners(m_event[r]) /\ m_event[r] \in Events
      BY Zenon DEF Drop, Owners, IInv, Types, TypeOK
    <3>2. r \notin Comms
      BY NcclAssumption, Zenon
    <3>3. \A x \in Events : Owners(x)' = IF x = m_event[r] THEN Owners(x) \ {r} ELSE Owners(x)
      BY <2>2, <3>2, Zenon DEF Owners, Active, Drop
    <3> QED
      BY <2>2, <3>1, <3>3, ReleasePools, Zenon DEF IInv, Drop
  <2> QED
    BY <2>1, <2>2, Zenon
<1>4. Types'
  BY <1>3, Zenon DEF IInv, Types, TypeOK, Drop, device, queues
<1> QED
  BY <1>1, <1>2, <1>3, <1>4, Zenon DEF IInv, Quiet, SameInside, Drop

\* send, recv and shared_recv add one request.
LEMMA PostStep ==
    ASSUME IInv, NEW r \in Requests, post(r)
    PROVE  /\ IInv' /\ SameInside
           /\ r \notin posted /\ posted' = posted \cup {r} /\ m_ready' = m_ready
           /\ scheduled' = scheduled + 1
<1> DEFINE c == PostedOn[r]
           g == m_group_info[c]
           e == IF g # None THEN g.event ELSE Popped
<1>1. c \in Comms /\ QueueOf(r) \in {"send", "recv"}
  BY NcclAssumption, Zenon DEF QueueOf
<1>2. /\ r \notin posted /\ posted' = posted \cup {r} /\ m_ready' = m_ready
      /\ m_self_ptr' = m_self_ptr \cup {r} /\ handle' = handle \cup {r}
      /\ m_event' = [m_event EXCEPT ![r] = e] /\ scheduled' = scheduled + 1
      /\ UNCHANGED <<groups, done, stack>>
  BY Zenon DEF post, Counted
<1>3. r \notin m_ready /\ r \notin m_self_ptr /\ r \notin handle
  BY <1>2, Zenon DEF IInv, Types, TypeOK
<1>4. LeftOnce' /\ SameInside
  BY <1>2, StackKept, Zenon DEF IInv
<1>5. Inside(r) = {} /\ ~Waiting(r)
  BY <1>3, Zenon DEF IInv, Placed
<1>6. /\ Queued' /\ queue' \in [Comms -> [{"send", "recv"} -> Seq(Requests)]]
      /\ m_req_queue' \in Seq(Requests)
      /\ \A s \in Requests : Waiting(s)' <=> Waiting(s) \/ s = r
  <2>1. CASE r \in SharedRecvs
    <3>1. m_req_queue' = Append(m_req_queue, r) /\ queue' = queue
      BY <2>1, Zenon DEF post
    <3>2. r \notin Range(m_req_queue)
      BY <1>5, <2>1, Zenon DEF Waiting
    <3>3. /\ m_req_queue' \in Seq(Requests) /\ IsInjective(m_req_queue')
          /\ Range(m_req_queue') = Range(m_req_queue) \cup {r}
      BY <3>1, <3>2, AppendNew, QueueTypes DEF IInv, Queued
    <3>4. Queued'
      BY <2>1, <3>1, <3>3, Zenon DEF IInv, Queued
    <3>5. \A s \in Requests : Waiting(s)' <=> Waiting(s) \/ s = r
      BY <2>1, <3>1, <3>3, Zenon DEF Waiting
    <3> QED
      BY <3>1, <3>3, <3>4, <3>5, QueueTypes, Zenon DEF IInv
  <2>2. CASE r \notin SharedRecvs
    <3> DEFINE q == queue[c][QueueOf(r)]
    <3>1. queue' = [queue EXCEPT ![c][QueueOf(r)] = Append(q, r)] /\ m_req_queue' = m_req_queue
      BY <1>1, <2>2, Zenon DEF post
    <3>2. r \notin Range(q) /\ q \in Seq(Requests) /\ IsInjective(q)
      BY <1>1, <1>5, <2>2, QueueTypes DEF Waiting, IInv, Queued
    <3>3. /\ Append(q, r) \in Seq(Requests) /\ IsInjective(Append(q, r))
          /\ Range(Append(q, r)) = Range(q) \cup {r}
      BY <3>2, AppendNew
    <3>4. /\ queue' \in [Comms -> [{"send", "recv"} -> Seq(Requests)]]
          /\ queue'[c][QueueOf(r)] = Append(q, r)
          /\ \A d \in Comms, k \in {"send", "recv"} : <<d, k>> # <<c, QueueOf(r)>> => queue'[d][k] = queue[d][k]
      BY <1>1, <3>1, <3>3, QueueTypes, Zenon DEF IInv
    <3>5. ASSUME NEW d \in Comms, NEW k \in {"send", "recv"}
          PROVE  /\ IsInjective(queue'[d][k])
                 /\ \A s \in Range(queue'[d][k]) : s \notin SharedRecvs /\ PostedOn[s] = d /\ QueueOf(s) = k
      <4>1. CASE <<d, k>> = <<c, QueueOf(r)>>
        <5>1. d = c /\ k = QueueOf(r) /\ queue'[d][k] = Append(q, r)
          BY <3>4, <4>1, Zenon
        <5>2. \A s \in Range(q) : s \notin SharedRecvs /\ PostedOn[s] = c /\ QueueOf(s) = QueueOf(r)
          BY <1>1, Zenon DEF IInv, Queued
        <5> QED
          BY <2>2, <3>3, <5>1, <5>2, Zenon
      <4>2. CASE <<d, k>> # <<c, QueueOf(r)>>
        BY <3>4, <4>2, Zenon DEF IInv, Queued
      <4> QED
        BY <4>1, <4>2, Zenon
    <3>6. Queued'
      BY <3>1, <3>5, Zenon DEF IInv, Queued, QueueOf
    <3>7. ASSUME NEW s \in Requests PROVE Waiting(s)' <=> Waiting(s) \/ s = r
      <4>1. PostedOn[s] \in Comms /\ QueueOf(s) \in {"send", "recv"}
        BY NcclAssumption, Zenon DEF QueueOf
      <4>2. CASE s \in SharedRecvs
        BY <2>2, <3>1, <4>2, Zenon DEF Waiting
      <4>3. CASE s \notin SharedRecvs /\ <<PostedOn[s], QueueOf(s)>> = <<c, QueueOf(r)>>
        BY <3>3, <3>4, <4>3, ZenonT(30) DEF Waiting
      <4>4. CASE s \notin SharedRecvs /\ <<PostedOn[s], QueueOf(s)>> # <<c, QueueOf(r)>>
        BY <3>4, <4>1, <4>4, Zenon DEF Waiting
      <4> QED
        BY <4>2, <4>3, <4>4, Zenon
    <3> QED
      BY <3>1, <3>4, <3>6, <3>7, QueueTypes, Zenon DEF IInv
  <2> QED
    BY <2>1, <2>2, Zenon
<1>7. Placed'
  <2>1. \A s \in Requests : Inside(s)' = Inside(s)
    BY <1>4, Zenon DEF SameInside, Inside
  <2> QED
    BY <1>2, <1>5, <1>6, <2>1 DEF IInv, Placed
<1>8. scheduled' \in Int
  BY <1>2 DEF IInv, Types, TypeOK
<1>9. inflight' \subseteq SUBSET Requests /\ deferred' \subseteq posted'
  <2>1. inflight \subseteq SUBSET Requests /\ deferred \subseteq posted /\ {r} \in SUBSET Requests
    BY Zenon DEF IInv, Types
  <2>2. CASE Active # {}
    <3>1. deferred' = deferred \cup {r} /\ inflight' = inflight
      BY <2>2, Zenon DEF post
    <3> QED
      BY <1>2, <2>1, <3>1, Zenon
  <2>3. CASE Active = {}
    <3>1. inflight' = inflight \cup {{r}} /\ deferred' = deferred
      BY <2>3, Zenon DEF post
    <3> QED
      BY <1>2, <2>1, <3>1, Zenon
  <2> QED
    BY <2>2, <2>3, Zenon
<1>10. /\ e \in Events /\ m_recorded' \in [Events -> BOOLEAN] /\ waits' \in [Events -> SUBSET Requests]
       /\ m_group_info' \in [Comms -> GroupInfo \cup {None}]
       /\ pool' \in Seq(Events) /\ fresh' \subseteq Events /\ Pooled'
  <2>1. CASE g # None
    <3> DEFINE h == [g EXCEPT !.last = StreamOf[r]]
    <3>1. m_group_info' = [m_group_info EXCEPT ![c] = h] /\ UNCHANGED events
      BY <2>1, Zenon DEF post
    <3>2. g \in GroupInfo /\ StreamOf[r] \in Streams
      BY <1>1, <2>1, NcclAssumption DEF IInv, Types, Streams, Range
    <3>3. g.event \in Events /\ h \in GroupInfo /\ h.event = g.event /\ h # None
      BY <3>2, NcclAssumption, Zenon DEF GroupInfo
    <3> HIDE DEF h
    <3>4. /\ m_group_info' \in [Comms -> GroupInfo \cup {None}] /\ m_group_info'[c] = h
          /\ \A d \in Comms \ {c} : m_group_info'[d] = m_group_info[d]
      BY <1>1, <3>1, <3>3, Zenon DEF IInv, Types
    <3>5. Active' = Active /\ c \in Active /\ \A d \in Active : m_group_info'[d].event = m_group_info[d].event
      BY <1>1, <2>1, <3>3, <3>4, Zenon DEF Active
    <3>6. \A x \in Range(pool) \cup fresh : Unowned(x)'
      <4> SUFFICES ASSUME NEW x \in Range(pool) \cup fresh PROVE Unowned(x)'
        BY Zenon
      <4>1. Unowned(x) /\ x # g.event
        BY <3>5, Zenon DEF IInv, Pooled, Unowned
      <4>2. \A s \in (m_self_ptr \cup handle)' : m_event'[s] # x
        BY <1>2, <2>1, <4>1 DEF IInv, Types, TypeOK, Unowned
      <4> QED
        BY <3>5, <4>1, <4>2, Zenon DEF Unowned
    <3>7. Pooled'
      BY <3>1, <3>6, Zenon DEF IInv, Pooled, events
    <3> QED
      BY <2>1, <3>1, <3>3, <3>4, <3>7, Zenon DEF IInv, Types, TypeOK, events
  <2>2. CASE g = None
    <3>1. Pop /\ Record(Popped, StreamOf[r], inflight') /\ m_group_info' = m_group_info
      BY <2>2, Zenon DEF post
    <3>2. /\ Popped \in Events /\ Popped \in Range(pool) \cup fresh
          /\ pool' \in Seq(Events) /\ fresh' \subseteq Events
          /\ IsInjective(pool') /\ Range(pool') \cap fresh' = {}
          /\ Range(pool') \cup fresh' = (Range(pool) \cup fresh) \ {Popped}
      BY <3>1, PopTakes, Zenon DEF IInv
    <3>3. m_recorded' \in [Events -> BOOLEAN] /\ waits' \in [Events -> SUBSET Requests]
      BY <1>9, <3>1, <3>2, RecordWaits, Zenon DEF IInv
    <3>4. \A x \in Range(pool') \cup fresh' : Unowned(x)'
      <4> SUFFICES ASSUME NEW x \in Range(pool') \cup fresh' PROVE Unowned(x)'
        BY Zenon
      <4>1. Unowned(x) /\ x # Popped
        BY <3>2, Zenon DEF IInv, Pooled
      <4>2. \A s \in (m_self_ptr \cup handle)' : m_event'[s] # x
        BY <1>2, <2>2, <4>1 DEF IInv, Types, TypeOK, Unowned
      <4> QED
        BY <3>1, <4>1, <4>2, Zenon DEF Unowned, Active
    <3>5. Pooled'
      BY <3>2, <3>4, Zenon DEF Pooled
    <3> QED
      BY <2>2, <3>1, <3>2, <3>3, <3>5, Zenon DEF IInv, Types
  <2> QED
    BY <2>1, <2>2, Zenon
<1> HIDE DEF e
<1>11. m_event' \in [Requests -> Events \cup {None}] /\ \A s \in posted' : m_event'[s] \in Events
  BY <1>2, <1>10 DEF IInv, Types, TypeOK
<1>12. Types'
  BY <1>2, <1>3, <1>6, <1>8, <1>9, <1>10, <1>11 DEF IInv, Types, TypeOK
<1> QED
  BY <1>2, <1>4, <1>6, <1>7, <1>8, <1>10, <1>12, Zenon DEF IInv

----------------------------------------------------------------------------

\* Nothing is posted at the start.
LEMMA InitIInv == Init => IInv
<1> SUFFICES ASSUME Init PROVE IInv
  BY Zenon
<1>1. stack = <<>> /\ Heights = {}
  BY DEF Init, Heights
<1>2. Range(<<>>) = {} /\ IsInjective(<<>>)
  BY DEF Range, IsInjective
<1>3. Types
  <2>1. fresh \subseteq Events /\ 0 \in 0..MaxGroups
    BY NcclAssumption DEF Init
  <2> QED
    BY <1>1, <2>1, NcclAssumption DEF Init, Types, TypeOK
<1>4. LeftOnce /\ \A r \in Requests : Inside(r) = {}
  BY <1>1, Zenon DEF LeftOnce, Inside, CallsOf, LeftOf
<1>5. \A c \in Comms, q \in {"send", "recv"} : queue[c][q] = <<>>
  BY Zenon DEF Init
<1>6. Queued
  BY <1>2, <1>5, Zenon DEF Init, Queued
<1>7. \A r \in Requests : ~Waiting(r)
  <2>1. \A r \in Requests : PostedOn[r] \in Comms /\ QueueOf(r) \in {"send", "recv"}
    BY NcclAssumption, Zenon DEF QueueOf
  <2> QED
    BY <1>2, <1>5, <2>1, Zenon DEF Init, Waiting
<1>8. Placed
  BY <1>4, <1>7, Zenon DEF Init, Placed
<1>9. Pooled
  <2>1. Active = {} /\ m_self_ptr \cup handle = {}
    BY Zenon DEF Init, Active
  <2> QED
    BY <2>1, NcclAssumption, Zenon DEF Init, Pooled, Unowned
<1> QED
  BY <1>3, <1>4, <1>6, <1>8, <1>9, Zenon DEF IInv

\* A step that does nothing.
LEMMA StutterStep ==
    ASSUME IInv, UNCHANGED vars
    PROVE  IInv' /\ Quiet /\ SameInside
<1>1. LeftOnce' /\ SameInside /\ Queued' /\ Placed' /\ Quiet
  BY GroupKept, Zenon DEF vars
<1>2. Types'
  BY Zenon DEF IInv, Types, TypeOK, vars, events, device, states, queues
<1>3. Pooled'
  BY PoolKept, Zenon DEF IInv, vars, events, states
<1> QED
  BY <1>1, <1>2, <1>3, Zenon DEF IInv

\* A step is one of post, Call and CallbackReturn, or neither posts, begins nor
\* ends a callback.
LEMMA StepKinds ==
    ASSUME IInv, [Next]_vars
    PROVE  /\ IInv'
           /\ Quiet \/ (\E r \in Requests : post(r)) \/ Call \/ CallbackReturn
<1>1. ASSUME NEW c \in Comms, start_group(c) \/ end_group(c) \/ progress(c)
      PROVE  IInv' /\ Quiet
  BY <1>1, StartGroupStep, EndGroupStep, EnterStep, Zenon DEF progress
<1>2. ASSUME ContextProgress PROVE IInv' /\ Quiet
  BY <1>2, EnterStep, Zenon DEF ContextProgress
<1>3. ASSUME Library PROVE IInv' /\ (Quiet \/ Call)
  BY <1>3, LookStep, LookSharedStep, CallStep, QueueDoneStep, Zenon DEF Library
<1>4. ASSUME NEW r \in Requests, Drop(r) PROVE IInv' /\ Quiet
  BY <1>4, DropStep, Zenon
<1> QED
  BY <1>1, <1>2, <1>3, <1>4, PostStep, CallbackReturnStep, KernelDoneStep, StutterStep, Zenon DEF Next

\* The inductive invariant.
THEOREM Invariance == Spec => []IInv
<1>1. IInv /\ [Next]_vars => IInv'
  BY StepKinds, Zenon
<1> QED
  BY <1>1, InitIInv, PTL DEF Spec

\* Whatever groups are started, operations posted and request objects dropped,
\* and however calls nest, the pool never has an event twice or one that a
\* request state or an active group still has (cuda_event_pool,
\* cached_cuda_event, group_cuda_event).
THEOREM EventsNeverShared == Spec => []EventsExclusive
<1>1. IInv => EventsExclusive
  BY OwnersOf, Zenon DEF IInv, Types, Pooled, EventsExclusive
<1> QED
  BY <1>1, Invariance, PTL

----------------------------------------------------------------------------
(* The refinement of RequestLifecycle.                                     *)

\* A request was called when it is ready or a callback of it is on the stack.
LEMMA CalledHeights == IInv => \A r \in Requests : r \in Called <=> r \in m_ready \/ CallsOf(r) # {}
<1> SUFFICES ASSUME IInv, NEW r \in Requests
             PROVE  r \in Called <=> r \in m_ready \/ CallsOf(r) # {}
  BY Zenon
<1>1. Len(stack) \in Nat /\ DOMAIN stack = 1..Len(stack)
  BY QueueTypes DEF IInv
<1>2. ASSUME NEW i \in DOMAIN stack, stack[i].f = "callback", stack[i].r = r
      PROVE  CallsOf(r) # {}
  <2>1. Len(stack) + 1 - i \in Heights /\ Len(stack) + 1 - (Len(stack) + 1 - i) = i
    BY <1>1 DEF Heights
  <2> QED
    BY <1>2, <2>1, Zenon DEF CallsOf, At
<1>3. ASSUME NEW j \in CallsOf(r)
      PROVE  \E i \in DOMAIN stack : stack[i].f = "callback" /\ stack[i].r = r
  <2>1. Len(stack) + 1 - j \in DOMAIN stack
    BY <1>1 DEF CallsOf, Heights
  <2> QED
    BY <2>1, Zenon DEF CallsOf, At
<1> QED
  BY <1>2, <1>3, Zenon DEF Called

\* The status of a request, case by case.
StatusIs(r) ==
    /\ r \in m_ready => status[r] = "ready"
    /\ r \notin m_ready /\ CallsOf(r) # {} => status[r] = "callback"
    /\ r \in posted \ m_ready /\ CallsOf(r) = {} => status[r] = "scheduled"
    /\ r \notin posted => status[r] = "none"

\* What the status of a request says.
LEMMA StatusFacts == IInv => \A r \in Requests : StatusIs(r)
<1> SUFFICES ASSUME IInv, NEW r \in Requests PROVE StatusIs(r)
  BY Zenon
<1>1. r \in Called <=> r \in m_ready \/ CallsOf(r) # {}
  BY CalledHeights, Zenon
<1>2. m_ready \subseteq posted /\ (CallsOf(r) # {} => r \in posted \ m_ready)
  BY Zenon DEF IInv, Types, TypeOK, Placed, Inside
<1> QED
  BY <1>1, <1>2, Zenon DEF status, StatusIs

\* The same after a step.
LEMMA StatusFactsNext == IInv' => \A r \in Requests : StatusIs(r)'
<1>1. (IInv => \A r \in Requests : StatusIs(r))'
  BY StatusFacts, PTL
<1> QED
  BY <1>1, Zenon

\* A step changes the status of the requests that it posts, makes ready or
\* whose callback it begins or ends, and of no other.
LEMMA StatusKept ==
    ASSUME IInv, IInv', NEW r \in Requests, r \in posted' <=> r \in posted,
           r \in m_ready' <=> r \in m_ready, CallsOf(r)' = CallsOf(r)
    PROVE  status'[r] = status[r]
<1>1. StatusIs(r) /\ StatusIs(r)'
  BY StatusFacts, StatusFactsNext, Zenon
<1>2. m_ready \subseteq posted
  BY Zenon DEF IInv, Types, TypeOK
<1> QED
  BY <1>1, <1>2 DEF StatusIs

\* One request changes its status, the others do not.
LEMMA Becomes ==
    ASSUME NEW r \in Requests, NEW from, NEW to, status[r] = from, status'[r] = to,
           \A s \in Requests \ {r} : status'[s] = status[s]
    PROVE  Lifecycle!Become(r, from, to)
<1>1. status = [s \in Requests |-> status[s]] /\ status' = [s \in Requests |-> status'[s]]
  BY DEF status
<1> QED
  BY <1>1, Zenon DEF Lifecycle!Become

\* A step without a call or a return is a stutter of the life cycle.
LEMMA QuietStutters ==
    ASSUME IInv, IInv', Quiet
    PROVE  UNCHANGED Lifecycle!vars
<1>1. \A s \in Requests : status'[s] = status[s]
  BY StatusKept, Zenon DEF Quiet
<1>2. status = [s \in Requests |-> status[s]] /\ status' = [s \in Requests |-> status'[s]]
  BY DEF status
<1> QED
  BY <1>1, <1>2, Zenon DEF Lifecycle!vars, Quiet

\* Posting a request schedules it.
LEMMA PostRefines ==
    ASSUME IInv, NEW r \in Requests, post(r)
    PROVE  Lifecycle!Schedule(r)
<1>1. /\ IInv' /\ SameInside
      /\ r \notin posted /\ posted' = posted \cup {r} /\ m_ready' = m_ready
      /\ scheduled' = scheduled + 1
  BY PostStep, Zenon
<1>2. \A s \in Requests \ {r} : status'[s] = status[s]
  BY <1>1, StatusKept, Zenon DEF SameInside
<1>3. r \notin m_ready /\ CallsOf(r) = {}
  BY <1>1, Zenon DEF IInv, Types, TypeOK, Placed, Inside
<1>4. CallsOf(r)' = {}
  BY <1>1, <1>3, Zenon DEF SameInside
<1>5. status[r] = "none" /\ status'[r] = "scheduled"
  BY <1>1, <1>3, <1>4, StatusFacts, StatusFactsNext, Zenon DEF StatusIs
<1> QED
  BY <1>1, <1>2, <1>5, Becomes, Zenon DEF Lifecycle!Schedule

\* Calling a callback completes a request.
LEMMA CallRefines ==
    ASSUME IInv, Call
    PROVE  \E r \in Requests : Lifecycle!Complete(r)
<1>1. IInv' /\ UNCHANGED <<posted, m_ready, scheduled>>
  BY CallStep, Zenon
<1>2. PICK r \in Requests : /\ r \in m_self_ptr /\ CallsOf(r) = {} /\ CallsOf(r)' # {}
                            /\ \A s \in Requests \ {r} : CallsOf(s)' = CallsOf(s)
  BY CallStep, Zenon
<1>3. \A s \in Requests \ {r} : status'[s] = status[s]
  BY <1>1, <1>2, StatusKept, Zenon
<1>4. r \in posted \ m_ready
  BY <1>2, Zenon DEF IInv, Types
<1>5. status[r] = "scheduled" /\ status'[r] = "callback"
  BY <1>1, <1>2, <1>4, StatusFacts, StatusFactsNext, Zenon DEF StatusIs
<1> QED
  BY <1>1, <1>3, <1>5, Becomes, Zenon DEF Lifecycle!Complete

\* The return of a callback ends the life of a request.
LEMMA CallbackReturnRefines ==
    ASSUME IInv, CallbackReturn
    PROVE  \E r \in Requests : Lifecycle!Return(r)
<1>1. IInv' /\ posted' = posted /\ scheduled' = scheduled - 1
  BY CallbackReturnStep, Zenon
<1>2. PICK r \in Requests : /\ r \in m_self_ptr /\ CallsOf(r) # {} /\ m_ready' = m_ready \cup {r}
                            /\ \A s \in Requests \ {r} : CallsOf(s)' = CallsOf(s)
  BY CallbackReturnStep, Zenon
<1>3. \A s \in Requests \ {r} : status'[s] = status[s]
  BY <1>1, <1>2, StatusKept, Zenon
<1>4. r \in posted \ m_ready
  BY <1>2, Zenon DEF IInv, Types
<1>5. status[r] = "callback" /\ status'[r] = "ready"
  BY <1>1, <1>2, <1>4, StatusFacts, StatusFactsNext, Zenon DEF StatusIs
<1> QED
  BY <1>1, <1>3, <1>5, Becomes, Zenon DEF Lifecycle!Return

\* The backend implements RequestLifecycle, for users with and without the
\* discipline of groups: every callback runs once and the counters are exact
\* (request_queue::progress, shared_request_queue::progress).
THEOREM Refinement == Spec => ImplementsLifecycle
<1>1. Init => Lifecycle!Init
  <2> SUFFICES ASSUME Init PROVE Lifecycle!Init
    BY Zenon
  <2>1. \A r \in Requests : status[r] = "none"
    BY InitIInv, StatusFacts, Zenon DEF StatusIs, Init
  <2>2. status = [r \in Requests |-> status[r]]
    BY DEF status
  <2>3. scheduled = 0
    BY Zenon DEF Init
  <2> QED
    BY <2>1, <2>2, <2>3, Zenon DEF Lifecycle!Init
<1>2. IInv /\ [Next]_vars => [Lifecycle!Next]_(Lifecycle!vars)
  <2> SUFFICES ASSUME IInv, [Next]_vars PROVE [Lifecycle!Next]_(Lifecycle!vars)
    BY Zenon
  <2>1. IInv' /\ (Quiet \/ (\E r \in Requests : post(r)) \/ Call \/ CallbackReturn)
    BY StepKinds, Zenon
  <2>2. CASE Quiet
    BY <2>1, <2>2, QuietStutters, Zenon
  <2>3. CASE \E r \in Requests : post(r)
    BY <2>3, PostRefines, Zenon DEF Lifecycle!Next
  <2>4. CASE Call
    BY <2>4, CallRefines, Zenon DEF Lifecycle!Next
  <2>5. CASE CallbackReturn
    BY <2>5, CallbackReturnRefines, Zenon DEF Lifecycle!Next
  <2> QED
    BY <2>1, <2>2, <2>3, <2>4, <2>5, Zenon
<1> QED
  BY <1>1, <1>2, Invariance, PTL DEF Spec, ImplementsLifecycle, Lifecycle!Spec

----------------------------------------------------------------------------
(* The discipline of groups.                                               *)

\* Outside a group nothing is deferred.
LEMMA NoGroup ==
    ASSUME DInv, Active = {}
    PROVE  deferred = {}
BY Zenon DEF DInv, Grouped

\* No group is open at the start.
LEMMA InitDInv == Init => DInv
<1> SUFFICES ASSUME Init PROVE DInv
  BY Zenon
<1>1. Active = {} /\ stack = <<>> /\ deferred = {} /\ m_self_ptr = {} /\ m_ready = {}
  BY Zenon DEF Init, Active
<1>2. \A r \in Requests : Inside(r) = {}
  BY <1>1 DEF Inside, CallsOf, LeftOf, Heights
<1> QED
  BY <1>1, <1>2, Zenon DEF DInv, Grouped, Recorded, Completed

\* Progress is made in no group, and takes only what the device has completed.
LEMMA ProgressDInv ==
    ASSUME IInv, DInv, Active = {}, TakesReady,
           UNCHANGED <<m_group_info, groups, events, device, states>>
    PROVE  DInv'
<1>1. deferred = {} /\ deferred' = {} /\ Active' = {}
  BY NoGroup, Zenon DEF Active, device
<1>2. Grouped'
  BY <1>1, Zenon DEF Grouped
<1>3. Recorded'
  BY Zenon DEF DInv, Recorded, device, states, events
<1>4. ASSUME NEW r \in Requests, Waiting(r), is_ready(m_event[r]) PROVE r \in done
  <2>1. r \in m_self_ptr
    BY <1>4, Zenon DEF IInv, Placed
  <2>2. r \in waits[m_event[r]]
    BY <1>1, <2>1, Zenon DEF DInv, Recorded
  <2> QED
    BY <1>4, <2>2, Zenon DEF is_ready
<1>5. Completed'
  BY <1>4, Zenon DEF DInv, Completed, TakesReady, device, states
<1> QED
  BY <1>2, <1>3, <1>5, Zenon DEF DInv

\* A callback returns outside a group, and its request was done.
LEMMA CallbackReturnDInv ==
    ASSUME Disciplined, IInv, DInv, CallbackReturn
    PROVE  DInv'
<1>1. PICK r \in Requests : /\ CallsOf(r) # {} /\ m_ready' = m_ready \cup {r}
                            /\ m_self_ptr' = m_self_ptr \ {r}
  BY CallbackReturnStep, Zenon
<1>2. \A s \in Requests : Inside(s)' # {} => Inside(s) # {}
  BY CallbackReturnStep, Zenon
<1>3. /\ Active = {} /\ UNCHANGED <<m_group_info, waits, device, m_event>>
  BY Zenon DEF CallbackReturn
<1>4. deferred = {} /\ deferred' = {} /\ Active' = {}
  BY <1>3, NoGroup, Zenon DEF Active, device
<1>5. Grouped'
  BY <1>4, Zenon DEF Grouped
<1>6. Recorded'
  BY <1>1, <1>3, Zenon DEF DInv, Recorded, device
<1>7. r \in done
  BY <1>1, Zenon DEF DInv, Completed, Inside
<1>8. Completed'
  BY <1>1, <1>2, <1>3, <1>7, Zenon DEF DInv, Completed, device
<1> QED
  BY <1>5, <1>6, <1>8, Zenon DEF DInv

\* A step that takes no request leaves the completed ones completed.
LEMMA CompletedKept ==
    ASSUME DInv, SameInside, m_ready' = m_ready, done \subseteq done'
    PROVE  Completed'
BY Zenon DEF DInv, Completed, SameInside, Inside

\* A kernel ends: more is done, nothing is deferred.
LEMMA KernelDoneDInv ==
    ASSUME IInv, DInv, KernelDone
    PROVE  DInv'
<1>1. SameInside /\ Quiet
  BY KernelDoneStep, Zenon
<1>2. Completed'
  BY <1>1, CompletedKept, Zenon DEF KernelDone, Quiet
<1>3. Grouped'
  BY Zenon DEF DInv, Grouped, KernelDone, Active, events, states
<1>4. Recorded'
  BY Zenon DEF DInv, Recorded, KernelDone, events, states
<1> QED
  BY <1>2, <1>3, <1>4, Zenon DEF DInv

\* A handle is dropped; the events of pending requests are still recorded.
LEMMA DropDInv ==
    ASSUME IInv, DInv, NEW r \in Requests, Drop(r)
    PROVE  DInv'
<1>1. SameInside /\ Quiet
  BY DropStep, Zenon
<1>2. Completed'
  BY <1>1, CompletedKept, Zenon DEF Drop, Quiet, device
<1>3. Grouped'
  BY Zenon DEF DInv, Grouped, Drop, Active, device
<1>4. Recorded'
  BY Zenon DEF DInv, Recorded, Drop, device
<1> QED
  BY <1>2, <1>3, <1>4, Zenon DEF DInv

\* A group starts when no other is open.
LEMMA StartGroupDInv ==
    ASSUME Disciplined, IInv, DInv, NEW c \in Comms, start_group(c)
    PROVE  DInv'
<1>1. SameInside /\ Quiet
  BY StartGroupStep, Zenon
<1>2. Completed'
  BY <1>1, CompletedKept, Zenon DEF start_group, Quiet, device
<1>3. Active = {} /\ deferred = {}
  <2>1. Active = {}
    BY Zenon DEF start_group, MayUse, Active
  <2> QED
    BY <2>1, NoGroup, Zenon
<1> DEFINE g == [event |-> Popped, last |-> None]
<1>4. Popped \in Events /\ Unowned(Popped)
  BY PopTakes, Zenon DEF IInv, Pooled, start_group
<1>5. g.event = Popped /\ g # None
  BY <1>4, GroupFacts, Zenon DEF IInv
<1> HIDE DEF g
<1>6. m_group_info' = [m_group_info EXCEPT ![c] = g]
  BY Zenon DEF start_group, g
<1>7. Active' = {c} /\ m_group_info'[c] = g
  BY <1>3, <1>5, <1>6, Zenon DEF IInv, Types, Active
<1>8. deferred' = {} /\ stack' = stack /\ UNCHANGED <<m_self_ptr, handle, m_event, waits>>
  BY <1>3, Zenon DEF start_group, device, states
<1>9. stack # <<>> => Head(stack).f = "callback"
  BY Zenon DEF start_group, MayUse, UserTurn
<1>10. Grouped'
  BY <1>4, <1>5, <1>7, <1>8, <1>9, Zenon DEF Grouped, Unowned
<1>11. Recorded'
  BY <1>3, <1>8, Zenon DEF DInv, Recorded
<1> QED
  BY <1>2, <1>10, <1>11, Zenon DEF DInv

\* The record of the group's event waits for every operation of the group.
LEMMA EndGroupDInv ==
    ASSUME Disciplined, IInv, DInv, NEW c \in Comms, end_group(c)
    PROVE  DInv'
<1> DEFINE g == m_group_info[c]
<1>1. SameInside /\ Quiet
  BY EndGroupStep, Zenon
<1>2. Completed'
  BY <1>1, CompletedKept, Zenon DEF end_group, Quiet
<1>3. g # None /\ Active = {c} /\ g.event \in Events
  BY GroupFacts, Zenon DEF IInv, end_group, MayUse, Active
<1>4. Active' = {} /\ deferred' = {} /\ UNCHANGED <<m_self_ptr, handle, m_event>>
  <2>1. /\ m_group_info' = [m_group_info EXCEPT ![c] = None]
        /\ deferred' = {} /\ UNCHANGED <<m_self_ptr, handle, m_event>>
    BY <1>3, Zenon DEF end_group, states
  <2> QED
    BY <1>3, <2>1 DEF IInv, Types, Active
<1>5. Grouped'
  BY <1>4, Zenon DEF Grouped
<1>6. \A s \in m_self_ptr : m_event[s] \in Events
  BY Zenon DEF IInv, Types
<1>7. CASE deferred = {}
  <2>1. ASSUME NEW s \in m_self_ptr PROVE s \in waits'[m_event[s]]
    <3>1. s \in waits[m_event[s]] /\ m_event[s] # g.event
      BY <1>3, <1>7, Zenon DEF DInv, Recorded, Grouped
    <3>2. CASE g.last # None
      <4>1. Launched(c) \subseteq SUBSET Requests
        BY <1>7, Zenon DEF Launched, IInv, Types
      <4>2. \A x \in Events \ {g.event} : waits'[x] = waits[x]
        BY <1>3, <3>2, <4>1, RecordWaits, Zenon DEF end_group, RecordedAfter, IInv
      <4> QED
        BY <1>6, <3>1, <4>2, Zenon
    <3>3. CASE g.last = None
      BY <3>1, <3>3, Zenon DEF end_group
    <3> QED
      BY <3>2, <3>3, Zenon
  <2> QED
    BY <1>2, <1>4, <1>5, <2>1, Zenon DEF DInv, Recorded
<1>8. CASE deferred # {}
  <2>1. PICK r \in deferred : g.last = StreamOf[r]
    BY <1>3, <1>8, Zenon DEF DInv, Grouped
  <2>2. deferred \subseteq Requests /\ Launched(c) = inflight \cup {deferred} /\ Launched(c) \subseteq SUBSET Requests
    BY <1>3, <1>8 DEF Launched, IInv, Types, TypeOK
  <2>3. g.last # None
    BY <2>1, <2>2, NcclAssumption DEF Streams, Range
  <2>4. Record(g.event, g.last, Launched(c))
    BY <2>3, Zenon DEF end_group, RecordedAfter
  <2>5. /\ waits'[g.event] = UNION {k \in Launched(c) : \E s \in k : StreamOf[s] = g.last}
        /\ \A x \in Events \ {g.event} : waits'[x] = waits[x]
    <3>1. PICK ks \in SUBSET SUBSET Requests : ks = Launched(c)
      BY <2>2, Zenon
    <3>2. /\ waits'[g.event] = UNION {k \in ks : \E s \in k : StreamOf[s] = g.last}
          /\ \A x \in Events \ {g.event} : waits'[x] = waits[x]
      <4>1. Types /\ g.event \in Events /\ Record(g.event, g.last, ks)
        BY <1>3, <2>4, <3>1, Zenon DEF IInv
      <4> QED
        BY <4>1, RecordWaits
    <3> QED
      BY <3>1, <3>2, Zenon
  <2>6. deferred \subseteq waits'[g.event]
    BY <2>1, <2>2, <2>5, Zenon
  <2>7. ASSUME NEW s \in m_self_ptr PROVE s \in waits'[m_event[s]]
    <3>1. CASE s \in deferred
      BY <1>3, <2>6, <3>1, Zenon DEF DInv, Grouped
    <3>2. CASE s \notin deferred
      BY <1>3, <1>6, <2>5, <3>2, Zenon DEF DInv, Grouped, Recorded
    <3> QED
      BY <3>1, <3>2, Zenon
  <2> QED
    BY <1>2, <1>4, <1>5, <2>7, Zenon DEF DInv, Recorded
<1> QED
  BY <1>7, <1>8, Zenon

\* A request joins the open group, or its own event is recorded after it.
LEMMA PostDInv ==
    ASSUME Disciplined, IInv, DInv, NEW r \in Requests, post(r)
    PROVE  DInv'
<1> DEFINE c == PostedOn[r]
           g == m_group_info[c]
<1>1. IInv' /\ SameInside /\ m_ready' = m_ready /\ r \notin posted
  BY PostStep, Zenon
<1>2. Completed'
  BY <1>1, CompletedKept, Zenon DEF post
<1>3. c \in Comms /\ Active \subseteq {c} /\ r \notin m_self_ptr /\ r \notin handle /\ r \notin deferred
  BY <1>1, NcclAssumption DEF post, MayUse, IInv, Types, TypeOK
<1>4. /\ m_self_ptr' = m_self_ptr \cup {r} /\ handle' = handle \cup {r} /\ stack' = stack
      /\ stack # <<>> => Head(stack).f = "callback"
  BY Zenon DEF post, MayUse, UserTurn
<1>5. CASE g # None
  <2>1. Active = {c} /\ g.event \in Events
    BY <1>3, <1>5, GroupFacts, Zenon DEF Active, IInv
  <2>2. deferred' = deferred \cup {r} /\ waits' = waits
    BY <1>5, <2>1, Zenon DEF post, events
  <2>3. m_event' = [m_event EXCEPT ![r] = g.event]
    BY <1>5, Zenon DEF post
  <2>4. m_event'[r] = g.event /\ \A s \in Requests \ {r} : m_event'[s] = m_event[s]
    BY <2>3, Zenon DEF IInv, Types, TypeOK
  <2> DEFINE h == [g EXCEPT !.last = StreamOf[r]]
  <2>5. m_group_info' = [m_group_info EXCEPT ![c] = h]
    BY <1>5, Zenon DEF post
  <2>6. g \in GroupInfo
    BY <1>3, <1>5, Zenon DEF IInv, Types
  <2>7. h.event = g.event /\ h.last = StreamOf[r] /\ h # None
    <3>1. h \in GroupInfo
      BY <2>6, NcclAssumption, Zenon DEF GroupInfo, Streams, Range
    <3> QED
      BY <2>6, <3>1, GroupFacts, <1>3, Zenon DEF GroupInfo, IInv
  <2> HIDE DEF h
  <2>8. Active' = {c} /\ m_group_info'[c] = h
    BY <1>3, <2>1, <2>5, <2>7, Zenon DEF IInv, Types, Active
  <2>9. m_self_ptr \cup handle \subseteq Requests /\ deferred \subseteq Requests
    BY Zenon DEF IInv, Types, TypeOK
  <2>10. /\ \A s \in deferred' : m_event'[s] = h.event
         /\ \A s \in m_self_ptr' \cup handle' : m_event'[s] = h.event => s \in deferred'
    BY <1>3, <1>4, <2>1, <2>2, <2>4, <2>7, <2>9, Zenon DEF DInv, Grouped
  <2>11. Grouped'
    BY <1>4, <2>2, <2>7, <2>8, <2>10, Zenon DEF Grouped
  <2>12. Recorded'
    BY <1>3, <1>4, <2>2, <2>4, <2>9, Zenon DEF DInv, Recorded
  <2> QED
    BY <1>2, <2>11, <2>12, Zenon DEF DInv
<1>6. CASE g = None
  <2>1. Active = {} /\ deferred = {}
    <3>1. Active = {}
      BY <1>3, <1>6, Zenon DEF Active
    <3> QED
      BY <3>1, NoGroup, Zenon
  <2>2. /\ deferred' = {} /\ inflight' = inflight \cup {{r}} /\ m_group_info' = m_group_info
        /\ Pop /\ Record(Popped, StreamOf[r], inflight') /\ m_event' = [m_event EXCEPT ![r] = Popped]
    BY <1>6, <2>1, Zenon DEF post
  <2>3. Popped \in Events /\ Unowned(Popped)
    BY <2>2, PopTakes, Zenon DEF IInv, Pooled
  <2>4. inflight' \subseteq SUBSET Requests
    BY <2>2, Zenon DEF IInv, Types
  <2>5. /\ waits'[Popped] = UNION {k \in inflight' : \E s \in k : StreamOf[s] = StreamOf[r]}
        /\ \A x \in Events \ {Popped} : waits'[x] = waits[x]
    BY <2>2, <2>3, <2>4, RecordWaits DEF IInv
  <2>6. r \in waits'[Popped]
    BY <2>2, <2>5, ZenonT(30)
  <2>7. ASSUME NEW s \in m_self_ptr'
        PROVE  s \in waits'[m_event'[s]]
    <3>1. CASE s = r
      BY <2>2, <2>6, <3>1, Zenon DEF IInv, Types, TypeOK
    <3>2. CASE s # r
      <4>1. s \in m_self_ptr /\ s \in Requests /\ m_event[s] \in Events
        BY <1>4, <3>2, Zenon DEF IInv, Types, TypeOK
      <4>2. m_event'[s] = m_event[s] /\ m_event[s] # Popped
        BY <2>2, <2>3, <3>2, <4>1, Zenon DEF IInv, Types, TypeOK, Unowned
      <4>3. s \in waits[m_event[s]]
        BY <2>1, <4>1, Zenon DEF DInv, Recorded
      <4> QED
        BY <2>5, <4>1, <4>2, <4>3, Zenon
    <3> QED
      BY <3>1, <3>2, Zenon
  <2>8. Grouped'
    BY <2>1, <2>2, Zenon DEF Grouped, Active
  <2> QED
    BY <1>2, <2>7, <2>8, Zenon DEF DInv, Recorded
<1> QED
  BY <1>5, <1>6, Zenon

\* Every step of a disciplined program keeps the invariant.
LEMMA DInvStep ==
    ASSUME Disciplined, IInv, DInv, [Next]_vars
    PROVE  DInv'
<1>1. ASSUME NEW c \in Comms, progress(c) PROVE DInv'
  <2>1. Active = {}
    BY <1>1, Zenon DEF progress, MayUse, Active
  <2>2. TakesReady
    BY <1>1, EnterStep, SameTakesNone, Zenon DEF progress
  <2> QED
    BY <1>1, <2>1, <2>2, ProgressDInv, Zenon DEF progress, Enter
<1>2. ASSUME ContextProgress PROVE DInv'
  <2>1. TakesReady
    BY <1>2, EnterStep, SameTakesNone, Zenon DEF ContextProgress
  <2> QED
    BY <1>2, <2>1, ProgressDInv, Zenon DEF ContextProgress, Enter
<1>3. ASSUME Library PROVE DInv'
  <2>1. stack # <<>> /\ Head(stack).f # "callback"
    BY <1>3, Zenon DEF Library, Look, LookShared, Call, QueueDone, AtLook, Found
  <2>2. Active = {}
    BY <2>1, Zenon DEF DInv, Grouped
  <2>3. TakesReady
    BY <1>3, LookStep, LookSharedStep, CallStep, QueueDoneStep, Zenon DEF Library
  <2>4. UNCHANGED <<m_group_info, groups, events, device, states>>
    BY <1>3, Zenon DEF Library, Look, LookShared, Call, QueueDone
  <2> QED
    BY <2>2, <2>3, <2>4, ProgressDInv, Zenon
<1>4. ASSUME UNCHANGED vars PROVE DInv'
  <2>1. SameInside
    BY <1>4, StutterStep, Zenon
  <2>2. Completed'
    BY <1>4, <2>1, CompletedKept, Zenon DEF vars, states, device
  <2>3. Grouped' /\ Recorded'
    BY <1>4, Zenon DEF DInv, Grouped, Recorded, Active, vars, events, device, states
  <2> QED
    BY <2>2, <2>3, Zenon DEF DInv
<1> QED
  BY <1>1, <1>2, <1>3, <1>4, StartGroupDInv, EndGroupDInv, PostDInv, DropDInv, CallbackReturnDInv,
     KernelDoneDInv, Zenon DEF Next

\* For a user that keeps the discipline of groups, a callback runs only after
\* the device has completed the operation: neither the event of a group, which
\* its operations have before it is recorded, nor the old record of a recycled
\* event makes a request ready early (communicator_impl::end_group,
\* cuda_event::is_ready).
THEOREM ReadyOnlyWhenDone == ASSUME Disciplined PROVE Spec => []NotReadyEarly
<1>1. IInv /\ DInv => NotReadyEarly
  <2> SUFFICES ASSUME IInv, DInv PROVE NotReadyEarly
    BY Zenon
  <2>1. ASSUME NEW r \in Called PROVE r \in Requests
    <3>1. m_ready \subseteq Requests
      BY Zenon DEF IInv, Types, TypeOK
    <3>2. \A i \in DOMAIN stack : stack[i] \in Frames
      BY QueueTypes DEF IInv
    <3> QED
      BY <3>1, <3>2, FrameFacts, Zenon DEF Called
  <2>2. \A r \in Requests : r \in Called => r \in m_ready \/ Inside(r) # {}
    BY CalledHeights, Zenon DEF Inside
  <2> QED
    BY <2>1, <2>2, Zenon DEF DInv, Completed, NotReadyEarly
<1>2. IInv /\ DInv /\ [Next]_vars => DInv'
  BY DInvStep, Zenon
<1> QED
  BY <1>1, <1>2, Invariance, InitDInv, PTL DEF Spec
=============================================================================
