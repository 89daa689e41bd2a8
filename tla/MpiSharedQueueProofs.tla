----------------------- MODULE MpiSharedQueueProofs -----------------------
(***************************************************************************)
(* The shared queue of the MPI backend, proved for any finite sets of      *)
(* threads and requests: OnePlace, RecursionBounded, and the refinement of *)
(* RequestLifecycle.                                                       *)
(*                                                                         *)
(* Only the calls on a stack matter to the proofs, not their order, apart  *)
(* from this: no two are equal, and all but the innermost are callbacks.   *)
(* The inductive invariant adds to OnePlace which calls can be about a     *)
(* request in which state, that no two threads are in the callback of the  *)
(* same request, and what the two counters count.                          *)
(***************************************************************************)
EXTENDS MpiSharedQueue, SequenceLemmas, FiniteSetTheorems

Calls(t) == Range(stack[t])

IsCallback(f) == f[1] \in {"early", "queued"}

Stacks ==
    \A t \in Threads :
        /\ IsInjective(stack[t])
        /\ \A f \in Calls(t) : IsCallback(f) \/ f = Head(stack[t])

\* Thread t has popped request r, in terms of its calls.
Holds(t, r) == r \in Range(m_local_queue[t]) \/ PushingBack(r) \in Calls(t)

Places ==
    /\ IsInjective(m_queue)
    /\ \A t \in Threads : IsInjective(m_local_queue[t])
    /\ \A r \in Requests :
        /\ r \in m_self_ptr <=> r \in Range(m_queue) \/ \E t \in Threads : Holds(t, r)
        /\ \A t \in Threads :
            /\ r \in Range(m_local_queue[t]) => PushingBack(r) \notin Calls(t)
            /\ Holds(t, r) => r \notin Range(m_queue)
            /\ \A u \in Threads \ {t} : Holds(t, r) => ~Holds(u, r)

\* The calls about a request, and its state.
Progressed ==
    \A r \in Requests :
        /\ r \in made => mpi[r] # "none"
        /\ r \in m_self_ptr => r \in made \ m_ready
        /\ \A t \in Threads :
            /\ Tested(r) \in Calls(t) => InEarly(r) \notin Calls(t)
            /\ Tested(r) \in Calls(t) \/ InEarly(r) \in Calls(t)
                => mpi[r] = "null" /\ r \notin made
            /\ InQueued(r) \in Calls(t) => r \in made \ (m_ready \cup m_self_ptr)
            /\ \A u \in Threads \ {t} :
                /\ Tested(r) \in Calls(t) \/ InEarly(r) \in Calls(t)
                    => Tested(r) \notin Calls(u) /\ InEarly(r) \notin Calls(u)
                /\ InQueued(r) \in Calls(t) => InQueued(r) \notin Calls(u)

\* The requests whose early callback runs, and the threads about to run one.
Early == {r \in Requests : \E t \in Threads : InEarly(r) \in Calls(t)}
Testing == {t \in Threads : \E r \in Requests : Tested(r) \in Calls(t)}

Counts ==
    /\ scheduled = Cardinality(made \ m_ready)
    /\ m_recursion_depth = Cardinality(Early)
    /\ m_recursion_depth + Cardinality(Testing) <= RecursionDepth + Cardinality(Threads)

IInv == TypeOK /\ Stacks /\ Places /\ Progressed /\ Counts
-----------------------------------------------------------------------------
(* Frames and stacks.                                                      *)

\* Frames of different kinds, and of different requests, differ.
LEMMA FrameFacts ==
    /\ Popping \in Frames /\ ~IsCallback(Popping) /\ Popping[1] = "pop"
    /\ \A e \in Requests \cup {None} :
        /\ PushingBack(e) \in Frames /\ ~IsCallback(PushingBack(e))
        /\ PushingBack(e)[1] = "push" /\ PushingBack(e)[2] = e
    /\ \A r \in Requests :
        /\ {Tested(r), InEarly(r), InQueued(r)} \subseteq Frames
        /\ ~IsCallback(Tested(r)) /\ IsCallback(InEarly(r)) /\ IsCallback(InQueued(r))
        /\ Tested(r)[1] = "tested" /\ InEarly(r)[1] = "early" /\ InQueued(r)[1] = "queued"
        /\ Tested(r)[2] = r /\ InEarly(r)[2] = r /\ InQueued(r)[2] = r
    /\ \A r \in Requests, c \in BOOLEAN :
        /\ Consuming(r, c) \in Frames /\ ~IsCallback(Consuming(r, c))
        /\ Restoring(r, c) \in Frames /\ ~IsCallback(Restoring(r, c))
        /\ Consuming(r, c)[1] = "consume" /\ Restoring(r, c)[1] = "restore"
BY DEF Frames, Popping, PushingBack, Tested, InEarly, InQueued, Consuming, Restoring, IsCallback

\* The frames of different requests, and of different calls, differ.
LEMMA FramesDiffer ==
    \A r, s \in Requests :
        /\ PushingBack(r) = PushingBack(s) => r = s
        /\ Tested(r) = Tested(s) => r = s
        /\ InEarly(r) = InEarly(s) => r = s
        /\ InQueued(r) = InQueued(s) => r = s
        /\ PushingBack(r) \notin {Tested(s), InEarly(s), InQueued(s)}
        /\ Tested(r) \notin {PushingBack(s), InEarly(s), InQueued(s)}
        /\ InEarly(r) \notin {PushingBack(s), Tested(s), InQueued(s)}
        /\ InQueued(r) \notin {PushingBack(s), Tested(s), InEarly(s)}
BY Zenon DEF PushingBack, Tested, InEarly, InQueued

\* A call that is no callback is the innermost one.
LEMMA TopCalls ==
    ASSUME TypeOK, Stacks, NEW t \in Threads, NEW f
    PROVE  /\ OnTop(t, f) => f \in Calls(t) /\ stack[t] # <<>> /\ f = Head(stack[t])
           /\ f \in Calls(t) /\ ~IsCallback(f) => OnTop(t, f)
<1>1. stack[t] \in Seq(Frames)
  BY Zenon DEF TypeOK
<1>2. stack[t] # <<>> => Head(stack[t]) \in Calls(t)
  BY <1>1, TailRest, Zenon DEF Stacks, Calls
<1>3. Calls(t) # {} => stack[t] # <<>>
  BY <1>1, RangeInSet, Zenon DEF Calls
<1> QED
  BY <1>2, <1>3, Zenon DEF OnTop, Stacks

\* A step changes the calls of thread t, to calls, and of no other thread.
CallsBecome(t, calls) ==
    /\ stack' \in [Threads -> Seq(Frames)]
    /\ Stacks'
    /\ \A u \in Threads : Calls(u)' = IF u = t THEN calls ELSE Calls(u)

\* User code makes a call.
LEMMA PushCalls ==
    ASSUME TypeOK, Stacks, NEW t \in Threads, NEW f \in Frames, ~IsCallback(f),
           UserTurn(t), Push(t, f)
    PROVE  CallsBecome(t, Calls(t) \cup {f})
<1>1. stack[t] \in Seq(Frames) /\ IsInjective(stack[t])
  BY Zenon DEF TypeOK, Stacks
<1>2. \A g \in Calls(t) : IsCallback(g)
  BY TopCalls, Zenon DEF UserTurn, OnTop, Stacks, IsCallback
<1>3. f \notin Range(stack[t])
  BY <1>2, Zenon DEF Calls
<1>4. /\ <<f>> \o stack[t] \in Seq(Frames) /\ IsInjective(<<f>> \o stack[t])
      /\ Range(<<f>> \o stack[t]) = Calls(t) \cup {f} /\ Head(<<f>> \o stack[t]) = f
  BY <1>1, <1>3, PushNew, Zenon DEF Calls
<1>5. stack' = [stack EXCEPT ![t] = <<f>> \o stack[t]] /\ stack \in [Threads -> Seq(Frames)]
  BY Zenon DEF Push, TypeOK
<1>6. stack' \in [Threads -> Seq(Frames)]
  BY <1>4, <1>5, Zenon
<1>7. \A u \in Threads : stack'[u] = IF u = t THEN <<f>> \o stack[t] ELSE stack[u]
  BY <1>5, Zenon
<1>8. ASSUME NEW u \in Threads
      PROVE  IsInjective(stack'[u]) /\ \A h \in Range(stack'[u]) : IsCallback(h) \/ h = Head(stack'[u])
  <2>1. CASE u = t
    BY <1>2, <1>4, <1>7, <2>1, Zenon
  <2>2. CASE u # t
    BY <1>7, <2>2, Zenon DEF Stacks, Calls
  <2> QED
    BY <2>1, <2>2, Zenon
<1>9. Stacks'
  BY <1>8, Zenon DEF Stacks, Calls
<1> QED
  BY <1>4, <1>6, <1>7, <1>9, Zenon DEF CallsBecome, Calls

\* The innermost call, which is no callback, goes on as another.
LEMMA ReplaceCalls ==
    ASSUME TypeOK, Stacks, NEW t \in Threads, NEW g, NEW f \in Frames, ~IsCallback(g),
           f \notin Calls(t) \/ ~IsCallback(f), OnTop(t, g), Replace(t, f)
    PROVE  CallsBecome(t, (Calls(t) \ {g}) \cup {f})
<1>1. stack[t] \in Seq(Frames) /\ IsInjective(stack[t]) /\ stack[t] # <<>> /\ Head(stack[t]) = g
  BY Zenon DEF TypeOK, Stacks, OnTop
<1>2. Tail(stack[t]) \in Seq(Frames) /\ IsInjective(Tail(stack[t])) /\ Range(Tail(stack[t])) = Calls(t) \ {g}
  BY <1>1, TailRest, Zenon DEF Calls
<1>3. \A h \in Calls(t) \ {g} : IsCallback(h)
  BY <1>1, Zenon DEF Stacks
<1>4. f \notin Range(Tail(stack[t]))
  BY <1>2, <1>3, Zenon
<1>5. /\ <<f>> \o Tail(stack[t]) \in Seq(Frames) /\ IsInjective(<<f>> \o Tail(stack[t]))
      /\ Range(<<f>> \o Tail(stack[t])) = (Calls(t) \ {g}) \cup {f}
      /\ Head(<<f>> \o Tail(stack[t])) = f
  BY <1>2, <1>4, PushNew, ZenonT(30)
<1>6. stack' = [stack EXCEPT ![t] = <<f>> \o Tail(stack[t])] /\ stack \in [Threads -> Seq(Frames)]
  BY Zenon DEF Replace, TypeOK
<1>7. stack' \in [Threads -> Seq(Frames)]
  BY <1>5, <1>6, Zenon
<1>8. \A u \in Threads : stack'[u] = IF u = t THEN <<f>> \o Tail(stack[t]) ELSE stack[u]
  BY <1>6, Zenon
<1>9. Stacks'
  BY <1>3, <1>5, <1>8, Zenon DEF Stacks, Calls
<1> QED
  BY <1>5, <1>7, <1>8, <1>9, Zenon DEF CallsBecome, Calls

\* The innermost call returns.
LEMMA ReturnCalls ==
    ASSUME TypeOK, Stacks, NEW t \in Threads, NEW g, OnTop(t, g), Return(t)
    PROVE  CallsBecome(t, Calls(t) \ {g})
<1>1. stack[t] \in Seq(Frames) /\ IsInjective(stack[t]) /\ stack[t] # <<>> /\ Head(stack[t]) = g
  BY Zenon DEF TypeOK, Stacks, OnTop
<1>2. Tail(stack[t]) \in Seq(Frames) /\ IsInjective(Tail(stack[t])) /\ Range(Tail(stack[t])) = Calls(t) \ {g}
  BY <1>1, TailRest, Zenon DEF Calls
<1>3. \A h \in Calls(t) \ {g} : IsCallback(h)
  BY <1>1, Zenon DEF Stacks
<1>4. stack' = [stack EXCEPT ![t] = Tail(stack[t])] /\ stack \in [Threads -> Seq(Frames)]
  BY Zenon DEF Return, TypeOK
<1>5. stack' \in [Threads -> Seq(Frames)]
  BY <1>2, <1>4, Zenon
<1>6. \A u \in Threads : stack'[u] = IF u = t THEN Tail(stack[t]) ELSE stack[u]
  BY <1>4, Zenon
<1>7. Stacks'
  BY <1>2, <1>3, <1>6, Zenon DEF Stacks, Calls
<1> QED
  BY <1>2, <1>5, <1>6, <1>7, Zenon DEF CallsBecome, Calls
-----------------------------------------------------------------------------
(* Steps that leave a part of the invariant alone.                         *)

\* No call is made or ended that is about a request.
About(r) == {PushingBack(r), Tested(r), InEarly(r), InQueued(r)}
SameCalls ==
    \A t \in Threads, r \in Requests : \A f \in About(r) : f \in Calls(t)' <=> f \in Calls(t)

\* A step that moves no request.
LEMMA PlacesKept ==
    ASSUME Places, SameCalls, UNCHANGED <<m_queue, m_local_queue, m_self_ptr>>
    PROVE  Places'
<1>1. \A t \in Threads, r \in Requests : PushingBack(r) \in Calls(t)' <=> PushingBack(r) \in Calls(t)
  BY Zenon DEF SameCalls, About
<1>2. \A t \in Threads, r \in Requests : Holds(t, r)' <=> Holds(t, r)
  BY <1>1, Zenon DEF Holds
<1> QED
  BY <1>1, <1>2, Zenon DEF Places

\* A step that completes no request.
LEMMA ProgressedKept ==
    ASSUME Progressed, SameCalls, UNCHANGED <<made, m_ready, m_self_ptr>>,
           \A r \in Requests : /\ mpi'[r] = "none" <=> mpi[r] = "none"
                               /\ mpi[r] = "null" => mpi'[r] = "null"
    PROVE  Progressed'
<1> DEFINE P(r, t) == /\ Tested(r) \in Calls(t)' <=> Tested(r) \in Calls(t)
                      /\ InEarly(r) \in Calls(t)' <=> InEarly(r) \in Calls(t)
                      /\ InQueued(r) \in Calls(t)' <=> InQueued(r) \in Calls(t)
<1>1. \A t \in Threads, r \in Requests : P(r, t)
  BY Zenon DEF SameCalls, About
<1> QED
  BY <1>1 DEF Progressed

\* A step that leaves the counters and the calls alone.
LEMMA CountsKept ==
    ASSUME Counts, SameCalls, UNCHANGED <<made, m_ready, scheduled, m_recursion_depth>>
    PROVE  Counts'
<1>1. Early' = Early
  BY Zenon DEF SameCalls, About, Early
<1>2. Testing' = Testing
  BY Zenon DEF SameCalls, About, Testing
<1> QED
  BY <1>1, <1>2, Zenon DEF Counts

\* Calls about no request come and go: the loops of progress and of cancel.
Aside(f) == \A r \in Requests : f \notin About(r)

\* Frames that hold no request of their own.
LEMMA AsideFrames ==
    /\ Aside(Popping) /\ Aside(PushingBack(None))
    /\ \A r \in Requests, c \in BOOLEAN : Aside(Consuming(r, c)) /\ Aside(Restoring(r, c))
BY FrameFacts, MpiSharedQueueAssumption DEF Aside, About

\* Entering, changing or leaving such a call moves no request.
LEMMA AsideCalls ==
    ASSUME NEW t \in Threads, NEW f, NEW g, Aside(f), Aside(g),
           \/ CallsBecome(t, Calls(t) \cup {f})
           \/ CallsBecome(t, (Calls(t) \ {g}) \cup {f})
           \/ CallsBecome(t, Calls(t) \ {g})
    PROVE  SameCalls
BY Zenon DEF CallsBecome, SameCalls, Aside

\* A step that leaves the call stacks alone.
LEMMA CallsUnchanged ==
    ASSUME Stacks, TypeOK, UNCHANGED stack
    PROVE  stack' \in [Threads -> Seq(Frames)] /\ Stacks' /\ SameCalls
BY Zenon DEF Stacks, SameCalls, Calls, TypeOK

\* A step of those loops.
LEMMA AsideStep ==
    ASSUME IInv, stack' \in [Threads -> Seq(Frames)], Stacks', SameCalls,
           UNCHANGED <<mpi, m_queue, m_local_queue, stateVars, m_recursion_depth>>,
           in_progress' \in [Threads -> BOOLEAN], cancels' \in 0..MaxCancels
    PROVE  IInv'
<1>1. TypeOK'
  BY Zenon DEF IInv, TypeOK, stateVars
<1>2. Places'
  BY PlacesKept, Zenon DEF IInv, stateVars
<1>3. Progressed'
  BY ProgressedKept, Zenon DEF IInv, stateVars
<1>4. Counts'
  BY CountsKept, Zenon DEF IInv, stateVars
<1> QED
  BY <1>1, <1>2, <1>3, <1>4, Zenon DEF IInv
-----------------------------------------------------------------------------
(* The invariant holds at first, and every action keeps it.                *)

\* Nothing is posted at the start.
LEMMA InitIInv == Init => IInv
<1> SUFFICES ASSUME Init PROVE IInv
  BY Zenon
<1>1. TypeOK
  BY MpiSharedQueueAssumption DEF Init, TypeOK
<1>2. \A t \in Threads : Calls(t) = {} /\ Range(m_local_queue[t]) = {} /\ IsInjective(stack[t])
                         /\ IsInjective(m_local_queue[t])
  BY DEF Init, Calls, Range, IsInjective
<1>3. IsInjective(m_queue) /\ Range(m_queue) = {}
  BY DEF Init, Range, IsInjective
<1>4. Stacks
  BY <1>2, Zenon DEF Stacks
<1>5. Places
  BY <1>2, <1>3, Zenon DEF Places, Holds, Init
<1>6. Progressed
  BY <1>2, Zenon DEF Progressed, Init
<1>7. Counts
  <2>1. Early = {} /\ Testing = {} /\ made \ m_ready = {}
    BY <1>2, Zenon DEF Early, Testing, Init
  <2>2. Cardinality({}) = 0 /\ Cardinality(Threads) \in Nat
    BY FS_EmptySet, FS_CardinalityType, MpiSharedQueueAssumption, Zenon
  <2> QED
    BY <2>1, <2>2, MpiSharedQueueAssumption DEF Counts, Init
<1> QED
  BY <1>1, <1>4, <1>5, <1>6, <1>7, Zenon DEF IInv

\* progress is called.
LEMMA ProgressStep ==
    ASSUME IInv, NEW t \in Threads, Progress(t) PROVE IInv' /\ SameCalls
<1>1. CallsBecome(t, Calls(t) \cup {Popping})
  BY PushCalls, FrameFacts, Zenon DEF IInv, Progress
<1>2. stack' \in [Threads -> Seq(Frames)] /\ Stacks' /\ SameCalls
  BY <1>1, AsideCalls, AsideFrames, Zenon DEF CallsBecome
<1> QED
  BY <1>2, AsideStep, Zenon DEF Progress, IInv, TypeOK

\* progress finds the queue empty.
LEMMA PopNothingStep ==
    ASSUME IInv, NEW t \in Threads, PopNothing(t) PROVE IInv' /\ SameCalls
<1>1. CallsBecome(t, (Calls(t) \ {Popping}) \cup {PushingBack(None)})
  BY ReplaceCalls, FrameFacts, Zenon DEF IInv, PopNothing
<1>2. stack' \in [Threads -> Seq(Frames)] /\ Stacks' /\ SameCalls
  BY <1>1, AsideCalls, AsideFrames, Zenon DEF CallsBecome
<1> QED
  BY <1>2, AsideStep, Zenon DEF PopNothing, queueVars, IInv, TypeOK

\* progress returns.
LEMMA ProgressReturnStep ==
    ASSUME IInv, NEW t \in Threads, ProgressReturn(t) PROVE IInv' /\ SameCalls
<1>1. CallsBecome(t, Calls(t) \ {PushingBack(None)})
  BY ReturnCalls, Zenon DEF IInv, ProgressReturn
<1>2. stack' \in [Threads -> Seq(Frames)] /\ Stacks' /\ SameCalls
  BY <1>1, AsideCalls, AsideFrames, Zenon DEF CallsBecome
<1> QED
  BY <1>2, AsideStep, Zenon DEF ProgressReturn, IInv, TypeOK

\* cancel is called.
LEMMA CancelStep ==
    ASSUME IInv, NEW t \in Threads, NEW r \in Requests, Cancel(t, r) PROVE IInv' /\ SameCalls
<1>1. CallsBecome(t, Calls(t) \cup {Consuming(r, FALSE)})
  BY PushCalls, FrameFacts, Zenon DEF IInv, Cancel
<1>2. stack' \in [Threads -> Seq(Frames)] /\ Stacks' /\ SameCalls
  BY <1>1, AsideCalls, AsideFrames, Zenon DEF CallsBecome
<1> QED
  BY <1>2, AsideStep, MpiSharedQueueAssumption DEF Cancel, queueVars, IInv, TypeOK

\* The pass of cancel over the queue ends.
LEMMA ConsumeEndStep ==
    ASSUME IInv, NEW t \in Threads, NEW r \in Requests, NEW c \in BOOLEAN, ConsumeEnd(t, r, c)
    PROVE  IInv' /\ SameCalls
<1>1. CallsBecome(t, (Calls(t) \ {Consuming(r, c)}) \cup {Restoring(r, c)})
  BY ReplaceCalls, FrameFacts, Zenon DEF IInv, ConsumeEnd
<1>2. Aside(Consuming(r, c)) /\ Aside(Restoring(r, c))
  BY AsideFrames, Zenon
<1>3. SameCalls
  BY <1>1, <1>2, AsideCalls, Zenon
<1> QED
  BY <1>1, <1>3, AsideStep, Zenon DEF CallsBecome, ConsumeEnd, queueVars, IInv, TypeOK

\* cancel returns, once the requests it set aside are back in the queue.
LEMMA CancelReturnStep ==
    ASSUME IInv, NEW t \in Threads, NEW r \in Requests, NEW c \in BOOLEAN, CancelReturn(t, r, c)
    PROVE  IInv' /\ SameCalls
<1>1. CallsBecome(t, Calls(t) \ {Restoring(r, c)})
  BY ReturnCalls, Zenon DEF IInv, CancelReturn
<1>2. Aside(Restoring(r, c))
  BY AsideFrames, Zenon
<1>3. SameCalls
  BY <1>1, <1>2, AsideCalls, Zenon
<1> QED
  BY <1>1, <1>3, AsideStep, Zenon DEF CallsBecome, CancelReturn, queueVars, IInv, TypeOK

\* MPI completes a request.
LEMMA MpiCompleteStep ==
    ASSUME IInv, NEW r \in Requests, MpiComplete(r) PROVE IInv'
<1>1. stack' \in [Threads -> Seq(Frames)] /\ Stacks' /\ SameCalls
  BY CallsUnchanged, Zenon DEF MpiComplete, IInv
<1>2. TypeOK'
  BY Zenon DEF IInv, TypeOK, MpiComplete, queueVars, stateVars
<1>3. Places'
  BY <1>1, PlacesKept, Zenon DEF IInv, MpiComplete, queueVars, stateVars
<1>4. Progressed'
  <2>1. \A s \in Requests : /\ mpi'[s] = "none" <=> mpi[s] = "none"
                            /\ mpi[s] = "null" => mpi'[s] = "null"
    BY Zenon DEF IInv, TypeOK, MpiComplete
  <2> QED
    BY <1>1, <2>1, ProgressedKept, Zenon DEF IInv, MpiComplete, stateVars
<1>5. Counts'
  BY <1>1, CountsKept, Zenon DEF IInv, MpiComplete, stateVars
<1> QED
  BY <1>1, <1>2, <1>3, <1>4, <1>5, Zenon DEF IInv

\* The sets that are counted are finite.
LEMMA CountedFinite ==
    ASSUME TypeOK
    PROVE  /\ IsFiniteSet(Early) /\ IsFiniteSet(Testing) /\ IsFiniteSet(made \ m_ready)
           /\ Cardinality(Early) \in Nat /\ Cardinality(Testing) \in Nat
           /\ Cardinality(made \ m_ready) \in Nat /\ Cardinality(Threads) \in Nat
<1>1. Early \subseteq Requests /\ Testing \subseteq Threads /\ made \ m_ready \subseteq Requests
  BY Zenon DEF Early, Testing, TypeOK
<1>2. IsFiniteSet(Early) /\ IsFiniteSet(Testing) /\ IsFiniteSet(made \ m_ready)
  BY <1>1, FS_Subset, MpiSharedQueueAssumption, Zenon
<1> QED
  BY <1>2, FS_CardinalityType, MpiSharedQueueAssumption, Zenon

\* A request is posted and MPI_Test finds it done.
LEMMA PostEarlyStep ==
    ASSUME IInv, NEW t \in Threads, NEW r \in Requests, PostEarly(t, r)
    PROVE  IInv' /\ CallsBecome(t, Calls(t) \cup {Tested(r)})
<1>1. CallsBecome(t, Calls(t) \cup {Tested(r)})
  BY PushCalls, FrameFacts, Zenon DEF IInv, PostEarly
<1>2. \A u \in Threads : \A f : f \in Calls(u)' <=> f \in Calls(u) \/ (u = t /\ f = Tested(r))
  BY <1>1, Zenon DEF CallsBecome
<1>3. TypeOK'
  BY <1>1, Zenon DEF CallsBecome, IInv, TypeOK, PostEarly, queueVars, stateVars
<1>4. Places'
  <2>1. \A u \in Threads, s \in Requests : PushingBack(s) \in Calls(u)' <=> PushingBack(s) \in Calls(u)
    BY <1>2, FramesDiffer, Zenon
  <2>2. \A u \in Threads, s \in Requests : Holds(u, s)' <=> Holds(u, s)
    BY <2>1, Zenon DEF Holds, PostEarly, queueVars
  <2> QED
    BY <2>1, <2>2, Zenon DEF Places, IInv, PostEarly, queueVars, stateVars
<1>5. Progressed'
  <2>1. \A u \in Threads, s \in Requests :
          /\ InEarly(s) \in Calls(u)' <=> InEarly(s) \in Calls(u)
          /\ InQueued(s) \in Calls(u)' <=> InQueued(s) \in Calls(u)
          /\ Tested(s) \in Calls(u)' <=> Tested(s) \in Calls(u) \/ (u = t /\ s = r)
    BY <1>2, FramesDiffer, Zenon
  <2>2. r \notin made
    BY Zenon DEF IInv, Progressed, PostEarly
  <2>3. \A u \in Threads : Tested(r) \notin Calls(u) /\ InEarly(r) \notin Calls(u)
    BY Zenon DEF IInv, Progressed, PostEarly
  <2>4. \A s \in Requests : mpi'[s] = IF s = r THEN "null" ELSE mpi[s]
    BY Zenon DEF IInv, TypeOK, PostEarly
  <2> QED
    BY <2>1, <2>2, <2>3, <2>4 DEF Progressed, IInv, PostEarly, stateVars
<1>6. Counts'
  <2>1. Early' = Early
    BY <1>2, FramesDiffer, Zenon DEF Early
  <2>2. Cardinality(Testing') \in Nat /\ Cardinality(Testing') <= Cardinality(Threads)
    BY FS_Subset, FS_CardinalityType, MpiSharedQueueAssumption, Zenon DEF Testing
  <2>3. m_recursion_depth <= RecursionDepth
    BY MpiSharedQueueAssumption DEF PostEarly, has_reached_recursion_depth, IInv, TypeOK
  <2> QED
    BY <2>1, <2>2, <2>3, FS_CardinalityType, MpiSharedQueueAssumption
    DEF Counts, IInv, TypeOK, PostEarly, stateVars
<1> QED
  BY <1>1, <1>3, <1>4, <1>5, <1>6, Zenon DEF IInv, CallsBecome

\* The callback of such a request is called by the thread that posted it.
LEMMA RunEarlyStep ==
    ASSUME IInv, NEW t \in Threads, NEW r \in Requests, RunEarly(t, r)
    PROVE  IInv' /\ CallsBecome(t, (Calls(t) \ {Tested(r)}) \cup {InEarly(r)})
<1>1. Tested(r) \in Calls(t) /\ \A s \in Requests : Tested(s) \in Calls(t) => s = r
  BY TopCalls, FrameFacts, FramesDiffer DEF IInv, RunEarly
<1>2. \A u \in Threads : /\ InEarly(r) \notin Calls(u)
                         /\ Tested(r) \in Calls(u) => u = t
  BY <1>1, Zenon DEF IInv, Progressed
<1>3. CallsBecome(t, (Calls(t) \ {Tested(r)}) \cup {InEarly(r)})
  BY <1>2, ReplaceCalls, FrameFacts, Zenon DEF IInv, RunEarly
<1>4. \A u \in Threads : \A f :
        f \in Calls(u)' <=> (f \in Calls(u) /\ ~(u = t /\ f = Tested(r))) \/ (u = t /\ f = InEarly(r))
  BY <1>3, Zenon DEF CallsBecome
<1>5. \A u \in Threads, s \in Requests :
        /\ PushingBack(s) \in Calls(u)' <=> PushingBack(s) \in Calls(u)
        /\ InQueued(s) \in Calls(u)' <=> InQueued(s) \in Calls(u)
        /\ InEarly(s) \in Calls(u)' <=> InEarly(s) \in Calls(u) \/ (u = t /\ s = r)
        /\ Tested(s) \in Calls(u)' <=> Tested(s) \in Calls(u) /\ ~(u = t /\ s = r)
  BY <1>4, FramesDiffer, Zenon
<1>6. TypeOK'
  BY <1>3 DEF CallsBecome, IInv, TypeOK, RunEarly, queueVars, stateVars
<1>7. Places'
  <2>1. \A u \in Threads, s \in Requests : Holds(u, s)' <=> Holds(u, s)
    BY <1>5, Zenon DEF Holds, RunEarly, queueVars
  <2> QED
    BY <1>5, <2>1, Zenon DEF Places, IInv, RunEarly, queueVars, stateVars
<1>8. Progressed'
  BY <1>1, <1>2, <1>5 DEF Progressed, IInv, RunEarly, stateVars
<1>9. Counts'
  <2>1. Early' = Early \cup {r} /\ r \notin Early
    BY <1>2, <1>5, Zenon DEF Early
  <2>2. Testing' = Testing \ {t} /\ t \in Testing
    BY <1>1, <1>2, <1>5, Zenon DEF Testing
  <2>3. Cardinality(Early') = Cardinality(Early) + 1
    BY <2>1, FS_AddElement, CountedFinite, Zenon DEF IInv
  <2>4. Cardinality(Testing') = Cardinality(Testing) - 1
    BY <2>2, FS_RemoveElement, CountedFinite, Zenon DEF IInv
  <2> QED
    BY <2>3, <2>4, CountedFinite, MpiSharedQueueAssumption DEF Counts, IInv, RunEarly, stateVars
<1> QED
  BY <1>3, <1>6, <1>7, <1>8, <1>9, Zenon DEF IInv, CallsBecome

\* It returns.
LEMMA EarlyReturnStep ==
    ASSUME IInv, NEW t \in Threads, NEW r \in Requests, EarlyReturn(t, r)
    PROVE  IInv' /\ CallsBecome(t, Calls(t) \ {InEarly(r)})
<1>1. InEarly(r) \in Calls(t)
  BY TopCalls, Zenon DEF IInv, EarlyReturn
<1>2. \A u \in Threads : InEarly(r) \in Calls(u) => u = t
  BY <1>1, Zenon DEF IInv, Progressed
<1>3. CallsBecome(t, Calls(t) \ {InEarly(r)})
  BY ReturnCalls, Zenon DEF IInv, EarlyReturn
<1>4. \A u \in Threads : \A f : f \in Calls(u)' <=> f \in Calls(u) /\ ~(u = t /\ f = InEarly(r))
  BY <1>3, Zenon DEF CallsBecome
<1>5. \A u \in Threads, s \in Requests :
        /\ PushingBack(s) \in Calls(u)' <=> PushingBack(s) \in Calls(u)
        /\ InQueued(s) \in Calls(u)' <=> InQueued(s) \in Calls(u)
        /\ Tested(s) \in Calls(u)' <=> Tested(s) \in Calls(u)
        /\ InEarly(s) \in Calls(u)' <=> InEarly(s) \in Calls(u) /\ ~(u = t /\ s = r)
  BY <1>4, FramesDiffer, Zenon
<1>6. Counts' /\ m_recursion_depth' \in Nat
  <2>1. Early' = Early \ {r} /\ r \in Early
    BY <1>1, <1>2, <1>5, Zenon DEF Early
  <2>2. Testing' = Testing
    BY <1>5, Zenon DEF Testing
  <2>3. Cardinality(Early') = Cardinality(Early) - 1 /\ Cardinality(Early') \in Nat
    BY <2>1, FS_RemoveElement, FS_CardinalityType, CountedFinite, Zenon DEF IInv
  <2> QED
    BY <2>2, <2>3, CountedFinite, MpiSharedQueueAssumption DEF Counts, IInv, EarlyReturn, stateVars
<1>7. TypeOK'
  BY <1>3, <1>6, Zenon DEF CallsBecome, IInv, TypeOK, EarlyReturn, queueVars, stateVars
<1>8. Places'
  <2>1. \A u \in Threads, s \in Requests : Holds(u, s)' <=> Holds(u, s)
    BY <1>5, Zenon DEF Holds, EarlyReturn, queueVars
  <2> QED
    BY <1>5, <2>1, Zenon DEF Places, IInv, EarlyReturn, queueVars, stateVars
<1>9. Progressed'
  BY <1>5 DEF Progressed, IInv, EarlyReturn, stateVars
<1> QED
  BY <1>3, <1>6, <1>7, <1>8, <1>9, Zenon DEF IInv, CallsBecome

\* The callback of a request from the queue returns.
LEMMA QueuedReturnStep ==
    ASSUME IInv, NEW t \in Threads, NEW r \in Requests, QueuedReturn(t, r)
    PROVE  IInv' /\ CallsBecome(t, Calls(t) \ {InQueued(r)})
<1>1. InQueued(r) \in Calls(t)
  BY TopCalls, Zenon DEF IInv, QueuedReturn
<1>2. /\ \A u \in Threads : InQueued(r) \in Calls(u) => u = t
      /\ r \in made \ (m_ready \cup m_self_ptr)
  BY <1>1, Zenon DEF IInv, Progressed
<1>3. CallsBecome(t, Calls(t) \ {InQueued(r)})
  BY ReturnCalls, Zenon DEF IInv, QueuedReturn
<1>4. \A u \in Threads : \A f : f \in Calls(u)' <=> f \in Calls(u) /\ ~(u = t /\ f = InQueued(r))
  BY <1>3, Zenon DEF CallsBecome
<1>5. \A u \in Threads, s \in Requests :
        /\ PushingBack(s) \in Calls(u)' <=> PushingBack(s) \in Calls(u)
        /\ InEarly(s) \in Calls(u)' <=> InEarly(s) \in Calls(u)
        /\ Tested(s) \in Calls(u)' <=> Tested(s) \in Calls(u)
        /\ InQueued(s) \in Calls(u)' <=> InQueued(s) \in Calls(u) /\ ~(u = t /\ s = r)
  BY <1>4, FramesDiffer, Zenon
<1>6. Counts' /\ scheduled' \in Nat
  <2>1. Early' = Early /\ Testing' = Testing
    BY <1>5, Zenon DEF Early, Testing
  <2>2. (made \ m_ready)' = (made \ m_ready) \ {r} /\ r \in made \ m_ready
    BY <1>2, Zenon DEF QueuedReturn, Finish
  <2>3. Cardinality((made \ m_ready)') = Cardinality(made \ m_ready) - 1
    BY <2>2, FS_RemoveElement, CountedFinite, ZenonT(30) DEF IInv
  <2>4. Cardinality((made \ m_ready)') \in Nat
    BY <2>2, FS_RemoveElement, FS_CardinalityType, CountedFinite, Zenon DEF IInv
  <2> QED
    BY <2>1, <2>3, <2>4, Zenon DEF Counts, IInv, QueuedReturn, Finish
<1>7. TypeOK'
  BY <1>2, <1>3, <1>6, Zenon DEF CallsBecome, IInv, TypeOK, QueuedReturn, Finish
<1>8. Places'
  <2>1. \A u \in Threads, s \in Requests : Holds(u, s)' <=> Holds(u, s)
    BY <1>5, Zenon DEF Holds, QueuedReturn
  <2> QED
    BY <1>5, <2>1, Zenon DEF Places, IInv, QueuedReturn
<1>9. Progressed'
  BY <1>2, <1>5 DEF Progressed, IInv, QueuedReturn, Finish
<1> QED
  BY <1>3, <1>6, <1>7, <1>8, <1>9, Zenon DEF IInv, CallsBecome
-----------------------------------------------------------------------------
(* Actions that move a request from one place to another.                  *)

\* The request at the head of the shared queue is in no other place.
LEMMA HeadFacts ==
    ASSUME TypeOK, Places, m_queue # <<>>
    PROVE  /\ Head(m_queue) \in Requests /\ Head(m_queue) \in Range(m_queue)
           /\ Tail(m_queue) \in Seq(Requests) /\ IsInjective(Tail(m_queue))
           /\ Range(Tail(m_queue)) = Range(m_queue) \ {Head(m_queue)}
           /\ Head(m_queue) \in m_self_ptr
           /\ \A u \in Threads : ~Holds(u, Head(m_queue))
<1>1. m_queue \in Seq(Requests) /\ IsInjective(m_queue)
  BY Zenon DEF TypeOK, Places
<1>2. /\ Head(m_queue) \in Requests /\ Head(m_queue) \in Range(m_queue)
      /\ Tail(m_queue) \in Seq(Requests) /\ IsInjective(Tail(m_queue))
      /\ Range(Tail(m_queue)) = Range(m_queue) \ {Head(m_queue)}
  BY <1>1, TailRest, Zenon
<1> QED
  BY <1>2, Zenon DEF Places

\* It moves to the thread's local queue.
LEMMA PopToLocal ==
    ASSUME TypeOK, Places, NEW t \in Threads, m_queue # <<>>, m_queue' = Tail(m_queue),
           m_local_queue' = [m_local_queue EXCEPT ![t] = Append(@, Head(m_queue))],
           UNCHANGED <<stack, m_self_ptr>>
    PROVE  Places' /\ m_queue' \in Seq(Requests) /\ m_local_queue' \in [Threads -> Seq(Requests)]
<1> DEFINE h == Head(m_queue)
           l == Append(m_local_queue[t], h)
<1>1. /\ h \in Requests /\ h \in Range(m_queue) /\ h \in m_self_ptr
      /\ m_queue' \in Seq(Requests) /\ IsInjective(m_queue') /\ Range(m_queue') = Range(m_queue) \ {h}
  BY HeadFacts, Zenon
<1>2. \A u \in Threads : ~Holds(u, h)
  BY HeadFacts, Zenon
<1>3. m_local_queue[t] \in Seq(Requests) /\ IsInjective(m_local_queue[t]) /\ h \notin Range(m_local_queue[t])
  BY <1>2, Zenon DEF TypeOK, Places, Holds
<1>4. l \in Seq(Requests) /\ IsInjective(l) /\ Range(l) = Range(m_local_queue[t]) \cup {h}
  BY <1>1, <1>3, AppendNew
<1>5. \A u \in Threads : m_local_queue'[u] = IF u = t THEN l ELSE m_local_queue[u]
  BY Zenon DEF TypeOK
<1>6. m_local_queue' \in [Threads -> Seq(Requests)]
  BY <1>4, Zenon DEF TypeOK
<1> HIDE DEF h, l
<1>7. \A u \in Threads : IsInjective(m_local_queue'[u])
  BY <1>4, <1>5, Zenon DEF Places
<1>8. \A u \in Threads, s \in Requests :
        /\ s \in Range(m_local_queue'[u]) <=> s \in Range(m_local_queue[u]) \/ (u = t /\ s = h)
        /\ PushingBack(s) \in Calls(u)' <=> PushingBack(s) \in Calls(u)
  BY <1>4, <1>5, Zenon DEF Calls
<1>9. \A u \in Threads, s \in Requests : Holds(u, s)' <=> Holds(u, s) \/ (u = t /\ s = h)
  BY <1>8, Zenon DEF Holds
<1>10. ASSUME NEW s \in Requests
       PROVE  s \in m_self_ptr' <=> s \in Range(m_queue') \/ \E u \in Threads : Holds(u, s)'
  BY <1>1, <1>9, Zenon DEF Places
<1>11. ASSUME NEW s \in Requests, NEW u \in Threads
       PROVE  /\ s \in Range(m_local_queue'[u]) => PushingBack(s) \notin Calls(u)'
              /\ Holds(u, s)' => s \notin Range(m_queue')
              /\ \A v \in Threads \ {u} : Holds(u, s)' => ~Holds(v, s)'
  <2>1. s \in Range(m_local_queue'[u]) => PushingBack(s) \notin Calls(u)'
    BY <1>2, <1>8, Zenon DEF Places, Holds
  <2>2. Holds(u, s)' => s \notin Range(m_queue')
    BY <1>1, <1>9, Zenon DEF Places
  <2>3. \A v \in Threads \ {u} : Holds(u, s)' => ~Holds(v, s)'
    BY <1>2, <1>9, Zenon DEF Places
  <2> QED
    BY <2>1, <2>2, <2>3, Zenon
<1> QED
  BY <1>1, <1>6, <1>7, <1>10, <1>11, Zenon DEF Places

\* progress pops a request that is not done, and sets it aside.
LEMMA PopPendingStep ==
    ASSUME IInv, NEW t \in Threads, PopPending(t) PROVE IInv'
<1>1. stack' \in [Threads -> Seq(Frames)] /\ Stacks' /\ SameCalls
  BY CallsUnchanged, Zenon DEF PopPending, IInv
<1>2. Places' /\ m_queue' \in Seq(Requests) /\ m_local_queue' \in [Threads -> Seq(Requests)]
  BY PopToLocal, Zenon DEF PopPending, IInv, stateVars
<1>3. TypeOK'
  BY <1>1, <1>2, Zenon DEF IInv, TypeOK, PopPending, stateVars
<1>4. Progressed'
  BY <1>1, ProgressedKept, Zenon DEF IInv, PopPending, stateVars
<1>5. Counts'
  BY <1>1, CountsKept, Zenon DEF IInv, PopPending, stateVars
<1> QED
  BY <1>1, <1>2, <1>3, <1>4, <1>5, Zenon DEF IInv

\* cancel pops another request than its own, and sets it aside.
LEMMA ConsumeOtherStep ==
    ASSUME IInv, NEW t \in Threads, NEW r \in Requests, NEW c \in BOOLEAN, ConsumeOther(t, r, c)
    PROVE  IInv'
<1>1. stack' \in [Threads -> Seq(Frames)] /\ Stacks' /\ SameCalls
  BY CallsUnchanged, Zenon DEF ConsumeOther, IInv
<1>2. Places' /\ m_queue' \in Seq(Requests) /\ m_local_queue' \in [Threads -> Seq(Requests)]
  BY PopToLocal, Zenon DEF ConsumeOther, IInv, stateVars
<1>3. TypeOK'
  BY <1>1, <1>2, Zenon DEF IInv, TypeOK, ConsumeOther, stateVars
<1>4. Progressed'
  BY <1>1, ProgressedKept, Zenon DEF IInv, ConsumeOther, stateVars
<1>5. Counts'
  BY <1>1, CountsKept, Zenon DEF IInv, ConsumeOther, stateVars
<1> QED
  BY <1>1, <1>2, <1>3, <1>4, <1>5, Zenon DEF IInv

\* cancel pops its request and MPI_Cancel comes too late.
LEMMA ConsumeFailStep ==
    ASSUME IInv, NEW t \in Threads, NEW r \in Requests, ConsumeFail(t, r) PROVE IInv'
<1>1. stack' \in [Threads -> Seq(Frames)] /\ Stacks' /\ SameCalls
  BY CallsUnchanged, Zenon DEF ConsumeFail, IInv
<1>2. Places' /\ m_queue' \in Seq(Requests) /\ m_local_queue' \in [Threads -> Seq(Requests)]
  BY PopToLocal, Zenon DEF ConsumeFail, IInv, stateVars
<1>3. TypeOK'
  BY <1>1, <1>2, Zenon DEF IInv, TypeOK, ConsumeFail, stateVars
<1>4. Progressed'
  <2>1. \A s \in Requests : /\ mpi'[s] = "none" <=> mpi[s] = "none"
                            /\ mpi[s] = "null" => mpi'[s] = "null"
    BY Zenon DEF IInv, TypeOK, ConsumeFail
  <2> QED
    BY <1>1, <2>1, ProgressedKept, Zenon DEF IInv, ConsumeFail, stateVars
<1>5. Counts'
  BY <1>1, CountsKept, Zenon DEF IInv, ConsumeFail, stateVars
<1> QED
  BY <1>1, <1>2, <1>3, <1>4, <1>5, Zenon DEF IInv

\* progress pops a request that is done.
LEMMA PopReadyStep ==
    ASSUME IInv, NEW t \in Threads, PopReady(t)
    PROVE  IInv' /\ CallsBecome(t, (Calls(t) \ {Popping}) \cup {PushingBack(Head(m_queue))})
<1> DEFINE h == Head(m_queue)
<1>1. /\ h \in Requests /\ h \in Range(m_queue) /\ h \in m_self_ptr
      /\ m_queue' \in Seq(Requests) /\ IsInjective(m_queue') /\ Range(m_queue') = Range(m_queue) \ {h}
  BY HeadFacts, Zenon DEF IInv, PopReady
<1>2. \A u \in Threads : ~Holds(u, h)
  BY HeadFacts, Zenon DEF IInv, PopReady
<1>3. CallsBecome(t, (Calls(t) \ {Popping}) \cup {PushingBack(h)})
  BY <1>1, ReplaceCalls, FrameFacts, Zenon DEF IInv, PopReady
<1>4. \A s \in Requests : mpi'[s] = IF s = h THEN "null" ELSE mpi[s]
  BY Zenon DEF IInv, TypeOK, PopReady
<1>5. TypeOK'
  BY <1>1, <1>3, Zenon DEF CallsBecome, IInv, TypeOK, PopReady, stateVars
<1>6. mpi[h] # "none"
  BY Zenon DEF PopReady
<1> HIDE DEF h
<1>7. \A u \in Threads : \A f :
        f \in Calls(u)' <=> (f \in Calls(u) /\ ~(u = t /\ f = Popping)) \/ (u = t /\ f = PushingBack(h))
  BY <1>3, Zenon DEF CallsBecome
<1>8. \A u \in Threads, s \in Requests :
        /\ PushingBack(s) \in Calls(u)' <=> PushingBack(s) \in Calls(u) \/ (u = t /\ s = h)
        /\ InQueued(s) \in Calls(u)' <=> InQueued(s) \in Calls(u)
        /\ InEarly(s) \in Calls(u)' <=> InEarly(s) \in Calls(u)
        /\ Tested(s) \in Calls(u)' <=> Tested(s) \in Calls(u)
  BY <1>1, <1>7, FramesDiffer, FrameFacts
<1>9. Places'
  <2>1. \A u \in Threads, s \in Requests : Holds(u, s)' <=> Holds(u, s) \/ (u = t /\ s = h)
    BY <1>8, Zenon DEF Holds, PopReady
  <2>2. ASSUME NEW s \in Requests
        PROVE  s \in m_self_ptr' <=> s \in Range(m_queue') \/ \E u \in Threads : Holds(u, s)'
    BY <1>1, <2>1, Zenon DEF IInv, Places, PopReady, stateVars
  <2>3. ASSUME NEW s \in Requests, NEW u \in Threads
        PROVE  s \in Range(m_local_queue'[u]) => PushingBack(s) \notin Calls(u)'
    BY <1>2, <1>8 DEF IInv, Places, Holds, PopReady
  <2>4. ASSUME NEW s \in Requests, NEW u \in Threads
        PROVE  Holds(u, s)' => s \notin Range(m_queue')
    BY <1>1, <2>1, Zenon DEF IInv, Places
  <2>5. ASSUME NEW s \in Requests, NEW u \in Threads, NEW v \in Threads \ {u}
        PROVE  Holds(u, s)' => ~Holds(v, s)'
    BY <1>2, <2>1, Zenon DEF IInv, Places
  <2>6. \A u \in Threads : IsInjective(m_local_queue'[u])
    BY Zenon DEF IInv, Places, PopReady
  <2> QED
    BY <1>1, <2>2, <2>3, <2>4, <2>5, <2>6, Zenon DEF Places
<1>10. Progressed'
  BY <1>4, <1>6, <1>8 DEF Progressed, IInv, PopReady, stateVars
<1>11. Counts'
  <2>1. Early' = Early /\ Testing' = Testing
    BY <1>8, Zenon DEF Early, Testing
  <2> QED
    BY <2>1, Zenon DEF Counts, IInv, PopReady, stateVars
<1> QED
  BY <1>3, <1>5, <1>9, <1>10, <1>11, Zenon DEF IInv, CallsBecome, h

\* progress pushes a request it had set aside back into the queue.
LEMMA PushBackStep ==
    ASSUME IInv, NEW t \in Threads, PushBack(t) PROVE IInv'
<1> DEFINE l == m_local_queue[t]
           h == Head(l)
<1>1. stack' \in [Threads -> Seq(Frames)] /\ Stacks' /\ SameCalls
  BY CallsUnchanged, Zenon DEF PushBack, IInv
<1>2. l \in Seq(Requests) /\ IsInjective(l) /\ l # <<>>
  BY Zenon DEF IInv, TypeOK, Places, PushBack
<1>3. /\ h \in Requests /\ h \in Range(l) /\ Tail(l) \in Seq(Requests)
      /\ IsInjective(Tail(l)) /\ Range(Tail(l)) = Range(l) \ {h}
  BY <1>2, TailRest, Zenon
<1>4. PushingBack(h) \notin Calls(t) /\ Holds(t, h) /\ h \notin Range(m_queue) /\ h \in m_self_ptr
  BY <1>3, Zenon DEF IInv, Places, Holds
<1>5. /\ m_queue' \in Seq(Requests) /\ IsInjective(m_queue')
      /\ Range(m_queue') = Range(m_queue) \cup {h}
  <2>1. m_queue \in Seq(Requests) /\ IsInjective(m_queue) /\ m_queue' = Append(m_queue, h)
    BY Zenon DEF IInv, TypeOK, Places, PushBack
  <2> QED
    BY <1>3, <1>4, <2>1, AppendNew
<1>6. \A u \in Threads : m_local_queue'[u] = IF u = t THEN Tail(l) ELSE m_local_queue[u]
  BY Zenon DEF IInv, TypeOK, PushBack
<1>7. m_local_queue' \in [Threads -> Seq(Requests)]
  BY <1>3, Zenon DEF IInv, TypeOK, PushBack
<1>8. TypeOK'
  BY <1>1, <1>5, <1>7, Zenon DEF IInv, TypeOK, PushBack, stateVars
<1>9. \A u \in Threads, s \in Requests :
        /\ s \in Range(m_local_queue'[u]) <=> s \in Range(m_local_queue[u]) /\ ~(u = t /\ s = h)
        /\ PushingBack(s) \in Calls(u)' <=> PushingBack(s) \in Calls(u)
  BY <1>3, <1>6, Zenon DEF Calls, PushBack
<1>10. \A u \in Threads : IsInjective(m_local_queue'[u])
  BY <1>3, <1>6, Zenon DEF IInv, Places
<1> HIDE DEF h, l
<1>11. \A u \in Threads, s \in Requests : Holds(u, s)' <=> Holds(u, s) /\ ~(u = t /\ s = h)
  BY <1>4, <1>9, Zenon DEF Holds
<1>12. Places'
  <2>1. ASSUME NEW s \in Requests
        PROVE  s \in m_self_ptr' <=> s \in Range(m_queue') \/ \E u \in Threads : Holds(u, s)'
    BY <1>3, <1>4, <1>5, <1>11, Zenon DEF IInv, Places, PushBack, stateVars
  <2>2. ASSUME NEW s \in Requests, NEW u \in Threads
        PROVE  s \in Range(m_local_queue'[u]) => PushingBack(s) \notin Calls(u)'
    BY <1>9, Zenon DEF IInv, Places
  <2>3. ASSUME NEW s \in Requests, NEW u \in Threads
        PROVE  Holds(u, s)' => s \notin Range(m_queue')
    BY <1>3, <1>4, <1>5, <1>11 DEF IInv, Places
  <2>4. ASSUME NEW s \in Requests, NEW u \in Threads, NEW v \in Threads \ {u}
        PROVE  Holds(u, s)' => ~Holds(v, s)'
    BY <1>11, Zenon DEF IInv, Places
  <2> QED
    BY <1>5, <1>10, <2>1, <2>2, <2>3, <2>4, Zenon DEF Places
<1>13. Progressed'
  BY <1>1, ProgressedKept, Zenon DEF IInv, PushBack, stateVars
<1>14. Counts'
  BY <1>1, CountsKept, Zenon DEF IInv, PushBack, stateVars
<1> QED
  BY <1>1, <1>8, <1>12, <1>13, <1>14, Zenon DEF IInv

\* A request is posted and queued.
LEMMA PostQueuedStep ==
    ASSUME IInv, NEW t \in Threads, NEW r \in Requests, PostQueued(t, r) PROVE IInv'
<1>1. stack' \in [Threads -> Seq(Frames)] /\ Stacks' /\ SameCalls
  BY CallsUnchanged, Zenon DEF PostQueued, IInv
<1>2. \A u \in Threads : Calls(u)' = Calls(u)
  BY Zenon DEF Calls, PostQueued
<1>3. r \notin made /\ r \notin m_self_ptr
  BY Zenon DEF IInv, Progressed, PostQueued
<1>4. \A u \in Threads : /\ Tested(r) \notin Calls(u) /\ InEarly(r) \notin Calls(u)
                         /\ InQueued(r) \notin Calls(u)
  BY <1>3, Zenon DEF IInv, Progressed, PostQueued
<1>5. r \notin Range(m_queue) /\ \A u \in Threads : ~Holds(u, r)
  BY <1>3, Zenon DEF IInv, Places
<1>6. /\ m_queue' \in Seq(Requests) /\ IsInjective(m_queue')
      /\ Range(m_queue') = Range(m_queue) \cup {r}
  <2>1. m_queue \in Seq(Requests) /\ IsInjective(m_queue) /\ m_queue' = Append(m_queue, r)
    BY Zenon DEF IInv, TypeOK, Places, PostQueued
  <2> QED
    BY <1>5, <2>1, AppendNew
<1>7. TypeOK'
  BY <1>1, <1>6 DEF IInv, TypeOK, PostQueued
<1>8. Places'
  <2>1. \A u \in Threads, s \in Requests : Holds(u, s)' <=> Holds(u, s)
    BY <1>2, Zenon DEF Holds, PushingBack, PostQueued
  <2>2. ASSUME NEW s \in Requests
        PROVE  s \in m_self_ptr' <=> s \in Range(m_queue') \/ \E u \in Threads : Holds(u, s)'
    BY <1>6, <2>1, Zenon DEF IInv, Places, PostQueued
  <2>3. ASSUME NEW s \in Requests, NEW u \in Threads
        PROVE  /\ s \in Range(m_local_queue'[u]) => PushingBack(s)' \notin Calls(u)'
               /\ Holds(u, s)' => s \notin Range(m_queue')
               /\ \A v \in Threads \ {u} : Holds(u, s)' => ~Holds(v, s)'
    BY <1>2, <1>5, <1>6, <2>1 DEF IInv, Places, PushingBack, PostQueued
  <2>4. \A u \in Threads : IsInjective(m_local_queue'[u])
    BY Zenon DEF IInv, Places, PostQueued
  <2> QED
    BY <1>6, <2>2, <2>3, <2>4, Zenon DEF Places
<1>9. Progressed'
  <2>1. \A s \in Requests : mpi'[s] = IF s = r THEN "active" ELSE mpi[s]
    BY Zenon DEF IInv, TypeOK, PostQueued
  <2>2. r \notin m_ready
    BY <1>3, Zenon DEF IInv, TypeOK
  <2>3. \A u \in Threads, s \in Requests :
          /\ InQueued(s) \in Calls(u)' <=> InQueued(s) \in Calls(u)
          /\ InEarly(s) \in Calls(u)' <=> InEarly(s) \in Calls(u)
          /\ Tested(s) \in Calls(u)' <=> Tested(s) \in Calls(u)
    BY <1>1, Zenon DEF SameCalls, About
  <2> QED
    BY <1>4, <2>1, <2>2, <2>3 DEF Progressed, IInv, PostQueued
<1>10. Counts'
  <2>1. Early' = Early /\ Testing' = Testing
    BY <1>2, Zenon DEF Early, Testing, InEarly, Tested
  <2>2. (made \ m_ready)' = (made \ m_ready) \cup {r} /\ r \notin made \ m_ready
    BY <1>3, Zenon DEF PostQueued, IInv, TypeOK
  <2>3. Cardinality((made \ m_ready)') = Cardinality(made \ m_ready) + 1
    BY <2>2, FS_AddElement, CountedFinite, Zenon DEF IInv
  <2> QED
    BY <2>1, <2>3, Zenon DEF Counts, IInv, PostQueued
<1> QED
  BY <1>1, <1>7, <1>8, <1>9, <1>10, Zenon DEF IInv

\* progress calls the callback of the request it popped.
LEMMA InvokeCallbackStep ==
    ASSUME IInv, NEW t \in Threads, NEW r \in Requests, InvokeCallback(t, r)
    PROVE  IInv' /\ CallsBecome(t, (Calls(t) \ {PushingBack(r)}) \cup {InQueued(r)})
<1>1. PushingBack(r) \in Calls(t) /\ Holds(t, r)
  BY TopCalls, Zenon DEF IInv, InvokeCallback, Holds
<1>2. r \in m_self_ptr /\ r \in made \ m_ready /\ r \notin Range(m_queue)
  BY <1>1, Zenon DEF IInv, Places, Progressed
<1>3. \A u \in Threads : InQueued(r) \notin Calls(u) /\ (Holds(u, r) => u = t)
  BY <1>1, <1>2, Zenon DEF IInv, Places, Progressed
<1>4. CallsBecome(t, (Calls(t) \ {PushingBack(r)}) \cup {InQueued(r)})
  BY <1>3, ReplaceCalls, FrameFacts, Zenon DEF IInv, InvokeCallback
<1>5. \A u \in Threads : \A f :
        f \in Calls(u)' <=> (f \in Calls(u) /\ ~(u = t /\ f = PushingBack(r))) \/ (u = t /\ f = InQueued(r))
  BY <1>4, Zenon DEF CallsBecome
<1>6. \A u \in Threads, s \in Requests :
        /\ PushingBack(s) \in Calls(u)' <=> PushingBack(s) \in Calls(u) /\ ~(u = t /\ s = r)
        /\ InQueued(s) \in Calls(u)' <=> InQueued(s) \in Calls(u) \/ (u = t /\ s = r)
        /\ InEarly(s) \in Calls(u)' <=> InEarly(s) \in Calls(u)
        /\ Tested(s) \in Calls(u)' <=> Tested(s) \in Calls(u)
  BY <1>5, FramesDiffer, Zenon
<1>7. TypeOK'
  BY <1>4, Zenon DEF CallsBecome, IInv, TypeOK, InvokeCallback, release_self_ref, queueVars
<1>8. Places'
  <2>1. r \notin Range(m_local_queue[t])
    BY <1>1, Zenon DEF IInv, Places
  <2>2. \A u \in Threads, s \in Requests : Holds(u, s)' <=> Holds(u, s) /\ ~(u = t /\ s = r)
    BY <1>6, <2>1, ZenonT(30) DEF Holds, InvokeCallback, queueVars
  <2>3. ASSUME NEW s \in Requests
        PROVE  s \in m_self_ptr' <=> s \in Range(m_queue') \/ \E u \in Threads : Holds(u, s)'
    BY <1>2, <1>3, <2>2 DEF IInv, Places, InvokeCallback, release_self_ref, queueVars
  <2>4. ASSUME NEW s \in Requests, NEW u \in Threads
        PROVE  /\ s \in Range(m_local_queue'[u]) => PushingBack(s) \notin Calls(u)'
               /\ Holds(u, s)' => s \notin Range(m_queue')
               /\ \A v \in Threads \ {u} : Holds(u, s)' => ~Holds(v, s)'
    BY <1>6, <2>2, Zenon DEF IInv, Places, InvokeCallback, queueVars
  <2>5. IsInjective(m_queue') /\ \A u \in Threads : IsInjective(m_local_queue'[u])
    BY Zenon DEF IInv, Places, InvokeCallback, queueVars
  <2> QED
    BY <2>3, <2>4, <2>5, Zenon DEF Places
<1>9. Progressed'
  <2>1. UNCHANGED <<mpi, made, m_ready>> /\ m_self_ptr' = m_self_ptr \ {r}
    BY Zenon DEF InvokeCallback, release_self_ref
  <2>2. ASSUME NEW s \in Requests
        PROVE  (s \in made' => mpi'[s] # "none") /\ (s \in m_self_ptr' => s \in made' \ m_ready')
    BY <2>1, Zenon DEF IInv, Progressed
  <2>3. ASSUME NEW s \in Requests, NEW u \in Threads
        PROVE  /\ Tested(s) \in Calls(u)' => InEarly(s) \notin Calls(u)'
               /\ Tested(s) \in Calls(u)' \/ InEarly(s) \in Calls(u)' => mpi'[s] = "null" /\ s \notin made'
    BY <1>6, <2>1, Zenon DEF IInv, Progressed
  <2>4. ASSUME NEW s \in Requests, NEW u \in Threads
        PROVE  InQueued(s) \in Calls(u)' => s \in made' \ (m_ready' \cup m_self_ptr')
    BY <1>2, <1>6, <2>1, Zenon DEF IInv, Progressed
  <2>5. ASSUME NEW s \in Requests, NEW u \in Threads, NEW v \in Threads \ {u}
        PROVE  /\ Tested(s) \in Calls(u)' \/ InEarly(s) \in Calls(u)'
                    => Tested(s) \notin Calls(v)' /\ InEarly(s) \notin Calls(v)'
               /\ InQueued(s) \in Calls(u)' => InQueued(s) \notin Calls(v)'
    BY <1>3, <1>6, Zenon DEF IInv, Progressed
  <2> QED
    BY <2>2, <2>3, <2>4, <2>5, Zenon DEF Progressed
<1>10. Counts'
  <2>1. Early' = Early /\ Testing' = Testing
    BY <1>6, Zenon DEF Early, Testing
  <2> QED
    BY <2>1, Zenon DEF Counts, IInv, InvokeCallback
<1> QED
  BY <1>4, <1>7, <1>8, <1>9, <1>10, Zenon DEF IInv, CallsBecome

\* cancel pops its request and cancels it.
LEMMA ConsumeCancelStep ==
    ASSUME IInv, NEW t \in Threads, NEW r \in Requests, ConsumeCancel(t, r)
    PROVE  IInv' /\ SameCalls
<1>1. /\ r \in Range(m_queue) /\ r \in m_self_ptr
      /\ m_queue' \in Seq(Requests) /\ IsInjective(m_queue') /\ Range(m_queue') = Range(m_queue) \ {r}
      /\ \A u \in Threads : ~Holds(u, r)
  BY HeadFacts, Zenon DEF IInv, ConsumeCancel
<1>2. r \in made \ m_ready /\ mpi[r] # "null"
  BY <1>1, Zenon DEF IInv, Progressed, ConsumeCancel
<1>3. \A u \in Threads : /\ Tested(r) \notin Calls(u) /\ InEarly(r) \notin Calls(u)
                         /\ InQueued(r) \notin Calls(u)
  BY <1>1, <1>2, Zenon DEF IInv, Progressed
<1>4. CallsBecome(t, (Calls(t) \ {Consuming(r, FALSE)}) \cup {Consuming(r, TRUE)})
  BY ReplaceCalls, FrameFacts, Zenon DEF IInv, ConsumeCancel
<1>5. SameCalls
  <2>1. Aside(Consuming(r, FALSE)) /\ Aside(Consuming(r, TRUE))
    BY AsideFrames, ZenonT(30)
  <2> QED
    BY <1>4, <2>1, AsideCalls, Zenon
<1>6. \A u \in Threads, s \in Requests :
        /\ PushingBack(s) \in Calls(u)' <=> PushingBack(s) \in Calls(u)
        /\ InQueued(s) \in Calls(u)' <=> InQueued(s) \in Calls(u)
        /\ InEarly(s) \in Calls(u)' <=> InEarly(s) \in Calls(u)
        /\ Tested(s) \in Calls(u)' <=> Tested(s) \in Calls(u)
  BY <1>5, Zenon DEF SameCalls, About
<1>7. Counts' /\ scheduled' \in Nat
  <2>1. Early' = Early /\ Testing' = Testing
    BY <1>6, Zenon DEF Early, Testing
  <2>2. (made \ m_ready)' = (made \ m_ready) \ {r} /\ r \in made \ m_ready
    BY <1>2, Zenon DEF ConsumeCancel, Finish
  <2>3. Cardinality((made \ m_ready)') = Cardinality(made \ m_ready) - 1
    BY <2>2, FS_RemoveElement, CountedFinite, Zenon DEF IInv
  <2>4. Cardinality((made \ m_ready)') \in Nat
    BY <2>2, FS_RemoveElement, FS_CardinalityType, CountedFinite, Zenon DEF IInv
  <2> QED
    BY <2>1, <2>3, <2>4, Zenon DEF Counts, IInv, ConsumeCancel, Finish
<1>8. TypeOK'
  BY <1>1, <1>2, <1>4, <1>7, Zenon DEF CallsBecome, IInv, TypeOK, ConsumeCancel, Finish, release_self_ref
<1>9. Places'
  <2>1. \A u \in Threads, s \in Requests : Holds(u, s)' <=> Holds(u, s)
    BY <1>6, Zenon DEF Holds, ConsumeCancel
  <2>2. ASSUME NEW s \in Requests
        PROVE  s \in m_self_ptr' <=> s \in Range(m_queue') \/ \E u \in Threads : Holds(u, s)'
    BY <1>1, <2>1 DEF IInv, Places, ConsumeCancel, release_self_ref
  <2>3. ASSUME NEW s \in Requests, NEW u \in Threads
        PROVE  /\ s \in Range(m_local_queue'[u]) => PushingBack(s) \notin Calls(u)'
               /\ Holds(u, s)' => s \notin Range(m_queue')
               /\ \A v \in Threads \ {u} : Holds(u, s)' => ~Holds(v, s)'
    BY <1>1, <1>6, <2>1, ZenonT(30) DEF IInv, Places, ConsumeCancel
  <2>4. \A u \in Threads : IsInjective(m_local_queue'[u])
    BY Zenon DEF IInv, Places, ConsumeCancel
  <2> QED
    BY <1>1, <2>2, <2>3, <2>4, Zenon DEF Places
<1>10. Progressed'
  <2>1. \A s \in Requests : mpi'[s] = IF s = r THEN "null" ELSE mpi[s]
    BY Zenon DEF IInv, TypeOK, ConsumeCancel
  <2> QED
    BY <1>2, <1>3, <1>6, <2>1 DEF Progressed, IInv, ConsumeCancel, Finish, release_self_ref
<1> QED
  BY <1>4, <1>5, <1>7, <1>8, <1>9, <1>10, Zenon DEF IInv, CallsBecome
-----------------------------------------------------------------------------
(* OnePlace and RecursionBounded.                                          *)

\* Every step keeps the invariant.
LEMMA IInvStep == IInv /\ [Next]_vars => IInv'
<1> SUFFICES ASSUME IInv, [Next]_vars PROVE IInv'
  BY Zenon
<1>1. ASSUME NEW t \in Threads, Library(t) PROVE IInv'
  <2>1. ASSUME NEW r \in Requests, \E c \in BOOLEAN :
                 ConsumeOther(t, r, c) \/ ConsumeEnd(t, r, c) \/ CancelReturn(t, r, c)
        PROVE  IInv'
    BY <2>1, ConsumeOtherStep, ConsumeEndStep, CancelReturnStep, Zenon
  <2>2. ASSUME NEW r \in Requests,
               RunEarly(t, r) \/ InvokeCallback(t, r) \/ ConsumeCancel(t, r) \/ ConsumeFail(t, r)
        PROVE  IInv'
    BY <2>2, RunEarlyStep, InvokeCallbackStep, ConsumeCancelStep, ConsumeFailStep, Zenon
  <2> QED
    BY <1>1, <2>1, <2>2, PopPendingStep, PopReadyStep, PopNothingStep, PushBackStep, ProgressReturnStep, Zenon
    DEF Library
<1>2. ASSUME NEW t \in Threads, CallbackReturn(t) PROVE IInv'
  BY <1>2, EarlyReturnStep, QueuedReturnStep, Zenon DEF CallbackReturn
<1>3. ASSUME NEW t \in Threads, User(t) PROVE IInv'
  BY <1>3, PostEarlyStep, PostQueuedStep, CancelStep, Zenon DEF User
<1>4. ASSUME UNCHANGED vars PROVE IInv'
  <2>1. stack' \in [Threads -> Seq(Frames)] /\ Stacks' /\ SameCalls
    BY <1>4, CallsUnchanged, Zenon DEF IInv, vars
  <2> QED
    BY <1>4, <2>1, AsideStep, Zenon DEF IInv, TypeOK, vars, stateVars
<1> QED
  BY <1>1, <1>2, <1>3, <1>4, ProgressStep, MpiCompleteStep, Zenon DEF Next

\* The inductive invariant.
THEOREM Invariance == Safety => []IInv
BY InitIInv, IInvStep, PTL DEF Safety

\* The invariant has every pending request in one place.
LEMMA IInvOnePlace == IInv => OnePlace
<1> SUFFICES ASSUME IInv PROVE OnePlace
  BY Zenon
<1>1. ASSUME NEW t \in Threads, NEW r \in Requests
      PROVE  OnTop(t, PushingBack(r)) <=> PushingBack(r) \in Calls(t)
  BY TopCalls, FrameFacts, Zenon DEF IInv
<1>2. \A t \in Threads : Range(m_local_queue[t]) \subseteq Requests
  BY RangeInSet, Zenon DEF IInv, TypeOK
<1>3. \A t \in Threads : Popped(t) \subseteq Requests /\ \A r \in Requests : r \in Popped(t) <=> Holds(t, r)
  BY <1>1, <1>2, Zenon DEF Popped, Holds
<1>4. ASSUME NEW t \in Threads
      PROVE  /\ IsInjective(m_local_queue[t])
             /\ \A r \in Range(m_local_queue[t]) : ~OnTop(t, PushingBack(r))
             /\ Popped(t) \cap Range(m_queue) = {}
             /\ \A u \in Threads \ {t} : Popped(t) \cap Popped(u) = {}
  <2>1. \A r \in Range(m_local_queue[t]) : ~OnTop(t, PushingBack(r))
    BY <1>1, <1>2, Zenon DEF IInv, Places
  <2>2. Popped(t) \cap Range(m_queue) = {}
    BY <1>3, Zenon DEF IInv, Places
  <2>3. \A u \in Threads \ {t} : Popped(t) \cap Popped(u) = {}
    BY <1>3, Zenon DEF IInv, Places
  <2> QED
    BY <2>1, <2>2, <2>3, Zenon DEF IInv, Places
<1>5. m_self_ptr = Range(m_queue) \cup UNION {Popped(t) : t \in Threads}
  <2>1. m_self_ptr \subseteq Requests /\ Range(m_queue) \subseteq Requests
    BY RangeInSet, Zenon DEF IInv, TypeOK
  <2>2. \A r \in Requests : r \in m_self_ptr <=> r \in Range(m_queue) \/ \E t \in Threads : r \in Popped(t)
    BY <1>3, Zenon DEF IInv, Places
  <2> QED
    BY <1>3, <2>1, <2>2, Zenon
<1> QED
  BY <1>4, <1>5, Zenon DEF OnePlace, IInv, Places

\* Concurrent progress and cancel calls of any number of threads never lose
\* a shared receive, never duplicate it, and never let two threads finish it
\* (shared_request_queue::progress and cancel).
THEOREM RequestInOnePlace == Safety => []OnePlace
BY Invariance, IInvOnePlace, PTL

\* However many threads pass the check of the recursion depth together, they
\* exceed the limit by no more than their number (shared_recv, recursion).
THEOREM RecursionIsBounded == Safety => []RecursionBounded
<1>1. IInv => RecursionBounded
  BY CountedFinite, MpiSharedQueueAssumption DEF IInv, TypeOK, Counts, RecursionBounded
<1> QED
  BY <1>1, Invariance, PTL
-----------------------------------------------------------------------------
(* The refinement of RequestLifecycle.                                     *)

\* A frame is on some stack when it is among the calls of some thread.
LEMMA OnCalls == \A f : On(f) <=> \E t \in Threads : f \in Calls(t)
BY Zenon DEF On, Calls, Range

\* The same after a step.
LEMMA OnCallsNext == \A f : On(f)' <=> \E t \in Threads : f \in Calls(t)'
BY Zenon DEF On, Calls, Range

\* The status of a request, case by case.
StatusIs(r) ==
    /\ On(InEarly(r)) => status[r] = "early"
    /\ On(InQueued(r)) => status[r] = "callback"
    /\ r \in m_canceled => status[r] = "canceled"
    /\ r \in m_ready \ m_canceled => status[r] = "ready"
    /\ r \in made \ m_ready /\ ~On(InQueued(r)) => status[r] = "scheduled"
    /\ r \notin made /\ ~On(InEarly(r))
        => status[r] = IF mpi[r] = "none" \/ On(Tested(r)) THEN "none" ELSE "ready"

\* What the status of a request says.
LEMMA StatusFacts == IInv => \A r \in Requests : StatusIs(r)
<1> SUFFICES ASSUME IInv, NEW r \in Requests PROVE StatusIs(r)
  BY Zenon
<1>1. /\ On(InEarly(r)) => r \notin made
      /\ On(InQueued(r)) => r \in made \ m_ready
  BY OnCalls, Zenon DEF IInv, Progressed
<1>2. m_canceled \subseteq m_ready /\ m_ready \subseteq made
  BY Zenon DEF IInv, TypeOK
<1> QED
  BY <1>1, <1>2, Zenon DEF status, StatusIs

\* The same after a step.
LEMMA StatusFactsNext == IInv' => \A r \in Requests : StatusIs(r)'
<1>1. (IInv => \A r \in Requests : StatusIs(r))'
  BY StatusFacts, PTL
<1> QED
  BY <1>1, Zenon

\* What the status of a request depends on is unchanged.
SameStatus(r) ==
    /\ On(InEarly(r))' <=> On(InEarly(r))
    /\ On(InQueued(r))' <=> On(InQueued(r))
    /\ On(Tested(r))' <=> On(Tested(r))
    /\ r \in made' <=> r \in made
    /\ r \in m_ready' <=> r \in m_ready
    /\ r \in m_canceled' <=> r \in m_canceled
    /\ mpi'[r] = "none" <=> mpi[r] = "none"

\* A request that nothing happens to keeps its status.
LEMMA StatusKept ==
    ASSUME IInv, IInv', NEW r \in Requests, SameStatus(r)
    PROVE  status'[r] = status[r]
<1>1. StatusIs(r) /\ StatusIs(r)'
  BY StatusFacts, StatusFactsNext, Zenon
<1>2. m_canceled \subseteq m_ready /\ m_ready \subseteq made
  BY SMTT(30), Zenon DEF IInv, TypeOK
<1>3. CASE On(InEarly(r))
  BY <1>1, <1>3, Zenon DEF StatusIs, SameStatus
<1>4. CASE On(InQueued(r))
  BY <1>1, <1>4 DEF StatusIs, SameStatus
<1>5. CASE r \in m_canceled
  BY <1>1, <1>5 DEF StatusIs, SameStatus
<1>6. CASE r \in m_ready \ m_canceled
  BY <1>1, <1>6 DEF StatusIs, SameStatus
<1>7. CASE r \in made \ m_ready /\ ~On(InQueued(r))
  BY <1>1, <1>7 DEF StatusIs, SameStatus
<1>8. CASE r \notin made /\ ~On(InEarly(r))
  BY <1>1, <1>8 DEF StatusIs, SameStatus
<1> QED
  BY <1>2, <1>3, <1>4, <1>5, <1>6, <1>7, <1>8, Zenon

\* A step that changes the status of no request but r, or of none.
LEMMA StatusOfOne ==
    ASSUME IInv, IInv', NEW r \in Requests, \A s \in Requests \ {r} : SameStatus(s)
    PROVE  status' = [status EXCEPT ![r] = status'[r]]
<1>1. \A s \in Requests \ {r} : status'[s] = status[s]
  BY StatusKept, Zenon
<1>2. status = [s \in Requests |-> status[s]] /\ status' = [s \in Requests |-> status'[s]]
  BY DEF status
<1> QED
  BY <1>1, <1>2, Zenon

\* A step that nothing happens in is a stutter of the life cycle.
LEMMA Stutters ==
    ASSUME IInv, IInv', \A s \in Requests : SameStatus(s), UNCHANGED scheduled
    PROVE  UNCHANGED Lifecycle!vars
<1>1. \A s \in Requests : status'[s] = status[s]
  BY StatusKept, Zenon
<1>2. status = [s \in Requests |-> status[s]] /\ status' = [s \in Requests |-> status'[s]]
  BY DEF status
<1> QED
  BY <1>1, <1>2, Zenon DEF Lifecycle!vars

\* So is a step that moves no request.
LEMMA SameCallsStutters ==
    ASSUME IInv, IInv', SameCalls, UNCHANGED stateVars,
           \A r \in Requests : mpi'[r] = "none" <=> mpi[r] = "none"
    PROVE  UNCHANGED Lifecycle!vars
<1>1. ASSUME NEW r \in Requests PROVE SameStatus(r)
  <2>1. \A t \in Threads : \A f \in {Tested(r), InEarly(r), InQueued(r)} : f \in Calls(t)' <=> f \in Calls(t)
    BY Zenon DEF SameCalls, About
  <2> QED
    BY <2>1, OnCalls, OnCallsNext, Zenon DEF SameStatus, stateVars
<1> QED
  BY <1>1, Stutters, Zenon DEF stateVars

\* One request changes its status, the others do not.
LEMMA Becomes ==
    ASSUME IInv, IInv', NEW r \in Requests, \A s \in Requests \ {r} : SameStatus(s),
           NEW from, NEW to, status[r] = from, status'[r] = to
    PROVE  Lifecycle!Become(r, from, to)
BY StatusOfOne, Zenon DEF Lifecycle!Become

\* A completed operation that is not reported yet is still "none".
LEMMA PostEarlyRefines ==
    ASSUME IInv, NEW t \in Threads, NEW r \in Requests, PostEarly(t, r)
    PROVE  UNCHANGED Lifecycle!vars
<1>1. IInv' /\ CallsBecome(t, Calls(t) \cup {Tested(r)})
  BY PostEarlyStep, Zenon
<1>2. \A u \in Threads : \A f : f \in Calls(u)' <=> f \in Calls(u) \/ (u = t /\ f = Tested(r))
  BY <1>1, Zenon DEF CallsBecome
<1>3. \A s \in Requests :
        /\ On(InEarly(s))' <=> On(InEarly(s))
        /\ On(InQueued(s))' <=> On(InQueued(s))
        /\ On(Tested(s))' <=> On(Tested(s)) \/ s = r
  BY <1>2, OnCalls, OnCallsNext, FramesDiffer, Zenon
<1>4. \A s \in Requests : mpi'[s] = IF s = r THEN "null" ELSE mpi[s]
  BY Zenon DEF IInv, TypeOK, PostEarly
<1>5. \A s \in Requests \ {r} : SameStatus(s)
  BY <1>3, <1>4, Zenon DEF SameStatus, PostEarly, stateVars
<1>6. r \notin made /\ r \notin made' /\ ~On(InEarly(r)) /\ ~On(InEarly(r))'
  BY <1>3, OnCalls, Zenon DEF IInv, Progressed, PostEarly, stateVars
<1>7. status[r] = "none" /\ status'[r] = "none"
  BY <1>1, <1>3, <1>6, StatusFacts, StatusFactsNext, Zenon DEF StatusIs, PostEarly
<1>8. status' = [status EXCEPT ![r] = status[r]]
  BY <1>1, <1>5, <1>7, StatusOfOne, Zenon
<1>9. status' = status
  BY <1>8, ZenonT(30) DEF status
<1> QED
  BY <1>9, Zenon DEF Lifecycle!vars, PostEarly, stateVars

\* The early callback completes a request that was never scheduled.
LEMMA RunEarlyRefines ==
    ASSUME IInv, NEW t \in Threads, NEW r \in Requests, RunEarly(t, r)
    PROVE  Lifecycle!CompleteEarly(r)
<1>1. IInv' /\ CallsBecome(t, (Calls(t) \ {Tested(r)}) \cup {InEarly(r)})
  BY RunEarlyStep, Zenon
<1>2. \A u \in Threads : \A f :
        f \in Calls(u)' <=> (f \in Calls(u) /\ ~(u = t /\ f = Tested(r))) \/ (u = t /\ f = InEarly(r))
  BY <1>1, Zenon DEF CallsBecome
<1>3. \A s \in Requests \ {r} :
        /\ On(InEarly(s))' <=> On(InEarly(s))
        /\ On(InQueued(s))' <=> On(InQueued(s))
        /\ On(Tested(s))' <=> On(Tested(s))
  BY <1>2, OnCalls, OnCallsNext, FramesDiffer, Zenon
<1>4. \A s \in Requests \ {r} : SameStatus(s)
  BY <1>3, Zenon DEF SameStatus, RunEarly, stateVars
<1>5. Tested(r) \in Calls(t)
  BY TopCalls, Zenon DEF IInv, RunEarly
<1>6. On(Tested(r)) /\ ~On(InEarly(r)) /\ r \notin made
  BY <1>5, OnCalls, Zenon DEF IInv, Progressed
<1>7. On(InEarly(r))'
  BY <1>2, OnCallsNext, Zenon
<1>8. status[r] = "none" /\ status'[r] = "early"
  BY <1>1, <1>6, <1>7, StatusFacts, StatusFactsNext, Zenon DEF StatusIs
<1>9. Lifecycle!Become(r, "none", "early")
  BY <1>1, <1>4, <1>8, Becomes, Zenon
<1> QED
  BY <1>9, Zenon DEF Lifecycle!CompleteEarly, RunEarly, stateVars

\* Its return ends the life of the request.
LEMMA EarlyReturnRefines ==
    ASSUME IInv, NEW t \in Threads, NEW r \in Requests, EarlyReturn(t, r)
    PROVE  Lifecycle!ReturnEarly(r)
<1>1. IInv' /\ CallsBecome(t, Calls(t) \ {InEarly(r)})
  BY EarlyReturnStep, Zenon
<1>2. \A u \in Threads : \A f : f \in Calls(u)' <=> f \in Calls(u) /\ ~(u = t /\ f = InEarly(r))
  BY <1>1, Zenon DEF CallsBecome
<1>3. \A s \in Requests :
        /\ s # r => (On(InEarly(s))' <=> On(InEarly(s)))
        /\ On(InQueued(s))' <=> On(InQueued(s))
        /\ On(Tested(s))' <=> On(Tested(s))
  BY <1>2, OnCalls, OnCallsNext, FramesDiffer, Zenon
<1>4. \A s \in Requests \ {r} : SameStatus(s)
  BY <1>3, Zenon DEF SameStatus, EarlyReturn, stateVars
<1>5. InEarly(r) \in Calls(t)
  BY TopCalls, Zenon DEF IInv, EarlyReturn
<1>6. \A u \in Threads : (InEarly(r) \in Calls(u) => u = t) /\ Tested(r) \notin Calls(u)
  BY <1>5, Zenon DEF IInv, Progressed
<1>7. r \notin made /\ mpi[r] = "null"
  BY <1>5, Zenon DEF IInv, Progressed
<1>8. On(InEarly(r)) /\ ~On(InEarly(r))' /\ ~On(Tested(r))'
  BY <1>2, <1>3, <1>5, <1>6, OnCalls, OnCallsNext, Zenon
<1>9. status[r] = "early" /\ status'[r] = "ready"
  BY <1>1, <1>7, <1>8, StatusFacts, StatusFactsNext, Zenon DEF StatusIs, EarlyReturn, stateVars
<1>10. Lifecycle!Become(r, "early", "ready")
  BY <1>1, <1>4, <1>9, Becomes, Zenon
<1> QED
  BY <1>10, Zenon DEF Lifecycle!ReturnEarly, EarlyReturn, stateVars

\* Queueing a request schedules it.
LEMMA PostQueuedRefines ==
    ASSUME IInv, NEW t \in Threads, NEW r \in Requests, PostQueued(t, r)
    PROVE  Lifecycle!Schedule(r)
<1>1. IInv'
  BY PostQueuedStep, Zenon
<1>2. \A f : On(f)' <=> On(f)
  BY Zenon DEF On, PostQueued
<1>3. \A s \in Requests : mpi'[s] = IF s = r THEN "active" ELSE mpi[s]
  BY Zenon DEF IInv, TypeOK, PostQueued
<1>4. \A s \in Requests \ {r} : SameStatus(s)
  BY <1>2, <1>3, Zenon DEF SameStatus, PostQueued
<1>5. r \notin made /\ r \notin m_ready /\ ~On(InEarly(r)) /\ ~On(InQueued(r))
  BY OnCalls, Zenon DEF IInv, TypeOK, Progressed, PostQueued
<1>6. r \in made' \ m_ready' /\ ~On(InQueued(r))'
  BY <1>2, <1>5, Zenon DEF PostQueued
<1>7. status[r] = "none" /\ status'[r] = "scheduled"
  BY <1>1, <1>5, <1>6, StatusFacts, StatusFactsNext, Zenon DEF StatusIs, PostQueued
<1>8. Lifecycle!Become(r, "none", "scheduled")
  BY <1>1, <1>4, <1>7, Becomes, Zenon
<1> QED
  BY <1>8, Zenon DEF Lifecycle!Schedule, PostQueued

\* Calling a callback completes a request.
LEMMA InvokeCallbackRefines ==
    ASSUME IInv, NEW t \in Threads, NEW r \in Requests, InvokeCallback(t, r)
    PROVE  Lifecycle!Complete(r)
<1>1. IInv' /\ CallsBecome(t, (Calls(t) \ {PushingBack(r)}) \cup {InQueued(r)})
  BY InvokeCallbackStep, Zenon
<1>2. \A u \in Threads : \A f :
        f \in Calls(u)' <=> (f \in Calls(u) /\ ~(u = t /\ f = PushingBack(r))) \/ (u = t /\ f = InQueued(r))
  BY <1>1, Zenon DEF CallsBecome
<1>3. \A s \in Requests \ {r} :
        /\ On(InEarly(s))' <=> On(InEarly(s))
        /\ On(InQueued(s))' <=> On(InQueued(s))
        /\ On(Tested(s))' <=> On(Tested(s))
  BY <1>2, OnCalls, OnCallsNext, FramesDiffer, Zenon
<1>4. \A s \in Requests \ {r} : SameStatus(s)
  BY <1>3, Zenon DEF SameStatus, InvokeCallback
<1>5. Holds(t, r)
  BY TopCalls, Zenon DEF IInv, InvokeCallback, Holds
<1>6. r \in m_self_ptr /\ r \in made \ m_ready
  BY <1>5, Zenon DEF IInv, Places, Progressed
<1>7. ~On(InQueued(r))
  BY <1>6, OnCalls, Zenon DEF IInv, Progressed
<1>8. On(InQueued(r))'
  BY <1>2, OnCallsNext, Zenon
<1>9. status[r] = "scheduled" /\ status'[r] = "callback"
  BY <1>1, <1>6, <1>7, <1>8, StatusFacts, StatusFactsNext, ZenonT(30) DEF StatusIs
<1>10. Lifecycle!Become(r, "scheduled", "callback")
  BY <1>1, <1>4, <1>9, Becomes, Zenon
<1> QED
  BY <1>10, Zenon DEF Lifecycle!Complete, InvokeCallback

\* The return of a callback ends the life of a request.
LEMMA QueuedReturnRefines ==
    ASSUME IInv, NEW t \in Threads, NEW r \in Requests, QueuedReturn(t, r)
    PROVE  Lifecycle!Return(r)
<1>1. IInv' /\ CallsBecome(t, Calls(t) \ {InQueued(r)})
  BY QueuedReturnStep, Zenon
<1>2. \A u \in Threads : \A f : f \in Calls(u)' <=> f \in Calls(u) /\ ~(u = t /\ f = InQueued(r))
  BY <1>1, Zenon DEF CallsBecome
<1>3. \A s \in Requests \ {r} :
        /\ On(InEarly(s))' <=> On(InEarly(s))
        /\ On(InQueued(s))' <=> On(InQueued(s))
        /\ On(Tested(s))' <=> On(Tested(s))
  BY <1>2, OnCalls, OnCallsNext, FramesDiffer, Zenon
<1>4. \A s \in Requests \ {r} : SameStatus(s)
  BY <1>3, Zenon DEF SameStatus, QueuedReturn, Finish
<1>5. InQueued(r) \in Calls(t) /\ On(InQueued(r))
  BY TopCalls, OnCalls, Zenon DEF IInv, QueuedReturn
<1>6. r \in made \ m_ready /\ r \notin m_canceled
  BY <1>5, Zenon DEF IInv, TypeOK, Progressed
<1>7. r \in m_ready' \ m_canceled'
  BY <1>6, Zenon DEF QueuedReturn, Finish
<1>8. status[r] = "callback" /\ status'[r] = "ready"
  BY <1>1, <1>5, <1>7, StatusFacts, StatusFactsNext, Zenon DEF StatusIs
<1>9. Lifecycle!Become(r, "callback", "ready")
  BY <1>1, <1>4, <1>8, Becomes, Zenon
<1> QED
  BY <1>9, Zenon DEF Lifecycle!Return, QueuedReturn, Finish

\* cancel ends the life of a request.
LEMMA ConsumeCancelRefines ==
    ASSUME IInv, NEW t \in Threads, NEW r \in Requests, ConsumeCancel(t, r)
    PROVE  Lifecycle!Cancel(r)
<1>1. IInv' /\ SameCalls
  BY ConsumeCancelStep, Zenon
<1>2. \A s \in Requests :
        /\ On(InEarly(s))' <=> On(InEarly(s))
        /\ On(InQueued(s))' <=> On(InQueued(s))
        /\ On(Tested(s))' <=> On(Tested(s))
  BY <1>1, OnCalls, OnCallsNext, Zenon DEF SameCalls, About
<1>3. \A s \in Requests : mpi'[s] = IF s = r THEN "null" ELSE mpi[s]
  BY Zenon DEF IInv, TypeOK, ConsumeCancel
<1>4. \A s \in Requests \ {r} : SameStatus(s)
  BY <1>2, <1>3, Zenon DEF SameStatus, ConsumeCancel, Finish
<1>5. r \in m_self_ptr
  BY HeadFacts, Zenon DEF IInv, ConsumeCancel
<1>6. r \in made \ m_ready /\ ~On(InQueued(r))
  BY <1>5, OnCalls, Zenon DEF IInv, Progressed
<1>7. status[r] = "scheduled" /\ status'[r] = "canceled"
  BY <1>1, <1>6, StatusFacts, StatusFactsNext, Zenon DEF StatusIs, ConsumeCancel
<1>8. Lifecycle!Become(r, "scheduled", "canceled")
  BY <1>1, <1>4, <1>7, Becomes, Zenon
<1> QED
  BY <1>8, Zenon DEF Lifecycle!Cancel, ConsumeCancel, Finish

\* Popping a request is a stutter: its callback is not called yet.
LEMMA PopReadyRefines ==
    ASSUME IInv, NEW t \in Threads, PopReady(t)
    PROVE  UNCHANGED Lifecycle!vars
<1>1. IInv' /\ CallsBecome(t, (Calls(t) \ {Popping}) \cup {PushingBack(Head(m_queue))})
  BY PopReadyStep, Zenon
<1>2. Head(m_queue) \in Requests
  BY HeadFacts, Zenon DEF IInv, PopReady
<1>3. \A s \in Requests, u \in Threads :
        \A f \in {InEarly(s), InQueued(s), Tested(s)} : f \in Calls(u)' <=> f \in Calls(u)
  BY <1>1, <1>2, FramesDiffer, FrameFacts DEF CallsBecome
<1>4. \A s \in Requests :
        /\ On(InEarly(s))' <=> On(InEarly(s))
        /\ On(InQueued(s))' <=> On(InQueued(s))
        /\ On(Tested(s))' <=> On(Tested(s))
  BY <1>3, OnCalls, OnCallsNext, Zenon
<1>5. \A s \in Requests : mpi'[s] = "none" <=> mpi[s] = "none"
  BY Zenon DEF IInv, TypeOK, PopReady
<1>6. \A s \in Requests : SameStatus(s)
  BY <1>4, <1>5, Zenon DEF SameStatus, PopReady, stateVars
<1> QED
  BY <1>1, <1>6, Stutters, Zenon DEF PopReady, stateVars

\* Steps that leave the calls, and all but the queues and MPI, alone.
LEMMA QueueStepRefines ==
    ASSUME IInv, IInv', UNCHANGED <<stack, stateVars>>,
           \A r \in Requests : mpi'[r] = "none" <=> mpi[r] = "none"
    PROVE  UNCHANGED Lifecycle!vars
<1>1. SameCalls
  BY CallsUnchanged, Zenon DEF IInv
<1> QED
  BY <1>1, SameCallsStutters, Zenon

\* What the library does is a step of the life cycle or a stutter.
LEMMA LibraryRefines ==
    ASSUME IInv, NEW t \in Threads, Library(t)
    PROVE  Lifecycle!Next \/ UNCHANGED Lifecycle!vars
<1>1. IInv'
  BY IInvStep, Zenon DEF Next
<1>2. CASE PopPending(t) \/ PushBack(t)
  BY <1>1, <1>2, QueueStepRefines, Zenon DEF PopPending, PushBack
<1>3. CASE PopReady(t)
  BY <1>3, PopReadyRefines, Zenon
<1>4. CASE PopNothing(t) \/ ProgressReturn(t)
  BY <1>1, <1>4, PopNothingStep, ProgressReturnStep, SameCallsStutters, Zenon DEF PopNothing, ProgressReturn
<1>5. ASSUME NEW r \in Requests, RunEarly(t, r) PROVE Lifecycle!Next
  BY <1>5, RunEarlyRefines, Zenon DEF Lifecycle!Next
<1>6. ASSUME NEW r \in Requests, InvokeCallback(t, r) PROVE Lifecycle!Next
  BY <1>6, InvokeCallbackRefines, Zenon DEF Lifecycle!Next
<1>7. ASSUME NEW r \in Requests, ConsumeCancel(t, r) PROVE Lifecycle!Next
  BY <1>7, ConsumeCancelRefines, Zenon DEF Lifecycle!Next
<1>8. ASSUME NEW r \in Requests, ConsumeFail(t, r) PROVE UNCHANGED Lifecycle!vars
  <2>1. \A s \in Requests : mpi'[s] = "none" <=> mpi[s] = "none"
    BY <1>8, Zenon DEF IInv, TypeOK, ConsumeFail
  <2> QED
    BY <1>1, <1>8, <2>1, QueueStepRefines, Zenon DEF ConsumeFail
<1>9. ASSUME NEW r \in Requests, NEW c \in BOOLEAN, ConsumeOther(t, r, c)
      PROVE  UNCHANGED Lifecycle!vars
  BY <1>1, <1>9, QueueStepRefines, Zenon DEF ConsumeOther
<1>10. ASSUME NEW r \in Requests, NEW c \in BOOLEAN, ConsumeEnd(t, r, c) \/ CancelReturn(t, r, c)
       PROVE  UNCHANGED Lifecycle!vars
  BY <1>1, <1>10, ConsumeEndStep, CancelReturnStep, SameCallsStutters, Zenon DEF ConsumeEnd, CancelReturn
<1>11. ASSUME NEW r \in Requests,
              \/ RunEarly(t, r) \/ InvokeCallback(t, r) \/ ConsumeCancel(t, r) \/ ConsumeFail(t, r)
              \/ \E c \in BOOLEAN : ConsumeOther(t, r, c) \/ ConsumeEnd(t, r, c) \/ CancelReturn(t, r, c)
       PROVE  Lifecycle!Next \/ UNCHANGED Lifecycle!vars
  BY <1>5, <1>6, <1>7, <1>8, <1>9, <1>10, <1>11, Zenon
<1> QED
  BY <1>2, <1>3, <1>4, <1>11, Zenon DEF Library

\* So is what the program does.
LEMMA UserRefines ==
    ASSUME IInv, NEW t \in Threads, CallbackReturn(t) \/ User(t) \/ Progress(t)
    PROVE  Lifecycle!Next \/ UNCHANGED Lifecycle!vars
<1>1. CASE CallbackReturn(t)
  BY <1>1, EarlyReturnRefines, QueuedReturnRefines, Zenon DEF CallbackReturn, Lifecycle!Next
<1>2. ASSUME NEW r \in Requests, PostQueued(t, r) PROVE Lifecycle!Next
  BY <1>2, PostQueuedRefines, Zenon DEF Lifecycle!Next
<1>3. ASSUME NEW r \in Requests, Cancel(t, r) PROVE UNCHANGED Lifecycle!vars
  <2>1. UNCHANGED mpi /\ UNCHANGED stateVars
    BY <1>3, Zenon DEF Cancel
  <2> QED
    BY <1>3, <2>1, CancelStep, SameCallsStutters, Zenon
<1>4. CASE Progress(t)
  <2>1. UNCHANGED mpi /\ UNCHANGED stateVars
    BY <1>4, Zenon DEF Progress
  <2> QED
    BY <1>4, <2>1, ProgressStep, SameCallsStutters, Zenon
<1> QED
  BY <1>1, <1>2, <1>3, <1>4, PostEarlyRefines, Zenon DEF User

\* So is every step.
LEMMA StepRefines == IInv /\ [Next]_vars => [Lifecycle!Next]_(Lifecycle!vars)
<1> SUFFICES ASSUME IInv, [Next]_vars PROVE Lifecycle!Next \/ UNCHANGED Lifecycle!vars
  BY Zenon
<1>1. IInv'
  BY IInvStep, Zenon
<1>2. ASSUME NEW r \in Requests, MpiComplete(r) PROVE UNCHANGED Lifecycle!vars
  <2>1. \A s \in Requests : mpi'[s] = "none" <=> mpi[s] = "none"
    BY <1>2, Zenon DEF IInv, TypeOK, MpiComplete
  <2> QED
    BY <1>1, <1>2, <2>1, QueueStepRefines, Zenon DEF MpiComplete
<1>3. CASE UNCHANGED vars
  BY <1>1, <1>3, QueueStepRefines, Zenon DEF vars, stateVars
<1> QED
  BY <1>2, <1>3, LibraryRefines, UserRefines, Zenon DEF Next

\* The initial states are those of the life cycle.
LEMMA InitRefines == Init => Lifecycle!Init
<1> SUFFICES ASSUME Init PROVE Lifecycle!Init
  BY Zenon
<1>1. ASSUME NEW r \in Requests PROVE status[r] = "none"
  <2>1. r \notin made /\ ~On(InEarly(r)) /\ mpi[r] = "none"
    BY DEF Init, On
  <2> QED
    BY <2>1, InitIInv, StatusFacts, Zenon DEF StatusIs
<1>2. status = [r \in Requests |-> status[r]]
  BY DEF status
<1> QED
  BY <1>1, <1>2, Zenon DEF Lifecycle!Init, Init

\* Whichever threads complete or cancel a shared receive, and however their
\* steps interleave, its callback runs once, never after a successful cancel,
\* and m_shared_scheduled_recvs follows (shared_request_queue, shared_recv).
THEOREM Refinement == Safety => ImplementsLifecycle
BY Invariance, InitRefines, StepRefines, PTL DEF Safety, ImplementsLifecycle, Lifecycle!Spec
===========================================================================
