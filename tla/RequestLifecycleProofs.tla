----------------------- MODULE RequestLifecycleProofs -----------------------
(***************************************************************************)
(* The counter of scheduled operations, proved exact for any set of        *)
(* requests.  TypeOK is not inductive alone (Return decrements counted):   *)
(* the inductive invariant is its conjunction with CountExact.             *)
(***************************************************************************)
EXTENDS RequestLifecycle, FiniteSetTheorems, TLAPS

IInv == TypeOK /\ CountExact

\* Unfinished requests are finitely many.
LEMMA UnfinishedFinite == IsFiniteSet(Unfinished) /\ Cardinality(Unfinished) \in Nat
<1>1. Unfinished \subseteq Requests
  BY DEF Unfinished
<1>2. IsFiniteSet(Unfinished)
  BY <1>1, RequestsFinite, FS_Subset
<1> QED
  BY <1>2, FS_CardinalityType

\* No request is unfinished and none is counted before the first call.
LEMMA InitIInv == Init => IInv
<1> SUFFICES ASSUME Init PROVE IInv
  OBVIOUS
<1>1. TypeOK
  BY DEF Init, TypeOK, Statuses
<1>2. Unfinished = {}
  BY DEF Init, Unfinished
<1> QED
  BY <1>1, <1>2, FS_EmptySet DEF Init, IInv, CountExact

\* Posting adds the request to the unfinished ones and counts it.
LEMMA ScheduleStep ==
    ASSUME IInv, NEW r \in Requests, Schedule(r)
    PROVE  IInv'
<1>1. TypeOK'
  BY DEF IInv, TypeOK, Schedule, Become, Statuses
<1>2. Unfinished' = Unfinished \cup {r} /\ r \notin Unfinished
  BY DEF IInv, TypeOK, Schedule, Become, Unfinished
<1>3. Cardinality(Unfinished') = Cardinality(Unfinished) + 1
  BY <1>2, UnfinishedFinite, FS_AddElement
<1> QED
  BY <1>1, <1>3 DEF IInv, CountExact, Schedule

\* The end of a callback and a cancellation remove the request from the
\* unfinished ones and uncount it, so the counter does not wrap below zero.
LEMMA FinishStep ==
    ASSUME IInv, NEW r \in Requests, Return(r) \/ Cancel(r)
    PROVE  IInv'
<1>1. r \in Unfinished /\ Unfinished' = Unfinished \ {r}
  BY DEF IInv, TypeOK, Return, Cancel, Become, Unfinished
<1>2. Cardinality(Unfinished') = Cardinality(Unfinished) - 1
  BY <1>1, UnfinishedFinite, FS_RemoveElement
<1>3. IsFiniteSet(Unfinished \ {r})
  BY UnfinishedFinite, FS_Subset, Unfinished \ {r} \subseteq Unfinished
<1>4. Cardinality(Unfinished') \in Nat
  BY <1>1, <1>3, FS_CardinalityType
<1>5. counted' = Cardinality(Unfinished')
  BY <1>2 DEF IInv, CountExact, Return, Cancel
<1>6. status' \in [Requests -> Statuses]
  BY DEF IInv, TypeOK, Return, Cancel, Become, Statuses
<1> QED
  BY <1>4, <1>5, <1>6 DEF IInv, TypeOK, CountExact

\* The other steps change neither the counter nor who is unfinished.
LEMMA QuietStep ==
    ASSUME IInv, NEW r \in Requests,
           CompleteEarly(r) \/ ReturnEarly(r) \/ Complete(r)
    PROVE  IInv'
<1>1. TypeOK'
  BY DEF IInv, TypeOK, CompleteEarly, ReturnEarly, Complete, Become, Statuses
<1>2. Unfinished' = Unfinished
  BY DEF IInv, TypeOK, CompleteEarly, ReturnEarly, Complete, Become, Unfinished
<1> QED
  BY <1>1, <1>2 DEF IInv, CountExact, CompleteEarly, ReturnEarly, Complete

\* The counter of scheduled operations (scheduled_sends, scheduled_recvs) is
\* the number of unfinished requests, for any number of requests: wait_all()
\* neither returns early nor waits for a finished request.
THEOREM ScheduledCountExact == Spec => []CountExact
<1>1. IInv /\ [Next]_vars => IInv'
  <2> SUFFICES ASSUME IInv, [Next]_vars PROVE IInv'
    OBVIOUS
  <2>1. ASSUME NEW r \in Requests,
               \/ Schedule(r) \/ CompleteEarly(r) \/ ReturnEarly(r)
               \/ Complete(r) \/ Return(r) \/ Cancel(r)
        PROVE  IInv'
    BY <2>1, ScheduleStep, FinishStep, QuietStep
  <2>2. CASE UNCHANGED vars
    BY <2>2 DEF IInv, TypeOK, CountExact, Unfinished, vars
  <2> QED
    BY <2>1, <2>2 DEF Next
<1>2. IInv => CountExact
  BY DEF IInv
<1> QED
  BY InitIInv, <1>1, <1>2, PTL DEF Spec
=============================================================================
