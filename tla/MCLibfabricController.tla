---------------------- MODULE MCLibfabricController ----------------------
(* Three processes; the second context is over a prefix of the first.      *)
EXTENDS LibfabricController, TLC
CONSTANTS p0, p1, p2, c1, c2, t0, t1, t2, r1

CreationOrder == <<c1, c2>>

Communicators == (c1 :> <<p0, p1, p2>>) @@ (c2 :> <<p0, p1>>)

\* The second context of p1 is where the first one of p0 is.
Addresses ==
    [p \in {p0, p1, p2} |->
        IF p = p1 THEN (c1 :> 16777248) @@ (c2 :> 16777232)
        ELSE (c1 :> 16777232) @@ (c2 :> 16777248)]

ThreadProcs == (t0 :> p0) @@ (t1 :> p0) @@ (t2 :> p0)

RegionHeaps == (r1 :> p2)
=============================================================================
