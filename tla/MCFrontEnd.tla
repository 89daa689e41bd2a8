---------------------------- MODULE MCFrontEnd ----------------------------
(* Model checking of the front end: thread t1 posts a send_multi m to two   *)
(* neighbours whose message it hands over, n to no neighbour, k to two with *)
(* a message it keeps, l without a callback, a receive x of what thread t2  *)
(* sends as y, and a receive w whose callback waits for the send z; t2 also *)
(* posts a shared receive s, which both threads progress.                   *)
EXTENDS FrontEnd

CONSTANTS t1, t2, k, l, m, n, s, w, x, y, z

Two == {t1, t2}
Posts == [b \in Batches |-> IF b \in {s, y} THEN t2 ELSE t1]
Counts == [b \in Batches |-> IF b \in {k, l, m} THEN 2 ELSE IF b = n THEN 0 ELSE 1]
Operations == UNION {{<<b, i>> : i \in 1 .. Counts[b]} : b \in Batches}
Matching == [b \in Batches |-> IF b = x THEN {y} ELSE {}]
OwnSend == {<<w, z>>}
Multis == {k, l, m, n}
HandedOver == {m, n, x}
SomeOfThem == {{k}, {l}, {m, n}, {m, y}, {s, z}, {w, z}, {x, y}}
===========================================================================
