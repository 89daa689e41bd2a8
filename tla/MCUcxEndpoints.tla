-------------------------- MODULE MCUcxEndpoints --------------------------
(* Model checking of the endpoints of the UCX backend: two ranks whose PMIx *)
(* ranks are swapped; rank 0 has two communicators and also sends to        *)
(* itself.                                                                  *)
EXTENDS UcxEndpoints

CONSTANTS a, b

TwoRanks == {0, 1}
TwoComms == {a, b}
SomeRoutes == {<<0, a, 1>>, <<0, a, 0>>, <<0, b, 1>>, <<1, a, 0>>}
Swapped == [r \in TwoRanks |-> 1 - r]
===========================================================================
