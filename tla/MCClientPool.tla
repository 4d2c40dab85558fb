--------------------------- MODULE MCClientPool ---------------------------
(***************************************************************************)
(* Small instances of ClientPool for TLC.                                  *)
(***************************************************************************)
EXTENDS ClientPool, TLC

CONSTANTS c1, c2, a1, i1, i2, i3, i4, i5, i6

TwoClients == {c1, c2}
OneCaller == {a1}
ThreeIds == {i1, i2, i3}
SixIds == {i1, i2, i3, i4, i5, i6}
Nobody == {}

\* Clients and sandboxes are interchangeable.
Symmetry == Permutations(Clients) \cup Permutations(Sandboxes)
============================================================================
