------------------------- MODULE MCPoolAllocation -------------------------
(* Instances of PoolAllocation for TLC. *)
EXTENDS PoolAllocation, TLC

CONSTANTS p1, p2, p3, s1, s2, s3

TwoPods   == {p1, p2}
ThreePods == {p1, p2, p3}

OneSandbox     == {s1}
TwoSandboxes   == {s1, s2}
ThreeSandboxes == {s1, s2, s3}

Symmetry == Permutations(Pods) \cup Permutations(Sandboxes)

=============================================================================
