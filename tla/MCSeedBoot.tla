----------------------------- MODULE MCSeedBoot -----------------------------
(* Instances of SeedBoot: a file of two movies with a gap in their ids.     *)
EXTENDS SeedBoot, TLC

CONSTANTS p1, p2

Seeds == {1, 3}

Replicas == Permutations({p1, p2})
=============================================================================
