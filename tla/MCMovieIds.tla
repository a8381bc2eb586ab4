----------------------------- MODULE MCMovieIds -----------------------------
(* An instance of MovieIds: two replicas, with goroutines of the same and   *)
(* of different replicas, and ids small enough for the counter to overflow. *)
EXTENDS MovieIds, TLC

CONSTANTS p1, p2, c1, c2, c3

HostTwoOne == (c1 :> p1) @@ (c2 :> p1) @@ (c3 :> p2)
=============================================================================
