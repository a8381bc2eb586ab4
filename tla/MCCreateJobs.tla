---------------------------- MODULE MCCreateJobs ----------------------------
(* Instances of CreateJobs: one request or a valid one beside an invalid    *)
(* one, and workers of one and of two replicas.                             *)
EXTENDS CreateJobs, TLC

CONSTANTS r1, r2, p1, p2, w1, w2

HostSame == (w1 :> p1) @@ (w2 :> p1)
HostTwo  == (w1 :> p1) @@ (w2 :> p2)
=============================================================================
