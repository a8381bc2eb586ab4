---------------------------- MODULE MCResilience ----------------------------
(* An instance of Resilience: three concurrent requests.                    *)
EXTENDS Resilience

CONSTANTS c1, c2, c3
=============================================================================
