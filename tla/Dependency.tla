----------------------------- MODULE Dependency -----------------------------
(***************************************************************************)
(* What the gateway's two dependencies have in common: requests that go     *)
(* through Resilience, with attempts that callTimeout limits.  MovieClient  *)
(* and MoviePublisher say what an attempt is.                               *)
(***************************************************************************)
EXTENDS Naturals, FiniteSets

CONSTANTS Caller,       \* requests the gateway handles at a time
          MaxAttempts,  \* RetryPolicy.MaxAttempts
          TripAfter     \* consecutive failures that open the breaker

ASSUME BoundAssumption == MaxAttempts \in Nat \ {0} /\ TripAfter \in Nat \ {0}

VARIABLES
    state, failures, trials, current, pc, attempt, gone,  \* see Resilience
    expired  \* expired[c]: callTimeout of c's attempt has passed

B == INSTANCE Resilience

calls == <<state, failures, trials, current, pc, attempt, gone>>

\* Refinement: the dependency is Retry around a breaker around an attempt.
ImplementsResilience == B!Spec
=============================================================================
