-------------------------- MODULE Resilience_proofs --------------------------
(* Proofs about Resilience: the breaker follows its trial, for any number   *)
(* of concurrent callers, attempts and failures that open it.               *)
EXTENDS Resilience, FiniteSetTheorems, TLAPS

\* Every outcome of AfterRequest keeps the breaker's part of the invariant: what
\* it follows afterwards it followed before, without the attempt that ended.
LEMMA AfterRequestKeeps ==
    ASSUME BreakerInv, NEW c \in Caller, NEW outcome \in Outcome,
           AfterRequest(c, outcome)
    PROVE  /\ state' \in State
           /\ failures' \in 0..(TripAfter - 1)
           /\ trials' \in 0..MaxRequests
           /\ current' \in SUBSET (current \ {c})
           /\ state' = "open" => current' = {}
           /\ TrialFollowed'
<1> USE BoundAssumption
<1>1. CASE c \notin current /\ UNCHANGED breaker
  BY <1>1 DEF BreakerInv, TypeOK, TrialFollowed, breaker
<1>2. CASE \E s \in {"closed", "open"} : NewGeneration(s)
  <2>1. PICK s \in {"closed", "open"} : NewGeneration(s)
    BY <1>2
  <2> QED BY <2>1 DEF NewGeneration, State, MaxRequests, TrialFollowed
<1>3. CASE /\ state = "closed" /\ UNCHANGED <<state, trials>>
           /\ current' = current \ {c}
           /\ \/ failures' = 0
              \/ failures + 1 < TripAfter /\ failures' = failures + 1
  BY <1>3 DEF BreakerInv, TypeOK, TrialFollowed
<1> QED BY <1>1, <1>2, <1>3 DEF AfterRequest

\* What Retry does after an attempt: the caller waits, or is answered.
LEMMA RetryKeeps ==
    ASSUME BreakerInv, NEW c \in Caller, NEW outcome \in Outcome,
           Finish(c, outcome)
    PROVE  /\ pc' \in [Caller -> {"idle", "call", "attempt", "backoff"}]
           /\ attempt' \in [Caller -> 0..MaxAttempts]
           /\ gone' \in [Caller -> BOOLEAN]
           /\ AttemptsLeft'
           /\ pc'[c] # "attempt"
           /\ \A d \in Caller \ {c} : pc'[d] = pc[d]
<1>1. CASE /\ TriesAgain(c, outcome)
           /\ Goto(c, "backoff")
           /\ UNCHANGED <<attempt, gone>>
  BY <1>1 DEF BreakerInv, TypeOK, AttemptsLeft, TriesAgain, Goto
<1>2. CASE Return(c)
  BY <1>2, BoundAssumption DEF BreakerInv, TypeOK, AttemptsLeft, Goto, Return
<1> QED BY <1>1, <1>2 DEF Finish

\* Every step of a call keeps the breaker's invariant, whatever the outcome of an
\* attempt and however calls overlap.
THEOREM InvStep == BreakerInv /\ [Next]_vars => BreakerInv'
<1> SUFFICES ASSUME BreakerInv, [Next]_vars PROVE BreakerInv'
  OBVIOUS
<1> USE BoundAssumption
<1>1. ASSUME NEW c \in Caller, Call(c) PROVE BreakerInv'
  BY <1>1 DEF BreakerInv, TypeOK, AttemptsLeft, TrialFollowed, Call, Goto, breaker
<1>2. ASSUME NEW c \in Caller, Admit(c) PROVE BreakerInv'
  <2>1. TypeOK'
    BY <1>2 DEF BreakerInv, TypeOK, Admit, Goto, MaxRequests
  <2>2. state = "closed" \/ (state = "halfOpen" /\ trials = 0 /\ trials' = 1)
    BY <1>2 DEF BreakerInv, TypeOK, Admit, MaxRequests
  <2>3. TrialFollowed'
    BY <1>2, <2>2 DEF BreakerInv, TrialFollowed, Admit
  <2> QED BY <1>2, <2>1, <2>2, <2>3 DEF BreakerInv, TypeOK, AttemptsLeft, Admit, Goto
<1>3. ASSUME NEW c \in Caller, Reject(c) PROVE BreakerInv'
  BY <1>3 DEF BreakerInv, TypeOK, AttemptsLeft, TrialFollowed, Reject, Return, Goto, breaker
<1>4. ASSUME NEW c \in Caller, NEW outcome \in Outcome, Finish(c, outcome)
      PROVE BreakerInv'
  <2>1. AfterRequest(c, outcome)
    BY <1>4 DEF Finish
  <2>2. TypeOK'
    BY <1>4, <2>1, AfterRequestKeeps, RetryKeeps DEF BreakerInv, TypeOK
  <2>3. \A d \in current' : pc'[d] = "attempt"
    BY <1>4, <2>1, AfterRequestKeeps, RetryKeeps DEF BreakerInv, TypeOK
  <2> QED BY <1>4, <2>1, <2>2, <2>3, AfterRequestKeeps, RetryKeeps DEF BreakerInv
<1>5. ASSUME NEW c \in Caller, BackoffEnds(c) PROVE BreakerInv'
  <2>1. TypeOK'
    BY <1>5 DEF BreakerInv, TypeOK, AttemptsLeft, BackoffEnds, Goto, breaker
  <2> QED BY <1>5, <2>1 DEF BreakerInv, TypeOK, AttemptsLeft, TrialFollowed, BackoffEnds, Goto, breaker
<1>6. ASSUME NEW c \in Caller, BackoffCancelled(c) PROVE BreakerInv'
  BY <1>6 DEF BreakerInv, TypeOK, AttemptsLeft, TrialFollowed, BackoffCancelled, Return, Goto, breaker
<1>7. ASSUME NEW c \in Caller, Leave(c) PROVE BreakerInv'
  BY <1>7 DEF BreakerInv, TypeOK, AttemptsLeft, TrialFollowed, Leave, breaker
<1>8. CASE OpenTimeout \/ IntervalEnds
  BY <1>8 DEF BreakerInv, TypeOK, AttemptsLeft, TrialFollowed, OpenTimeout, IntervalEnds,
              NewGeneration, State, MaxRequests
<1>9. CASE UNCHANGED vars
  BY <1>9 DEF BreakerInv, TypeOK, AttemptsLeft, TrialFollowed, vars, breaker
<1> QED BY <1>1, <1>2, <1>3, <1>4, <1>5, <1>6, <1>7, <1>8, <1>9 DEF Next

\* The inductive invariant of Retry around the breaker.
THEOREM InvHolds == Spec => []BreakerInv
<1>1. Init => BreakerInv
  BY BoundAssumption DEF Init, BreakerInv, TypeOK, AttemptsLeft, TrialFollowed, State, MaxRequests
<1> QED BY <1>1, InvStep, PTL DEF Spec

\* The type invariant: no caller exceeds its attempts, no breaker stays closed
\* with the failures that open it.
THEOREM TypeCorrect == Spec => []TypeOK
<1>1. BreakerInv => TypeOK
  BY DEF BreakerInv
<1> QED BY <1>1, InvHolds, PTL

\* A half-open breaker follows at most one attempt, the trial it counts, and
\* that attempt is under way.
THEOREM TrialsUnderWay == Spec => []TrialUnderWay
<1>1. BreakerInv => TrialUnderWay
  <2> SUFFICES ASSUME BreakerInv, state = "halfOpen"
               PROVE  trials = Cardinality(current) /\ trials <= 1
    BY DEF TrialUnderWay, BreakerInv
  <2>1. CASE trials = 0 /\ current = {}
    <3>1. Cardinality({}) = 0
      BY FS_EmptySet
    <3> QED BY <2>1, <3>1
  <2>2. CASE trials = 1 /\ \E c \in Caller : current = {c}
    <3>1. PICK c \in Caller : current = {c}
      BY <2>2
    <3>2. Cardinality({c}) = 1
      BY FS_Singleton
    <3> QED BY <2>2, <3>1, <3>2
  <2> QED BY <2>1, <2>2 DEF BreakerInv, TrialFollowed
<1> QED BY <1>1, InvHolds, PTL

\* Only the end of an attempt the half-open breaker follows changes its state.
THEOREM TrialsDecide == Spec => TrialDecides
<1>1. BreakerInv /\ [Next]_vars =>
        [state = "halfOpen" /\ state' # "halfOpen"
           => \E c \in current : pc[c] = "attempt" /\ pc'[c] # "attempt"]_vars
  <2> SUFFICES ASSUME BreakerInv, Next, state = "halfOpen", state' # "halfOpen"
               PROVE  \E c \in current : pc[c] = "attempt" /\ pc'[c] # "attempt"
    BY DEF vars, breaker
  <2>1. PICK c \in Caller, outcome \in Outcome : Finish(c, outcome)
    BY DEF Next, Call, Admit, Reject, BackoffEnds, BackoffCancelled, Leave,
           OpenTimeout, IntervalEnds, breaker
  <2>2. c \in current
    BY <2>1 DEF Finish, AfterRequest, breaker
  <2> QED BY <2>1, <2>2, RetryKeeps DEF BreakerInv
<1> QED BY <1>1, InvHolds, PTL DEF Spec, TrialDecides
=============================================================================
