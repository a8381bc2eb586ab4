----------------------------- MODULE Resilience -----------------------------
(***************************************************************************)
(* What the resilience package puts around each of the gateway's two        *)
(* dependencies: Retry around a circuit breaker (gobreaker, with the        *)
(* settings of newBreaker) around one attempt.  HTTP handlers (Caller) run  *)
(* it concurrently and share the breaker.                                   *)
(*                                                                         *)
(* Time is left out: the breaker's Interval and Timeout, a backoff and the  *)
(* end of a request may pass at any moment.  gobreaker looks at its timers  *)
(* when it is used next, here they act when they expire: nothing can tell.  *)
(* Its generation number is the set of attempts that belong to the present  *)
(* generation.                                                              *)
(***************************************************************************)
EXTENDS Naturals, FiniteSets

CONSTANTS Caller,       \* requests the gateway handles at a time
          MaxAttempts,  \* RetryPolicy.MaxAttempts
          TripAfter     \* consecutive failures that open the breaker

ASSUME BoundAssumption == MaxAttempts \in Nat \ {0} /\ TripAfter \in Nat \ {0}

VARIABLES
    state,     \* the breaker: closed, open or half-open
    failures,  \* Counts.ConsecutiveFailures
    trials,    \* Counts.Requests while half-open
    current,   \* the attempts of the present generation
    pc,        \* pc[c]: where caller c is in Retry
    attempt,   \* attempt[c]: the attempt it is at, from 1
    gone       \* gone[c]: the context of its request is done

breaker == <<state, failures, trials, current>>
vars == <<breaker, pc, attempt, gone>>

State == {"closed", "open", "halfOpen"}

\* What an attempt may come to: a result; an answer that is an error but shows
\* the dependency well; a failure worth retrying; any other failure.
Outcome == {"ok", "answer", "transient", "final"}

MaxRequests == 1

TypeOK ==
    /\ state \in State
    /\ failures \in 0..(TripAfter - 1)
    /\ trials \in 0..MaxRequests
    /\ current \in SUBSET Caller
    /\ pc \in [Caller -> {"idle", "call", "attempt", "backoff"}]
    /\ attempt \in [Caller -> 0..MaxAttempts]
    /\ gone \in [Caller -> BOOLEAN]

Init ==
    /\ state = "closed"
    /\ failures = 0
    /\ trials = 0
    /\ current = {}
    /\ pc = [c \in Caller |-> "idle"]
    /\ attempt = [c \in Caller |-> 0]
    /\ gone = [c \in Caller |-> FALSE]
-----------------------------------------------------------------------------
(* The breaker.                                                             *)

NewGeneration(s) ==
    /\ state' = s
    /\ failures' = 0
    /\ trials' = 0
    /\ current' = {}

Succeeded == {"ok", "answer"}

\* Mutant of AfterRequest: results of earlier generations count as well.
AnyResultCounts(c, outcome) ==
    IF outcome \in Succeeded
      THEN IF state = "halfOpen"
             THEN NewGeneration("closed")
             ELSE failures' = 0 /\ current' = current \ {c} /\ UNCHANGED <<state, trials>>
      ELSE IF state = "halfOpen" \/ failures + 1 >= TripAfter
             THEN NewGeneration("open")
             ELSE /\ failures' = failures + 1
                  /\ current' = current \ {c}
                  /\ UNCHANGED <<state, trials>>

\* Mutant of AfterRequest: an attempt that ends in an answer is not reported.
AnswersNotCounted(c, outcome) ==
    IF outcome = "answer"
      THEN current' = current \ {c} /\ UNCHANGED <<state, failures, trials>>
      ELSE AnyResultCounts(c, outcome)

\* afterRequest: the result of an attempt of an earlier generation is ignored.
AfterRequest(c, outcome) ==
    \/ /\ c \notin current
       /\ UNCHANGED breaker
    \/ /\ c \in current
       /\ outcome \in Succeeded
       /\ \/ state = "halfOpen" /\ NewGeneration("closed")
          \/ /\ state = "closed"
             /\ failures' = 0
             /\ current' = current \ {c}
             /\ UNCHANGED <<state, trials>>
    \/ /\ c \in current
       /\ outcome \notin Succeeded
       /\ \/ /\ state = "halfOpen" \/ failures + 1 >= TripAfter
             /\ NewGeneration("open")
          \/ /\ state = "closed" /\ failures + 1 < TripAfter
             /\ failures' = failures + 1
             /\ current' = current \ {c}
             /\ UNCHANGED <<state, trials>>

\* The Timeout of the open state has passed.
OpenTimeout ==
    /\ state = "open"
    /\ NewGeneration("halfOpen")
    /\ UNCHANGED <<pc, attempt, gone>>

\* The Interval of the closed state has passed.
IntervalEnds ==
    /\ state = "closed"
    /\ NewGeneration("closed")
    /\ UNCHANGED <<pc, attempt, gone>>
-----------------------------------------------------------------------------
(* Retry.                                                                   *)

Goto(c, l) == pc' = [pc EXCEPT ![c] = l]

Return(c) ==
    /\ Goto(c, "idle")
    /\ attempt' = [attempt EXCEPT ![c] = 0]
    /\ gone' = [gone EXCEPT ![c] = FALSE]

Call(c) ==
    /\ pc[c] = "idle"
    /\ Goto(c, "call")
    /\ attempt' = [attempt EXCEPT ![c] = 1]
    /\ UNCHANGED <<breaker, gone>>

\* Mutant of Admit: a half-open breaker admits whoever comes.
AdmitAnyTrial(c) ==
    /\ pc[c] = "call"
    /\ \/ state = "closed" /\ UNCHANGED trials
       \/ state = "halfOpen" /\ trials' = MaxRequests
    /\ current' = current \cup {c}
    /\ Goto(c, "attempt")
    /\ UNCHANGED <<state, failures, attempt, gone>>

\* beforeRequest lets the attempt through, also when its request is over.
Admit(c) ==
    /\ pc[c] = "call"
    /\ \/ state = "closed" /\ UNCHANGED trials
       \/ state = "halfOpen" /\ trials < MaxRequests /\ trials' = trials + 1
    /\ current' = current \cup {c}
    /\ Goto(c, "attempt")
    /\ UNCHANGED <<state, failures, attempt, gone>>

\* ErrOpenState or ErrTooManyRequests: neither is retried.
Reject(c) ==
    /\ pc[c] = "call"
    /\ state = "open" \/ (state = "halfOpen" /\ trials >= MaxRequests)
    /\ Return(c)
    /\ UNCHANGED breaker

\* Mutant of TriesAgain: one attempt too many.
TriesOnceMore(c, outcome) == outcome = "transient" /\ attempt[c] <= MaxAttempts

\* Whether Retry waits and tries again after an attempt of c.
TriesAgain(c, outcome) == outcome = "transient" /\ attempt[c] < MaxAttempts

Finish(c, outcome) ==
    /\ pc[c] = "attempt"
    /\ AfterRequest(c, outcome)
    /\ \/ TriesAgain(c, outcome) /\ Goto(c, "backoff") /\ UNCHANGED <<attempt, gone>>
       \/ ~TriesAgain(c, outcome) /\ Return(c)

BackoffEnds(c) ==
    /\ pc[c] = "backoff"
    /\ Goto(c, "call")
    /\ attempt' = [attempt EXCEPT ![c] = @ + 1]
    /\ UNCHANGED <<breaker, gone>>

BackoffCancelled(c) ==
    /\ pc[c] = "backoff"
    /\ gone[c]
    /\ Return(c)
    /\ UNCHANGED breaker

\* The client of the gateway leaves.
Leave(c) ==
    /\ pc[c] # "idle"
    /\ ~gone[c]
    /\ gone' = [gone EXCEPT ![c] = TRUE]
    /\ UNCHANGED <<breaker, pc, attempt>>

Next ==
    \/ \E c \in Caller :
        \/ Call(c) \/ Admit(c) \/ Reject(c)
        \/ \E outcome \in Outcome : Finish(c, outcome)
        \/ BackoffEnds(c) \/ BackoffCancelled(c) \/ Leave(c)
    \/ OpenTimeout \/ IntervalEnds

Spec == Init /\ [][Next]_vars
-----------------------------------------------------------------------------
\* Safety: a breaker that is half-open has let at most one attempt through, and
\* the one it counts is still under way.  A trial that was counted and lost
\* would keep the breaker half-open, and the dependency cut off, for good.
TrialUnderWay ==
    state = "halfOpen" =>
        /\ trials = Cardinality(current)
        /\ trials <= 1
        /\ \A c \in current : pc[c] = "attempt"

\* Action property: only the trial decides the half-open state.  Attempts that
\* began before the breaker opened and end late neither close nor reopen it.
TrialDecides ==
    [][state = "halfOpen" /\ state' # "halfOpen"
         => \E c \in current : pc[c] = "attempt" /\ pc'[c] # "attempt"]_vars

\* The inductive invariant: attempts the breaker follows are under way, it
\* follows none while open, and while half-open just the trial it counts.  Who
\* waits to try again has an attempt left.
TrialFollowed ==
    state = "halfOpen" =>
        \/ trials = 0 /\ current = {}
        \/ trials = 1 /\ \E c \in Caller : current = {c}

AttemptsLeft == \A c \in Caller : pc[c] = "backoff" => attempt[c] < MaxAttempts

BreakerInv ==
    /\ TypeOK
    /\ AttemptsLeft
    /\ \A c \in current : pc[c] = "attempt"
    /\ state = "open" => current = {}
    /\ TrialFollowed
=============================================================================
