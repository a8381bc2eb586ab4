------------------------- MODULE Dependencies_proofs ------------------------
(* Proofs about the gateway's two dependencies: MovieClient, which is       *)
(* extended here, and MoviePublisher, whose state and properties are, while *)
(* its steps are an instance.  Both implement Resilience, and what is proved *)
(* of Resilience is what their own invariants start from.                   *)
EXTENDS MovieClient, PublisherConnection, TLAPS

CONSTANT PublisherFaults

R == INSTANCE Resilience_proofs
P == INSTANCE MoviePublisher WITH Faults <- PublisherFaults
-----------------------------------------------------------------------------
(* Resilience, as MovieClient and as Resilience_proofs instantiate it.      *)

\* The two instances are the same specification.
LEMMA SameBreaker ==
    /\ B!Init <=> R!Init
    /\ B!Next <=> R!Next
    /\ B!vars = R!vars
    /\ B!BreakerInv <=> R!BreakerInv
<1>1. B!breaker = R!breaker /\ B!vars = R!vars
  BY DEF B!breaker, R!breaker, B!vars, R!vars
<1>2. B!Init <=> R!Init
  BY DEF B!Init, R!Init
<1>3. B!BreakerInv <=> R!BreakerInv
  BY DEF B!BreakerInv, R!BreakerInv, B!TypeOK, R!TypeOK, B!State, R!State,
         B!MaxRequests, R!MaxRequests, B!AttemptsLeft, R!AttemptsLeft,
         B!TrialFollowed, R!TrialFollowed
<1>4. ASSUME NEW c \in Caller
      PROVE  /\ B!Call(c) <=> R!Call(c)
             /\ B!Admit(c) <=> R!Admit(c)
             /\ B!Reject(c) <=> R!Reject(c)
             /\ B!BackoffEnds(c) <=> R!BackoffEnds(c)
             /\ B!BackoffCancelled(c) <=> R!BackoffCancelled(c)
             /\ B!Leave(c) <=> R!Leave(c)
  BY DEF B!breaker, R!breaker, B!Call, R!Call, B!Admit, R!Admit, B!Reject, R!Reject, B!Leave, R!Leave,
         B!BackoffEnds, R!BackoffEnds, B!BackoffCancelled, R!BackoffCancelled,
         B!Goto, R!Goto, B!Return, R!Return, B!MaxRequests, R!MaxRequests
<1>5. ASSUME NEW c \in Caller, NEW outcome \in B!Outcome
      PROVE  B!Finish(c, outcome) <=> R!Finish(c, outcome)
  <2>1. B!AfterRequest(c, outcome) <=> R!AfterRequest(c, outcome)
    BY DEF B!breaker, R!breaker, B!AfterRequest, R!AfterRequest, B!NewGeneration, R!NewGeneration,
           B!Succeeded, R!Succeeded
  <2> QED BY <2>1 DEF B!Finish, R!Finish, B!Goto, R!Goto, B!Return, R!Return,
                 B!TriesAgain, R!TriesAgain
<1>6. (B!OpenTimeout <=> R!OpenTimeout) /\ (B!IntervalEnds <=> R!IntervalEnds)
  BY DEF B!OpenTimeout, R!OpenTimeout, B!IntervalEnds, R!IntervalEnds,
         B!NewGeneration, R!NewGeneration
<1>7. B!Outcome = R!Outcome
  BY DEF B!Outcome, R!Outcome
<1>8. B!Next <=> R!Next
  BY <1>4, <1>5, <1>6, <1>7 DEF B!Next, R!Next
<1> QED BY <1>1, <1>2, <1>3, <1>8

\* The breaker's invariant is kept by whatever implements a step of Resilience.
LEMMA BreakerKept ==
    ASSUME B!BreakerInv, [B!Next]_(B!vars)
    PROVE  B!BreakerInv'
<1>1. R!BreakerInv /\ [R!Next]_(R!vars)
  BY SameBreaker DEF B!vars, R!vars, B!breaker, R!breaker
<1>2. R!BreakerInv'
  BY <1>1, R!InvStep, BoundAssumption
<1>3. B!BreakerInv' <=> R!BreakerInv'
  BY SameBreaker, PTL
<1> QED BY <1>2, <1>3
-----------------------------------------------------------------------------
(* The gRPC client.                                                         *)

\* However an attempt ends, Retry and the breaker know what to do with it.
LEMMA OutcomeType == \A code : Outcome(code) \in B!Outcome
BY DEF Outcome, B!Outcome

\* Every step of the client is a step of Resilience, or leaves it alone.
LEMMA ClientRefines ==
    ASSUME [Next]_vars
    PROVE  [B!Next]_(B!vars)
<1>1. ASSUME NEW c \in Caller,
             \/ Request(c) \/ Admit(c) \/ Reject(c)
             \/ BackoffEnds(c) \/ BackoffCancelled(c) \/ Leave(c)
      PROVE  B!Next
  BY <1>1 DEF Request, Admit, Reject, BackoffEnds, BackoffCancelled, Leave, B!Next
<1>2. ASSUME NEW c \in Caller, Replied(c) \/ Unanswered(c)
      PROVE  B!Next
  <2>1. PICK code : B!Finish(c, Outcome(code))
    BY <1>2 DEF Replied, Unanswered, Respond
  <2> QED BY <2>1, OutcomeType DEF B!Next
<1>3. ASSUME NEW c \in Caller, Serve(c) \/ MongoFails(c) \/ CallTimeout(c)
      PROVE  UNCHANGED calls
  BY <1>3 DEF Serve, MongoFails, CallTimeout
<1>4. CASE LateDelete \/ GoesDown \/ ComesUp \/ UNCHANGED vars
  BY <1>4 DEF LateDelete, GoesDown, ComesUp, vars, calls, B!vars, B!breaker
<1>5. CASE OpenTimeout \/ IntervalEnds
  BY <1>5 DEF OpenTimeout, IntervalEnds, B!Next
<1> QED BY <1>1, <1>2, <1>3, <1>4, <1>5 DEF Next, Proceed, calls, B!vars, B!breaker

\* The client implements Resilience: its attempts are calls of movies-service,
\* its outcomes are what IsSuccessfulGRPC and IsRetryableGRPC make of the codes.
THEOREM ClientIsResilient == Spec => ImplementsResilience
<1>1. Init => B!Init
  BY DEF Init
<1>2. [Next]_vars => [B!Next]_(B!vars)
  BY ClientRefines
<1> QED BY <1>1, <1>2, PTL DEF Spec, ImplementsResilience, B!Spec

\* What an attempt's end does to whom the client told what, with an answer that
\* is true of the movie and, if it says the movie is deleted, was waited for.
LEMMA RespondKeeps ==
    ASSUME ClientInv, NEW c \in Caller, NEW code \in Code, Respond(c, code),
           code = "NotFound" /\ kind[c].id = "movie" => ~exists,
           code = "OK" => reply[c] = "OK"
    PROVE  /\ RepliesAwaited'
           /\ RepliesTrue'
           /\ NotFoundIsTrue'
           /\ OneDeleter'
           /\ http' \in [Caller -> {0, 200, 204, 400, 404, 500}]
           /\ removed' \in Nat
<1>1. /\ reply' = [reply EXCEPT ![c] = "none"]
      /\ UNCHANGED <<exists, kind>>
      /\ reply \in [Caller -> Code \cup {"none"}]
      /\ http \in [Caller -> {0, 200, 204, 400, 404, 500}]
      /\ removed \in Nat
  BY DEF Respond, ClientInv, TypeOK
<1>2. \A d \in Caller : reply'[d] = IF d = c THEN "none" ELSE reply[d]
  BY <1>1
<1>3. Deleters' = Deleters \ {c}
  BY <1>1, <1>2 DEF Deleters, Deletes
<1>4. \A d \in Caller \ {c} : pc'[d] = pc[d]
  BY DEF Respond, ClientInv, TypeOK, B!TypeOK, B!Finish, B!Goto, B!Return
<1>5. RepliesAwaited' /\ RepliesTrue'
  BY <1>1, <1>2, <1>4 DEF ClientInv, RepliesAwaited, RepliesTrue
<1>6. CASE UNCHANGED <<http, removed>>
  BY <1>1, <1>3, <1>5, <1>6 DEF ClientInv, NotFoundIsTrue, OneDeleter
<1>7. CASE Answer(c, Status(c, code))
  <2>1. http' = [http EXCEPT ![c] = Status(c, code)]
    BY <1>7 DEF Answer
  <2>2. /\ Status(c, code) \in {200, 204, 400, 404, 500}
        /\ Status(c, code) = 404 => code = "NotFound"
        /\ Status(c, code) = 204 => code = "OK" /\ kind[c].method # "GET"
    BY DEF Status
  <2>3. http' \in [Caller -> {0, 200, 204, 400, 404, 500}]
    BY <1>1, <2>1, <2>2
  <2>4. NotFoundIsTrue'
    BY <1>1, <2>1, <2>2 DEF ClientInv, NotFoundIsTrue
  <2>5. CASE Status(c, code) = 204
    <3>1. c \in Deleters
      BY <2>2, <2>5 DEF ClientInv, RepliesTrue, TypeOK, Kind, Method, Deleters, Deletes
    <3>2. removed = 0 /\ ~exists /\ Deleters = {c}
      BY <3>1 DEF ClientInv, OneDeleter
    <3>3. removed' = 1
      BY <1>7, <2>5, <3>2 DEF Answer
    <3>4. Deleters' = {} /\ ~exists'
      BY <1>1, <1>3, <3>2
    <3>5. OneDeleter'
      BY <3>3, <3>4 DEF OneDeleter
    <3>6. removed' \in Nat
      BY <3>3
    <3> QED BY <1>5, <2>3, <2>4, <3>5, <3>6
  <2>6. CASE Status(c, code) # 204
    <3>1. removed' = removed
      BY <1>7, <2>6 DEF Answer
    <3>2. OneDeleter'
      BY <1>1, <1>3, <3>1 DEF ClientInv, OneDeleter
    <3>3. removed' \in Nat
      BY <1>1, <3>1
    <3> QED BY <1>5, <2>3, <2>4, <3>2, <3>3
  <2> QED BY <2>5, <2>6
<1> QED BY <1>6, <1>7 DEF Respond

\* No answer, no movie and no request changed: what the client was told is
\* as true as before.
LEMMA UntouchedKeeps ==
    ASSUME ClientInv, UNCHANGED <<exists, kind, reply, http, removed>>,
           \A d \in Caller : reply[d] # "none" => pc'[d] = pc[d]
    PROVE  RepliesAwaited' /\ RepliesTrue' /\ NotFoundIsTrue' /\ OneDeleter'
<1>1. Deleters' = Deleters
  BY DEF Deleters, Deletes
<1>2. OneDeleter'
  BY <1>1 DEF ClientInv, OneDeleter
<1> QED BY <1>2 DEF ClientInv, RepliesAwaited, RepliesTrue, NotFoundIsTrue

\* movies-service, or MongoDB behind it, answers an attempt: only the one that
\* finds the movie can be told that it deleted it.
LEMMA ServeKeeps ==
    ASSUME ClientInv, NEW c \in Caller, Serve(c) \/ MongoFails(c)
    PROVE  /\ reply' \in [Caller -> Code \cup {"none"}]
           /\ exists' \in BOOLEAN
           /\ RepliesAwaited' /\ RepliesTrue' /\ NotFoundIsTrue' /\ OneDeleter'
<1>1. PICK code \in Code :
        /\ reply' = [reply EXCEPT ![c] = code]
        /\ exists' \in {exists, exists /\ ~Deletes(c)}
        /\ code = "OK" => kind[c].id = "movie" /\ exists /\ exists' = (exists /\ ~Deletes(c))
        /\ code = "NotFound" => kind[c].id # "movie" \/ ~exists
  <2>1. CASE Serve(c)
    <3>1. /\ Found(c) \in Code
          /\ Found(c) = "OK" => kind[c].id = "movie" /\ exists
          /\ Found(c) = "NotFound" => kind[c].id # "movie" \/ ~exists
      BY DEF Found, Code, ClientInv, TypeOK, Kind, Method, Target
    <3> QED BY <2>1, <3>1 DEF Serve
  <2>2. CASE MongoFails(c)
    BY <2>2 DEF MongoFails, Code
  <2> QED BY <2>1, <2>2
<1>2. /\ UNCHANGED <<calls, kind, http, removed>>
      /\ pc[c] = "attempt" /\ reply[c] = "none"
  BY DEF Serve, MongoFails
<1>3. reply \in [Caller -> Code \cup {"none"}] /\ exists \in BOOLEAN
  BY DEF ClientInv, TypeOK
<1>4. reply' \in [Caller -> Code \cup {"none"}]
  BY <1>1, <1>3
<1>5. exists' \in BOOLEAN /\ (exists' => exists)
  BY <1>1, <1>3
<1>6. \A d \in Caller : reply'[d] = IF d = c THEN code ELSE reply[d]
  BY <1>1, <1>3
<1>7. RepliesAwaited' /\ RepliesTrue' /\ NotFoundIsTrue'
  BY <1>1, <1>2, <1>5, <1>6
     DEF ClientInv, RepliesAwaited, RepliesTrue, NotFoundIsTrue, calls
<1>8. CASE code = "OK" /\ Deletes(c)
  <2>1. removed = 0 /\ Deleters = {} /\ ~exists'
    BY <1>1, <1>8 DEF ClientInv, OneDeleter
  <2>2. Deleters' = {c}
    BY <1>2, <1>6, <1>8, <2>1 DEF Deleters, Deletes
  <2> QED BY <1>2, <1>4, <1>5, <1>7, <2>1, <2>2 DEF OneDeleter
<1>9. CASE ~(code = "OK" /\ Deletes(c))
  <2>1. Deleters' = Deleters
    BY <1>2, <1>6, <1>9 DEF Deleters, Deletes
  <2>2. OneDeleter'
    BY <1>2, <1>5, <2>1 DEF ClientInv, OneDeleter
  <2> QED BY <1>4, <1>5, <1>7, <2>2
<1> QED BY <1>8, <1>9

\* The invariant of the client is kept by every step: Resilience keeps the
\* breaker's part, the attempts and their answers the rest.
LEMMA ClientInvStep ==
    ASSUME ClientInv, [Next]_vars
    PROVE  ClientInv'
<1>1. B!BreakerInv'
  BY ClientRefines, BreakerKept DEF ClientInv
<1>2. B!TypeOK'
  BY <1>1 DEF B!BreakerInv
<1> DEFINE Told == RepliesAwaited /\ RepliesTrue /\ NotFoundIsTrue /\ OneDeleter
           Rest == /\ kind \in [Caller -> Kind]
                   /\ health \in {"up", "refuses", "silent"}
                   /\ exists \in BOOLEAN
                   /\ late \in BOOLEAN
                   /\ reply \in [Caller -> Code \cup {"none"}]
                   /\ expired \in [Caller -> BOOLEAN]
                   /\ http \in [Caller -> {0, 200, 204, 400, 404, 500}]
                   /\ removed \in Nat
<1>3. Told /\ Rest
  BY DEF ClientInv, TypeOK
<1>4. ASSUME NEW c \in Caller, Request(c) PROVE Told' /\ Rest'
  <2>1. PICK k \in Kinds : kind' = [kind EXCEPT ![c] = k]
    BY <1>4 DEF Request
  <2>2. /\ UNCHANGED <<health, exists, late, reply, expired, removed>>
        /\ http' = [http EXCEPT ![c] = 0]
        /\ reply[c] = "none"
        /\ \A d \in Caller \ {c} : pc'[d] = pc[d]
    BY <1>3, <1>4 DEF Request, service, B!Call, B!Goto, RepliesAwaited, ClientInv, TypeOK, B!TypeOK
  <2>3. Rest'
    BY <1>3, <2>1, <2>2, KindAssumption
  <2>4. \A d \in Caller \ {c} : kind'[d] = kind[d] /\ http'[d] = http[d]
    BY <1>3, <2>1, <2>2
  <2>5. http'[c] = 0
    BY <1>3, <2>2
  <2>6. Deleters' = Deleters
    BY <2>2, <2>4 DEF Deleters, Deletes
  <2>7. OneDeleter'
    BY <1>3, <2>2, <2>6 DEF OneDeleter
  <2>8. RepliesAwaited' /\ RepliesTrue'
    BY <1>3, <2>2, <2>4 DEF RepliesAwaited, RepliesTrue
  <2>9. NotFoundIsTrue'
    BY <1>3, <2>2, <2>4, <2>5 DEF NotFoundIsTrue
  <2> QED BY <2>3, <2>7, <2>8, <2>9
<1>5. ASSUME NEW c \in Caller, Reject(c) \/ BackoffCancelled(c) PROVE Told' /\ Rest'
  <2>1. /\ UNCHANGED <<service, kind, reply, expired, removed>>
        /\ http' = [http EXCEPT ![c] = 500]
        /\ pc[c] # "attempt"
        /\ \A d \in Caller \ {c} : pc'[d] = pc[d]
    BY <1>5 DEF Reject, BackoffCancelled, Answer, B!Reject, B!BackoffCancelled, B!Return, B!Goto,
                ClientInv, TypeOK, B!TypeOK
  <2>2. Rest'
    BY <1>3, <2>1 DEF service
  <2>3. \A d \in Caller : http'[d] = IF d = c THEN 500 ELSE http[d]
    BY <1>3, <2>1
  <2>4. Deleters' = Deleters
    BY <2>1 DEF Deleters, Deletes
  <2>5. OneDeleter'
    BY <1>3, <2>1, <2>4 DEF OneDeleter, service
  <2>6. RepliesAwaited' /\ RepliesTrue'
    BY <1>3, <2>1 DEF RepliesAwaited, RepliesTrue, service
  <2>7. NotFoundIsTrue'
    BY <1>3, <2>1, <2>3 DEF NotFoundIsTrue, service
  <2> QED BY <2>2, <2>5, <2>6, <2>7
<1>6. ASSUME NEW c \in Caller, Admit(c) \/ BackoffEnds(c) \/ Leave(c) PROVE Told' /\ Rest'
  <2>1. UNCHANGED <<service, kind, reply, expired, http, removed>>
    BY <1>6 DEF Admit, BackoffEnds, Leave
  <2>2. \A d \in Caller : pc[d] = "attempt" => pc'[d] = pc[d]
    BY <1>6 DEF Admit, BackoffEnds, Leave, B!Admit, B!BackoffEnds, B!Leave, B!Goto,
                ClientInv, TypeOK, B!TypeOK
  <2>3. Told'
    BY <1>3, <2>1, <2>2, UntouchedKeeps DEF service, RepliesAwaited
  <2> QED BY <1>3, <2>1, <2>3 DEF service
<1>7. ASSUME NEW c \in Caller, Serve(c) \/ MongoFails(c) PROVE Told' /\ Rest'
  <2>1. UNCHANGED <<health, late, kind, expired, http, removed>>
    BY <1>7 DEF Serve, MongoFails
  <2> QED BY <1>3, <1>7, <2>1, ServeKeeps
<1>8. ASSUME NEW c \in Caller, CallTimeout(c) PROVE Told' /\ Rest'
  <2>1. /\ UNCHANGED <<calls, service, kind, reply, http, removed>>
        /\ expired' = [expired EXCEPT ![c] = TRUE]
    BY <1>8 DEF CallTimeout
  <2>2. Told'
    BY <2>1, UntouchedKeeps DEF service, calls
  <2> QED BY <1>3, <2>1, <2>2 DEF service
<1>9. ASSUME NEW c \in Caller, Replied(c) \/ Unanswered(c) PROVE Told' /\ Rest'
  <2>1. PICK code \in Code :
          /\ Respond(c, code)
          /\ code \in {"OK", "NotFound"} => reply[c] = code
    BY <1>3, <1>9 DEF Replied, Unanswered, Code
  <2>2. /\ UNCHANGED <<health, exists, kind>>
        /\ reply' = [reply EXCEPT ![c] = "none"]
        /\ expired' = [expired EXCEPT ![c] = FALSE]
        /\ late' = late \/ late' = TRUE
    BY <1>9, <2>1 DEF Replied, Unanswered, Respond
  <2>3. code = "NotFound" /\ kind[c].id = "movie" => ~exists
    BY <1>3, <2>1 DEF RepliesTrue
  <2>4. /\ Told'
        /\ http' \in [Caller -> {0, 200, 204, 400, 404, 500}]
        /\ removed' \in Nat
    BY <2>1, <2>3, RespondKeeps
  <2> QED BY <1>3, <2>2, <2>4 DEF Code
<1>10. ASSUME LateDelete PROVE Told' /\ Rest'
  <2>1. /\ UNCHANGED <<calls, health, kind, reply, expired, http, removed>>
        /\ late' = FALSE /\ exists' = FALSE
    BY <1>10 DEF LateDelete
  <2>2. Deleters' = Deleters
    BY <2>1 DEF Deleters, Deletes
  <2>3. OneDeleter'
    BY <1>3, <2>1, <2>2 DEF OneDeleter
  <2>4. RepliesAwaited' /\ RepliesTrue' /\ NotFoundIsTrue'
    BY <1>3, <2>1 DEF RepliesAwaited, RepliesTrue, NotFoundIsTrue, calls
  <2> QED BY <1>3, <2>1, <2>3, <2>4
<1>11. ASSUME OpenTimeout \/ IntervalEnds \/ GoesDown \/ ComesUp \/ UNCHANGED vars
       PROVE  Told' /\ Rest'
  <2>1. /\ UNCHANGED <<pc, exists, late, kind, reply, expired, http, removed>>
        /\ health' \in {"up", "refuses", "silent"}
    BY <1>3, <1>11 DEF OpenTimeout, IntervalEnds, B!OpenTimeout, B!IntervalEnds,
                       GoesDown, ComesUp, vars, calls, service
  <2>2. Told'
    BY <2>1, UntouchedKeeps
  <2> QED BY <1>3, <2>1, <2>2
<1>12. Told' /\ Rest'
  BY <1>4, <1>5, <1>6, <1>7, <1>8, <1>9, <1>10, <1>11 DEF Next, Proceed
<1> QED BY <1>1, <1>2, <1>12 DEF ClientInv, TypeOK

\* The inductive invariant of the client, for any number of callers and attempts
\* and every set of faults.
THEOREM ClientInvariant == Spec => []ClientInv
<1>1. Init => ClientInv
  <2> SUFFICES ASSUME Init PROVE ClientInv
    OBVIOUS
  <2>1. R!Init => R!BreakerInv
    BY BoundAssumption DEF R!Init, R!BreakerInv, R!TypeOK, R!AttemptsLeft, R!TrialFollowed,
                           R!State, R!MaxRequests
  <2>2. B!BreakerInv
    BY <2>1, SameBreaker DEF Init
  <2>3. TypeOK
    BY <2>2, KindAssumption DEF Init, TypeOK, B!BreakerInv
  <2> QED BY <2>2, <2>3 DEF Init, ClientInv, RepliesAwaited, RepliesTrue, NotFoundIsTrue,
                            OneDeleter, Deleters
<1> QED BY <1>1, ClientInvStep, PTL DEF Spec

\* The type invariant of the client.
THEOREM TypeCorrect == Spec => []TypeOK
<1>1. ClientInv => TypeOK
  BY DEF ClientInv
<1> QED BY <1>1, ClientInvariant, PTL

\* "Not found" is never answered for a movie that is there.
THEOREM NotFoundTrue == Spec => []NotFoundIsTrue
<1>1. ClientInv => NotFoundIsTrue
  BY DEF ClientInv
<1> QED BY <1>1, ClientInvariant, PTL

\* At most one client is told that it deleted the movie, whatever is retried.
THEOREM DeletedAtMostOnce == Spec => []DeletedOnce
<1>1. ClientInv => DeletedOnce
  BY DEF ClientInv, OneDeleter, DeletedOnce
<1> QED BY <1>1, ClientInvariant, PTL

\* Only the end of the trial moves the client's breaker out of half-open: late
\* results of the generation before do not, whatever an attempt consists of.
THEOREM ClientTrialsDecide == Spec => B!TrialDecides
<1> DEFINE Decided == state = "halfOpen" /\ state' # "halfOpen"
                        => \E c \in current : pc[c] = "attempt" /\ pc'[c] # "attempt"
<1>1. Init => R!Init
  BY SameBreaker DEF Init
<1>2. [Next]_vars => [R!Next]_(R!vars)
  <2> SUFFICES ASSUME [Next]_vars PROVE [R!Next]_(R!vars)
    OBVIOUS
  <2>1. [B!Next]_(B!vars)
    BY ClientRefines
  <2> QED BY <2>1, SameBreaker DEF B!vars, R!vars, B!breaker, R!breaker
<1>3. R!Spec => R!TrialDecides
  BY R!TrialsDecide, BoundAssumption
<1>4. [Decided]_(R!vars) => [Decided]_(B!vars)
  BY DEF B!vars, R!vars, B!breaker, R!breaker
<1> QED BY <1>1, <1>2, <1>3, <1>4, PTL DEF Spec, R!Spec, R!TrialDecides, B!TrialDecides
-----------------------------------------------------------------------------
(* The RabbitMQ publisher.                                                  *)

\* Resilience as the instance of MoviePublisher instantiates it is the same again.
LEMMA SamePublisher ==
    /\ P!B!Init <=> R!Init
    /\ P!B!Next <=> R!Next
    /\ P!B!vars = R!vars
<1>1. P!B!breaker = R!breaker /\ P!B!vars = R!vars
  BY DEF P!B!breaker, R!breaker, P!B!vars, R!vars
<1>2. P!B!Init <=> R!Init
  BY DEF P!B!Init, R!Init
<1>3. ASSUME NEW c \in Caller
      PROVE  /\ P!B!Call(c) <=> R!Call(c)
             /\ P!B!Admit(c) <=> R!Admit(c)
             /\ P!B!Reject(c) <=> R!Reject(c)
             /\ P!B!BackoffEnds(c) <=> R!BackoffEnds(c)
             /\ P!B!BackoffCancelled(c) <=> R!BackoffCancelled(c)
             /\ P!B!Leave(c) <=> R!Leave(c)
  BY DEF P!B!breaker, R!breaker, P!B!Call, R!Call, P!B!Admit, R!Admit, P!B!Reject, R!Reject,
         P!B!Leave, R!Leave, P!B!BackoffEnds, R!BackoffEnds,
         P!B!BackoffCancelled, R!BackoffCancelled,
         P!B!Goto, R!Goto, P!B!Return, R!Return, P!B!MaxRequests, R!MaxRequests
<1>4. ASSUME NEW c \in Caller, NEW outcome \in P!B!Outcome
      PROVE  P!B!Finish(c, outcome) <=> R!Finish(c, outcome)
  <2>1. P!B!AfterRequest(c, outcome) <=> R!AfterRequest(c, outcome)
    BY DEF P!B!breaker, R!breaker, P!B!AfterRequest, R!AfterRequest,
           P!B!NewGeneration, R!NewGeneration, P!B!Succeeded, R!Succeeded
  <2> QED BY <2>1 DEF P!B!Finish, R!Finish, P!B!Goto, R!Goto, P!B!Return, R!Return,
                 P!B!TriesAgain, R!TriesAgain
<1>5. (P!B!OpenTimeout <=> R!OpenTimeout) /\ (P!B!IntervalEnds <=> R!IntervalEnds)
  BY DEF P!B!OpenTimeout, R!OpenTimeout, P!B!IntervalEnds, R!IntervalEnds,
         P!B!NewGeneration, R!NewGeneration
<1>6. P!B!Outcome = R!Outcome
  BY DEF P!B!Outcome, R!Outcome
<1>7. P!B!Next <=> R!Next
  BY <1>3, <1>4, <1>5, <1>6 DEF P!B!Next, R!Next
<1> QED BY <1>1, <1>2, <1>7

\* Every step of the publisher is a step of Resilience, or leaves it alone.
LEMMA PublisherRefines ==
    ASSUME [P!Next]_(P!vars)
    PROVE  [B!Next]_(B!vars)
<1>1. ASSUME NEW c \in Caller,
             \/ P!Post(c) \/ P!Admit(c) \/ P!Reject(c)
             \/ P!BackoffEnds(c) \/ P!BackoffCancelled(c) \/ P!Leave(c)
      PROVE  P!B!Next
  BY <1>1 DEF P!Post, P!Admit, P!Reject, P!BackoffEnds, P!BackoffCancelled, P!Leave, P!B!Next
<1>2. ASSUME NEW c \in Caller, P!DialFails(c) \/ P!SendOk(c) \/ P!SendFails(c)
      PROVE  P!B!Next
  <2>1. PICK outcome \in P!B!Outcome : P!B!Finish(c, outcome)
    BY <1>2 DEF P!DialFails, P!SendOk, P!SendFails, P!Return, P!B!Outcome
  <2> QED BY <2>1 DEF P!B!Next
<1>3. ASSUME NEW c \in Caller, P!Locked(c) \/ P!DialOk(c) \/ P!CallTimeout(c)
      PROVE  UNCHANGED P!calls
  BY <1>3 DEF P!Locked, P!Connected, P!Redial, P!TakeChannel, P!DialOk, P!CallTimeout
<1>4. ASSUME P!BrokerDown \/ P!BrokerUp \/ P!BrokerBlocks \/ P!Drop \/ UNCHANGED P!vars
      PROVE  UNCHANGED P!calls
  BY <1>4 DEF P!BrokerDown, P!BrokerUp, P!BrokerBlocks, P!Drop, P!vars
<1>5. ASSUME P!OpenTimeout \/ P!IntervalEnds PROVE P!B!Next
  BY <1>5 DEF P!OpenTimeout, P!IntervalEnds, P!B!Next
<1>6. UNCHANGED P!calls => UNCHANGED P!B!vars
  BY DEF P!calls, P!B!vars, P!B!breaker
<1>7. P!B!Next \/ UNCHANGED P!B!vars
  BY <1>1, <1>2, <1>3, <1>4, <1>5, <1>6 DEF P!Next, P!Proceed
<1> QED BY <1>7, SameBreaker, SamePublisher
        DEF P!B!vars, P!B!breaker, B!vars, B!breaker

\* The publisher implements Resilience: its attempts are Publish, whose every
\* error is worth another attempt.
THEOREM PublisherIsResilient == P!Spec => ImplementsResilience
<1>1. P!Init => B!Init
  BY SameBreaker, SamePublisher DEF P!Init
<1>2. [P!Next]_(P!vars) => [B!Next]_(B!vars)
  BY PublisherRefines
<1> QED BY <1>1, <1>2, PTL DEF P!Spec, ImplementsResilience, B!Spec

\* Who leaves Publish, and where it leaves it.
LEMMA ReturnKeeps ==
    ASSUME PublisherInv, NEW c \in Caller, NEW outcome, P!Return(c, outcome)
    PROVE  /\ pc'[c] # "attempt"
           /\ \A d \in Caller \ {c} : pc'[d] = pc[d]
           /\ step' = [step EXCEPT ![c] = "none"]
           /\ channel' = [channel EXCEPT ![c] = "none"]
           /\ expired' = [expired EXCEPT ![c] = FALSE]
BY DEF PublisherInv, PublisherTypeOK, B!TypeOK, P!Return, P!Goto, P!B!Finish, P!B!Goto, P!B!Return

\* One handler moves in Publish, and takes or releases the mutex as it does.
LEMMA MovesAlone ==
    ASSUME PublisherInv, NEW c \in Caller,
           NEW s \in {"none", "ensure", "dial", "take", "send"},
           step' = [step EXCEPT ![c] = s],
           s # "none" <=> pc'[c] = "attempt",
           \A d \in Caller \ {c} : pc'[d] = pc[d],
           \/ mu' = mu /\ step[c] # "dial" /\ s # "dial"
           \/ mu = None /\ mu' = c /\ s = "dial"
           \/ step[c] = "dial" /\ mu' = None /\ s # "dial",
           mu' # None => conn' = "closed"
    PROVE  /\ step' \in [Caller -> {"none", "ensure", "dial", "take", "send"}]
           /\ mu' \in Caller \cup {None}
           /\ Publishing' /\ DialsAlone'
<1>1. /\ step \in [Caller -> {"none", "ensure", "dial", "take", "send"}]
      /\ mu \in Caller \cup {None}
      /\ Publishing /\ DialsAlone
  BY DEF PublisherInv, PublisherTypeOK
<1>2. \A d \in Caller : step'[d] = IF d = c THEN s ELSE step[d]
  BY <1>1
<1>3. Publishing'
  BY <1>1, <1>2 DEF Publishing
<1>4. \A d \in Caller : step'[d] = "dial" <=> mu' = d
  BY <1>1, <1>2, NoneAssumption DEF DialsAlone
<1> QED BY <1>1, <1>3, <1>4 DEF DialsAlone

\* The invariant of the publisher is kept by every step, with dials that run
\* while other handlers wait for the mutex and connections die.
LEMMA PublisherInvStep ==
    ASSUME PublisherInv, [P!Next]_(P!vars)
    PROVE  PublisherInv'
<1>1. B!BreakerInv'
  BY PublisherRefines, BreakerKept DEF PublisherInv
<1>2. B!TypeOK'
  BY <1>1 DEF B!BreakerInv
<1> DEFINE Steps == /\ step \in [Caller -> {"none", "ensure", "dial", "take", "send"}]
                    /\ mu \in Caller \cup {None}
                    /\ Publishing /\ DialsAlone
           Conn  == /\ conn \in {"open", "channelClosed", "closed"}
                    /\ sockets \in 0..1
                    /\ OneConnection
           Rest  == /\ broker \in {"up", "down", "blocked"}
                    /\ channel \in [Caller -> {"none", "open", "closed"}]
                    /\ expired \in [Caller -> BOOLEAN]
<1>3. Steps /\ Conn /\ Rest
  BY DEF PublisherInv, PublisherTypeOK
<1>4. ASSUME NEW c \in Caller,
             \/ P!Post(c) \/ P!Reject(c)
             \/ P!BackoffEnds(c) \/ P!BackoffCancelled(c) \/ P!Leave(c)
      PROVE  Steps' /\ Conn' /\ Rest'
  <2>1. UNCHANGED <<broker, conn, mu, step, channel, expired, sockets>>
    BY <1>4 DEF P!Post, P!Reject, P!BackoffEnds, P!BackoffCancelled, P!Leave
  <2>2. \A d \in Caller : pc'[d] = "attempt" <=> pc[d] = "attempt"
    BY <1>4 DEF P!Post, P!Reject, P!BackoffEnds, P!BackoffCancelled, P!Leave,
                P!B!Call, P!B!Reject, P!B!BackoffEnds, P!B!BackoffCancelled, P!B!Leave,
                P!B!Goto, P!B!Return, PublisherInv, PublisherTypeOK, B!TypeOK
  <2>3. Steps'
    BY <1>3, <2>1, <2>2 DEF Publishing, DialsAlone
  <2> QED BY <1>3, <2>1, <2>3 DEF OneConnection
<1>5. ASSUME NEW c \in Caller, P!Admit(c) PROVE Steps' /\ Conn' /\ Rest'
  <2>1. /\ UNCHANGED <<broker, conn, mu, channel, expired, sockets>>
        /\ step' = [step EXCEPT ![c] = "ensure"]
        /\ pc[c] = "call" /\ pc'[c] = "attempt"
        /\ \A d \in Caller \ {c} : pc'[d] = pc[d]
    BY <1>5 DEF P!Admit, P!Goto, P!B!Admit, P!B!Goto, PublisherInv, PublisherTypeOK, B!TypeOK
  <2>2. step[c] = "none"
    BY <1>3, <2>1 DEF Publishing
  <2>3. Steps'
    BY <1>3, <2>1, <2>2, MovesAlone DEF DialsAlone
  <2> QED BY <1>3, <2>1, <2>3 DEF OneConnection
<1>6. ASSUME NEW c \in Caller, P!CallTimeout(c) PROVE Steps' /\ Conn' /\ Rest'
  BY <1>3, <1>6 DEF P!CallTimeout, P!calls, Publishing, DialsAlone, OneConnection
<1>7. ASSUME NEW c \in Caller, P!Connected(c) \/ P!TakeChannel(c)
      PROVE  Steps' /\ Conn' /\ Rest'
  <2>1. PICK s \in {"take", "send"} :
          /\ step' = [step EXCEPT ![c] = s]
          /\ step[c] \in {"ensure", "take"}
          /\ UNCHANGED <<pc, broker, conn, mu, expired, sockets>>
          /\ channel' \in [Caller -> {"none", "open", "closed"}]
    BY <1>3, <1>7 DEF P!Connected, P!TakeChannel, P!Goto, P!calls
  <2>2. pc'[c] = "attempt"
    BY <1>3, <2>1 DEF Publishing
  <2>3. Steps'
    BY <1>3, <2>1, <2>2, MovesAlone DEF DialsAlone
  <2> QED BY <1>3, <2>1, <2>3 DEF OneConnection
<1>8. ASSUME NEW c \in Caller, P!Redial(c) PROVE Steps' /\ Conn' /\ Rest'
  <2>1. /\ step' = [step EXCEPT ![c] = "dial"]
        /\ step[c] = "ensure" /\ mu = None /\ mu' = c
        /\ conn # "open" /\ conn' = "closed"
        /\ sockets' = IF conn = "channelClosed" THEN sockets - 1 ELSE sockets
        /\ UNCHANGED <<pc, broker, channel, expired>>
    BY <1>8 DEF P!Redial, P!Goto, P!calls
  <2>2. pc'[c] = "attempt"
    BY <1>3, <2>1 DEF Publishing
  <2>3. Steps'
    BY <1>3, <2>1, <2>2, MovesAlone
  <2>4. Conn'
    BY <1>3, <2>1 DEF OneConnection
  <2> QED BY <1>3, <2>1, <2>3, <2>4
<1>9. ASSUME NEW c \in Caller, P!DialOk(c) PROVE Steps' /\ Conn' /\ Rest'
  <2>1. /\ step' = [step EXCEPT ![c] = "take"]
        /\ step[c] = "dial" /\ mu' = None
        /\ conn' = "open" /\ sockets' = sockets + 1
        /\ UNCHANGED <<pc, broker, channel, expired>>
    BY <1>9 DEF P!DialOk, P!Goto, P!calls
  <2>2. pc'[c] = "attempt" /\ conn = "closed"
    BY <1>3, <2>1, NoneAssumption DEF Publishing, DialsAlone
  <2>3. Steps'
    BY <1>3, <2>1, <2>2, MovesAlone
  <2>4. Conn'
    BY <1>3, <2>1, <2>2 DEF OneConnection
  <2> QED BY <1>3, <2>1, <2>3, <2>4
<1>10. ASSUME NEW c \in Caller, P!DialFails(c) \/ P!SendOk(c) \/ P!SendFails(c)
       PROVE  Steps' /\ Conn' /\ Rest'
  <2>1. PICK outcome \in {"ok", "transient"} : P!Return(c, outcome)
    BY <1>10 DEF P!DialFails, P!SendOk, P!SendFails
  <2>2. /\ UNCHANGED <<broker, conn, sockets>>
        /\ \/ step[c] = "dial" /\ mu' = None
           \/ step[c] = "send" /\ mu' = mu
    BY <1>10 DEF P!DialFails, P!SendOk, P!SendFails
  <2>3. /\ pc'[c] # "attempt"
        /\ \A d \in Caller \ {c} : pc'[d] = pc[d]
        /\ step' = [step EXCEPT ![c] = "none"]
        /\ channel' = [channel EXCEPT ![c] = "none"]
        /\ expired' = [expired EXCEPT ![c] = FALSE]
    BY <2>1, ReturnKeeps
  <2>4. mu' # None => conn' = "closed"
    BY <1>3, <2>2 DEF DialsAlone
  <2>5. Steps'
    BY <1>3, <2>2, <2>3, <2>4, MovesAlone
  <2>6. Conn'
    BY <1>3, <2>2 DEF OneConnection
  <2>7. Rest'
    BY <1>3, <2>2, <2>3
  <2> QED BY <2>5, <2>6, <2>7
<1>11. ASSUME P!BrokerDown \/ P!Drop PROVE Steps' /\ Conn' /\ Rest'
  <2>1. /\ UNCHANGED <<pc, mu, step, expired>>
        /\ P!ChannelDies
        /\ broker' \in {broker, "down"}
        /\ \/ conn' = "closed" /\ sockets' = 0
           \/ conn = "open" /\ conn' = "channelClosed" /\ sockets' = sockets
           \/ conn = "open" /\ conn' = "closed" /\ sockets' = sockets - 1
    BY <1>11 DEF P!BrokerDown, P!Drop, P!calls
  <2>2. Conn'
    BY <1>3, <2>1 DEF OneConnection
  <2>3. Steps'
    BY <1>3, <2>1 DEF Publishing, DialsAlone
  <2>4. channel' \in [Caller -> {"none", "open", "closed"}]
    BY <1>3, <2>1 DEF P!ChannelDies
  <2> QED BY <1>3, <2>1, <2>2, <2>3, <2>4
<1>12. ASSUME \/ P!OpenTimeout \/ P!IntervalEnds
              \/ P!BrokerUp \/ P!BrokerBlocks \/ UNCHANGED P!vars
       PROVE  Steps' /\ Conn' /\ Rest'
  <2>1. /\ UNCHANGED <<pc, conn, mu, step, channel, expired, sockets>>
        /\ broker' \in {broker, "up", "blocked"}
    BY <1>12 DEF P!OpenTimeout, P!IntervalEnds, P!B!OpenTimeout, P!B!IntervalEnds,
                 P!BrokerUp, P!BrokerBlocks, P!vars, P!calls
  <2>2. Steps'
    BY <1>3, <2>1 DEF Publishing, DialsAlone
  <2> QED BY <1>3, <2>1, <2>2 DEF OneConnection
<1>13. Steps' /\ Conn' /\ Rest'
  BY <1>4, <1>5, <1>6, <1>7, <1>8, <1>9, <1>10, <1>11, <1>12
     DEF P!Next, P!Proceed, P!Locked
<1> QED BY <1>1, <1>2, <1>13 DEF PublisherInv, PublisherTypeOK

\* The inductive invariant of the publisher, for any number of handlers.
THEOREM PublisherInvariant == P!Spec => []PublisherInv
<1>1. P!Init => PublisherInv
  <2> SUFFICES ASSUME P!Init PROVE PublisherInv
    OBVIOUS
  <2>1. R!Init => R!BreakerInv
    BY BoundAssumption DEF R!Init, R!BreakerInv, R!TypeOK, R!AttemptsLeft, R!TrialFollowed,
                           R!State, R!MaxRequests
  <2>2. B!BreakerInv
    BY <2>1, SameBreaker, SamePublisher DEF P!Init
  <2>3. PublisherTypeOK
    BY <2>2 DEF P!Init, PublisherTypeOK, B!BreakerInv
  <2>4. Publishing
    BY DEF P!Init, P!B!Init, Publishing
  <2>5. DialsAlone /\ OneConnection
    BY NoneAssumption DEF P!Init, DialsAlone, OneConnection
  <2> QED BY <2>2, <2>3, <2>4, <2>5 DEF PublisherInv
<1>2. PublisherInv /\ [P!Next]_(P!vars) => PublisherInv'
  BY PublisherInvStep
<1> QED BY <1>1, <1>2, PTL DEF P!Spec

\* The type invariant of the publisher.
THEOREM PublisherTypeCorrect == P!Spec => []PublisherTypeOK
<1>1. PublisherInv => PublisherTypeOK
  BY DEF PublisherInv
<1> QED BY <1>1, PublisherInvariant, PTL

\* The gateway never has more than one connection to RabbitMQ open, and the one
\* it has is the one publishers are given.
THEOREM OneConnectionHeld == P!Spec => []OneConnection
<1>1. PublisherInv => OneConnection
  BY DEF PublisherInv
<1> QED BY <1>1, PublisherInvariant, PTL

\* Only the end of the trial moves the publisher's breaker out of half-open: late
\* results of the generation before do not, whatever an attempt consists of.
THEOREM PublisherTrialsDecide == P!Spec => B!TrialDecides
<1> DEFINE Decided == state = "halfOpen" /\ state' # "halfOpen"
                        => \E c \in current : pc[c] = "attempt" /\ pc'[c] # "attempt"
<1>1. P!Init => R!Init
  BY SamePublisher DEF P!Init
<1>2. [P!Next]_(P!vars) => [R!Next]_(R!vars)
  BY PublisherRefines, SameBreaker DEF B!vars, R!vars, B!breaker, R!breaker
<1>3. R!Spec => R!TrialDecides
  BY R!TrialsDecide, BoundAssumption
<1>4. [Decided]_(R!vars) => [Decided]_(B!vars)
  BY DEF B!vars, R!vars, B!breaker, R!breaker
<1> QED BY <1>1, <1>2, <1>3, <1>4, PTL DEF P!Spec, R!Spec, R!TrialDecides, B!TrialDecides
=============================================================================
