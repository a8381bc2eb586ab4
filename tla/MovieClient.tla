---------------------------- MODULE MovieClient -----------------------------
(***************************************************************************)
(* The gateway's gRPC client at work: GET and DELETE of a movie, from the   *)
(* handler through Resilience to movies-service, its MongoDB and back to an *)
(* HTTP status.  An attempt that has waited for callTimeout, or whose       *)
(* client left, is given up while movies-service may still carry it out.    *)
(*                                                                         *)
(* There is one movie: ids are independent, and none is used again.         *)
(***************************************************************************)
EXTENDS Dependency

CONSTANTS Kinds,  \* the requests clients make
          Faults  \* what goes wrong in this instance

Method == {"GET", "DELETE"}
Target == {"movie", "missing", "bad"}  \* bad: an id that is not positive
Kind == [method : Method, id : Target]

FaultKind == {"down",   \* movies-service refuses connections, or is silent
              "mongo",  \* a MongoDB operation fails, or only seems to fail
              "leave"}  \* a client leaves before it is answered

ASSUME KindAssumption == Kinds \subseteq Kind
ASSUME FaultAssumption == Faults \subseteq FaultKind

VARIABLES
    kind,     \* kind[c]: the request c handles
    health,   \* movies-service is up, refuses connections or is silent
    exists,   \* the movie is in the collection
    late,     \* a delete of it may still be carried out
    reply,    \* reply[c]: what movies-service answered c's attempt, or "none"
    http,     \* http[c]: the answer of c's request, 0 while there is none
    removed   \* history: DELETEs of the movie that were answered 204

service == <<health, exists, late>>
vars == <<calls, service, kind, reply, expired, http, removed>>

Code == {"OK", "NotFound", "InvalidArgument", "Internal", "Unavailable",
         "DeadlineExceeded", "Canceled"}

TypeOK ==
    /\ B!TypeOK
    /\ kind \in [Caller -> Kind]
    /\ health \in {"up", "refuses", "silent"}
    /\ exists \in BOOLEAN
    /\ late \in BOOLEAN
    /\ reply \in [Caller -> Code \cup {"none"}]
    /\ expired \in [Caller -> BOOLEAN]
    /\ http \in [Caller -> {0, 200, 204, 400, 404, 500}]
    /\ removed \in Nat

Init ==
    /\ B!Init
    /\ kind \in [Caller -> Kinds]
    /\ health = "up"
    /\ exists = TRUE
    /\ late = FALSE
    /\ reply = [c \in Caller |-> "none"]
    /\ expired = [c \in Caller |-> FALSE]
    /\ http = [c \in Caller |-> 0]
    /\ removed = 0
-----------------------------------------------------------------------------
(* How errors are classified on the way.                                    *)

IsSuccessfulGRPC(code) == code \in {"OK", "NotFound", "InvalidArgument"}
IsRetryableGRPC(code) == code \in {"Unavailable", "DeadlineExceeded", "Internal"}

Outcome(code) ==
    CASE code = "OK" -> "ok"
      [] code # "OK" /\ IsSuccessfulGRPC(code) -> "answer"
      [] IsRetryableGRPC(code) -> "transient"
      [] OTHER -> "final"

\* The handlers: grpcErrorToHTTP, and the statuses of a success.
Status(c, code) ==
    CASE code = "OK" -> IF kind[c].method = "GET" THEN 200 ELSE 204
      [] code = "NotFound" -> 404
      [] code = "InvalidArgument" -> 400
      [] OTHER -> 500

Deletes(c) == kind[c] = [method |-> "DELETE", id |-> "movie"]

\* MovieService and the repository, through toGRPCError.  DeleteMovie answers a
\* bad id with an error of its own, which toGRPCError does not know.
Found(c) ==
    CASE kind[c].id = "bad" /\ kind[c].method = "GET" -> "InvalidArgument"
      [] kind[c].id = "bad" /\ kind[c].method = "DELETE" -> "Internal"
      [] kind[c].id = "movie" /\ exists -> "OK"
      [] OTHER -> "NotFound"
-----------------------------------------------------------------------------
Answer(c, status) ==
    /\ http' = [http EXCEPT ![c] = status]
    /\ removed' = IF status = 204 THEN removed + 1 ELSE removed

Request(c) ==
    /\ B!Call(c)
    /\ \E k \in Kinds : kind' = [kind EXCEPT ![c] = k]
    /\ http' = [http EXCEPT ![c] = 0]
    /\ UNCHANGED <<service, reply, expired, removed>>

Admit(c) ==
    /\ B!Admit(c)
    /\ UNCHANGED <<service, kind, reply, expired, http, removed>>

\* Mutant of Reject: an open breaker is retried like a failure.
RetriesRejection(c) ==
    /\ pc[c] = "call" /\ state = "open" /\ attempt[c] < MaxAttempts
    /\ pc' = [pc EXCEPT ![c] = "backoff"]
    /\ UNCHANGED <<state, failures, trials, current, attempt, gone,
                   service, kind, reply, expired, http, removed>>

Reject(c) ==
    /\ B!Reject(c)
    /\ Answer(c, 500)
    /\ UNCHANGED <<service, kind, reply, expired>>

\* Mutant of Serve: a delete that deleted nothing is answered like any other.
DeletesAnything(c) ==
    /\ pc[c] = "attempt" /\ reply[c] = "none" /\ health = "up"
    /\ reply' = [reply EXCEPT ![c] = IF Deletes(c) THEN "OK" ELSE Found(c)]
    /\ exists' = (exists /\ ~Deletes(c))
    /\ UNCHANGED <<calls, health, late, kind, expired, http, removed>>

\* movies-service carries out the attempt; deleting is one MongoDB operation.
Serve(c) ==
    /\ pc[c] = "attempt" /\ reply[c] = "none" /\ health = "up"
    /\ reply' = [reply EXCEPT ![c] = Found(c)]
    /\ exists' = (exists /\ ~Deletes(c))
    /\ UNCHANGED <<calls, health, late, kind, expired, http, removed>>

\* Mutant of MongoFails: an error of the driver is taken for "no document".
ErrorsAreNotFound(c) ==
    /\ "mongo" \in Faults
    /\ pc[c] = "attempt" /\ reply[c] = "none" /\ health = "up"
    /\ kind[c].id # "bad"
    /\ reply' = [reply EXCEPT ![c] = "NotFound"]
    /\ exists' \in {exists, exists /\ ~Deletes(c)}
    /\ UNCHANGED <<calls, health, late, kind, expired, http, removed>>

\* MongoDB answers an error, whether or not it deleted the movie.
MongoFails(c) ==
    /\ "mongo" \in Faults
    /\ pc[c] = "attempt" /\ reply[c] = "none" /\ health = "up"
    /\ kind[c].id # "bad"
    /\ reply' = [reply EXCEPT ![c] = "Internal"]
    /\ exists' \in {exists, exists /\ ~Deletes(c)}
    /\ UNCHANGED <<calls, health, late, kind, expired, http, removed>>

\* Mutant of CallTimeout: an attempt has no deadline of its own.
NoDeadline(c) ==
    /\ pc[c] = "attempt" /\ ~expired[c]
    /\ gone[c]
    /\ expired' = [expired EXCEPT ![c] = TRUE]
    /\ UNCHANGED <<calls, service, kind, reply, http, removed>>

CallTimeout(c) ==
    /\ pc[c] = "attempt" /\ ~expired[c]
    /\ health # "up"
    /\ expired' = [expired EXCEPT ![c] = TRUE]
    /\ UNCHANGED <<calls, service, kind, reply, http, removed>>

Respond(c, code) ==
    /\ B!Finish(c, Outcome(code))
    /\ IF B!TriesAgain(c, Outcome(code))
         THEN UNCHANGED <<http, removed>>
         ELSE Answer(c, Status(c, code))
    /\ reply' = [reply EXCEPT ![c] = "none"]
    /\ expired' = [expired EXCEPT ![c] = FALSE]
    /\ UNCHANGED <<health, exists, kind>>

Replied(c) ==
    /\ reply[c] # "none"
    /\ Respond(c, reply[c])
    /\ UNCHANGED late

\* The attempt ends without its answer; what it asked for may still happen.
Unanswered(c) ==
    /\ \/ health = "refuses" /\ Respond(c, "Unavailable")
       \/ expired[c] /\ Respond(c, "DeadlineExceeded")
       \/ gone[c] /\ Respond(c, "Canceled")
    /\ \/ UNCHANGED late
       \/ Deletes(c) /\ reply[c] = "none" /\ late' = TRUE

LateDelete ==
    /\ late
    /\ late' = FALSE
    /\ exists' = FALSE
    /\ UNCHANGED <<calls, health, kind, reply, expired, http, removed>>

BackoffEnds(c) ==
    /\ B!BackoffEnds(c)
    /\ UNCHANGED <<service, kind, reply, expired, http, removed>>

BackoffCancelled(c) ==
    /\ B!BackoffCancelled(c)
    /\ Answer(c, 500)
    /\ UNCHANGED <<service, kind, reply, expired>>

Leave(c) ==
    /\ "leave" \in Faults
    /\ B!Leave(c)
    /\ UNCHANGED <<service, kind, reply, expired, http, removed>>

OpenTimeout ==
    /\ B!OpenTimeout
    /\ UNCHANGED <<service, kind, reply, expired, http, removed>>

IntervalEnds ==
    /\ B!IntervalEnds
    /\ UNCHANGED <<service, kind, reply, expired, http, removed>>

GoesDown ==
    /\ "down" \in Faults
    /\ health = "up"
    /\ health' \in {"refuses", "silent"}
    /\ UNCHANGED <<calls, exists, late, kind, reply, expired, http, removed>>

ComesUp ==
    /\ health # "up"
    /\ health' = "up"
    /\ UNCHANGED <<calls, exists, late, kind, reply, expired, http, removed>>

\* What a handler does once it has called the client.
Proceed(c) ==
    \/ Admit(c) \/ Reject(c)
    \/ Serve(c) \/ MongoFails(c) \/ CallTimeout(c) \/ Replied(c) \/ Unanswered(c)
    \/ BackoffEnds(c) \/ BackoffCancelled(c)

Next ==
    \/ \E c \in Caller : Request(c) \/ Proceed(c) \/ Leave(c)
    \/ LateDelete \/ OpenTimeout \/ IntervalEnds \/ GoesDown \/ ComesUp

Spec == Init /\ [][Next]_vars

\* Goroutines are scheduled, callTimeout ends an attempt movies-service does
\* not answer, and the breaker's Timeout passes.  Clients need not come.
FairSpec ==
    /\ Spec
    /\ \A c \in Caller : WF_vars(Proceed(c))
    /\ WF_vars(OpenTimeout)
-----------------------------------------------------------------------------
\* Safety: a GET or DELETE of the movie that is answered "not found" tells the
\* truth, whatever attempts of it and of others were lost or came late.
NotFoundIsTrue ==
    \A c \in Caller : http[c] = 404 /\ kind[c].id = "movie" => ~exists

\* Safety: two clients are never both told that they deleted the movie, not
\* even when attempts are retried while earlier ones are still carried out.
DeletedOnce == removed <= 1

\* Liveness: every request is answered, however movies-service behaves.
RequestAnswered == \A c \in Caller : pc[c] # "idle" ~> pc[c] = "idle"

\* Liveness: once movies-service and MongoDB are well and stay well, clients wait
\* for their answers and requests keep coming, the breaker closes again.
AllWell == health = "up" /\ \A c \in Caller : ~gone[c] /\ reply[c] # "Internal"
BreakerRecovers ==
    <>[]AllWell /\ []<>(\E c \in Caller : pc[c] = "call") => []<>(state = "closed")

\* What IsSuccessfulGRPC is there for: only errors that show movies-service to
\* be unhealthy may open the breaker.
HealthyStaysClosed == state = "closed"

\* The inductive invariant.  movies-service answers nobody who does not wait; an
\* answer under way is true of the movie for as long as nobody was told it; and
\* one caller at most has been told, or will be, that its DELETE was the one.
RepliesAwaited == \A c \in Caller : reply[c] # "none" => pc[c] = "attempt"

RepliesTrue ==
    \A c \in Caller :
        /\ reply[c] = "OK" => kind[c].id = "movie"
        /\ reply[c] = "NotFound" /\ kind[c].id = "movie" => ~exists

Deleters == {c \in Caller : reply[c] = "OK" /\ Deletes(c)}

OneDeleter ==
    /\ removed \in {0, 1}
    /\ exists => removed = 0 /\ Deleters = {}
    /\ removed = 1 => Deleters = {}
    /\ \A c, d \in Deleters : c = d

ClientInv ==
    /\ TypeOK
    /\ B!BreakerInv
    /\ RepliesAwaited
    /\ RepliesTrue
    /\ NotFoundIsTrue
    /\ OneDeleter
=============================================================================
