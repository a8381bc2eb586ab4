----------------------------- MODULE CreateJobs -----------------------------
(***************************************************************************)
(* The asynchronous creation of a movie, from POST /movies to the answer of *)
(* GET /movies/status: the gateway publishes a message, RabbitMQ hands it   *)
(* (auto-acknowledged) to one of the replicas of movies-service, a worker   *)
(* of that replica numbers, writes and reports the movie, and the client    *)
(* polls the job record.                                                    *)
(*                                                                         *)
(* The steps of a handler that touch MongoDB or RabbitMQ are separate       *)
(* actions, so that other workers, replicas, clients and faults come in     *)
(* between.  NextID is the id registry that MovieIds implements: ids in      *)
(* order of issue, none issued twice.  Message order is not kept: workers   *)
(* overtake one another anyway.                                             *)
(***************************************************************************)
EXTENDS Naturals, FiniteSets

CONSTANTS Req,          \* POST /movies requests; also their correlation ids
          Invalid,      \* those whose title or year the domain refuses
          Proc,         \* replicas of movies-service
          Worker,       \* consumer goroutines
          Host,         \* Host[w]: the replica worker w runs in
          MaxAttempts,  \* RetryPolicy.MaxAttempts of the publisher
          MaxId,        \* bound on the ids issued
          None,         \* no request
          Faults        \* what goes wrong in this instance

FaultKind == {"publish",     \* a publish fails, or only seems to have succeeded
              "mongo",       \* a write to MongoDB fails, or only seems to fail
              "crash",       \* a replica dies
              "disconnect",  \* a replica loses its connection to RabbitMQ
              "broker"}      \* RabbitMQ restarts

ASSUME InvalidAssumption == Invalid \subseteq Req
ASSUME NoneAssumption == None \notin Req
ASSUME WorkerAssumption == IsFiniteSet(Worker)
ASSUME HostAssumption == Host \in [Worker -> Proc]
ASSUME BoundAssumption == MaxAttempts \in Nat \ {0} /\ MaxId \in Nat \ {0}
ASSUME FaultAssumption == Faults \subseteq FaultKind

VARIABLES
    http,       \* http[r]: where the POST request is
    attempts,   \* attempts[r]: publish attempts that failed
    ready,      \* ready[r]: messages of r in movies_queue
    buffered,   \* buffered[p][r]: delivered to replica p, taken by no worker
    consuming,  \* consuming[p]: p's consumer is subscribed
    stopping,   \* stopping[p]: p has received SIGTERM
    pc,         \* pc[w]: where worker w is in the handler
    msg,        \* msg[w]: the message w handles
    id,         \* id[w]: the id it was given
    lastId,     \* the last id issued
    movies,     \* ids of the documents in the movies collection
    owner,      \* history: owner[i], the request movie i was written for
    jobs,       \* the movie_jobs collection
    poll,       \* poll[r]: id of a status poll between its two reads, or 0
    answer,     \* answer[r]: last answer of GET /movies/status/r
    copies,     \* history: messages of r that reached movies_queue
    loss        \* history: what r's result may have been lost to

broker  == <<ready, buffered, consuming, copies>>
gateway == <<http, attempts>>
handler == <<pc, msg, id, lastId>>
client  == <<poll, answer>>
vars == <<gateway, broker, stopping, handler, movies, owner, jobs, client, loss>>

Id == 1..MaxId
Status == {"pending", "completed", "failed"}
Loss == {"publish", "write", "record", "crash", "exit", "disconnect", "broker"}

\* GetStatus answers "pending" for a job that has no document.
NoJob == [status |-> "pending", movie |-> 0, error |-> FALSE]

TypeOK ==
    /\ http \in [Req -> {"new", "publishing", "accepted", "refused"}]
    /\ attempts \in [Req -> 0..MaxAttempts]
    /\ ready \in [Req -> Nat]
    /\ buffered \in [Proc -> [Req -> Nat]]
    /\ consuming \in [Proc -> BOOLEAN]
    /\ stopping \in [Proc -> BOOLEAN]
    /\ pc \in [Worker -> {"idle", "nextid", "create", "completed", "failed"}]
    /\ msg \in [Worker -> Req \cup {None}]
    /\ \A w \in Worker : pc[w] # "idle" => msg[w] \in Req
    /\ id \in [Worker -> 0..MaxId]
    /\ lastId \in 0..MaxId
    /\ movies \in SUBSET Id
    /\ owner \in [Id -> Req \cup {None}]
    /\ jobs \in [Req -> [status : Status, movie : 0..MaxId, error : BOOLEAN]]
    /\ poll \in [Req -> 0..MaxId]
    /\ answer \in [Req -> {"none", "pending", "failed", "movie", "gone", "error"}]
    /\ copies \in [Req -> Nat]
    /\ loss \in [Req -> SUBSET Loss]

Init ==
    /\ http = [r \in Req |-> "new"]
    /\ attempts = [r \in Req |-> 0]
    /\ ready = [r \in Req |-> 0]
    /\ buffered = [p \in Proc |-> [r \in Req |-> 0]]
    /\ consuming = [p \in Proc |-> TRUE]
    /\ stopping = [p \in Proc |-> FALSE]
    /\ pc = [w \in Worker |-> "idle"]
    /\ msg = [w \in Worker |-> None]
    /\ id = [w \in Worker |-> 0]
    /\ lastId = 0
    /\ movies = {}
    /\ owner = [i \in Id |-> None]
    /\ jobs = [r \in Req |-> NoJob]
    /\ poll = [r \in Req |-> 0]
    /\ answer = [r \in Req |-> "none"]
    /\ copies = [r \in Req |-> 0]
    /\ loss = [r \in Req |-> {}]
-----------------------------------------------------------------------------
(* The gateway: POST /movies, retried publish.                             *)

Enqueue(r) ==
    /\ ready' = [ready EXCEPT ![r] = @ + 1]
    /\ copies' = [copies EXCEPT ![r] = @ + 1]
    /\ UNCHANGED <<buffered, consuming>>

Blame(R, why) == loss' = [r \in Req |-> IF r \in R THEN loss[r] \cup {why} ELSE loss[r]]

PostMovie(r) ==
    /\ http[r] = "new"
    /\ http' = [http EXCEPT ![r] = "publishing"]
    /\ UNCHANGED <<attempts, broker, stopping, handler, movies, owner, jobs, client, loss>>

PublishOk(r) ==
    /\ http[r] = "publishing"
    /\ Enqueue(r)
    /\ http' = [http EXCEPT ![r] = "accepted"]
    /\ UNCHANGED <<attempts, stopping, handler, movies, owner, jobs, client, loss>>

\* Without publisher confirms a nil error does not mean the broker has it.
PublishVanishes(r) ==
    /\ "publish" \in Faults
    /\ http[r] = "publishing"
    /\ http' = [http EXCEPT ![r] = "accepted"]
    /\ Blame({r}, "publish")
    /\ UNCHANGED <<attempts, broker, stopping, handler, movies, owner, jobs, client>>

\* An attempt fails, whether or not the message got through.  Retry tries again
\* while attempts are left, unless the breaker or the request's end stops it.
PublishFails(r) ==
    /\ "publish" \in Faults
    /\ http[r] = "publishing"
    /\ attempts' = [attempts EXCEPT ![r] = @ + 1]
    /\ Enqueue(r) \/ UNCHANGED broker
    /\ \/ http' = [http EXCEPT ![r] = "refused"]
       \/ attempts'[r] < MaxAttempts /\ UNCHANGED http
    /\ UNCHANGED <<stopping, handler, movies, owner, jobs, client, loss>>
-----------------------------------------------------------------------------
(* RabbitMQ and the consumer's fan-out.                                     *)

\* autoAck, no prefetch limit: a message sent to a replica is off the queue.
Deliver(p, r) ==
    /\ consuming[p]
    /\ ready[r] > 0
    /\ ready' = [ready EXCEPT ![r] = @ - 1]
    /\ buffered' = [buffered EXCEPT ![p][r] = @ + 1]
    /\ UNCHANGED <<gateway, consuming, copies, stopping, handler, movies, owner, jobs, client, loss>>

\* One of the goroutines ranging over the delivery channel gets the message.
Take(w, r) ==
    /\ pc[w] = "idle"
    /\ buffered[Host[w]][r] > 0
    /\ buffered' = [buffered EXCEPT ![Host[w]][r] = @ - 1]
    /\ pc' = [pc EXCEPT ![w] = "nextid"]
    /\ msg' = [msg EXCEPT ![w] = r]
    /\ UNCHANGED <<gateway, ready, consuming, copies, stopping, id, lastId,
                   movies, owner, jobs, client, loss>>

\* The consumer never subscribes again: the channel closes, what was buffered
\* is dropped, and the workers end once they finish the message at hand.
Disconnect(p) ==
    /\ "disconnect" \in Faults
    /\ consuming[p]
    /\ consuming' = [consuming EXCEPT ![p] = FALSE]
    /\ Blame({r \in Req : buffered[p][r] > 0}, "disconnect")
    /\ buffered' = [buffered EXCEPT ![p] = [r \in Req |-> 0]]
    /\ UNCHANGED <<gateway, ready, copies, stopping, handler, movies, owner, jobs, client>>

\* The queue is durable but the messages are not published as persistent.
BrokerRestart ==
    /\ "broker" \in Faults
    /\ Blame({r \in Req : ready[r] > 0 \/ \E p \in Proc : buffered[p][r] > 0}, "broker")
    /\ ready' = [r \in Req |-> 0]
    /\ buffered' = [p \in Proc |-> [r \in Req |-> 0]]
    /\ consuming' = [p \in Proc |-> FALSE]
    /\ UNCHANGED <<gateway, copies, stopping, handler, movies, owner, jobs, client>>
-----------------------------------------------------------------------------
(* The handler of a message (movies-service/cmd/main.go).                   *)

Goto(w, l) == pc' = [pc EXCEPT ![w] = l]

\* The handler returns and the worker waits for the next delivery.
Return(w) ==
    /\ Goto(w, "idle")
    /\ msg' = [msg EXCEPT ![w] = None]
    /\ id' = [id EXCEPT ![w] = 0]

\* Mutant of NextMovieID: the counter is read before it is incremented.
IdBeforeIncrement(w) ==
    /\ pc[w] = "nextid"
    /\ lastId < MaxId
    /\ lastId' = lastId + 1
    /\ id' = [id EXCEPT ![w] = lastId]
    /\ Goto(w, IF msg[w] \in Invalid THEN "failed" ELSE "create")
    /\ UNCHANGED <<gateway, broker, stopping, msg, movies, owner, jobs, client, loss>>

\* NextMovieID, then NewMovieEntity on what it returned.
NextMovieID(w) ==
    /\ pc[w] = "nextid"
    /\ lastId < MaxId
    /\ lastId' = lastId + 1
    /\ id' = [id EXCEPT ![w] = lastId']
    /\ Goto(w, IF msg[w] \in Invalid THEN "failed" ELSE "create")
    /\ UNCHANGED <<gateway, broker, stopping, msg, movies, owner, jobs, client, loss>>

\* Mutant of NextMovieIDFails: the error is logged and not recorded.
NextMovieIDSilent(w) ==
    /\ "mongo" \in Faults
    /\ pc[w] = "nextid"
    /\ Return(w)
    /\ UNCHANGED <<gateway, broker, stopping, lastId, movies, owner, jobs, client, loss>>

NextMovieIDFails(w) ==
    /\ "mongo" \in Faults
    /\ pc[w] = "nextid"
    /\ Goto(w, "failed")
    /\ UNCHANGED <<gateway, broker, stopping, msg, id, lastId, movies, owner, jobs, client, loss>>

\* The upsert of the movie, made from w's message.
Upsert(w) ==
    /\ movies' = movies \cup {id[w]}
    /\ owner' = [owner EXCEPT ![id[w]] = msg[w]]

CreateMovie(w) ==
    /\ pc[w] = "create"
    /\ Upsert(w)
    /\ Goto(w, "completed")
    /\ UNCHANGED <<gateway, broker, stopping, msg, id, lastId, jobs, client, loss>>

\* Mutant of CreateMovieFails: the handler starts over with another id.
CreateMovieStartsOver(w) ==
    /\ "mongo" \in Faults
    /\ pc[w] = "create"
    /\ \/ Upsert(w) /\ Blame({msg[w]}, "write")
       \/ UNCHANGED <<movies, owner, loss>>
    /\ Goto(w, "nextid")
    /\ UNCHANGED <<gateway, broker, stopping, msg, id, lastId, jobs, client>>

CreateMovieFails(w) ==
    /\ "mongo" \in Faults
    /\ pc[w] = "create"
    /\ \/ Upsert(w) /\ Blame({msg[w]}, "write")
       \/ UNCHANGED <<movies, owner, loss>>
    /\ Goto(w, "failed")
    /\ UNCHANGED <<gateway, broker, stopping, msg, id, lastId, jobs, client>>

SaveCompleted(r, i) ==
    jobs' = [jobs EXCEPT ![r] = [@ EXCEPT !.status = "completed", !.movie = i]]

SaveFailed(r) ==
    jobs' = [jobs EXCEPT ![r] = [@ EXCEPT !.status = "failed", !.error = TRUE]]

\* Mutant of RecordJobCompleted: the id is a variable the workers share.
RecordLatestId(w) ==
    /\ pc[w] = "completed"
    /\ SaveCompleted(msg[w], lastId)
    /\ Return(w)
    /\ UNCHANGED <<gateway, broker, stopping, lastId, movies, owner, client, loss>>

RecordJobCompleted(w) ==
    /\ pc[w] = "completed"
    /\ SaveCompleted(msg[w], id[w])
    /\ Return(w)
    /\ UNCHANGED <<gateway, broker, stopping, lastId, movies, owner, client, loss>>

\* Mutant of RecordJobCompletedFails: a movie that could not be reported as
\* completed is reported as failed.
ReportsFailureInstead(w) ==
    /\ "mongo" \in Faults
    /\ pc[w] = "completed"
    /\ Goto(w, "failed")
    /\ UNCHANGED <<gateway, broker, stopping, msg, id, lastId, movies, owner, jobs, client, loss>>

\* The error is only logged.
RecordJobCompletedFails(w) ==
    /\ "mongo" \in Faults
    /\ pc[w] = "completed"
    /\ SaveCompleted(msg[w], id[w]) \/ UNCHANGED jobs
    /\ Blame({msg[w]}, "record")
    /\ Return(w)
    /\ UNCHANGED <<gateway, broker, stopping, lastId, movies, owner, client>>

\* Mutant of RecordJobFailure: the handler does not return after it.
FailureFallsThrough(w) ==
    /\ pc[w] = "failed"
    /\ SaveFailed(msg[w])
    /\ Goto(w, "completed")
    /\ UNCHANGED <<gateway, broker, stopping, msg, id, lastId, movies, owner, client, loss>>

RecordJobFailure(w) ==
    /\ pc[w] = "failed"
    /\ SaveFailed(msg[w])
    /\ Return(w)
    /\ UNCHANGED <<gateway, broker, stopping, lastId, movies, owner, client, loss>>

RecordJobFailureFails(w) ==
    /\ "mongo" \in Faults
    /\ pc[w] = "failed"
    /\ SaveFailed(msg[w]) \/ UNCHANGED jobs
    /\ Blame({msg[w]}, "record")
    /\ Return(w)
    /\ UNCHANGED <<gateway, broker, stopping, lastId, movies, owner, client>>
-----------------------------------------------------------------------------
(* The life of a replica.                                                   *)

\* Requests with a message that replica p has and has not finished with.
InHands(p) ==
    {r \in Req : \/ buffered[p][r] > 0
                 \/ \E w \in Worker : Host[w] = p /\ pc[w] # "idle" /\ msg[w] = r}

\* The process is gone, with what it had in memory; a new one subscribes.
Replace(p, why) ==
    /\ Blame(InHands(p), why)
    /\ buffered' = [buffered EXCEPT ![p] = [r \in Req |-> 0]]
    /\ consuming' = [consuming EXCEPT ![p] = TRUE]
    /\ stopping' = [stopping EXCEPT ![p] = FALSE]
    /\ pc' = [w \in Worker |-> IF Host[w] = p THEN "idle" ELSE pc[w]]
    /\ msg' = [w \in Worker |-> IF Host[w] = p THEN None ELSE msg[w]]
    /\ id' = [w \in Worker |-> IF Host[w] = p THEN 0 ELSE id[w]]
    /\ UNCHANGED <<gateway, ready, copies, lastId, movies, owner, jobs, client>>

Crash(p) ==
    /\ "crash" \in Faults
    /\ Replace(p, "crash")

Sigterm(p) ==
    /\ ~stopping[p]
    /\ stopping' = [stopping EXCEPT ![p] = TRUE]
    /\ UNCHANGED <<gateway, broker, handler, movies, owner, jobs, client, loss>>

\* GracefulStop waits for the RPCs in flight, then main returns: nothing stops
\* the consumer before that, and nothing waits for its workers.
Exit(p) ==
    /\ stopping[p]
    /\ Replace(p, "exit")
-----------------------------------------------------------------------------
(* The client: status polls and deletes.                                    *)

\* First read of GetJobStatus; only a completed job needs the second one.
PollJob(r) ==
    /\ http[r] = "accepted"
    /\ poll[r] = 0
    /\ IF jobs[r].status = "completed"
         THEN poll' = [poll EXCEPT ![r] = jobs[r].movie] /\ UNCHANGED answer
         ELSE answer' = [answer EXCEPT ![r] = jobs[r].status] /\ UNCHANGED poll
    /\ UNCHANGED <<gateway, broker, stopping, handler, movies, owner, jobs, loss>>

\* Second read: the movie, which a delete may have removed meanwhile.
PollMovie(r) ==
    /\ poll[r] # 0
    /\ answer' = [answer EXCEPT ![r] = IF poll[r] \in movies THEN "movie" ELSE "gone"]
    /\ poll' = [poll EXCEPT ![r] = 0]
    /\ UNCHANGED <<gateway, broker, stopping, handler, movies, owner, jobs, loss>>

\* Mutant of PollFails: an unreadable job is answered as pending.
PollFailsAsPending(r) ==
    /\ "mongo" \in Faults
    /\ http[r] = "accepted"
    /\ answer' = [answer EXCEPT ![r] = "pending"]
    /\ poll' = [poll EXCEPT ![r] = 0]
    /\ UNCHANGED <<gateway, broker, stopping, handler, movies, owner, jobs, loss>>

PollFails(r) ==
    /\ "mongo" \in Faults
    /\ http[r] = "accepted"
    /\ answer' = [answer EXCEPT ![r] = "error"]
    /\ poll' = [poll EXCEPT ![r] = 0]
    /\ UNCHANGED <<gateway, broker, stopping, handler, movies, owner, jobs, loss>>

DeleteMovie(i) ==
    /\ i \in movies
    /\ movies' = movies \ {i}
    /\ UNCHANGED <<gateway, broker, stopping, handler, owner, jobs, client, loss>>
-----------------------------------------------------------------------------
Publish(r) == PublishOk(r) \/ PublishVanishes(r) \/ PublishFails(r)

Handle(w) ==
    \/ NextMovieID(w) \/ NextMovieIDFails(w)
    \/ CreateMovie(w) \/ CreateMovieFails(w)
    \/ RecordJobCompleted(w) \/ RecordJobCompletedFails(w)
    \/ RecordJobFailure(w) \/ RecordJobFailureFails(w)

Next ==
    \/ \E r \in Req : PostMovie(r) \/ Publish(r)
    \/ \E r \in Req, p \in Proc : Deliver(p, r)
    \/ \E r \in Req, w \in Worker : Take(w, r)
    \/ \E w \in Worker : Handle(w)
    \/ \E p \in Proc : Disconnect(p) \/ Crash(p) \/ Sigterm(p) \/ Exit(p)
    \/ BrokerRestart
    \/ \E r \in Req : PollJob(r) \/ PollMovie(r) \/ PollFails(r)
    \/ \E i \in Id : DeleteMovie(i)

Spec == Init /\ [][Next]_vars

\* RabbitMQ delivers to a subscribed consumer, goroutines are scheduled, and
\* MongoDB and RabbitMQ answer (perhaps with an error) what they are asked.
FairSpec ==
    /\ Spec
    /\ \A r \in Req : WF_vars(Publish(r))
    /\ \A r \in Req : WF_vars(\E p \in Proc : Deliver(p, r))
    /\ \A w \in Worker : WF_vars(\E r \in Req : Take(w, r))
    /\ \A w \in Worker : WF_vars(Handle(w))
-----------------------------------------------------------------------------
Made(r) == {i \in Id : owner[i] = r}
Handling(r, L) == {w \in Worker : pc[w] \in L /\ msg[w] = r}
Buffered(r) == UNION {{p} \X (1..buffered[p][r]) : p \in Proc}
Waiting(r) == ready[r] + Cardinality(Buffered(r))

\* No message of r is left anywhere: nothing more will happen to its job.
Settled(r) ==
    /\ http[r] # "publishing"
    /\ ready[r] = 0
    /\ \A p \in Proc : r \notin InHands(p)

\* Safety: a job reported as completed names a movie that was written, and
\* written from the message of that very job, even when copies of the message
\* are handled by several workers and replicas at once.
CompletedOwnsMovie ==
    \A r \in Req : jobs[r].status = "completed" =>
        jobs[r].movie \in Id /\ owner[jobs[r].movie] = r

\* Safety: a delivery makes at most one movie.  The movies made for a request
\* and the messages that can still make one never exceed the messages of it
\* that reached the queue.
OneMoviePerCopy ==
    \A r \in Req :
        Cardinality(Made(r)) + Waiting(r) + Cardinality(Handling(r, {"nextid", "create"}))
            <= copies[r]

\* Safety: an accepted request whose messages are all gone has a result, unless
\* one of the named losses befell it: no path of the handler ends in silence.
PendingIsExplained ==
    \A r \in Req :
        http[r] = "accepted" /\ Settled(r) /\ jobs[r].status = "pending" => loss[r] # {}

\* Safety: a job reported as failed left no movie behind, unless its message
\* was queued twice or MongoDB wrote the movie and answered an error.
FailedMadeNothing ==
    \A r \in Req :
        jobs[r].status = "failed" /\ Made(r) # {} => copies[r] > 1 \/ "write" \in loss[r]

\* Action property: once a poll has shown the outcome of a creation, no later
\* poll shows it pending again, whichever replica answers.
OutcomeStays ==
    [][\A r \in Req : answer[r] \in {"movie", "gone", "failed"} => answer'[r] # "pending"]_vars

\* Liveness: as long as some replica is subscribed from some time on, an accepted
\* request gets a result or falls to one of the losses: no message waits forever
\* for a worker.  Without such a replica it does, since a consumer whose channel
\* was closed never subscribes again.
AcceptedSettles ==
    <>[](\E p \in Proc : consuming[p]) =>
        \A r \in Req : http[r] = "accepted" ~> jobs[r].status # "pending" \/ loss[r] # {}

\* Safety: a completed job that still carries an error was handled twice, and a
\* poll that finds no movie for a completed job does so after a delete.
AnswersExplained ==
    \A r \in Req :
        /\ jobs[r].status = "completed" /\ jobs[r].error => copies[r] > 1
        /\ answer[r] = "gone" => Made(r) \ movies # {}

\* The inductive invariant.  A movie is written under an id that is nobody
\* else's and was never written under, so what a finished worker or a job
\* record says of it stays true; and what a client was told of an outcome is
\* backed by a job record, which is never taken back.
AttemptsLeft ==
    \A r \in Req : http[r] \in {"new", "publishing"} => attempts[r] < MaxAttempts
IdsUnwritten ==
    /\ \A w \in Worker : pc[w] \in {"create", "completed"} => id[w] \in 1..lastId
    /\ \A w \in Worker : pc[w] = "create" => owner[id[w]] = None
    /\ \A v, w \in Worker :
           pc[v] = "create" /\ pc[w] = "create" /\ id[v] = id[w] => v = w
    /\ \A i \in Id : owner[i] # None => i <= lastId
WrittenByWorker ==
    \A w \in Worker : pc[w] = "completed" => owner[id[w]] = msg[w]
OutcomeRecorded ==
    \A r \in Req :
        answer[r] \in {"movie", "gone", "failed"} \/ poll[r] # 0 => jobs[r].status # "pending"

\* Every message of a request pays for one thing only: a movie, an error in the
\* job record, a movie in it.  What the deliveries in hand can still bring about
\* is counted as if it were there.  Only a write whose error is a lie makes a
\* movie and, from the same message, an error.
Bit(b) == IF b THEN 1 ELSE 0
InHand(r, L) == Waiting(r) + Cardinality(Handling(r, L))

Covered(r) ==
    /\ IsFiniteSet(Buffered(r))
    /\ Cardinality(Made(r)) + InHand(r, {"nextid", "create"}) <= copies[r]
    /\ \/ "write" \in loss[r]
       \/ Cardinality(Made(r)) + InHand(r, {"nextid", "create", "failed"})
            + Bit(jobs[r].error) <= copies[r]
    /\ InHand(r, {"nextid", "create", "completed", "failed"})
         + Bit(jobs[r].error) + Bit(jobs[r].movie # 0) <= copies[r]

CopiesCover == \A r \in Req : Covered(r)

FailureHasError == \A r \in Req : jobs[r].status = "failed" => jobs[r].error

\* The movie a poll is about to look for was made, and "gone" is said of one.
PollsOwnMovie ==
    \A r \in Req :
        /\ poll[r] # 0 => owner[poll[r]] = r
        /\ answer[r] = "gone" => Made(r) \ movies # {}

\* Only who was accepted knows what to poll for.
PollsAccepted == \A r \in Req : poll[r] # 0 => http[r] = "accepted"

\* An id is a worker's only from its issue to the end of its message, and no
\* document was written but for a request.
IdsAccounted ==
    /\ \A w \in Worker : pc[w] \in {"idle", "nextid"} => id[w] = 0
    /\ \A i \in movies : owner[i] # None

JobInv ==
    /\ TypeOK
    /\ AttemptsLeft
    /\ IdsUnwritten
    /\ WrittenByWorker
    /\ CompletedOwnsMovie
    /\ PendingIsExplained
    /\ OutcomeRecorded
    /\ CopiesCover
    /\ FailureHasError
    /\ PollsOwnMovie
    /\ PollsAccepted
    /\ IdsAccounted

\* Ids issued to workers that may still write them.
Unwritten ==
    {i \in Id : owner[i] = None /\ \E w \in Worker : pc[w] \in {"create", "failed"} /\ id[w] = i}

Registry == INSTANCE IdRegistry WITH issued <- 1..lastId, pending <- Unwritten

\* Whatever requests, replicas, workers and faults do, ids are issued, stored,
\* given up and removed as the registry of ids allows: the registry this module
\* takes for granted in one step of NextMovieID is the one MovieIds implements.
ImplementsRegistry == Registry!Spec

Promise == INSTANCE CreationPromise
               WITH post <- http,
                    sent <- copies,
                    maker <- owner,
                    status <- [r \in Req |-> jobs[r].status],
                    named <- [r \in Req |-> jobs[r].movie],
                    told <- answer

\* Whatever is queued twice, lost, cut off or handled at once, what a client can
\* see of its creation is what CreationPromise allows: a movie is made for one
\* request and stays its own, a message makes no second one, no outcome appears
\* without a message or is taken back, and no answer tells what was not so.
ImplementsPromise == Promise!Spec
=============================================================================
